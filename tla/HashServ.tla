------------------------------ MODULE HashServ ------------------------------
(***************************************************************************)
(* The hash equivalence server.  Its table maps the hash of a task, which  *)
(* is computed from the inputs, to a unihash that tasks with the same      *)
(* outputs share.  The handlers have no await between their first query    *)
(* and the commit, so each is one step.                                    *)
(*                                                                         *)
(* There is one method here: rows of different methods never meet.         *)
(***************************************************************************)
EXTENDS Naturals, Sequences

CONSTANTS
  Hashes,    \* task hashes; a unihash is the task hash of somebody
  Outhashes, \* hashes of outputs
  NoOuthash, \* the outhash "" of an equivalence
  None       \* no answer

ASSUME NoOuthashAssumption == NoOuthash \notin Outhashes
ASSUME NoneAssumption == None \notin Hashes

VARIABLES
  rows,      \* tasks_v2 in the order of the column created
  steady     \* the clock behind created has never gone back

Row == [outhash : Outhashes \cup {NoOuthash}, taskhash : Hashes, unihash : Hashes]

TaskRows(tasks, t) == {i \in DOMAIN tasks : tasks[i].taskhash = t}
OfTask(t) == TaskRows(rows, t)
OfOutput(o) == {i \in DOMAIN rows : rows[i].outhash = o}

\* ORDER BY created ASC LIMIT 1
Oldest(i, S) == i \in S /\ \A j \in S : i <= j

\* query_equivalent: the answer to get.
QueryEquivalent(tasks, t, answer) ==
    \/ TaskRows(tasks, t) = {} /\ answer = None
    \/ \E i \in TaskRows(tasks, t) : /\ Oldest(i, TaskRows(tasks, t))
                                     /\ answer = tasks[i].unihash
Get(t, answer) == QueryEquivalent(rows, t, answer)

\* Mutant: the newest row of a task is in front.
InsertFirst(row) == rows' = <<row>> \o rows /\ UNCHANGED steady
\* INSERT; datetime.now() is local time and may be set back.
Insert(row) ==
    \/ rows' = Append(rows, row) /\ UNCHANGED steady
    \/ /\ steady' = FALSE
       /\ \E i \in DOMAIN rows :
            rows' = SubSeq(rows, 1, i - 1) \o <<row>> \o SubSeq(rows, i, Len(rows))

NothingNew == UNCHANGED <<rows, steady>>
NewRow(o, t, u) == [outhash |-> o, taskhash |-> t, unihash |-> u]

\* Mutant: the unihash of the reporter is kept for a new task hash.
HandleReportOwn(t, o, u, answer) ==
    \/ \E i \in OfOutput(o) \cap OfTask(t) :
          answer = rows[i].unihash /\ NothingNew
    \/ OfOutput(o) \cap OfTask(t) = {} /\ answer = u /\ Insert(NewRow(o, t, u))
\* handle_report: a row of this task and this output answers; else a row with
\* the unihash of the oldest task with this output, or that of the reporter.
HandleReport(t, o, u, answer) ==
    LET same == OfOutput(o)
        exact == same \cap OfTask(t) IN
    \/ \E i \in exact : /\ Oldest(i, exact)
                        /\ answer = rows[i].unihash
                        /\ NothingNew
    \/ /\ exact = {}
       /\ \E i \in same : /\ Oldest(i, same)
                          /\ answer = rows[i].unihash
                          /\ Insert(NewRow(o, t, answer))
    \/ /\ same = {}
       /\ answer = u
       /\ Insert(NewRow(o, t, u))

\* handle_equivreport: INSERT OR IGNORE, then what get answers.
HandleEquiv(t, u, answer) ==
    /\ IF OfOutput(NoOuthash) \cap OfTask(t) = {}
       THEN Insert(NewRow(NoOuthash, t, u))
       ELSE NothingNew
    /\ QueryEquivalent(rows', t, answer)

\* dispatch_message
Dispatch(m, answer) ==
    \/ m.op = "get" /\ Get(m.taskhash, answer) /\ NothingNew
    \/ m.op = "report" /\ HandleReport(m.taskhash, m.outhash, m.unihash, answer)
    \/ m.op = "report-equiv" /\ HandleEquiv(m.taskhash, m.unihash, answer)
=============================================================================
