------------------------------- MODULE PRServ -------------------------------
(***************************************************************************)
(* The PR server: a number for every checksum of a package, that grows     *)
(* when the checksum changes.  The main thread accepts connections, one    *)
(* handler thread serves them and commits after each; a signal has the     *)
(* main thread commit the same SQLite connection in between.               *)
(***************************************************************************)
EXTENDS Naturals, Sequences, FiniteSets

CONSTANTS
  Packages,    \* (version, pkgarch)
  Checksums,
  Askers,      \* who asks for a value
  Earlier      \* tables that earlier builds may have left

PRRow == [package : Packages, checksum : Checksums, value : Nat]

\* The values of a table tell its rows apart, within one package.
Distinct(T) == \A r, s \in T : r.package = s.package /\ r.value = s.value => r = s

ASSUME EarlierAssumption == \A T \in Earlier : T \subseteq PRRow /\ Distinct(T)

VARIABLES
  table,       \* the rows of PRMAIN_nohist as the connection sees them
  disk,        \* the rows that are committed
  dirty, intransaction,
  requestqueue,\* the requests of connections that were accepted
  handler,     \* where the handler thread is
  prmain,      \* where the main thread is; "off" without a server
  quitflag,
  given,       \* the answers given, but for those a crash has lost
  kept         \* those of them that a crash cannot lose

prserv == <<table, disk, dirty, intransaction, requestqueue, handler, prmain, quitflag,
            given, kept>>

\* A table and the answers that were given from it; the server is running.
PRInit ==
    /\ table \in Earlier /\ disk = table /\ given = table /\ kept = table
    /\ dirty = FALSE /\ intransaction = FALSE /\ quitflag = FALSE
    /\ requestqueue = <<>>
    /\ handler = "get" /\ prmain = "select"

-----------------------------------------------------------------------------
(* _getValueNohist *)

RowsOf(p) == {r \in table : r.package = p}
Largest(r) == r \in table /\ \A s \in RowsOf(r.package) : s.value <= r.value

\* A new value: ifnull(max(value) + 1, 0).
NextValue(p, v) ==
    \/ RowsOf(p) = {} /\ v = 0
    \/ \E r \in RowsOf(p) : Largest(r) /\ v = r.value + 1

\* Mutant: a checksum that is known keeps its value, as with a history.
GetValueHist(p, c, v) ==
    \/ \E r \in RowsOf(p) : r.checksum = c /\ v = r.value /\ UNCHANGED <<table, dirty>>
    \/ /\ \A r \in RowsOf(p) : r.checksum # c
       /\ NextValue(p, v)
       /\ table' = table \cup {[package |-> p, checksum |-> c, value |-> v]}
       /\ dirty' = TRUE
\* The largest value is that of this checksum, or it gets a larger one.
GetValue(p, c, v) ==
    \/ \E r \in RowsOf(p) : /\ Largest(r) /\ r.checksum = c /\ v = r.value
                            /\ UNCHANGED <<table, dirty>>
    \/ /\ \A r \in RowsOf(p) : Largest(r) => r.checksum # c
       /\ NextValue(p, v)
       /\ table' = {r \in table : ~(r.package = p /\ r.checksum = c)}
                   \cup {[package |-> p, checksum |-> c, value |-> v]}
       /\ dirty' = TRUE

-----------------------------------------------------------------------------
(* The two threads *)

Start ==
    /\ prmain = "off" /\ prmain' = "select" /\ handler' = "get"
    /\ quitflag' = FALSE
    /\ UNCHANGED <<table, disk, dirty, intransaction, requestqueue, given, kept>>

\* process_request
Accept(q) ==
    /\ prmain = "select" /\ ~quitflag
    /\ requestqueue' = Append(requestqueue, q)
    /\ UNCHANGED <<table, disk, dirty, intransaction, handler, prmain, quitflag,
                   given, kept>>

HandlerGets == handler = "get" /\ ~quitflag /\ requestqueue # <<>>

\* getPR: the answer v is sent before what it was made from is committed.
GetPR(q, v) ==
    /\ HandlerGets /\ q = Head(requestqueue)
    /\ requestqueue' = Tail(requestqueue)
    /\ GetValue(q.package, q.checksum, v)
    /\ intransaction' = (intransaction \/ table' # table)
    /\ given' = given \cup {[package |-> q.package, checksum |-> q.checksum, value |-> v]}
    /\ kept' = IF dirty' THEN kept ELSE given'
    /\ handler' = "served"
    /\ UNCHANGED <<disk, prmain, quitflag>>

\* quit, asked for by stop_daemon or auto_shutdown
Quit(q) ==
    /\ HandlerGets /\ q = Head(requestqueue)
    /\ requestqueue' = Tail(requestqueue)
    /\ quitflag' = TRUE /\ handler' = "served"
    /\ UNCHANGED <<table, disk, dirty, intransaction, prmain, given, kept>>

\* Mutant: nothing is written.
CommitNothing ==
    /\ intransaction' = FALSE
    /\ kept' = given
    /\ UNCHANGED <<table, disk, dirty, requestqueue, quitflag, given>>
\* conn.commit().  With synchronous = off and the journal in memory it survives
\* the process, not the machine.
Commit ==
    /\ disk' = table /\ intransaction' = FALSE
    /\ kept' = given
    /\ UNCHANGED <<table, dirty, requestqueue, quitflag, given>>

\* sync_if_dirty: commit, and BEGIN EXCLUSIVE TRANSACTION, which fails within
\* a transaction; nobody catches that, and the thread is gone.
SyncIfDirty ==
    \/ /\ handler = "served" /\ ~dirty /\ handler' = "get"
       /\ UNCHANGED <<table, disk, dirty, intransaction, requestqueue, prmain, quitflag,
                      given, kept>>
    \/ /\ handler = "served" /\ dirty
       /\ Commit /\ handler' = "begin" /\ UNCHANGED prmain
    \/ /\ handler = "begin"
       /\ handler' = IF intransaction THEN "dead" ELSE "get"
       /\ dirty' = (dirty /\ intransaction)
       /\ intransaction' = TRUE
       /\ UNCHANGED <<table, disk, requestqueue, prmain, quitflag, given, kept>>

HandlerEnds ==
    /\ handler = "get" /\ quitflag /\ handler' = "ended"
    /\ UNCHANGED <<table, disk, dirty, intransaction, requestqueue, prmain, quitflag,
                   given, kept>>

\* sigterm_handler: sync(), then quit(), which cannot be done twice, and a
\* request that is none.
Sigterm ==
    /\ prmain = "select" /\ ~quitflag
    /\ Commit /\ prmain' = "begin" /\ UNCHANGED handler

SigtermQuits ==
    /\ prmain = "begin"
    /\ prmain' = IF intransaction \/ quitflag THEN "dead" ELSE "select"
    /\ quitflag' = (quitflag \/ ~intransaction)
    /\ intransaction' = TRUE
    /\ UNCHANGED <<table, disk, dirty, requestqueue, handler, given, kept>>

\* What a server leaves: what was not committed is rolled back, connections
\* are closed.
Ended ==
    /\ prmain' = "off" /\ handler' = "off"
    /\ table' = disk /\ dirty' = FALSE /\ intransaction' = FALSE
    /\ requestqueue' = <<>>
    /\ UNCHANGED <<disk, quitflag, kept>>

\* work_forever joins the handler thread and disconnects; the interpreter too
\* waits for that thread before it exits.  No answer is excused.
Join == /\ prmain = "dead" \/ (prmain = "select" /\ quitflag)
        /\ handler \in {"ended", "dead"}
        /\ Ended /\ UNCHANGED given

\* SIGKILL takes back the answers that were not committed.
Killed == prmain # "off" /\ Ended /\ given' = kept
=============================================================================
