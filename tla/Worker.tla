------------------------------- MODULE Worker -------------------------------
(***************************************************************************)
(* bitbake-worker, a process that forks a child for every task, and the    *)
(* cooker's end of the two pipes to it.  Commands go down one pipe, events *)
(* and exit codes come up the other, written by a thread of the worker's.  *)
(*                                                                         *)
(* A message stands for the bytes between its tags; one that is cut short  *)
(* by the death of its writer is dropped, as the readers do.               *)
(***************************************************************************)
EXTENDS Naturals, FiniteSets, SequencesExt

CONSTANTS
  Tasks,
  MaxHashes, MaxFaults \* bounds: changes of hashes; builds ended at once and deaths

ASSUME WorkerAssumption == {MaxHashes, MaxFaults} \subseteq Nat

VARIABLES
  \* the cooker
  rq,          \* "execute", "teardown", "over", or "killed"
  sent,        \* the tasks it has sent
  hashes,      \* how often the task hashes have changed
  sentwith,    \* the hashes each task was sent with
  unflushed,   \* what is in the buffer of process.stdin
  noticed,     \* "exited unexpectedly" was reported
  heard,       \* events and exit codes read
  \* the pipes
  stdin, closed, stdout,
  \* the worker's main thread
  loop,        \* where it is
  queue,       \* what it has read of stdin
  item,        \* the item handle_item loops over
  killing,     \* the children handle_finishnow has still to kill
  leaving,     \* it will kill itself then
  newhashes, build_pids,
  worker_queue,\* what the thread has still to write
  \* the children
  child,       \* "none", "forked", "session", "exited" or "reaped"
  childpipe,   \* events in the pipe of each child
  fired,       \* the children that have fired an event
  ranwith,     \* the hashes each child has
  finishing,   \* finishnow was sent
  faults       \* what the bound counts

cooker == <<rq, sent, hashes, sentwith, unflushed, noticed, heard>>
pipes == <<stdin, closed, stdout>>
main == <<loop, queue, item, killing, leaving, newhashes, build_pids>>
children == <<child, childpipe, fired, ranwith>>
vars == <<cooker, pipes, main, worker_queue, children, finishing, faults>>

Message(op) == [op |-> op]
Runtask(t) == [op |-> "runtask", task |-> t]
Event(t) == [op |-> "event", task |-> t]
Exitcode(t) == [op |-> "exitcode", task |-> t]

\* The worker has handled its configuration, which _start_worker has flushed.
Init ==
    /\ rq = "execute" /\ sent = {} /\ hashes = 0 /\ sentwith = [t \in Tasks |-> 0]
    /\ unflushed = <<>> /\ noticed = FALSE /\ heard = <<>>
    /\ stdin = <<>> /\ closed = FALSE /\ stdout = <<>>
    /\ loop = "top" /\ queue = <<>> /\ item = "start" /\ killing = {}
    /\ leaving = FALSE /\ newhashes = 0 /\ build_pids = {}
    /\ worker_queue = <<>>
    /\ child = [t \in Tasks |-> "none"] /\ childpipe = [t \in Tasks |-> <<>>]
    /\ fired = {} /\ ranwith = [t \in Tasks |-> 0]
    /\ finishing = FALSE /\ faults = 0

-----------------------------------------------------------------------------
(* The cooker *)

Alive == loop # "dead"

\* stdin.write and flush; what was in the buffer goes first.
Flushed(m) ==
    /\ stdin' = stdin \o unflushed \o <<m>>
    /\ unflushed' = <<>>

\* execute: the task is sent; a dead worker's pipe raises, and the exception
\* leads to the teardown.
Execute(t) ==
    /\ rq = "execute" /\ ~finishing /\ t \notin sent
    /\ IF Alive
       THEN /\ Flushed(Runtask(t))
            /\ sent' = sent \cup {t} /\ sentwith' = [sentwith EXCEPT ![t] = hashes]
            /\ UNCHANGED rq
       ELSE rq' = "teardown" /\ UNCHANGED <<sent, sentwith, unflushed, stdin>>
    /\ UNCHANGED <<hashes, noticed, heard, closed, stdout, main, worker_queue, children,
                   finishing, faults>>

\* process_possible_migrations: nothing is flushed, but what does not fit into
\* the buffer is written.
NewTaskHashes ==
    /\ rq = "execute" /\ ~finishing /\ hashes < MaxHashes /\ Alive
    /\ hashes' = hashes + 1
    /\ LET m == [op |-> "newtaskhashes", hashes |-> hashes'] IN
       \/ unflushed' = Append(unflushed, m) /\ UNCHANGED stdin
       \/ Flushed(m)
    /\ UNCHANGED <<rq, sent, sentwith, noticed, heard, closed, stdout, main, worker_queue,
                   children, finishing, faults>>

\* finish_now: rq.state is complete or failed then, so nothing more is sent;
\* without a worker nothing happens.
SendFinishNow ==
    /\ rq = "execute" /\ ~finishing /\ faults < MaxFaults
    /\ faults' = faults + 1 /\ finishing' = TRUE
    /\ IF Alive THEN Flushed(Message("finishnow")) ELSE UNCHANGED <<stdin, unflushed>>
    /\ UNCHANGED <<rq, sent, hashes, sentwith, noticed, heard, closed, stdout, main,
                   worker_queue, children>>

\* _teardown_worker
Teardown ==
    /\ rq = "execute" /\ rq' = "teardown"
    /\ IF Alive THEN Flushed(Message("quit")) /\ closed' = TRUE
       ELSE UNCHANGED <<stdin, unflushed, closed>>
    /\ UNCHANGED <<sent, hashes, sentwith, noticed, heard, stdout, main, worker_queue,
                   children, finishing, faults>>

\* Mutant: the death of a worker is not looked for.
ReadDeaf ==
    /\ rq \in {"execute", "teardown"} /\ stdout # <<>>
    /\ stdout' = Tail(stdout) /\ heard' = Append(heard, Head(stdout))
    /\ UNCHANGED <<rq, sent, hashes, sentwith, unflushed, noticed, stdin, closed, main,
                   worker_queue, children, finishing, faults>>
\* runQueuePipe.read, one message at a time.  A worker that is gone is noticed,
\* unless it is being torn down.
Read ==
    /\ rq \in {"execute", "teardown"}
    /\ noticed' = (noticed \/ (~Alive /\ rq = "execute"))
    /\ IF stdout = <<>> THEN UNCHANGED <<stdout, heard>>
       ELSE stdout' = Tail(stdout) /\ heard' = Append(heard, Head(stdout))
    /\ UNCHANGED <<rq, sent, hashes, sentwith, unflushed, stdin, closed, main, worker_queue,
                   children, finishing, faults>>

TornDown ==
    /\ rq = "teardown" /\ ~Alive /\ stdout = <<>>
    /\ rq' = "over"
    /\ UNCHANGED <<sent, hashes, sentwith, unflushed, noticed, heard, pipes, main,
                   worker_queue, children, finishing, faults>>

CookerKilled ==
    /\ rq \in {"execute", "teardown"} /\ faults < MaxFaults
    /\ rq' = "killed" /\ closed' = TRUE /\ stdout' = <<>> /\ unflushed' = <<>>
    /\ faults' = faults + 1
    /\ UNCHANGED <<sent, hashes, sentwith, noticed, heard, stdin, main, worker_queue,
                   children, finishing>>

-----------------------------------------------------------------------------
(* The worker's main thread: serve *)

Goto(l) == loop' = l

\* The worker is no more; a child that has asked for it is told by the kernel.
Dies ==
    /\ Goto("dead")
    /\ child' = [t \in Tasks |-> IF child[t] = "session" THEN "exited" ELSE child[t]]

\* Mutant: the end of stdin is nothing new.
SelectOn ==
    /\ loop = "top" /\ \A t \in build_pids : child[t] # "exited"
    /\ queue' = queue \o stdin /\ stdin' = <<>> /\ Goto("items")
    /\ UNCHANGED <<cooker, closed, stdout, item, killing, leaving, newhashes, build_pids,
                   worker_queue, children, finishing, faults>>
\* select, which may time out, and the read of stdin; at its end
\* sigterm_exception.
Select ==
    /\ loop = "top" /\ \A t \in build_pids : child[t] # "exited"
    /\ queue' = queue \o stdin /\ stdin' = <<>>
    /\ IF stdin = <<>> /\ closed
       THEN Goto("kill") /\ killing' = build_pids /\ leaving' = TRUE
       ELSE Goto("items") /\ UNCHANGED <<killing, leaving>>
    /\ UNCHANGED <<cooker, closed, stdout, item, newhashes, build_pids, worker_queue, children,
                   finishing, faults>>

Items == <<"start", "newtaskhashes", "runtask", "finishnow", "quit">>
Rank(op) == CHOOSE i \in DOMAIN Items : Items[i] = op
Left(op) == \E i \in DOMAIN queue : queue[i].op = op

\* handle_item(op) has a turn for what is first in the queue.
Turn(op) ==
    /\ loop = "items" /\ queue # <<>> /\ Head(queue).op = op
    /\ item = op \/ (Rank(item) < Rank(op) /\ ~Left(item))

Handled(op) == item' = op /\ queue' = Tail(queue)

\* Mutant: handle_item looks for its item anywhere in the queue.
NewHashesAnywhere ==
    /\ loop = "items" /\ item = "start"
    /\ \E i \in DOMAIN queue : /\ queue[i].op = "newtaskhashes"
                               /\ newhashes' = queue[i].hashes
                               /\ queue' = RemoveAt(queue, i)
    /\ UNCHANGED <<cooker, pipes, loop, item, killing, leaving, build_pids,
                   worker_queue, children, finishing, faults>>
NewHashes ==
    /\ Turn("newtaskhashes") /\ Handled("newtaskhashes")
    /\ newhashes' = Head(queue).hashes
    /\ UNCHANGED <<cooker, pipes, loop, killing, leaving, build_pids, worker_queue,
                   children, finishing, faults>>

HandleRuntask ==
    /\ Turn("runtask") /\ Handled("runtask")
    /\ LET t == Head(queue).task IN
       /\ build_pids' = build_pids \cup {t}
       /\ child' = [child EXCEPT ![t] = "forked"]
       /\ ranwith' = [ranwith EXCEPT ![t] = newhashes]
    /\ UNCHANGED <<cooker, pipes, loop, killing, leaving, newhashes, worker_queue,
                   childpipe, fired, finishing, faults>>

HandleFinishNow ==
    /\ Turn("finishnow") /\ Handled("finishnow")
    /\ Goto("kill") /\ killing' = build_pids
    /\ UNCHANGED <<cooker, pipes, leaving, newhashes, build_pids, worker_queue,
                   children, finishing, faults>>

HandleQuit ==
    /\ Turn("quit") /\ Handled("quit") /\ Goto("join")
    /\ UNCHANGED <<cooker, pipes, killing, leaving, newhashes, build_pids,
                   worker_queue, children, finishing, faults>>

\* The loop of handle_item goes on while its end tag is anywhere in the queue,
\* whatever the queue starts with: pickle.loads fails, and the worker exits.
Garbage ==
    /\ loop = "items" /\ queue # <<>> /\ Left(item) /\ Head(queue).op # item
    /\ Goto("join")
    /\ UNCHANGED <<cooker, pipes, queue, item, killing, leaving, newhashes, build_pids,
                   worker_queue, children, finishing, faults>>

\* The events in the pipes of S, and the empty pipes.
Forwarded(S) == FlattenSeq([i \in 1..Cardinality(S) |-> childpipe[SetToSeq(S)[i]]])
Emptied(S) == [t \in Tasks |-> IF t \in S THEN <<>> ELSE childpipe[t]]

\* handle_finishnow: a child that is not yet in a session of its own, or was
\* reaped before, cannot be signalled; for each that was, any child is reaped.
KillChild ==
    /\ loop = "kill"
    /\ \E t \in killing :
         /\ killing' = killing \ {t}
         /\ IF child[t] \in {"session", "exited"}
            THEN \E u \in Tasks :
                   /\ u = t \/ child[u] = "exited"
                   /\ child' = [child EXCEPT ![t] = "exited", ![u] = "reaped"]
            ELSE UNCHANGED child
    /\ UNCHANGED <<cooker, pipes, loop, queue, item, leaving, newhashes, build_pids,
                   worker_queue, childpipe, fired, ranwith, finishing, faults>>

FinishedNow ==
    /\ loop = "kill" /\ killing = {}
    /\ worker_queue' = worker_queue \o Forwarded(build_pids)
    /\ childpipe' = Emptied(build_pids)
    /\ IF leaving THEN Dies ELSE Goto("items") /\ UNCHANGED child
    /\ UNCHANGED <<cooker, pipes, queue, item, killing, leaving, newhashes,
                   build_pids, fired, ranwith, finishing, faults>>

\* No item has a turn: the pipes that were readable are read.
ReadPipes ==
    /\ loop = "items" /\ ~Left(item) /\ Goto("top")
    /\ queue # <<>> => Rank(Head(queue).op) <= Rank(item)
    /\ \E S \in SUBSET build_pids : /\ worker_queue' = worker_queue \o Forwarded(S)
                                  /\ childpipe' = Emptied(S)
    /\ item' = "start"
    /\ UNCHANGED <<cooker, pipes, queue, killing, leaving, newhashes, build_pids, child,
                   fired, ranwith, finishing, faults>>

\* Mutant: the pipe is closed without a last read.
WaitpidCloses ==
    /\ loop = "top"
    /\ \E t \in build_pids :
         /\ child[t] = "exited" /\ child' = [child EXCEPT ![t] = "reaped"]
         /\ build_pids' = build_pids \ {t}
         /\ worker_queue' = Append(worker_queue, Exitcode(t))
         /\ childpipe' = Emptied({t})
    /\ UNCHANGED <<cooker, pipes, loop, queue, item, killing, leaving, newhashes,
                   fired, ranwith, finishing, faults>>
\* process_waitpid
Waitpid ==
    /\ loop = "top"
    /\ \E t \in build_pids :
         /\ child[t] = "exited" /\ child' = [child EXCEPT ![t] = "reaped"]
         /\ build_pids' = build_pids \ {t}
         /\ worker_queue' = Append(worker_queue \o childpipe[t], Exitcode(t))
         /\ childpipe' = Emptied({t})
    /\ UNCHANGED <<cooker, pipes, loop, queue, item, killing, leaving, newhashes,
                   fired, ranwith, finishing, faults>>

\* The exception of sys.exit, or another: the thread is joined.
Join ==
    /\ loop = "join" /\ worker_queue = <<>> /\ Dies
    /\ UNCHANGED <<cooker, pipes, queue, item, killing, leaving, newhashes,
                   build_pids, worker_queue, childpipe, fired, ranwith, finishing, faults>>

\* Out of memory, say.
WorkerKilled ==
    /\ Alive /\ faults < MaxFaults /\ faults' = faults + 1 /\ Dies
    /\ UNCHANGED <<cooker, pipes, queue, item, killing, leaving, newhashes,
                   build_pids, worker_queue, childpipe, fired, ranwith, finishing>>

\* worker_flush: without a reader it tries for ever.
Flush ==
    /\ Alive /\ worker_queue # <<>> /\ rq # "killed"
    /\ stdout' = Append(stdout, Head(worker_queue))
    /\ worker_queue' = Tail(worker_queue)
    /\ UNCHANGED <<cooker, stdin, closed, main, children, finishing, faults>>

-----------------------------------------------------------------------------
(* A child *)

\* signal_on_parent_exit and setsid
Session(t) ==
    /\ child[t] = "forked" /\ child' = [child EXCEPT ![t] = "session"]
    /\ UNCHANGED <<cooker, pipes, main, worker_queue, childpipe, fired, ranwith, finishing, faults>>

\* worker_child_fire: the change of the unihash
Fire(t) ==
    /\ child[t] = "session" /\ t \notin fired /\ Alive
    /\ fired' = fired \cup {t} /\ childpipe' = [childpipe EXCEPT ![t] = <<Event(t)>>]
    /\ UNCHANGED <<cooker, pipes, main, worker_queue, child, ranwith, finishing, faults>>

Ends(t) ==
    /\ child[t] = "session" /\ child' = [child EXCEPT ![t] = "exited"]
    /\ UNCHANGED <<cooker, pipes, main, worker_queue, childpipe, fired, ranwith, finishing, faults>>

-----------------------------------------------------------------------------
Cooker == \/ \E t \in Tasks : Execute(t)
          \/ NewTaskHashes \/ SendFinishNow \/ Teardown \/ Read \/ TornDown

Main == \/ Select \/ NewHashes \/ HandleRuntask \/ HandleFinishNow
        \/ HandleQuit \/ Garbage \/ KillChild \/ FinishedNow
        \/ ReadPipes \/ Waitpid \/ Join

Next == \/ Cooker \/ Main \/ Flush \/ CookerKilled \/ WorkerKilled
        \/ \E t \in Tasks : Session(t) \/ Fire(t) \/ Ends(t)

Spec == Init /\ [][Next]_vars

\* Processes are scheduled, tasks end, and the cooker reads as long as it runs.
FairSpec ==
    /\ Spec /\ WF_vars(Main) /\ WF_vars(Flush) /\ WF_vars(Read) /\ WF_vars(TornDown)
    /\ \A t \in Tasks : WF_vars(Session(t)) /\ WF_vars(Ends(t))
=============================================================================
