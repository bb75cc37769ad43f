----------------------------- MODULE WorkerProps -----------------------------
(***************************************************************************)
(* What the run queue and the user rely on of the worker.                  *)
(***************************************************************************)
EXTENDS Worker

Promised == INSTANCE Jobs

\* What the run queue hears of a task is what it was promised: one exit code at
\* most, and every change of a unihash before it.
Implements == Promised!Spec

Forked == {t \in Tasks : child[t] # "none"}

\* A task runs with the task hashes the cooker had when it sent it, although
\* those are written earlier, without a flush, and handled by their kind.
HashesAsSent == \A t \in Forked : ranwith[t] = sentwith[t]

Reported(t) == \E i \in DOMAIN heard : heard[i] = Exitcode(t)

\* A task that was sent is reported, or the build is being ended, or the run
\* queue has noticed that its worker is gone.
NothingLost ==
    \A t \in Tasks : t \in sent ~> \/ Reported(t) \/ finishing \/ noticed
                                   \/ rq # "execute"

\* The worker ends when it has to: a teardown always comes to an end, and when
\* the cooker dies the worker ends too, unless it was leaving already.
WorkerEnds == /\ rq = "teardown" ~> rq # "teardown"
              /\ rq = "killed" ~> loop \in {"dead", "join"}
=============================================================================
