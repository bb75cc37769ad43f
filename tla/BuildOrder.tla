----------------------------- MODULE BuildOrder -----------------------------
(***************************************************************************)
(* What a build is to its user: the tasks are built, each after those it   *)
(* depends on, or found to need no building, or fetched from the shared    *)
(* state cache beforehand, never more than NumberTasks at a time.  Two     *)
(* queues, the cache, changing hashes and stamps are not seen here;        *)
(* RunQueue implements this module (RunQueueProps!Implements).             *)
(***************************************************************************)
EXTENDS Integers, FiniteSets

CONSTANTS Tasks, depends, NumberTasks

VARIABLES
  building,   \* the tasks being built
  fetching,   \* the tasks being fetched from the cache
  done,       \* the tasks that need no more building
  failed      \* the tasks that failed
orderVars == <<building, fetching, done, failed>>

Idle == Cardinality(building) + Cardinality(fetching) < NumberTasks
MayBegin(t) == t \notin building \cup done \cup failed /\ depends[t] \subseteq done

Init == building = {} /\ fetching = {} /\ done = {} /\ failed = {}

Build(t) ==
    /\ MayBegin(t) /\ Idle
    /\ building' = building \cup {t}
    /\ UNCHANGED <<fetching, done, failed>>

\* t is covered by the cache, is up to date, or has nothing to execute.
Reuse(t) ==
    /\ MayBegin(t)
    /\ done' = done \cup {t}
    /\ UNCHANGED <<building, fetching, failed>>

Built(t) ==
    /\ t \in building
    /\ building' = building \ {t} /\ done' = done \cup {t}
    /\ UNCHANGED <<fetching, failed>>

Fail(t) ==
    /\ t \notin done
    /\ building' = building \ {t} /\ failed' = failed \cup {t}
    /\ UNCHANGED <<fetching, done>>

\* Only a task that is not begun is fetched.
Fetch(t) ==
    /\ t \notin building \cup done /\ Idle
    /\ fetching' = fetching \cup {t}
    /\ UNCHANGED <<building, done, failed>>

Fetched(t) ==
    /\ t \in fetching
    /\ fetching' = fetching \ {t}
    /\ UNCHANGED <<building, done, failed>>

Next == \E t \in Tasks : \/ Build(t) \/ Reuse(t) \/ Built(t) \/ Fail(t)
                         \/ Fetch(t) \/ Fetched(t)

Spec == Init /\ [][Next]_orderVars
=============================================================================
