-------------------------------- MODULE Jobs --------------------------------
(***************************************************************************)
(* What the run queue expects of its worker: of every task it has sent it  *)
(* hears at most one exit code, and the changes of a unihash which the     *)
(* task announced before that, never after.                                *)
(***************************************************************************)
EXTENDS Sequences

CONSTANT Tasks

VARIABLES
  sent,      \* the tasks the worker was told to run
  fired,     \* those that have announced something
  heard      \* what the run queue was told, in order

jobs == <<sent, fired, heard>>

Event(t) == [op |-> "event", task |-> t]
Exitcode(t) == [op |-> "exitcode", task |-> t]
Heard(m) == \E i \in DOMAIN heard : heard[i] = m

Send(t) == t \notin sent /\ sent' = sent \cup {t} /\ UNCHANGED <<fired, heard>>
Fire(t) == t \in sent \ fired /\ fired' = fired \cup {t} /\ UNCHANGED <<sent, heard>>

HearEvent(t) ==
    /\ t \in fired /\ ~Heard(Event(t)) /\ ~Heard(Exitcode(t))
    /\ heard' = Append(heard, Event(t)) /\ UNCHANGED <<sent, fired>>
HearExit(t) ==
    /\ t \in sent /\ ~Heard(Exitcode(t)) /\ (t \in fired => Heard(Event(t)))
    /\ heard' = Append(heard, Exitcode(t)) /\ UNCHANGED <<sent, fired>>

Spec == /\ sent = {} /\ fired = {} /\ heard = <<>>
        /\ [][\E t \in Tasks : Send(t) \/ Fire(t) \/ HearEvent(t) \/ HearExit(t)]_jobs
=============================================================================
