------------------------------- MODULE Cooker -------------------------------
(***************************************************************************)
(* The cooker of a BitBake server: the state of BBCooker, the one          *)
(* asynchronous command of Command, the idle functions that carry it out   *)
(* bit by bit, and the events that tell the UI.                            *)
(*                                                                         *)
(* Everything here is done by the main thread of the server; Server says   *)
(* when.  Only sigterm_exception may come between any two steps.  The      *)
(* recipes to parse and the tasks to run are numbers that count down:      *)
(* CookerParser is the subject of Parsing, the build that of RunQueue.      *)
(***************************************************************************)
EXTENDS Naturals, Sequences

CONSTANTS
  Conns,     \* the connections of clients
  None,      \* nothing, nobody
  ToParse,   \* bound: how often parse_next has something to do
  Tasks      \* bound: how often execute_runqueue has something to do

ASSUME ConnsAssumption == None \notin Conns
ASSUME WorkAssumption == ToParse \in Nat /\ Tasks \in Nat
ASSUME WordsAssumption ==
    None \notin {"run", "finish", "abort", "setFeatures", "getVariable", "buildTargets",
                 "stateShutdown", "stateForceShutdown", "terminateServer"}

VARIABLES
  state,     \* BBCooker.state
  command,   \* currentAsyncCommand, as the connection that sent it, or None
  idlefuns,  \* the names in _idlefuns, without the one for inotify
  valid,     \* [base, parse]: baseconfig_valid and parsecache_valid
  parser,    \* [left, shut, error] of the CookerParser, or NoParser
  rq,        \* [mode, left, msg] of the RunQueue being executed, or NoBuild
  uiready,   \* _uiready, as the connection that gets the events, or None
  ui_queue,  \* the outcomes fired while there was no UI
  inbox      \* the outcomes sent to each connection and not read yet

cooker == <<state, command, idlefuns, valid, parser, rq>>
events == <<uiready, ui_queue, inbox>>

NoParser == [left |-> 0, shut |-> TRUE, error |-> FALSE]
NoBuild == [mode |-> None, left |-> 0, msg |-> FALSE]

Halting == {"shutdown", "forceshutdown"}

\* CommandCompleted, CommandFailed or CookerExit; whose command it was is not
\* in the event, and is kept here for the properties.
Outcome(k, failed) == [of |-> k, failed |-> failed]

FreshCooker ==
    /\ state' = "initial" /\ command' = None /\ idlefuns' = {}
    /\ valid' = [base |-> TRUE, parse |-> FALSE]
    /\ parser' = NoParser /\ rq' = NoBuild

CookerInit ==
    /\ state = "initial" /\ command = None /\ idlefuns = {}
    /\ valid = [base |-> TRUE, parse |-> FALSE]
    /\ parser = NoParser /\ rq = NoBuild
    /\ uiready = None /\ ui_queue = <<>>
    /\ inbox = [k \in Conns |-> <<>>]

-----------------------------------------------------------------------------
(* Events *)

\* Mutant: what has been sent stays in the queue.
FireKept(new) ==
    /\ inbox' = IF uiready = None THEN inbox
                ELSE [inbox EXCEPT ![uiready] = @ \o ui_queue \o new]
    /\ ui_queue' = ui_queue \o new
    /\ UNCHANGED uiready
\* fire: first what has been kept for a UI, then the event.  The other events
\* are Fire(<<>>).
Fire(new) ==
    /\ inbox' = IF uiready = None THEN inbox
                ELSE [inbox EXCEPT ![uiready] = @ \o ui_queue \o new]
    /\ ui_queue' = IF uiready = None THEN ui_queue \o new ELSE <<>>
    /\ UNCHANGED uiready

\* Mutant: a command that failed ends without an event.
FinishSilent(failed) ==
    /\ Fire(IF failed THEN <<>> ELSE <<Outcome(command, failed)>>)
    /\ command' = None
    /\ state' = "initial"
\* finishAsyncCommand: whatever state the cooker was in, it is initial again.
FinishAsyncCommand(failed) ==
    /\ Fire(<<Outcome(command, failed)>>)
    /\ command' = None
    /\ state' = "initial"

-----------------------------------------------------------------------------
(* Commands.  A reply is "ok" or "error". *)

\* updateCacheSync with initConfigurationData, which sets the state too.
SyncedState == IF state = "running" \/ valid.base THEN state ELSE "initial"
SyncedValid == IF state = "running" \/ valid.base THEN valid
               ELSE [base |-> TRUE, parse |-> FALSE]

\* parser.shutdown does its work only once.
Shut == [parser EXCEPT !.shut = TRUE]

\* setFeatures with features that the server has already.
SetFeatures(reply) ==
    /\ reply = IF state \in {"parsing", "running"} THEN "error" ELSE "ok"
    /\ UNCHANGED <<cooker, events>>

\* getVariable, and the other commands that need the configuration.
GetVariable(reply) ==
    /\ reply = "ok"
    /\ state' = SyncedState /\ valid' = SyncedValid
    /\ UNCHANGED <<command, idlefuns, parser, rq, events>>

\* Mutant: shutdown does not touch a parser that is at work.
ShutdownLate(halt, reply) ==
    /\ reply = "ok"
    /\ state' = IF state = "parsing" THEN state ELSE halt
    /\ valid' = SyncedValid
    /\ UNCHANGED <<parser, command, idlefuns, rq, events>>
\* stateShutdown and stateForceShutdown; shutdown waits for the parser.
Shutdown(halt, reply) ==
    /\ reply = "ok"
    /\ state' = halt /\ valid' = SyncedValid
    /\ parser' = Shut
    /\ UNCHANGED <<command, idlefuns, rq, events>>

\* runCommand with an asynchronous command.
BuildTargets(k, reply) ==
    \/ /\ command # None /\ reply = "error"
       /\ UNCHANGED <<cooker, events>>
    \/ /\ command = None /\ reply = "ok"
       /\ command' = k /\ idlefuns' = idlefuns \cup {"runCommands"}
       /\ UNCHANGED <<state, valid, parser, rq, events>>

RunCommand(c, k, reply) ==
    \/ c = "setFeatures" /\ SetFeatures(reply)
    \/ c = "getVariable" /\ GetVariable(reply)
    \/ c = "stateShutdown" /\ Shutdown("shutdown", reply)
    \/ c = "stateForceShutdown" /\ Shutdown("forceshutdown", reply)
    \/ c = "buildTargets" /\ BuildTargets(k, reply)

\* clientComplete.  The command that is being carried out goes on.
ClientCompleteClears ==
    /\ state' = "initial"
    /\ valid' = [base |-> FALSE, parse |-> FALSE]
    /\ command' = None
    /\ UNCHANGED <<idlefuns, parser, rq>>
ClientComplete ==
    /\ state' = "initial"
    /\ valid' = [base |-> FALSE, parse |-> FALSE]
    /\ UNCHANGED <<command, idlefuns, parser, rq>>

-----------------------------------------------------------------------------
(* The idle function runCommands: runAsyncCommand and updateCache *)

\* updateCache raises BBHandledException.
CommandHalted ==
    /\ state \in Halting
    /\ parser' = Shut
    /\ FinishAsyncCommand(TRUE)
    /\ idlefuns' = idlefuns \ {"runCommands"}
    /\ UNCHANGED <<valid, rq>>

\* Everything is parsed: buildTargets makes the run queue, or finds nothing
\* that provides the target.
CommandRuns ==
    /\ state = "running"
    /\ \/ /\ rq' = [mode |-> "run", left |-> Tasks, msg |-> FALSE]
          /\ idlefuns' = (idlefuns \ {"runCommands"}) \cup {"buildTargetsIdle"}
          /\ Fire(<<>>)
          /\ UNCHANGED <<state, command>>
       \/ /\ FinishAsyncCommand(TRUE)
          /\ idlefuns' = idlefuns \ {"runCommands"}
          /\ UNCHANGED rq
    /\ UNCHANGED <<valid, parser>>

\* updateCache up to its first assignment to the state.
PrepareParser ==
    /\ state \in {"initial", "parsing"}
    /\ IF state = "parsing" THEN UNCHANGED <<state, valid, parser>>
       ELSE /\ state' = SyncedState
            /\ valid' = [base |-> TRUE, parse |-> TRUE]
            /\ parser' = IF SyncedValid.parse THEN parser
                         ELSE [left |-> ToParse, shut |-> FALSE, error |-> FALSE]
    /\ UNCHANGED <<command, idlefuns, rq, events>>

SetParsing == /\ state' = "parsing"
              /\ UNCHANGED <<command, idlefuns, valid, parser, rq, events>>

\* parse_next has a result.  A parser that has been shut down has none left
\* to wait for, but it waits.
ParseMore ==
    /\ parser.left > 0 /\ ~parser.shut /\ ~parser.error
    /\ parser' = [parser EXCEPT !.left = @ - 1]
    /\ Fire(<<>>)
    /\ UNCHANGED <<state, command, idlefuns, valid, rq>>

\* parse_next meets an error, or has met one before.
ParseFails ==
    /\ parser.error \/ (parser.left > 0 /\ ~parser.shut)
    /\ parser' = [parser EXCEPT !.error = TRUE, !.shut = TRUE]
    /\ FinishAsyncCommand(TRUE)
    /\ idlefuns' = idlefuns \ {"runCommands"}
    /\ UNCHANGED <<valid, rq>>

\* parse_next returns False.
ParseEnds ==
    /\ parser.left = 0 /\ ~parser.error
    /\ parser' = Shut
    /\ state' = "running"
    /\ Fire(<<>>)
    /\ UNCHANGED <<command, idlefuns, valid, rq>>

-----------------------------------------------------------------------------
(* The idle function buildTargetsIdle *)

\* Mutant: what stops a build is looked at when nothing is left to do only.
HaltedLate == IF rq.left = 0 /\ state \in Halting THEN "finish" ELSE rq.mode
\* finish_runqueue: tasks that run are waited for, or killed.
Halted == IF state = "forceshutdown" THEN "abort"
          ELSE IF state = "shutdown" /\ rq.mode = "run" THEN "finish"
          ELSE rq.mode

\* One call; of the calls in which a job ends so many are left.
ExecuteRunqueue ==
    /\ "buildTargetsIdle" \in idlefuns
    /\ \E left \in {rq.left, rq.left - 1} \cap Nat :
          rq' = [mode |-> Halted, left |-> left, msg |-> state \in Halting]
    /\ Fire(<<>>)
    /\ UNCHANGED <<state, command, idlefuns, valid, parser>>

\* In this call execute_runqueue returned False.
BuildEnded == rq.mode = "abort" \/ rq.left = 0

\* BuildCompleted and finishAsyncCommand.
FinishBuild ==
    /\ FinishAsyncCommand(rq.msg)
    /\ rq' = NoBuild
    /\ idlefuns' = idlefuns \ {"buildTargetsIdle"}
    /\ UNCHANGED <<valid, parser>>

-----------------------------------------------------------------------------

\* sigterm_exception, for SIGTERM and SIGHUP.
Sigterm == /\ state' = "forceshutdown"
           /\ UNCHANGED <<command, idlefuns, valid, parser, rq, events>>

\* When the server ends: shutdown(True), and CookerExit for its client.
PostServe ==
    /\ state' = "forceshutdown" /\ parser' = Shut
    /\ Fire(<<Outcome(None, FALSE)>>)
    /\ UNCHANGED <<command, idlefuns, valid, rq>>
=============================================================================
