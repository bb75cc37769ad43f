---------------------------- MODULE RunQueueProofs ----------------------------
(***************************************************************************)
(* What is proved of RunQueue for every dependency graph, every set of     *)
(* setscene tasks, every number of threads and every way the cache, the    *)
(* hash server and the workers answer: that it implements BuildOrder, and  *)
(* that what is started, counted, reported and stamped is right.           *)
(***************************************************************************)
EXTENDS RunQueueInv, FunctionTheorems

-----------------------------------------------------------------------------
(* The two queues implement BuildOrder. *)

\* What the abstract build sees.
seenVars == <<runq_running, runq_complete, failed_tids, sq_live>>

LEMMA SeenSame == UNCHANGED seenVars => UNCHANGED Order!orderVars
BY DEF seenVars, Order!orderVars, Executing

LEMMA OrderCounts == \A S : Order!Cardinality(S) = Cardinality(S)
BY Zenon DEF Order!Cardinality, Cardinality

\* There is room for another job when the scheduler says so.
LEMMA RoomForJob ==
    ASSUME QueueInv, "enforce" \notin request, CanStartTask, pc \in {"setscene", "sched"}
    PROVE  Order!Idle
BY OrderCounts DEF QueueInv, SchedInv, SceneInv, FailInv, Spoilt, CanStartTask, Active, Order!Idle

LEMMA OrderRead ==
    ASSUME QueueInv, Read
    PROVE  Order!Next \/ UNCHANGED seenVars
<1>1. ASSUME NEW t \in Tasks, ReadSqComplete(t) \/ ReadSqFail(t)
      PROVE  Order!Fetched(t)
  <2>1. /\ t \in sq_live /\ sq_live' = sq_live \ {t}
        /\ UNCHANGED <<runq_running, runq_complete, failed_tids>>
    BY <1>1 DEF ReadSqComplete, ReadSqFail, SqTaskComplete, SqTaskFail, runqVars
  <2> QED BY <2>1 DEF Order!Fetched, Executing
<1>2. ASSUME NEW t \in Tasks, ReadComplete(t) \/ ReadFail(t)
      PROVE  Order!Built(t) \/ Order!Fail(t)
  <2>1. t \in Executing
    BY <1>2, ExitRead DEF ReadComplete, ReadFail, QueueInv, SchedInv
  <2>2. CASE ReadComplete(t)
    <3>1. /\ runq_complete' = runq_complete \cup {t}
          /\ UNCHANGED <<runq_running, failed_tids, sq_live>>
      BY <2>2 DEF ReadComplete, TaskComplete, CompleteOutright
    <3> QED BY <2>1, <3>1 DEF Order!Built, Executing
  <2>3. CASE ReadFail(t)
    <3>1. /\ failed_tids' = failed_tids \cup {t}
          /\ UNCHANGED <<runq_running, runq_complete, sq_live>>
      BY <2>3 DEF ReadFail, TaskFail, sceneVars
    <3> QED BY <2>1, <3>1 DEF Order!Fail, Executing
  <2> QED BY <1>2, <2>2, <2>3
<1>3. ASSUME EndRead \/ EndWait \/ \E t \in Tasks, h \in Hash : ReadUnihash(t, h)
      PROVE  UNCHANGED seenVars
  BY <1>3 DEF EndRead, EndWait, ReadUnihash, runqVars, sceneVars, seenVars
<1> QED BY <1>1, <1>2, <1>3 DEF Read, Order!Next

LEMMA OrderScene ==
    ASSUME QueueInv, "enforce" \notin request, SceneStep
    PROVE  Order!Next \/ UNCHANGED seenVars
<1>1. ASSUME NEW t \in Setscene, SqStart(t) PROVE Order!Fetch(t)
  <2>1. /\ sq_live' = sq_live \cup {t} /\ CanStartTask /\ pc = "setscene"
        /\ UNCHANGED <<runq_running, runq_complete, failed_tids>>
    BY <1>1 DEF SqStart, SqNext, SqReaches, runqVars
  <2>2. t \notin runq_running \cup runq_complete
    BY <1>1, QueueSqStart DEF QueueInv, SchedInv, HoldInv
  <2>3. Executing' = Executing /\ t \notin Executing
    BY <2>1, <2>2 DEF Executing
  <2> QED BY <2>1, <2>2, <2>3, RoomForJob DEF Order!Fetch
<1>2. ASSUME NEW t \in Setscene,
             SqNotNeeded(t) \/ SqInvalid(t) \/ SqOutright(t) \/ SqStampPresent(t)
      PROVE  UNCHANGED seenVars
  BY <1>2 DEF SqNotNeeded, SqInvalid, SqOutright, SqStampPresent, sqStepUnchanged, runqVars,
              seenVars
<1>3. ASSUME SqNone \/ Holdoff PROVE UNCHANGED seenVars
  BY <1>3 DEF SqNone, Holdoff, runqVars, sceneVars, seenVars
<1> QED BY <1>1, <1>2, <1>3, SetsceneAssumption DEF SceneStep, Order!Next

LEMMA OrderRun ==
    ASSUME QueueInv, BuildableReady, "enforce" \notin request, RunStep
    PROVE  Order!Next \/ UNCHANGED seenVars
<1>1. ASSUME NEW t \in Tasks, SkipTask(t) \/ RunNoexec(t) PROVE Order!Reuse(t)
  <2>1. /\ Picked(t) /\ runq_complete' = runq_complete \cup {t}
        /\ UNCHANGED <<failed_tids, sq_live>>
    BY <1>1 DEF SkipTask, RunNoexec, Ready, CompleteOutright
  <2>2. Executing' = Executing
    BY <1>1, QueueOutright
  <2>3. t \notin runq_running \cup runq_complete
    BY <2>1, PickedFacts
  <2>4. Order!MayBegin(t)
    <3>1. t \notin failed_tids
      BY <2>3 DEF QueueInv, SchedInv, FailInv
    <3> QED BY <2>1, <2>3, <3>1, ReadyPicked DEF Order!MayBegin, Executing
  <2> QED BY <2>1, <2>2, <2>4 DEF Order!Reuse
<1>2. ASSUME NEW t \in Tasks, StartTask(t) PROVE Order!Build(t)
  <2>1. /\ Picked(t) /\ CanStartTask /\ pc = "sched"
        /\ UNCHANGED <<runq_complete, failed_tids, sq_live>>
    BY <1>2 DEF StartTask, Ready, Picked, sceneVars
  <2>2. t \notin Executing \cup runq_complete \cup failed_tids /\ Executing' = Executing \cup {t}
    BY <1>2, QueueStart
  <2>3. Order!MayBegin(t)
    BY <2>1, <2>2, ReadyPicked DEF Order!MayBegin
  <2> QED BY <2>1, <2>2, <2>3, RoomForJob DEF Order!Build
<1>3. ASSUME NEW t \in Tasks, Refuse(t) PROVE FALSE
  BY <1>3 DEF Refuse, NotAllowed
<1>4. ASSUME SchedNone \/ TailWait \/ TailForce \/ TailEnd PROVE UNCHANGED seenVars
  BY <1>4 DEF SchedNone, TailWait, TailForce, TailEnd, unlessTail, runqVars, sceneVars, seenVars
<1>5. ASSUME NEW t \in Tasks, SpawnFail(t) PROVE UNCHANGED seenVars
  BY <1>5 DEF SpawnFail, sceneVars, seenVars
<1> QED BY <1>1, <1>2, <1>3, <1>4, <1>5 DEF RunStep, Order!Next

LEMMA OrderRest ==
    ASSUME QueueInv, \/ Migrations \/ Finish \/ WorkerQuit \/ TornDown \/ FinishGone \/ Worker
                     \/ Stop \/ ForceStop \/ Terminated \/ UNCHANGED vars
    PROVE  UNCHANGED seenVars
<1>1. ASSUME NEW t \in Setscene, Migrate(t) PROVE UNCHANGED seenVars
  BY <1>1, NoRerunHolds DEF NoRerun, Migrate, Migratable, MigrateReset, seenVars
<1>2. ASSUME Rehash \/ MigrateEnd \/ \E t \in Setscene : MigrateNot(t) PROVE UNCHANGED seenVars
  BY <1>2 DEF Rehash, MigrateEnd, MigrateNot, runqVars, sceneVars, seenVars
<1>3. ASSUME Worker PROVE UNCHANGED seenVars
  BY <1>3 DEF Worker, JobReport, JobExit, unlessJob, runqVars, sceneVars, seenVars
<1>4. ASSUME Finish \/ WorkerQuit \/ TornDown \/ FinishGone \/ Stop \/ ForceStop
      PROVE  UNCHANGED seenVars
  BY <1>4 DEF Finish, WorkerQuit, TornDown, FinishGone, Stop, ForceStop, unlessFinish,
              runqVars, sceneVars, seenVars
<1>5. ASSUME Terminated \/ UNCHANGED vars PROVE UNCHANGED seenVars
  BY <1>5 DEF Terminated, vars, runqVars, sceneVars, seenVars
<1> QED BY <1>1, <1>2, <1>3, <1>4, <1>5 DEF Migrations

\* What is asked of a build does not change.
LEMMA SameRequest == [Next]_vars => UNCHANGED request
<1> SUFFICES ASSUME [Next]_vars PROVE UNCHANGED request
  OBVIOUS
<1>1. Read => UNCHANGED request
  BY DEF Read, ReadSqComplete, ReadSqFail, ReadComplete, ReadFail, ReadUnihash, Exited, Receive,
         EndRead, EndWait, steadyVars
<1>2. Migrations => UNCHANGED request
  BY DEF Migrations, Rehash, MigrateEnd, MigrateNot, Migrate, steadyVars
<1>3. SceneStep => UNCHANGED request
  BY DEF SceneStep, SqNotNeeded, SqInvalid, SqOutright, SqStampPresent, SqStart, SqNone, Holdoff,
         sqStepUnchanged, steadyVars
<1>4. RunStep => UNCHANGED request
  BY DEF RunStep, Refuse, SkipTask, RunNoexec, StartTask, SchedNone, TailWait, SpawnFail, TailForce, TailEnd,
         schedUnchanged, unlessTail, steadyVars
<1>5. Worker => UNCHANGED request
  BY DEF Worker, JobReport, JobExit, unlessJob, steadyVars
<1>6. Finish \/ WorkerQuit \/ TornDown \/ FinishGone \/ Stop \/ ForceStop => UNCHANGED request
  BY DEF Finish, WorkerQuit, TornDown, FinishGone, Stop, ForceStop, unlessFinish, steadyVars
<1> QED BY <1>1, <1>2, <1>3, <1>4, <1>5, <1>6 DEF Next, Server, Terminated, vars, steadyVars

\* Every step of a build is one that BuildOrder allows: a task is begun only once,
\* after what it depends on is done, and while less than NumberTasks jobs run;
\* one that has failed, or is fetched, is not begun; and only a task that runs
\* can be built or fail.  Not so under BB_SETSCENE_ENFORCE, where a refused task
\* is counted as a job that has ended.
THEOREM TheQueuesBuild == Spec /\ "enforce" \notin request => Implements
<1> DEFINE Inv == QueueInv /\ BuildableReady /\ "enforce" \notin request
<1>1. Init => Order!Init
  BY DEF Init, Order!Init, Executing
<1>2. Init /\ "enforce" \notin request => Inv
  BY QueueInit, ReadyInit
<1>3. Inv /\ [Next]_vars => Inv'
  BY QueueNext, ReadyNext, SameRequest
<1>4. Inv /\ [Next]_vars => [Order!Next]_(Order!orderVars)
  <2> SUFFICES ASSUME Inv, [Next]_vars PROVE [Order!Next]_(Order!orderVars)
    OBVIOUS
  <2>1. Order!Next \/ UNCHANGED seenVars
    BY OrderRead, OrderScene, OrderRun, OrderRest DEF Next, Server
  <2> QED BY <2>1, SeenSame
<1> QED BY <1>1, <1>2, <1>3, <1>4, PTL DEF Spec, Implements, Order!Spec

-----------------------------------------------------------------------------
(* Complete: what a build that was not stopped has done. *)

Unstopped == request \cap {"shutdown", "forceshutdown", "setsceneonly", "enforce"} = {}

\* A target without a setscene variant is never covered, and so it runs; such a
\* build is only cleaned up after a failure; complete means all.
BuiltInv ==
    /\ runq_complete \subseteq Tasks
    /\ tasks_covered \cap cantskip = {}
    /\ cantskip \cap runq_complete \subseteq runq_tasksrun
    /\ Unstopped /\ (state = "CleanUp" \/ pc \in {"finish", "gone"}) => failed_tids # {}
    /\ Unstopped /\ state = "Complete" => Tasks \subseteq runq_complete

LEMMA BuiltKept ==
    ASSUME BuiltInv, UNCHANGED <<request, tasks_covered>>,
           runq_complete' \subseteq Tasks, runq_complete \subseteq runq_complete',
           runq_tasksrun \subseteq runq_tasksrun',
           cantskip \cap (runq_complete' \ runq_complete) \subseteq runq_tasksrun',
           failed_tids \subseteq failed_tids',
           \/ state' \in {state, "Failed"}
           \/ Unstopped => state' = "CleanUp" /\ failed_tids' # {},
           pc' \in {"finish", "gone"} => pc' = pc \/ state' = "CleanUp"
    PROVE  BuiltInv'
BY DEF BuiltInv, Unstopped

\* Steps that end no task.
LEMMA BuiltSame ==
    ASSUME BuiltInv, UNCHANGED <<request, tasks_covered, runq_complete, runq_tasksrun>>,
           failed_tids \subseteq failed_tids',
           \/ state' \in {state, "Failed"}
           \/ Unstopped => state' = "CleanUp" /\ failed_tids' # {},
           pc' \in {"finish", "gone"} => pc' = pc \/ state' = "CleanUp"
    PROVE  BuiltInv'
BY BuiltKept DEF BuiltInv

LEMMA ReturnsTo ==
    ASSUME NEW st PROVE ReturnIn(st) \in {"finish", "gone"} => st = "CleanUp"
BY DEF ReturnIn

LEMMA BuiltRead == ASSUME BuiltInv, Read PROVE BuiltInv'
<1>1. ASSUME NEW t \in Tasks, ReadComplete(t) PROVE BuiltInv'
  <2>1. /\ UNCHANGED <<request, tasks_covered, failed_tids, state, pc>>
        /\ runq_complete' = runq_complete \cup {t} /\ runq_tasksrun' = runq_tasksrun \cup {t}
    BY <1>1 DEF ReadComplete, Exited, Receive, TaskComplete, CompleteOutright, steadyVars, holdVars
  <2> QED BY <2>1, BuiltKept DEF BuiltInv
<1>2. ASSUME NEW t \in Tasks,
             \/ ReadSqComplete(t) \/ ReadSqFail(t) \/ ReadFail(t)
             \/ \E h \in Hash : ReadUnihash(t, h)
      PROVE  BuiltInv'
  <2>1. /\ UNCHANGED <<request, tasks_covered, runq_complete, runq_tasksrun, pc>>
        /\ failed_tids \subseteq failed_tids'
    <3>1. CASE ReadSqComplete(t) \/ ReadSqFail(t)
      BY <3>1 DEF ReadSqComplete, ReadSqFail, Exited, Receive, SqTaskComplete, SqTaskFail,
                  steadyVars, holdVars, runqVars
    <3>2. CASE ReadFail(t) \/ \E h \in Hash : ReadUnihash(t, h)
      BY <3>2 DEF ReadFail, ReadUnihash, Exited, Receive, TaskFail, steadyVars, holdVars, runqVars
    <3> QED BY <1>2, <3>1, <3>2
  <2>2. state' = state \/ (Unstopped => state' = "CleanUp" /\ failed_tids' # {})
    BY <1>2 DEF ReadSqComplete, ReadSqFail, ReadFail, ReadUnihash, SqTaskComplete, SqTaskFail,
                TaskFail, Unstopped
  <2> QED BY <2>1, <2>2, BuiltSame
<1>3. CASE EndRead \/ EndWait
  <2>1. /\ UNCHANGED <<request, tasks_covered, runq_complete, runq_tasksrun, failed_tids, state>>
        /\ pc' \in {"rehash", "setscene", ReturnIn(state)}
    BY <1>3 DEF EndRead, EndWait, steadyVars, holdVars, runqVars
  <2> QED BY <2>1, BuiltSame, ReturnsTo
<1> QED BY <1>1, <1>2, <1>3 DEF Read

LEMMA BuiltMigrations == ASSUME BuiltInv, Migrations PROVE BuiltInv'
<1>1. UNCHANGED <<request, tasks_covered, runq_complete, runq_tasksrun>>
  <2>1. Rehash => UNCHANGED <<request, tasks_covered, runq_complete, runq_tasksrun>>
    BY DEF Rehash, runqVars, holdVars
  <2>2. MigrateEnd \/ (\E t \in Setscene : MigrateNot(t) \/ Migrate(t))
          => UNCHANGED <<request, tasks_covered, runq_complete, runq_tasksrun>>
    BY DEF MigrateEnd, MigrateNot, Migrate, runqVars, holdVars, steadyVars
  <2> QED BY <2>1, <2>2 DEF Migrations
<1>2. CASE Rehash
  <2>1. UNCHANGED <<failed_tids, state>> /\ pc' = "migrate"
    BY <1>2 DEF Rehash, runqVars
  <2> QED BY <1>1, <2>1, BuiltSame
<1>3. CASE MigrateEnd
  <2>1. UNCHANGED <<failed_tids, state>> /\ pc' = "setscene"
    BY <1>3 DEF MigrateEnd, runqVars
  <2> QED BY <1>1, <2>1, BuiltSame
<1>4. ASSUME NEW t \in Setscene, MigrateNot(t) PROVE BuiltInv'
  <2>1. UNCHANGED <<failed_tids, state, pc>>
    BY <1>4 DEF MigrateNot, runqVars
  <2> QED BY <1>1, <2>1, BuiltSame
<1>5. ASSUME NEW t \in Setscene, Migrate(t) PROVE BuiltInv'
  <2>1. \/ UNCHANGED <<failed_tids, state, pc>>
        \/ /\ failed_tids' = failed_tids \cup {t} /\ state' = "CleanUp" /\ pc' = "setscene"
    BY <1>5 DEF Migrate, MigrateAbort, MigrateReset
  <2> QED BY <1>1, <2>1, BuiltSame
<1> QED BY <1>2, <1>3, <1>4, <1>5 DEF Migrations

LEMMA BuiltScene == ASSUME BuiltInv, SceneStep PROVE BuiltInv'
<1>1. ASSUME NEW t \in Setscene,
             \/ SqNotNeeded(t) \/ SqInvalid(t) \/ SqOutright(t) \/ SqStampPresent(t)
             \/ SqStart(t)
      PROVE  BuiltInv'
  <2>1. /\ UNCHANGED <<request, tasks_covered, runq_complete, runq_tasksrun, failed_tids, state>>
        /\ pc' \in {ReturnIn(state), "holdoff"}
    <3>1. CASE SqStart(t)
      BY <3>1 DEF SqStart, steadyVars, holdVars, runqVars
    <3>2. CASE SqNotNeeded(t) \/ SqInvalid(t) \/ SqOutright(t) \/ SqStampPresent(t)
      BY <3>2 DEF SqNotNeeded, SqInvalid, SqOutright, SqStampPresent, sqStepUnchanged, steadyVars,
                  holdVars, runqVars
    <3> QED BY <1>1, <3>1, <3>2
  <2> QED BY <2>1, BuiltSame, ReturnsTo
<1>2. CASE SqNone
  <2>1. /\ UNCHANGED <<request, tasks_covered, runq_complete, runq_tasksrun, failed_tids, state>>
        /\ pc' = "holdoff"
    BY <1>2 DEF SqNone, steadyVars, holdVars, runqVars
  <2> QED BY <2>1, BuiltSame
<1>3. CASE Holdoff
  <2>1. /\ UNCHANGED <<request, runq_complete, runq_tasksrun, failed_tids>>
        /\ pc' \in {"sched", "teardown"}
    BY <1>3 DEF Holdoff, steadyVars
  <2>2. tasks_covered' \cap cantskip = {}
    <3>1. CASE holdoff_need_update
      BY <1>3, <3>1 DEF Holdoff, UpdateHoldoffTasks, Covered, NotCovered
    <3>2. CASE ~holdoff_need_update
      BY <1>3, <3>2 DEF Holdoff, holdVars, BuiltInv
    <3> QED BY <3>1, <3>2
  <2>3. state' \in {state, "Failed"} \/ (Unstopped => Tasks = {})
    BY <1>3 DEF Holdoff, Unstopped
  <2> QED BY <1>3, <2>1, <2>2, <2>3 DEF BuiltInv, Unstopped, Holdoff
<1> QED BY <1>1, <1>2, <1>3 DEF SceneStep

LEMMA BuiltRun == ASSUME BuiltInv, RunStep PROVE BuiltInv'
<1>1. ASSUME NEW t \in Tasks, SkipTask(t) \/ RunNoexec(t) PROVE BuiltInv'
  <2>1. /\ UNCHANGED <<request, tasks_covered, failed_tids, state>>
        /\ pc' = ReturnIn(state)
        /\ runq_complete' = runq_complete \cup {t}
    BY <1>1 DEF SkipTask, RunNoexec, CompleteOutright, schedUnchanged, steadyVars, holdVars
  <2>2. \/ runq_tasksrun' = runq_tasksrun \cup {t}
        \/ runq_tasksrun' = runq_tasksrun /\ t \in tasks_covered
    BY <1>1 DEF SkipTask, RunNoexec
  <2> QED BY <2>1, <2>2, BuiltKept, ReturnsTo DEF BuiltInv
<1>2. ASSUME NEW t \in Tasks, Refuse(t) PROVE BuiltInv'
  <2>1. /\ UNCHANGED <<request, tasks_covered, runq_complete, runq_tasksrun>>
        /\ failed_tids \subseteq failed_tids' /\ ~Unstopped /\ pc' = ReturnIn(state')
    BY <1>2 DEF Refuse, NotAllowed, TaskFail, schedUnchanged, steadyVars, holdVars, Unstopped
  <2> QED BY <2>1, BuiltSame, ReturnsTo
<1>3. ASSUME NEW t \in Tasks, StartTask(t) PROVE BuiltInv'
  <2>1. /\ UNCHANGED <<request, tasks_covered, runq_complete, runq_tasksrun, failed_tids, state>>
        /\ pc' \in {ReturnIn(state), "tail"}
    BY <1>3 DEF StartTask, steadyVars, holdVars
  <2> QED BY <2>1, BuiltSame, ReturnsTo
<1>4. CASE SchedNone \/ TailWait \/ TailForce
  <2>1. /\ UNCHANGED <<request, tasks_covered, runq_complete, runq_tasksrun, failed_tids, state>>
        /\ pc' \in {ReturnIn(state), "tail", "wait"}
    BY <1>4 DEF SchedNone, TailWait, TailForce, unlessTail, runqVars, steadyVars, holdVars
  <2> QED BY <2>1, BuiltSame, ReturnsTo
<1>5. CASE TailEnd
  <2>1. /\ UNCHANGED <<request, tasks_covered, runq_complete, runq_tasksrun, failed_tids>>
        /\ pc' = "teardown"
        /\ state' = "Failed" \/ (state' = "Complete" /\ Tasks \subseteq runq_complete)
    BY <1>5 DEF TailEnd, unlessTail, RunErrors, runqVars, steadyVars, holdVars
  <2> QED BY <2>1 DEF BuiltInv, Unstopped
<1>6. ASSUME NEW t \in Tasks, SpawnFail(t) PROVE BuiltInv'
  <2>1. /\ UNCHANGED <<request, tasks_covered, runq_complete, runq_tasksrun, failed_tids>>
        /\ pc' = "teardown" /\ state' = "Failed"
    BY <1>6 DEF SpawnFail, schedUnchanged, steadyVars, holdVars
  <2> QED BY <2>1 DEF BuiltInv, Unstopped
<1> QED BY <1>1, <1>2, <1>3, <1>4, <1>5, <1>6 DEF RunStep

LEMMA BuiltRest ==
    ASSUME BuiltInv, \/ Finish \/ WorkerQuit \/ TornDown \/ FinishGone \/ Worker \/ Stop
                     \/ ForceStop \/ Terminated \/ UNCHANGED vars
    PROVE  BuiltInv'
<1>1. UNCHANGED <<request, tasks_covered, runq_complete, runq_tasksrun, failed_tids>>
  <2>1. Worker => UNCHANGED unlessJob
    BY DEF Worker, JobReport, JobExit
  <2>2. Finish \/ WorkerQuit \/ TornDown \/ FinishGone \/ Stop \/ ForceStop => UNCHANGED unlessFinish
    BY DEF Finish, WorkerQuit, TornDown, FinishGone, Stop, ForceStop
  <2> QED BY <2>1, <2>2 DEF unlessJob, unlessFinish, Terminated, vars, runqVars, holdVars, steadyVars
<1>2. CASE Finish \/ FinishGone
  <2>1. /\ pc \in {"finish", "gone"} /\ pc' \in {"teardown", "done"}
        /\ state' \in {state, Verdict(failed_tids)}
    BY <1>2 DEF Finish, FinishGone
  <2>2. Unstopped => state' \in {state, "Failed"}
    BY <2>1 DEF BuiltInv, Verdict
  <2> QED BY <1>1, <2>1, <2>2 DEF BuiltInv, Unstopped
<1>3. CASE TornDown
  <2>1. UNCHANGED state /\ pc' \in {"gone", "done"} /\ (pc' = "gone" => state = "CleanUp")
    BY <1>3 DEF TornDown
  <2> QED BY <1>1, <2>1, BuiltSame
<1>4. CASE WorkerQuit \/ Worker \/ Terminated \/ UNCHANGED vars
  <2>1. UNCHANGED <<state, pc>>
    BY <1>4 DEF WorkerQuit, Worker, JobReport, JobExit, unlessJob, Terminated, vars
  <2> QED BY <1>1, <2>1, BuiltSame
<1>5. CASE Stop \/ ForceStop
  <2>1. ~Unstopped
    BY <1>5 DEF Stop, ForceStop, Unstopped
  <2> QED BY <1>1, <2>1 DEF BuiltInv, Unstopped
<1> QED BY <1>2, <1>3, <1>4, <1>5

\* A build that nobody stops and that ends as complete has dealt with every
\* task, and has run the targets that have no setscene variant.
THEOREM CompleteMeansBuilt == Spec => []CompleteIsBuilt
<1>1. Init => BuiltInv
  BY DEF Init, BuiltInv, Unstopped
<1>2. BuiltInv /\ [Next]_vars => BuiltInv'
  BY BuiltRead, BuiltMigrations, BuiltScene, BuiltRun, BuiltRest DEF Next, Server
<1>3. cantskip \subseteq Tasks
  BY DependsAssumption DEF cantskip, CantSkip
<1>4. BuiltInv => CompleteIsBuilt
  BY <1>3 DEF BuiltInv, CompleteIsBuilt, Unstopped
<1> QED BY <1>1, <1>2, <1>4, PTL DEF Spec

-----------------------------------------------------------------------------
(* What the setscene queue has done *)

\* An ordinary task that is not done waits for one above it that is not.
Reasoned(done) == \A u \in Tasks \ (Setscene \cup done) : revdeps[u] \ done # {}

\* What is decided is done, and nothing else is forgotten.
DoneOK(q) == Resolved(q) \subseteq q.done /\ Reasoned(q.done)

LEMMA DoneBelowFacts ==
    ASSUME NEW done \in SUBSET Tasks, Reasoned(done), NEW From \in SUBSET Tasks,
           NEW new, new = DoneBelow(done, From)
    PROVE  done \cup From \subseteq new /\ Reasoned(new)
<1> DEFINE open == Tasks \ (Setscene \cup done \cup From)
           met == Down(depends, open, From)
           stuck == {u \in met : ~(revdeps[u] \subseteq done \cup From \cup met)}
           late == stuck \cup Down(depends, open, stuck)
<1>1. new = done \cup From \cup (met \ late)
  BY DEF DoneBelow
<1>2. depends \in [Tasks -> SUBSET Tasks] /\ IsFiniteSet(Tasks)
  BY DependsAssumption, TasksAssumption
<1>3. /\ met \subseteq open
      /\ \A u \in From \cup met : depends[u] \cap open \subseteq met
  <2> HIDE DEF open
  <2> QED BY <1>2, DownClosed
<1>4. /\ late \subseteq open
      /\ \A c \in late : c \in stuck \/ \E u \in late : c \in depends[u]
  <2>1. stuck \in SUBSET Tasks
    BY <1>3
  <2>2. Down(depends, open, stuck) \subseteq open
    <3> HIDE DEF open, stuck
    <3> QED BY <1>2, <2>1, DownClosed
  <2>3. \A c \in Down(depends, open, stuck) : \E u \in late : c \in depends[u]
    <3> HIDE DEF open, stuck
    <3> QED BY <1>2, <2>1, DownLast
  <2>4. stuck \subseteq open
    BY <1>3
  <2> QED BY <2>2, <2>3, <2>4
<1>5. late \cap new = {}
  BY <1>1, <1>4
<1>6. ASSUME NEW u \in Tasks \ (Setscene \cup new), revdeps[u] \subseteq new PROVE FALSE
  <2>1. PICK v \in revdeps[u] : v \notin done
    BY <1>1, <1>6 DEF Reasoned
  <2>2. v \in From \cup met /\ u \in depends[v]
    BY <1>1, <1>6, <2>1, RevDepends
  <2>3. u \in met
    BY <1>1, <1>3, <1>6, <2>2
  <2>4. u \in late
    BY <1>1, <1>6, <2>3
  <2>5. CASE u \in stuck
    <3>1. PICK w \in revdeps[u] : w \notin done \cup From \cup met
      BY <2>5
    <3> QED BY <1>1, <1>6, <3>1
  <2>6. CASE \E w \in late : u \in depends[w]
    <3>1. PICK w \in late : u \in depends[w]
      BY <2>6
    <3>2. w \in revdeps[u]
      BY <1>4, <1>6, <3>1, RevDepends
    <3> QED BY <1>5, <1>6, <3>1, <3>2
  <2> QED BY <1>4, <2>4, <2>5, <2>6
<1> QED BY <1>1, <1>6 DEF Reasoned

LEMMA SkipDone ==
    ASSUME NEW q \in SqSets, DoneOK(q), NEW tids \in SUBSET Setscene
    PROVE  DoneOK(SqSkip(q, tids)) /\ q.done \subseteq SqSkip(q, tids).done
<1>1. tids \in SUBSET Tasks /\ q.done \in SUBSET Tasks
  BY SetsceneAssumption DEF SqSets
<1> QED BY <1>1, SkipFacts, DoneBelowFacts DEF DoneOK

LEMMA FailDone ==
    ASSUME NEW q \in SqSets, DoneOK(q), NEW tids \in SUBSET Setscene
    PROVE  DoneOK(SqFailOutright(q, tids)) /\ q.done \subseteq SqFailOutright(q, tids).done
<1> DEFINE p == SqFailOutright(q, tids)
           fails == HardFailures(q, tids)
<1>1. p.done = DoneBelow(q.done, fails) /\ Resolved(p) = Resolved(q) \cup fails
  BY FailFacts
<1>2. fails \in SUBSET Tasks /\ q.done \in SUBSET Tasks
  BY HardFacts, SetsceneAssumption DEF SqSets
<1> HIDE DEF p, fails
<1>3. q.done \cup fails \subseteq p.done /\ Reasoned(p.done)
  BY <1>1, <1>2, DoneBelowFacts DEF DoneOK
<1> QED BY <1>1, <1>3 DEF DoneOK, p

\* When every setscene task is decided everything is done.
LEMMA AllDone ==
    ASSUME NEW q \in SqSets, DoneOK(q), Setscene \subseteq Resolved(q)
    PROVE  Tasks \subseteq q.done
<1> DEFINE S == Tasks \ q.done
<1> SUFFICES ASSUME S # {} PROVE FALSE
  OBVIOUS
<1>1. PICK t \in S : revdeps[t] \cap S = {}
  <2>1. S \in SUBSET Tasks
    OBVIOUS
  <2> HIDE DEF S
  <2> QED BY <2>1, Highest
<1>2. t \in Tasks \ (Setscene \cup q.done)
  BY DEF DoneOK
<1>3. PICK u \in revdeps[t] : u \notin q.done
  BY <1>2 DEF DoneOK, Reasoned
<1> QED BY <1>1, <1>2, <1>3, RevDepends

\* To begin with, what cannot be skipped is done.
LEMMA InitDone == Reasoned(unskippable \ Setscene)
<1> SUFFICES ASSUME NEW u \in Tasks \ (Setscene \cup unskippable)
             PROVE  revdeps[u] \ (unskippable \ Setscene) # {}
  BY DEF Reasoned
<1>1. PICK v : v \in revdeps[u]
  BY UnskippableFacts
<1>2. v \in Tasks /\ u \in depends[v]
  BY <1>1, RevDepends
<1> QED BY <1>1, <1>2, UnskippableFacts

\* What a task covers and is neither complete nor has to be built is no longer
\* done when the task migrates, from the task down.
LEMMA MigrateDone ==
    ASSUME NEW done, Reasoned(done), NEW t \in Setscene, NEW complete \in SUBSET Tasks,
           \A u \in complete : depends[u] \subseteq complete,
           NEW new, new = done \ ({t} \cup (sq_covered_tasks[t] \ (complete \cup unskippable)))
    PROVE  Reasoned(new)
<1> DEFINE gone == sq_covered_tasks[t] \ (complete \cup unskippable)
<1> SUFFICES ASSUME NEW u \in Tasks \ (Setscene \cup new) PROVE revdeps[u] \ new # {}
  BY DEF Reasoned
<1>1. CASE u \notin done
  BY <1>1 DEF Reasoned
<1>2. CASE u \in gone
  <2>1. PICK v \in {t} \cup sq_covered_tasks[t] : u \in depends[v]
    BY <1>2, CoveredFacts
  <2>2. v \in Tasks
    BY GraphType, SetsceneAssumption
  <2>3. v \in revdeps[u]
    BY <2>1, <2>2, RevDepends
  <2>4. v \notin new
    BY <1>2, <2>1, CoveredFacts, UnskippableFacts
  <2> QED BY <2>3, <2>4
<1>3. u \notin done \/ u \in gone
  OBVIOUS
<1> QED BY <1>1, <1>2, <1>3

-----------------------------------------------------------------------------
(* What the steps do to the setscene queue *)

\* Nothing settles when no task is skipped or failed.
LEMMA NoneSettles ==
    ASSUME NEW q \in SqSets
    PROVE  SqSkip(q, {}) = q /\ SqFailOutright(q, {}) = q
<1>1. DoneBelow(q.done, {}) = q.done
  <2> DEFINE open == Tasks \ (Setscene \cup q.done \cup {})
  <2>1. Down(depends, open, {}) = {}
    <3> HIDE DEF open
    <3> QED BY DependsAssumption, TasksAssumption, DownOfNone
  <2>2. DoneBelow(q.done, {}) = q.done \cup {} \cup ({} \ ({} \cup Down(depends, open, {u \in {} : ~(revdeps[u] \subseteq q.done \cup {} \cup {})})))
    BY <2>1 DEF DoneBelow
  <2> QED BY <2>2
<1>2. Dispatched(q, {}) = q
  <2>1. q.buildable \cup {} = q.buildable /\ q.running \cup {} = q.running
    OBVIOUS
  <2> QED BY <2>1 DEF Dispatched, SqSets
<1>3. HardFailures(q, {}) = {}
  BY HardFacts
<1>4. Settle(q, {}, {}) = q
  <2> DEFINE p == Settle(q, {}, {})
  <2>1. /\ p = [buildable |-> p.buildable, running |-> p.running, covered |-> p.covered,
                notcovered |-> p.notcovered, done |-> p.done]
        /\ p.buildable = q.buildable /\ p.running = q.running /\ p.covered = q.covered
        /\ p.notcovered = q.notcovered /\ p.done = q.done
    BY <1>1, <1>3 DEF Settle
  <2>2. q = [buildable |-> q.buildable, running |-> q.running, covered |-> q.covered,
             notcovered |-> q.notcovered, done |-> q.done]
    BY DEF SqSets
  <2> HIDE DEF p
  <2>3. p = q
    BY <2>1, <2>2
  <2> QED BY <2>3 DEF p
<1> QED BY <1>2, <1>4 DEF SqSkip, SqFailOutright

\* The tasks of good are skipped or have come from the cache, then those of bad
\* fail.
Settled(good, bad) == sq' = SqFailOutright(SqSkip(sq, good), bad)

LEMMA SettledOne ==
    ASSUME TypeOK, NEW tids \in SUBSET Setscene
    PROVE  /\ sq' = SqSkip(sq, tids) => Settled(tids, {})
           /\ sq' = SqFailOutright(sq, tids) => Settled({}, tids)
           /\ sq' = sq => Settled({}, {})
<1>1. sq \in SqSets /\ SqSkip(sq, tids) \in SqSets
  BY SqSkipType DEF TypeOK, SceneType
<1> QED BY <1>1, NoneSettles DEF Settled

\* What a step fails: a task whose job has failed, one reset under a failed hard
\* dependency, the one the loop has come to, or the one a deferred task waits for.
Failing(t) == \/ t \in sq_live \cup Late
              \/ SqReaches(t) /\ ~SqWaits(t)
              \/ TailForce

\* Every step settles some tasks, and then the held off tasks are to be looked
\* at again, or starts one, or one migrates.
LEMMA SqStep ==
    ASSUME QueueInv, [Next]_vars
    PROVE  \/ \E good, bad \in SUBSET Setscene :
                /\ Settled(good, bad)
                /\ good \cup bad = {} \/ holdoff_need_update'
                /\ \A t \in bad : Failing(t)
           \/ \E t \in Setscene : SqStart(t)
           \/ \E t \in Setscene : Migrate(t)
<1> DEFINE Goal == \E good, bad \in SUBSET Setscene :
                     /\ Settled(good, bad)
                     /\ good \cup bad = {} \/ holdoff_need_update'
                     /\ \A t \in bad : Failing(t)
<1>0. TypeOK
  BY DEF QueueInv
<1>1. ASSUME NEW tids \in SUBSET Setscene, tids = {} \/ holdoff_need_update',
             \/ sq' = SqSkip(sq, tids)
             \/ sq' = SqFailOutright(sq, tids) /\ \A t \in tids : Failing(t)
      PROVE  Goal
  <2>1. Settled(tids, {}) \/ (Settled({}, tids) /\ \A t \in tids : Failing(t))
    BY <1>0, <1>1, SettledOne
  <2>2. {} \in SUBSET Setscene /\ tids \cup {} = tids /\ {} \cup tids = tids
    OBVIOUS
  <2> QED BY <1>1, <2>1, <2>2
<1>2. sq' = sq => Goal
  BY <1>0, <1>1, SettledOne
<1> HIDE DEF Goal
<1>3. ASSUME NEW t \in Tasks, ReadSqComplete(t) \/ ReadSqFail(t) PROVE Goal
  <2>1. /\ t \in sq_live /\ holdoff_need_update' = TRUE
        /\ sq' = Settle(sq, {t}, {}) \/ sq' = Settle(sq, {}, {t})
    BY <1>3 DEF ReadSqComplete, ReadSqFail, SqTaskComplete, SqTaskFail
  <2>2. /\ sq \in SqSets /\ SceneOK(sq, sq_live, Late) /\ {t} \in SUBSET Setscene
    BY <2>1 DEF QueueInv, SchedInv, SceneInv, TypeOK, SceneType
  <2>3. sq' = SqSkip(sq, {t}) \/ sq' = SqFailOutright(sq, {t})
    BY <2>1, <2>2, DispatchedLive
  <2>4. Failing(t)
    BY <2>1 DEF Failing
  <2> QED BY <1>1, <2>1, <2>2, <2>3, <2>4
<1>4. ASSUME NEW t \in Tasks, ReadComplete(t) \/ SkipTask(t) \/ RunNoexec(t) PROVE Goal
  <2>1. PICK buildable, running, scene : CompleteOutright(t, buildable, running, scene)
    BY <1>4 DEF ReadComplete, TaskComplete, SkipTask, RunNoexec
  <2> DEFINE waiting == {d \in DOMAIN sq_deferred : sq_deferred[d] = t}
             found == IF waiting = {} THEN {} ELSE {Least(waiting)}
             tids == Skipped(found, scene)
  <2>2. sq' = SqSkip(sq, tids) /\ holdoff_need_update' = (holdoff_need_update \/ tids # {})
    BY <2>1 DEF CompleteOutright
  <2>3. found \subseteq DOMAIN sq_deferred
    <3>1. waiting \in SUBSET Tasks
      BY SetsceneAssumption DEF QueueInv, TypeOK, SceneType
    <3> QED BY <3>1, LeastIn
  <2>4. tids \subseteq found
    BY DEF Skipped
  <2>5. tids \in SUBSET Setscene
    BY <2>3, <2>4 DEF QueueInv, TypeOK, SceneType
  <2> HIDE DEF tids
  <2> QED BY <1>1, <2>2, <2>5
<1>5. ASSUME MigrateEnd PROVE Goal
  <2> DEFINE tids == {u.task : u \in update_tasks}
             skips == Skipped(tids, sqstamp)
  <2>1. /\ Settled(skips, Late)
        /\ holdoff_need_update' = (holdoff_need_update \/ changed)
    BY <1>5 DEF MigrateEnd, Late, Settled
  <2>2. tids \in SUBSET Setscene
    BY DEF QueueInv, TypeOK, MoveType
  <2>3. skips \subseteq tids /\ Late \subseteq tids
    BY DEF Skipped, Late
  <2>4. tids = {} \/ changed
    BY DEF QueueInv, SchedInv, SceneInv
  <2> HIDE DEF skips, tids
  <2>5. skips \cup Late = {} \/ holdoff_need_update'
    BY <2>1, <2>3, <2>4
  <2>6. \A t \in Late : Failing(t)
    BY DEF Failing
  <2> QED BY <2>1, <2>2, <2>3, <2>5, <2>6 DEF Goal
<1>6. ASSUME NEW t \in Setscene, SqNotNeeded(t) \/ SqInvalid(t) \/ SqOutright(t) \/ SqStampPresent(t)
      PROVE  Goal
  <2>1. /\ holdoff_need_update' = TRUE
        /\ \/ sq' = SqSkip(sq, {t})
           \/ sq' = SqFailOutright(sq, {t}) /\ SqReaches(t) /\ ~SqWaits(t)
    BY <1>6 DEF SqNotNeeded, SqInvalid, SqOutright, SqStampPresent, SqNext
  <2> QED BY <1>1, <2>1 DEF Failing
<1>7. ASSUME TailForce PROVE Goal
  <2>1. PICK d \in DOMAIN sq_deferred :
          \/ sq' = sq
          \/ sq' = SqFailOutright(sq, {sq_deferred[d]}) /\ holdoff_need_update' = TRUE
    BY <1>7 DEF TailForce
  <2>2. {sq_deferred[d]} \in SUBSET Setscene
    BY DEF QueueInv, TypeOK, SceneType
  <2>3. \A t \in {sq_deferred[d]} : Failing(t)
    BY <1>7 DEF Failing
  <2> QED BY <1>1, <1>2, <2>1, <2>2, <2>3
<1>8. ASSUME NEW t \in Tasks,
             \/ ReadFail(t) \/ \E h \in Hash : ReadUnihash(t, h)
             \/ Refuse(t) \/ StartTask(t) \/ SpawnFail(t)
      PROVE  sq' = sq
  BY <1>8 DEF ReadFail, ReadUnihash, TaskFail, Refuse, StartTask, SpawnFail, sceneVars
<1>9. ASSUME EndRead \/ EndWait \/ Rehash \/ SqNone \/ Holdoff \/ SchedNone PROVE sq' = sq
  BY <1>9 DEF EndRead, EndWait, Rehash, SqNone, Holdoff, SchedNone, sceneVars
<1>10. ASSUME TailWait \/ TailEnd PROVE sq' = sq
  BY <1>10 DEF TailWait, TailEnd
<1>11. ASSUME NEW t \in Setscene, MigrateNot(t) PROVE sq' = sq
  BY <1>11 DEF MigrateNot, sceneVars
<1>12. ASSUME Finish \/ WorkerQuit \/ TornDown \/ FinishGone \/ Stop \/ ForceStop PROVE sq' = sq
  BY <1>12 DEF Finish, WorkerQuit, TornDown, FinishGone, Stop, ForceStop, unlessFinish, sceneVars
<1>13. ASSUME Worker PROVE sq' = sq
  BY <1>13 DEF Worker, JobReport, JobExit, unlessJob, sceneVars
<1>14. ASSUME Terminated \/ UNCHANGED vars PROVE sq' = sq
  BY <1>14 DEF Terminated, vars, sceneVars
<1>15. ASSUME Read PROVE Goal
  BY <1>2, <1>3, <1>4, <1>8, <1>9, <1>15 DEF Read
<1>16. ASSUME Migrations PROVE Goal \/ \E t \in Setscene : Migrate(t)
  BY <1>2, <1>5, <1>9, <1>11, <1>16 DEF Migrations
<1>17. ASSUME SceneStep PROVE Goal \/ \E t \in Setscene : SqStart(t)
  BY <1>2, <1>6, <1>9, <1>17 DEF SceneStep
<1>18. ASSUME RunStep PROVE Goal
  BY <1>2, <1>4, <1>7, <1>8, <1>9, <1>10, <1>18 DEF RunStep
<1>19. Goal \/ (\E t \in Setscene : SqStart(t)) \/ \E t \in Setscene : Migrate(t)
  BY <1>2, <1>12, <1>13, <1>14, <1>15, <1>16, <1>17, <1>18 DEF Next, Server
<1> QED BY <1>19 DEF Goal

\* What has been settled stays so, and what has to be done to the sets the held
\* off tasks are made of is done at once or asked for.
LEMMA SettledFacts ==
    ASSUME QueueInv, NEW good \in SUBSET Setscene, NEW bad \in SUBSET Setscene, Settled(good, bad)
    PROVE  /\ sq'.covered = sq.covered \cup good
           /\ sq.notcovered \subseteq sq'.notcovered
           /\ Resolved(sq) \cup good \cup bad \subseteq Resolved(sq')
           /\ sq.done \subseteq sq'.done
           /\ DoneOK(sq) => DoneOK(sq')
           /\ good \cup bad = {} => sq' = sq
<1> DEFINE q == SqSkip(sq, good)
<1>1. sq \in SqSets
  BY DEF QueueInv, TypeOK, SceneType
<1>2. /\ q \in SqSets /\ q.covered = sq.covered \cup good /\ q.notcovered = sq.notcovered
      /\ Resolved(q) = Resolved(sq) \cup good
  BY <1>1, SkipFacts
<1>3. DoneOK(sq) => DoneOK(q)
  BY <1>1, SkipDone
<1>4. sq.done \subseteq q.done
  <2>1. q.done = sq.done \cup (q.done \ sq.done)
    <3>1. q.done = DoneBelow(sq.done, good)
      BY <1>1, SkipFacts
    <3> QED BY <3>1 DEF DoneBelow
  <2> QED BY <2>1
<1>5. good \cup bad = {} => sq' = sq
  BY <1>1, NoneSettles DEF Settled
<1> HIDE DEF q
<1>6. sq' = SqFailOutright(q, bad)
  BY DEF Settled, q
<1>7. /\ sq'.covered = q.covered /\ sq'.notcovered = q.notcovered \cup HardFailures(q, bad)
      /\ Resolved(sq') = Resolved(q) \cup HardFailures(q, bad)
      /\ sq'.done = DoneBelow(q.done, HardFailures(q, bad))
  BY <1>2, <1>6, FailFacts
<1>8. bad \subseteq HardFailures(q, bad)
  BY HardFacts
<1>9. q.done \subseteq sq'.done
  BY <1>7 DEF DoneBelow
<1>10. DoneOK(q) => DoneOK(sq')
  BY <1>2, <1>6, FailDone
<1> QED BY <1>2, <1>3, <1>4, <1>5, <1>7, <1>8, <1>9, <1>10

\* A task that migrates has nothing to be run again, so that it is reset.
LEMMA MigrateFacts ==
    ASSUME QueueInv, NEW t \in Setscene, Migrate(t)
    PROVE  /\ MigrateReset(t) /\ changed' = TRUE /\ pc' = pc /\ pc = "migrate"
           /\ t \in todo /\ t \notin runq_running \cup sq_live
           /\ todo' = todo \ {t} /\ pending_migrations' = pending_migrations \ {t}
           /\ sq'.covered = sq.covered \ {t} /\ sq'.notcovered = sq.notcovered \ {t}
           /\ sq'.done = sq.done \ ({t} \cup
                (sq_covered_tasks[t] \ (runq_complete \cup unskippable)))
           /\ Resolved(sq') = Resolved(sq) \ {t}
<1>1. MigrateReset(t)
  BY NoRerunHolds DEF NoRerun, Migrate, Migratable
<1>2. /\ pc = "migrate" /\ t \in todo /\ t \notin runq_running \cup sq_live
      /\ pending_migrations' = pending_migrations \ {t}
  BY DEF Migrate, Migratable
<1>3. todo' = todo \ {t} /\ changed' = TRUE /\ pc' = pc
  BY <1>1 DEF MigrateReset
<1>4. /\ sq'.covered = sq.covered \ {t} /\ sq'.notcovered = sq.notcovered \ {t}
      /\ sq'.done = sq.done \ ({t} \cup
           (sq_covered_tasks[t] \ (runq_complete \cup unskippable)))
  BY <1>1 DEF MigrateReset
<1> QED BY <1>1, <1>2, <1>3, <1>4 DEF Resolved

LEMMA StartSame ==
    ASSUME QueueInv, NEW t \in Setscene, SqStart(t)
    PROVE  /\ sq'.covered = sq.covered /\ sq'.notcovered = sq.notcovered
           /\ sq'.done = sq.done /\ sq'.buildable = sq.buildable
           /\ Resolved(sq') = Resolved(sq) /\ sq'.running = sq.running \cup {t}
<1>1. sq \in SqSets /\ sq' = [sq EXCEPT !.running = @ \cup {t}]
  BY DEF QueueInv, TypeOK, SceneType, SqStart
<1> QED BY <1>1 DEF SqSets, Resolved

\* The sets of the held off tasks are renewed, or stay; and what they are made
\* of stays as well, unless the next call is told to renew them.
LEMMA HoldStep ==
    ASSUME QueueInv, [Next]_vars
    PROVE  \/ Holdoff
           \/ /\ UNCHANGED holdVars
              /\ ~holdoff_need_update' /\ ~changed'
                   => /\ ~holdoff_need_update /\ ~changed
                      /\ UNCHANGED <<sq.covered, sq.notcovered, sq.done, Resolved(sq)>>
<1> SUFFICES ASSUME ~Holdoff
             PROVE  /\ UNCHANGED holdVars
                    /\ ~holdoff_need_update' /\ ~changed'
                         => /\ ~holdoff_need_update /\ ~changed
                            /\ UNCHANGED <<sq.covered, sq.notcovered, sq.done, Resolved(sq)>>
  OBVIOUS
<1> DEFINE Goal == /\ UNCHANGED holdVars
                   /\ ~holdoff_need_update' /\ ~changed' => ~holdoff_need_update /\ ~changed
<1>1. ASSUME Read PROVE Goal
  <2>1. ASSUME NEW t \in Tasks, ReadSqComplete(t) \/ ReadSqFail(t) PROVE Goal
    BY <2>1 DEF ReadSqComplete, ReadSqFail, Exited, Receive, SqTaskComplete, SqTaskFail
  <2>2. ASSUME NEW t \in Tasks, ReadComplete(t) PROVE Goal
    BY <2>2 DEF ReadComplete, Exited, Receive, TaskComplete, CompleteOutright, moveVars
  <2>3. ASSUME NEW t \in Tasks, ReadFail(t) PROVE Goal
    BY <2>3 DEF ReadFail, Exited, Receive, TaskFail, validVars, moveVars
  <2>4. ASSUME NEW t \in Tasks, NEW h \in Hash, ReadUnihash(t, h) PROVE Goal
    BY <2>4 DEF ReadUnihash, Receive, validVars, moveVars
  <2>5. ASSUME EndRead \/ EndWait PROVE Goal
    BY <2>5 DEF EndRead, EndWait, validVars, moveVars
  <2> QED BY <1>1, <2>1, <2>2, <2>3, <2>4, <2>5 DEF Read
<1>2. ASSUME Migrations PROVE Goal
  <2>1. ASSUME Rehash PROVE Goal
    <3>1. UNCHANGED <<validVars, holdVars>> /\ pc = "rehash"
      BY <2>1 DEF Rehash
    <3>2. ~changed
      BY <3>1 DEF QueueInv, SchedInv, HoldInv
    <3> QED BY <3>1, <3>2 DEF validVars
  <2>2. ASSUME MigrateEnd PROVE Goal
    BY <2>2 DEF MigrateEnd
  <2>3. ASSUME NEW t \in Setscene, MigrateNot(t) PROVE Goal
    BY <2>3 DEF MigrateNot, validVars
  <2>4. ASSUME NEW t \in Setscene, Migrate(t) PROVE Goal
    <3>1. changed'
      BY <2>4, MigrateFacts
    <3> QED BY <2>4, <3>1 DEF Migrate
  <2> QED BY <1>2, <2>1, <2>2, <2>3, <2>4 DEF Migrations
<1>3. ASSUME SceneStep PROVE Goal
  <2>1. ASSUME NEW t \in Setscene,
               SqNotNeeded(t) \/ SqInvalid(t) \/ SqOutright(t) \/ SqStampPresent(t)
        PROVE  Goal
    BY <2>1 DEF SqNotNeeded, SqInvalid, SqOutright, SqStampPresent, sqStepUnchanged
  <2>2. ASSUME NEW t \in Setscene, SqStart(t) PROVE Goal
    BY <2>2 DEF SqStart, validVars, moveVars
  <2>3. ASSUME SqNone PROVE Goal
    BY <2>3 DEF SqNone, validVars, moveVars
  <2> QED BY <1>3, <2>1, <2>2, <2>3 DEF SceneStep
<1>4. ASSUME RunStep PROVE Goal
  <2>1. ASSUME NEW t \in Tasks, SkipTask(t) \/ RunNoexec(t) PROVE Goal
    <3>1. UNCHANGED <<holdVars, changed>>
      BY <2>1 DEF SkipTask, RunNoexec, schedUnchanged, moveVars
    <3>2. PICK buildable, running, scene : CompleteOutright(t, buildable, running, scene)
      BY <2>1 DEF SkipTask, RunNoexec
    <3>3. holdoff_need_update => holdoff_need_update'
      BY <3>2 DEF CompleteOutright
    <3> QED BY <3>1, <3>3
  <2>2. ASSUME NEW t \in Tasks, Refuse(t) \/ StartTask(t) \/ SpawnFail(t) PROVE Goal
    <3>1. UNCHANGED <<holdVars, validVars, moveVars>>
      BY <2>2 DEF Refuse, StartTask, SpawnFail, schedUnchanged, TaskFail
    <3> QED BY <3>1 DEF validVars, moveVars
  <2>3. ASSUME SchedNone PROVE Goal
    BY <2>3 DEF SchedNone, validVars, moveVars
  <2>4. ASSUME TailWait \/ TailEnd PROVE Goal
    BY <2>4 DEF TailWait, TailEnd, unlessTail, moveVars
  <2>5. ASSUME TailForce PROVE Goal
    BY <2>5 DEF TailForce, unlessTail, moveVars
  <2> QED BY <1>4, <2>1, <2>2, <2>3, <2>4, <2>5 DEF RunStep
<1>5. ASSUME \/ Finish \/ WorkerQuit \/ TornDown \/ FinishGone \/ Stop \/ ForceStop
      PROVE  Goal
  BY <1>5 DEF Finish, WorkerQuit, TornDown, FinishGone, Stop, ForceStop, unlessFinish, validVars,
              moveVars
<1>6. ASSUME Worker PROVE Goal
  <2>1. UNCHANGED unlessJob
    BY <1>6 DEF Worker, JobReport, JobExit
  <2> QED BY <2>1 DEF unlessJob, moveVars
<1>7. ASSUME Terminated \/ UNCHANGED vars PROVE Goal
  BY <1>7 DEF Terminated, vars, validVars, moveVars
<1>8. Goal
  BY <1>1, <1>2, <1>3, <1>4, <1>5, <1>6, <1>7 DEF Next, Server
<1>9. ~holdoff_need_update' /\ ~changed'
        => UNCHANGED <<sq.covered, sq.notcovered, sq.done, Resolved(sq)>>
  <2>1. ASSUME NEW good \in SUBSET Setscene, NEW bad \in SUBSET Setscene, Settled(good, bad),
               good \cup bad = {} \/ holdoff_need_update', ~holdoff_need_update'
        PROVE  sq' = sq
    BY <2>1, SettledFacts
  <2>2. ASSUME NEW t \in Setscene, SqStart(t)
        PROVE  UNCHANGED <<sq.covered, sq.notcovered, sq.done, Resolved(sq)>>
    BY <2>2, StartSame
  <2>3. ASSUME NEW t \in Setscene, Migrate(t) PROVE changed'
    BY <2>3, MigrateFacts
  <2> QED BY <2>1, <2>2, <2>3, SqStep
<1> QED BY <1>8, <1>9

\* A task has ended, or was skipped, and all that wait for nothing else are
\* buildable.
Ended(t) ==
    /\ runq_complete' = runq_complete \cup {t}
    /\ runq_running' = runq_running \cup {t}
    /\ runq_buildable \subseteq runq_buildable'
    /\ \A u \in revdeps[t] :
         depends[u] \subseteq runq_complete' => u \in runq_buildable' \cup runq_running'
    /\ t \in runq_running \/ t \in runq_buildable'
    /\ \/ runq_tasksrun' = runq_tasksrun \cup {t}
       \/ runq_tasksrun' = runq_tasksrun /\ SkipTask(t) /\ t \in tasks_covered

LEMMA RunqStep ==
    ASSUME QueueInv, [Next]_vars
    PROVE  \/ UNCHANGED <<runq_buildable, runq_running, runq_complete, runq_tasksrun>>
           \/ Holdoff /\ UNCHANGED <<runq_running, runq_complete, runq_tasksrun>>
           \/ \E t \in Tasks : StartTask(t)
           \/ \E t \in Tasks : Ended(t)
<1> DEFINE Same == UNCHANGED <<runq_buildable, runq_running, runq_complete, runq_tasksrun>>
<1>1. ASSUME Read PROVE Same \/ \E t \in Tasks : Ended(t)
  <2>1. ASSUME NEW t \in Tasks, ReadSqComplete(t) \/ ReadSqFail(t) PROVE Same
    BY <2>1 DEF ReadSqComplete, ReadSqFail, SqTaskComplete, SqTaskFail, runqVars
  <2>2. ASSUME NEW t \in Tasks, ReadComplete(t) PROVE Ended(t)
    <3>1. t \in runq_running
      <4>1. Exited(t, TRUE) /\ t \notin sq_live
        BY <2>2 DEF ReadComplete
      <4> QED BY <4>1, ExitRead DEF QueueInv, SchedInv, Executing
    <3>2. /\ CompleteOutright(t, runq_buildable, runq_running, sqstamp)
          /\ runq_tasksrun' = runq_tasksrun \cup {t}
      BY <2>2 DEF ReadComplete, TaskComplete
    <3>3. runq_running' = runq_running \cup {t}
      BY <3>1, <3>2 DEF CompleteOutright
    <3>4. /\ runq_complete' = runq_complete \cup {t}
          /\ runq_buildable' = runq_buildable \cup
               {u \in revdeps[t] \ runq_running : depends[u] \subseteq runq_complete \cup {t}}
      BY <3>2 DEF CompleteOutright
    <3> QED BY <3>1, <3>2, <3>3, <3>4 DEF Ended
  <2>3. ASSUME NEW t \in Tasks, ReadFail(t) \/ \E h \in Hash : ReadUnihash(t, h) PROVE Same
    BY <2>3 DEF ReadFail, TaskFail, ReadUnihash, runqVars
  <2>4. ASSUME EndRead \/ EndWait PROVE Same
    BY <2>4 DEF EndRead, EndWait, runqVars
  <2> QED BY <1>1, <2>1, <2>2, <2>3, <2>4 DEF Read
<1>2. ASSUME Migrations PROVE Same
  BY <1>2 DEF Migrations, Rehash, Migrate, MigrateNot, MigrateEnd, runqVars
<1>3. ASSUME SceneStep PROVE Same \/ (Holdoff /\ UNCHANGED <<runq_running, runq_complete, runq_tasksrun>>)
  <2>1. ASSUME NEW t \in Setscene,
               SqNotNeeded(t) \/ SqInvalid(t) \/ SqOutright(t) \/ SqStampPresent(t) \/ SqStart(t)
        PROVE  Same
    BY <2>1 DEF SqNotNeeded, SqInvalid, SqOutright, SqStampPresent, SqStart, sqStepUnchanged, runqVars
  <2>2. ASSUME SqNone PROVE Same
    BY <2>2 DEF SqNone, runqVars
  <2>3. Holdoff => UNCHANGED <<runq_running, runq_complete, runq_tasksrun>>
    BY DEF Holdoff
  <2> QED BY <1>3, <2>1, <2>2, <2>3 DEF SceneStep
<1>4. ASSUME RunStep PROVE Same \/ \E t \in Tasks : Ended(t) \/ StartTask(t)
  <2>1. ASSUME NEW t \in Tasks, SkipTask(t) PROVE Ended(t)
    <3>1. /\ CompleteOutright(t, runq_buildable \cup {t}, runq_running \cup {t}, sqstamp)
          /\ runq_tasksrun' = IF t \in tasks_covered THEN runq_tasksrun ELSE runq_tasksrun \cup {t}
      BY <2>1 DEF SkipTask
    <3>2. /\ runq_complete' = runq_complete \cup {t} /\ runq_running' = runq_running \cup {t}
          /\ runq_buildable' = (runq_buildable \cup {t}) \cup
               {u \in revdeps[t] \ (runq_running \cup {t}) : depends[u] \subseteq runq_complete \cup {t}}
      BY <3>1 DEF CompleteOutright
    <3> QED BY <2>1, <3>1, <3>2 DEF Ended
  <2>2. ASSUME NEW t \in Tasks, RunNoexec(t) PROVE Ended(t)
    <3>1. PICK scene : CompleteOutright(t, runq_buildable, runq_running \cup {t}, scene)
      BY <2>2 DEF RunNoexec
    <3>2. /\ runq_complete' = runq_complete \cup {t} /\ runq_running' = runq_running \cup {t}
          /\ runq_buildable' = runq_buildable \cup
               {u \in revdeps[t] \ (runq_running \cup {t}) : depends[u] \subseteq runq_complete \cup {t}}
      BY <3>1 DEF CompleteOutright
    <3>3. t \in runq_buildable /\ runq_tasksrun' = runq_tasksrun \cup {t}
      BY <2>2 DEF RunNoexec, Ready, Picked, Eligible
    <3> QED BY <3>2, <3>3 DEF Ended
  <2>3. ASSUME NEW t \in Tasks, Refuse(t) PROVE Same
    BY <2>3 DEF Refuse, TaskFail
  <2>4. ASSUME SchedNone PROVE Same
    BY <2>4 DEF SchedNone, runqVars
  <2>5. ASSUME TailWait \/ TailForce \/ TailEnd PROVE Same
    BY <2>5 DEF TailWait, TailForce, TailEnd, unlessTail, runqVars
  <2>6. ASSUME NEW t \in Tasks, SpawnFail(t) PROVE Same
    BY <2>6 DEF SpawnFail
  <2> QED BY <1>4, <2>1, <2>2, <2>3, <2>4, <2>5, <2>6 DEF RunStep
<1>5. ASSUME \/ Finish \/ WorkerQuit \/ TornDown \/ FinishGone \/ Stop \/ ForceStop PROVE Same
  BY <1>5 DEF Finish, WorkerQuit, TornDown, FinishGone, Stop, ForceStop, unlessFinish, runqVars
<1>6. ASSUME Worker PROVE Same
  BY <1>6 DEF Worker, JobReport, JobExit, unlessJob, runqVars
<1>7. ASSUME Terminated \/ UNCHANGED vars PROVE Same
  BY <1>7 DEF Terminated, vars, runqVars
<1> QED BY <1>1, <1>2, <1>3, <1>4, <1>5, <1>6, <1>7 DEF Next, Server

-----------------------------------------------------------------------------
(* The setscene queue settles *)

LEMMA DoneInit == Init => DoneOK(sq)
<1> SUFFICES ASSUME Init PROVE DoneOK(sq)
  OBVIOUS
<1> DEFINE present == {t \in Setscene :
                         \/ sqstamp[Stamp[t]] = Unihash0[t]
                         \/ StampCurrentBelow(t, stamp, sqstamp, {})}
           q == [buildable |-> {t \in Setscene : sq_revdeps[t] = {}},
                 running |-> {}, covered |-> {}, notcovered |-> {},
                 done |-> unskippable \ Setscene]
<1>1. sq = SqSkip(q, present)
  BY Zenon DEF Init
<1>2. q \in SqSets
  BY GraphType DEF SqSets
<1>3. present \in SUBSET Setscene
  OBVIOUS
<1>4. DoneOK(q)
  <2>1. Resolved(q) = {} /\ q.done = unskippable \ Setscene
    BY DEF Resolved
  <2> QED BY <2>1, InitDone DEF DoneOK
<1> HIDE DEF q, present
<1> QED BY <1>1, <1>2, <1>3, <1>4, SkipDone

LEMMA DoneNext ==
    ASSUME QueueInv, BuildableReady, DoneOK(sq), [Next]_vars
    PROVE  DoneOK(sq')
<1>1. ASSUME NEW good \in SUBSET Setscene, NEW bad \in SUBSET Setscene, Settled(good, bad)
      PROVE  DoneOK(sq')
  BY <1>1, SettledFacts
<1>2. ASSUME NEW t \in Setscene, SqStart(t) PROVE DoneOK(sq')
  <2>1. sq'.done = sq.done /\ Resolved(sq') = Resolved(sq)
    BY <1>2, StartSame
  <2> QED BY <2>1 DEF DoneOK
<1>3. ASSUME NEW t \in Setscene, Migrate(t) PROVE DoneOK(sq')
  <2>1. /\ sq'.done = sq.done \ ({t} \cup
             (sq_covered_tasks[t] \ (runq_complete \cup unskippable)))
        /\ Resolved(sq') = Resolved(sq) \ {t}
    BY <1>3, MigrateFacts
  <2>2. \A u \in runq_complete : depends[u] \subseteq runq_complete
    BY DEF BuildableReady, QueueInv, SchedInv, HoldInv
  <2>3. Reasoned(sq'.done)
    <3>1. runq_complete \in SUBSET Tasks
      BY DEF QueueInv, TypeOK, RunqType
    <3> QED BY <2>1, <2>2, <3>1, MigrateDone DEF DoneOK
  <2>4. Resolved(sq') \subseteq sq'.done
    <3>1. sq_covered_tasks[t] \cap Setscene = {}
      BY CoveredFacts
    <3>2. Resolved(sq) \subseteq Setscene
      BY DEF QueueInv, TypeOK, SceneType, SqSets, Resolved
    <3> QED BY <2>1, <3>1, <3>2 DEF DoneOK
  <2> QED BY <2>3, <2>4 DEF DoneOK
<1> QED BY <1>1, <1>2, <1>3, SqStep

\* What the held off tasks are made of, when they are up to date: each task that
\* is done is to be skipped or to be run, and is skipped only when it does not
\* have to be built and, if it is a setscene task, has come from the cache.
KnownInv ==
    ~holdoff_need_update /\ ~changed =>
        /\ sq.done \cap (CoveredBy(Resolved(sq)) \cup unskippable)
             \subseteq tasks_covered \cup tasks_notcovered \cup (Setscene \ Resolved(sq))
        /\ tasks_covered \cap Setscene \subseteq sq.covered
        /\ tasks_covered \cap (unskippable \ Setscene) = {}
        /\ tasks_notcovered \subseteq CoveredBy(sq.notcovered) \cup (unskippable \ Setscene)
        /\ holdoff_tasks \subseteq CoveredBy(Setscene \ Resolved(sq))

LEMMA CoveredBySplits ==
    ASSUME NEW S, NEW T
    PROVE  CoveredBy(S \cup T) = CoveredBy(S) \cup CoveredBy(T)
BY DEF CoveredBy

LEMMA CoveredByScene ==
    ASSUME NEW S \in SUBSET Setscene
    PROVE  CoveredBy(S) \cap Setscene = S
BY CoveredFacts DEF CoveredBy

LEMMA KnownHoldoff ==
    ASSUME QueueInv, KnownInv, Holdoff
    PROVE  KnownInv'
<1>1. UNCHANGED <<sq, changed>>
  BY DEF Holdoff, moveVars
<1>2. CASE ~holdoff_need_update
  <2>1. UNCHANGED <<tasks_covered, tasks_notcovered, holdoff_tasks, holdoff_need_update>>
    BY <1>2 DEF Holdoff, holdVars
  <2> QED BY <1>1, <2>1 DEF KnownInv
<1>3. CASE holdoff_need_update
  <2>1. /\ tasks_notcovered' = NotCovered /\ tasks_covered' = Covered
        /\ holdoff_tasks' = (Setscene \ Resolved(sq)) \cup
             (CoveredBy(Setscene \ Resolved(sq)) \ runq_complete)
    BY <1>3 DEF Holdoff, UpdateHoldoffTasks
  <2>2. cantskip \subseteq unskippable \ Setscene
    BY UnskippableFacts DEF cantskip, CantSkip
  <2>3. Resolved(sq) = sq.covered \cup sq.notcovered /\ sq.covered \in SUBSET Setscene
    BY DEF Resolved, QueueInv, TypeOK, SceneType, SqSets
  <2>4. sq.done \cap (CoveredBy(Resolved(sq)) \cup unskippable)
          \subseteq tasks_covered' \cup tasks_notcovered' \cup (Setscene \ Resolved(sq))
    <3> SUFFICES ASSUME NEW t \in sq.done, t \in CoveredBy(Resolved(sq)) \cup unskippable
                 PROVE  t \in Covered \cup NotCovered \cup (Setscene \ Resolved(sq))
      BY <2>1
    <3>1. CASE t \in CoveredBy(Resolved(sq))
      <4>1. t \in CoveredBy(sq.covered) \cup CoveredBy(sq.notcovered)
        BY <2>3, <3>1, CoveredBySplits
      <4> QED BY <4>1 DEF Covered, NotCovered
    <3>2. CASE t \in unskippable \ Setscene
      BY <3>2 DEF NotCovered
    <3>3. CASE t \in Resolved(sq)
      <4>1. t \in CoveredBy(Resolved(sq))
        BY <3>3 DEF CoveredBy
      <4> QED BY <3>1, <4>1
    <3> QED BY <3>1, <3>2, <3>3
  <2>5. tasks_covered' \cap Setscene \subseteq sq.covered
    BY <2>1, <2>3, CoveredByScene DEF Covered
  <2>6. tasks_covered' \cap (unskippable \ Setscene) = {}
    BY <2>1 DEF Covered, NotCovered
  <2>7. tasks_notcovered' \subseteq CoveredBy(sq.notcovered) \cup (unskippable \ Setscene)
    BY <2>1, <2>2 DEF NotCovered
  <2>8. holdoff_tasks' \subseteq CoveredBy(Setscene \ Resolved(sq))
    BY <2>1 DEF CoveredBy
  <2> QED BY <1>1, <2>4, <2>5, <2>6, <2>7, <2>8 DEF KnownInv
<1> QED BY <1>2, <1>3

LEMMA KnownNext ==
    ASSUME QueueInv, KnownInv, [Next]_vars
    PROVE  KnownInv'
<1>1. CASE Holdoff
  BY <1>1, KnownHoldoff
<1>2. ASSUME UNCHANGED holdVars,
             ~holdoff_need_update' /\ ~changed'
               => /\ ~holdoff_need_update /\ ~changed
                  /\ UNCHANGED <<sq.covered, sq.notcovered, sq.done, Resolved(sq)>>
      PROVE  KnownInv'
  BY <1>2 DEF KnownInv, holdVars
<1> QED BY <1>1, <1>2, HoldStep

\* What is decided and ready is buildable.
LaunchInv ==
    /\ \A t \in tasks_covered \cup tasks_notcovered :
         depends[t] \subseteq runq_complete => t \in runq_buildable
    /\ runq_running \subseteq runq_buildable

LEMMA LaunchNext ==
    ASSUME QueueInv, LaunchInv, [Next]_vars
    PROVE  LaunchInv'
<1>0. tasks_covered \cup tasks_notcovered \subseteq Tasks
  BY DEF QueueInv, TypeOK, HoldType
<1>1. CASE Holdoff
  <2>1. UNCHANGED <<runq_running, runq_complete>>
    BY <1>1 DEF Holdoff
  <2>2. CASE holdoff_need_update
    <3>1. runq_buildable' = runq_buildable \cup
            {t \in tasks_notcovered' \cup tasks_covered' : depends[t] \subseteq runq_complete}
      BY <1>1, <2>2 DEF Holdoff, UpdateHoldoffTasks
    <3> QED BY <2>1, <3>1 DEF LaunchInv
  <2>3. CASE ~holdoff_need_update
    <3>1. UNCHANGED <<tasks_covered, tasks_notcovered, runq_buildable>>
      BY <1>1, <2>3 DEF Holdoff, holdVars
    <3> QED BY <2>1, <3>1 DEF LaunchInv
  <2> QED BY <2>2, <2>3
<1>2. CASE ~Holdoff
  <2>1. UNCHANGED <<tasks_covered, tasks_notcovered>>
    BY <1>2, HoldStep DEF holdVars
  <2>2. CASE UNCHANGED <<runq_buildable, runq_running, runq_complete, runq_tasksrun>>
    BY <2>1, <2>2 DEF LaunchInv
  <2>3. ASSUME NEW t \in Tasks, StartTask(t) PROVE LaunchInv'
    <3>1. /\ runq_running' = runq_running \cup {t} /\ t \in runq_buildable
          /\ UNCHANGED <<runq_buildable, runq_complete>>
      BY <2>3 DEF StartTask, Ready, Picked, Eligible
    <3> QED BY <2>1, <3>1 DEF LaunchInv
  <2>4. ASSUME NEW t \in Tasks, Ended(t) PROVE LaunchInv'
    <3>1. runq_running' \subseteq runq_buildable'
      BY <2>4 DEF Ended, LaunchInv
    <3>2. ASSUME NEW u \in tasks_covered \cup tasks_notcovered, depends[u] \subseteq runq_complete'
          PROVE  u \in runq_buildable'
      <4>1. CASE t \in depends[u]
        <5>1. u \in revdeps[t]
          BY <1>0, <3>2, <4>1, RevDepends
        <5> QED BY <2>4, <3>1, <3>2, <5>1 DEF Ended
      <4>2. CASE t \notin depends[u]
        <5>1. depends[u] \subseteq runq_complete
          BY <2>4, <3>2, <4>2 DEF Ended
        <5> QED BY <2>4, <5>1 DEF Ended, LaunchInv
      <4> QED BY <4>1, <4>2
    <3> QED BY <2>1, <3>1, <3>2 DEF LaunchInv
  <2> QED BY <1>2, <2>2, <2>3, <2>4, RunqStep
<1> QED BY <1>1, <1>2

\* The second invariant: what the setscene queue has settled is known.
KnowsInv == QueueInv /\ BuildableReady /\ DoneOK(sq) /\ KnownInv /\ LaunchInv

LEMMA KnowsInit == Init => KnowsInv
<1> SUFFICES ASSUME Init PROVE KnowsInv
  OBVIOUS
<1>1. KnownInv
  BY DEF Init, KnownInv
<1>2. LaunchInv
  <2>1. /\ runq_running = {} /\ tasks_covered = {}
        /\ tasks_notcovered = IF Setscene = {} THEN Tasks ELSE {}
        /\ runq_buildable = leaves \cap (IF Setscene = {} THEN Tasks ELSE unskippable \ Setscene)
        /\ runq_complete = {}
    BY DEF Init
  <2> QED BY <2>1 DEF LaunchInv, leaves
<1> QED BY <1>1, <1>2, QueueInit, ReadyInit, DoneInit DEF KnowsInv

LEMMA KnowsNext == KnowsInv /\ [Next]_vars => KnowsInv'
<1> SUFFICES ASSUME KnowsInv, [Next]_vars PROVE KnowsInv'
  OBVIOUS
<1>1. QueueInv' /\ BuildableReady'
  BY QueueNext, ReadyNext DEF KnowsInv
<1>2. DoneOK(sq)'
  BY DoneNext DEF KnowsInv, DoneOK, Resolved, Reasoned
<1>3. KnownInv' /\ LaunchInv'
  BY KnownNext, LaunchNext DEF KnowsInv
<1> QED BY <1>1, <1>2, <1>3 DEF KnowsInv

-----------------------------------------------------------------------------
(* The sanity check of the setscene queue *)

\* summarise_scenequeue_errors has nothing to say of the two queues.
SceneFine ==
    /\ Setscene \subseteq Resolved(sq) \cap sq.buildable \cap sq.running
    /\ Tasks \subseteq (tasks_covered \cup tasks_notcovered) \cap sq.done
    /\ leaves \subseteq runq_buildable

\* When nothing is held off every setscene task is decided, every task is done,
\* and it is known of each whether it is to be run.
LEMMA AllDecided ==
    KnowsInv /\ ~holdoff_need_update /\ ~changed /\ holdoff_tasks = {} => SceneFine
<1> SUFFICES ASSUME KnowsInv, ~holdoff_need_update, ~changed, holdoff_tasks = {}
             PROVE  SceneFine
  OBVIOUS
<1>1. sq \in SqSets /\ QueueInv
  BY DEF KnowsInv, QueueInv, TypeOK, SceneType
<1>2. Setscene \subseteq Resolved(sq)
  <2>1. Undecided(sq, runq_complete) = {}
    BY DEF KnowsInv, QueueInv, SchedInv, HoldInv, UpToDate
  <2> QED BY <2>1 DEF Undecided
<1>3. Resolved(sq) \subseteq sq.running /\ sq.running \subseteq sq.buildable
  BY <1>1 DEF QueueInv, SchedInv, SceneInv, SceneOK
<1>4. Tasks \subseteq sq.done
  BY <1>1, <1>2, AllDone DEF KnowsInv
<1>5. Tasks \subseteq tasks_covered \cup tasks_notcovered
  <2>1. Resolved(sq) = Setscene
    BY <1>1, <1>2 DEF SqSets, Resolved
  <2>2. sq.done \cap (CoveredBy(Setscene) \cup unskippable) \subseteq tasks_covered \cup tasks_notcovered
    BY <2>1 DEF KnowsInv, KnownInv
  <2> QED BY <1>4, <2>2, EveryTask
<1>6. leaves \subseteq runq_buildable
  BY <1>5 DEF leaves, KnowsInv, LaunchInv
<1> QED BY <1>2, <1>3, <1>4, <1>5, <1>6 DEF SceneFine

\* So that the check never fails a build.
LEMMA SceneNeverFails ==
    ASSUME KnowsInv, KnowsInv', Holdoff, SceneComplete
    PROVE  ~SceneErrors
<1>1. ~holdoff_need_update' /\ UNCHANGED <<sq, changed>> /\ pc = "holdoff"
  BY DEF Holdoff, UpdateHoldoffTasks, moveVars
<1>2. ~changed'
  BY <1>1 DEF KnowsInv, QueueInv, SchedInv, HoldInv
<1>3. holdoff_tasks' = {} /\ DOMAIN sq_deferred = {} /\ updated_taskhash_queue = {}
  BY DEF SceneComplete
<1>4. SceneFine'
  <2>1. (KnowsInv /\ ~holdoff_need_update /\ ~changed /\ holdoff_tasks = {})' => SceneFine'
    BY AllDecided, PTL
  <2> QED BY <1>1, <1>2, <1>3, <2>1
<1> QED BY <1>1, <1>3, <1>4 DEF SceneErrors, SceneFine, Resolved

-----------------------------------------------------------------------------
(* How a build ends *)

Over == pc \in {"teardown", "gone", "done"}

\* No worker is torn down with jobs alive.
Gentle == request \cap {"forceshutdown", "nofakeworker"} = {}

\* A build is over when it is said to be; with nothing to run but setscene tasks
\* no task runs; no job is active when it is over, unless it was aborted or had
\* no fakeroot worker; and when a task has failed the outcome is so, or the
\* workers' last words are still to be answered.
EndInv ==
    /\ ~Over => state \in {"Running", "CleanUp"}
    /\ "setsceneonly" \in request \/ Tasks = {} => runq_running = {} /\ failed_tids = {}
    /\ Gentle /\ Over => Active <= 0
    /\ Gentle /\ Over /\ failed_tids # {}
         => state = "Failed" \/ (state = "CleanUp" /\ pc # "done")
    /\ pc = "gone" => state = "CleanUp"

\* Active counts the tasks that are worked on, until BB_SETSCENE_ENFORCE refuses
\* one or a fakeroot worker cannot be started.
LEMMA ActiveCounts ==
    ASSUME QueueInv, "enforce" \notin request \/ failed_tids = {}, ~Spoilt
    PROVE  /\ Active = Cardinality(Executing) + Cardinality(sq_live)
           /\ Active <= 0 => Executing = {} /\ sq_live = {}
<1>1. IsFiniteSet(Executing) /\ IsFiniteSet(sq_live)
  BY FiniteTasks, SetsceneAssumption DEF QueueInv, TypeOK, RunqType, SceneType, Executing
<1>2. Cardinality(Executing) \in Nat /\ Cardinality(sq_live) \in Nat
  BY <1>1, FS_CardinalityType
<1>3. Active = Cardinality(Executing) + Cardinality(sq_live)
  BY DEF Active, QueueInv, SchedInv, SceneInv, FailInv
<1>4. Active <= 0 => Cardinality(Executing) = 0 /\ Cardinality(sq_live) = 0
  BY <1>2, <1>3
<1> QED BY <1>1, <1>3, <1>4, FS_EmptySet

\* Steps within a build that neither start nor end anything.
LEMMA EndSame ==
    ASSUME EndInv, UNCHANGED <<request, runq_running, failed_tids, state, stats_active, sq_active>>,
           pc' = pc \/ (~Over /\ pc' \in {"read", "rehash", "migrate", "setscene", "holdoff",
                                          "sched", "tail", "wait", "finish"})
    PROVE  EndInv'
BY DEF EndInv, Gentle, Over, Active

\* Within a call, execute() returns to the next one or to finish().
LEMMA ReturnsWithin ==
    ASSUME NEW st \in {"Running", "CleanUp"} PROVE ReturnIn(st) \in {"read", "finish"}
BY DEF ReturnIn

LEMMA EndReading ==
    ASSUME QueueInv, EndInv, Read
    PROVE  EndInv'
<1>1. ASSUME NEW t \in Tasks,
             ReadSqComplete(t) \/ ReadSqFail(t) \/ ReadComplete(t) \/ ReadFail(t)
      PROVE  EndInv'
  <2>1. /\ UNCHANGED <<request, pc, runq_running>> /\ Active' = Active - 1
        /\ state' = state \/ state' = "CleanUp"
        /\ pc \in {"read", "wait", "teardown", "finish"}
        /\ failed_tids' = failed_tids \/ (t \in Executing /\ failed_tids' = failed_tids \cup {t})
    <3>1. stats_active \in Int /\ sq_active \in Int
      BY DEF QueueInv, TypeOK, RunqType, SceneType
    <3>2. CASE ReadSqComplete(t) \/ ReadSqFail(t)
      <4>1. /\ UNCHANGED <<request, pc, runq_running, stats_active, failed_tids>>
            /\ sq_active' = sq_active - 1 /\ state' \in {state, "CleanUp"}
            /\ pc \in {"read", "wait", "teardown", "finish"}
        BY <3>2 DEF ReadSqComplete, ReadSqFail, Exited, Receive, Reading, SqTaskComplete, SqTaskFail,
                    steadyVars, runqVars
      <4> QED BY <3>1, <4>1 DEF Active
    <3>3. CASE ReadComplete(t)
      <4>1. /\ UNCHANGED <<request, pc, runq_running, sq_active, failed_tids, state>>
            /\ stats_active' = stats_active - 1
            /\ pc \in {"read", "wait", "teardown", "finish"}
        BY <3>3 DEF ReadComplete, Exited, Receive, Reading, TaskComplete, CompleteOutright,
                    steadyVars
      <4> QED BY <3>1, <4>1 DEF Active
    <3>4. CASE ReadFail(t)
      <4>1. Exited(t, FALSE) /\ t \notin sq_live
        BY <3>4 DEF ReadFail
      <4>2. t \in Executing
        BY <4>1, ExitRead DEF QueueInv, SchedInv
      <4> QED BY <3>1, <3>4, <4>2 DEF ReadFail, Exited, Receive, Reading, TaskFail,
                        steadyVars, sceneVars, Active
    <3> QED BY <1>1, <3>2, <3>3, <3>4
  <2>2. Active \in Int
    BY DEF QueueInv, TypeOK, RunqType, SceneType, Active
  <2>3. runq_running = {} => Executing = {}
    BY DEF Executing
  <2>4. Gentle /\ Over /\ failed_tids = {} => Executing = {}
    BY ActiveCounts DEF EndInv, Gentle, Spoilt
  <2> QED BY <2>1, <2>2, <2>3, <2>4 DEF EndInv, Gentle, Over
<1>2. ASSUME NEW t \in Tasks, NEW h \in Hash, ReadUnihash(t, h) PROVE EndInv'
  BY <1>2, EndSame DEF ReadUnihash, Receive, runqVars, sceneVars, steadyVars
<1>3. CASE EndRead \/ EndWait
  <2>1. /\ UNCHANGED <<request, runq_running, failed_tids, state, stats_active, sq_active>>
        /\ pc \in {"read", "wait"} /\ pc' \in {"rehash", "setscene", ReturnIn(state)}
    BY <1>3 DEF EndRead, EndWait, runqVars, sceneVars, steadyVars
  <2>2. ~Over /\ ReturnIn(state) \in {"read", "finish"}
    BY <2>1, ReturnsWithin DEF EndInv, Over
  <2> QED BY <2>1, <2>2, EndSame
<1> QED BY <1>1, <1>2, <1>3 DEF Read

LEMMA EndMigrations == ASSUME QueueInv, EndInv, Migrations PROVE EndInv'
<1>1. UNCHANGED <<request, runq_running, failed_tids, state, stats_active, sq_active>>
  <2>1. ASSUME NEW t \in Setscene, Migrate(t)
        PROVE  UNCHANGED <<request, runq_running, failed_tids, state, stats_active, sq_active>>
    <3>1. MigrateReset(t)
      BY <2>1, MigrateFacts
    <3> QED BY <2>1, <3>1 DEF Migrate, MigrateReset, steadyVars
  <2> QED BY <2>1 DEF Migrations, Rehash, MigrateEnd, MigrateNot, runqVars, sceneVars, steadyVars
<1>2. ~Over /\ pc' \in {"migrate", "setscene"}
  <2>1. ASSUME NEW t \in Setscene, Migrate(t) PROVE pc = "migrate" /\ pc' = pc
    BY <2>1, MigrateFacts
  <2> QED BY <2>1 DEF Migrations, Rehash, MigrateEnd, MigrateNot, Over
<1> QED BY <1>1, <1>2, EndSame

LEMMA EndScene == ASSUME KnowsInv, KnowsInv', EndInv, SceneStep PROVE EndInv'
<1>0. stats_active \in Int /\ sq_active \in Int /\ QueueInv
  BY DEF KnowsInv, QueueInv, TypeOK, RunqType, SceneType
<1>1. ASSUME NEW t \in Setscene,
             \/ SqNotNeeded(t) \/ SqInvalid(t) \/ SqOutright(t) \/ SqStampPresent(t)
             \/ SqStart(t)
      PROVE  EndInv'
  <2>1. /\ UNCHANGED <<request, runq_running, failed_tids, state, stats_active>>
        /\ pc = "setscene" /\ pc' \in {ReturnIn(state), "holdoff"}
    <3>1. CASE SqStart(t)
      BY <3>1 DEF SqStart, SqNext, SqReaches, steadyVars, runqVars
    <3>2. CASE SqNotNeeded(t) \/ SqInvalid(t) \/ SqOutright(t) \/ SqStampPresent(t)
      BY <3>2 DEF SqNotNeeded, SqInvalid, SqOutright, SqStampPresent, SqNext, SqReaches,
                  sqStepUnchanged, steadyVars, runqVars
    <3> QED BY <1>1, <3>1, <3>2
  <2>2. ~Over /\ ReturnIn(state) \in {"read", "finish"}
    BY <2>1, ReturnsWithin DEF EndInv, Gentle, Over
  <2> QED BY <2>1, <2>2 DEF EndInv, Gentle, Over
<1>2. CASE SqNone
  BY <1>2, EndSame DEF SqNone, Over, runqVars, sceneVars, steadyVars
<1>3. CASE Holdoff
  <2>1. /\ UNCHANGED <<request, runq_running, failed_tids, stats_active, sq_active, sq_live>>
        /\ pc = "holdoff" /\ pc' = IF state' = state THEN "sched" ELSE "teardown"
    BY <1>3 DEF Holdoff, steadyVars
  <2>2. CASE state' = state
    BY <2>1, <2>2, EndSame DEF Over
  <2>3. CASE state' # state
    <3>1. SceneComplete /\ ~SceneErrors
      BY <1>3, <2>3, SceneNeverFails DEF Holdoff
    <3>2. /\ "setsceneonly" \in request \/ Tasks = {}
          /\ sq_live = {}
      BY <1>3, <2>3, <3>1 DEF Holdoff, SceneComplete
    <3>3. runq_running = {} /\ failed_tids = {}
      BY <3>2 DEF EndInv
    <3>4. Executing = {}
      BY <3>3 DEF Executing
    <3>5. Active = 0
      BY <1>0, <3>2, <3>3, <3>4, <2>1, ActiveCounts, FS_EmptySet DEF Spoilt
    <3>6. Active' = 0
      BY <2>1, <3>5 DEF Active
    <3> QED BY <2>1, <2>3, <3>3, <3>6 DEF EndInv, Gentle, Over
  <2> QED BY <2>2, <2>3
<1> QED BY <1>1, <1>2, <1>3 DEF SceneStep

LEMMA EndRun == ASSUME QueueInv, EndInv, RunStep PROVE EndInv'
<1>1. ASSUME NEW t \in Tasks, SkipTask(t) \/ RunNoexec(t) \/ StartTask(t) \/ Refuse(t) PROVE EndInv'
  <2>1. pc = "sched" /\ "setsceneonly" \notin request
    BY <1>1 DEF SkipTask, RunNoexec, StartTask, Refuse, Ready, Picked
  <2>2. UNCHANGED request
    BY <1>1 DEF SkipTask, RunNoexec, StartTask, Refuse, schedUnchanged, steadyVars
  <2>3. state' \in {state, "CleanUp"} /\ pc' \in {"tail", ReturnIn(state')}
    BY <1>1 DEF SkipTask, RunNoexec, StartTask, Refuse, TaskFail
  <2>4. state' \in {"Running", "CleanUp"}
    BY <2>1, <2>3 DEF EndInv, Gentle, Over
  <2>5. pc' \in {"tail", "read", "finish"}
    BY <2>3, <2>4, ReturnsWithin
  <2> QED BY <2>1, <2>2, <2>4, <2>5 DEF EndInv, Gentle, Over
<1>2. CASE SchedNone \/ TailWait \/ TailForce
  <2>1. /\ UNCHANGED <<request, runq_running, failed_tids, state, stats_active, sq_active>>
        /\ pc \in {"sched", "tail"} /\ pc' \in {ReturnIn(state), "tail", "wait"}
    BY <1>2 DEF SchedNone, TailWait, TailForce, unlessTail, runqVars, sceneVars, steadyVars
  <2>2. ~Over /\ ReturnIn(state) \in {"read", "finish"}
    BY <2>1, ReturnsWithin DEF EndInv, Gentle, Over
  <2> QED BY <2>1, <2>2, EndSame
<1>3. CASE TailEnd
  <2>1. /\ UNCHANGED <<request, runq_running, failed_tids, stats_active, sq_active>>
        /\ pc = "tail" /\ pc' = "teardown" /\ ~(stats_active > 0 \/ sq_active > 0)
        /\ failed_tids # {} => state' = "Failed"
    BY <1>3 DEF TailEnd, unlessTail, runqVars, steadyVars
  <2>2. Active' <= 0
    BY <2>1 DEF Active, QueueInv, TypeOK, RunqType, SceneType
  <2> QED BY <2>1, <2>2 DEF EndInv, Gentle, Over
<1>4. ASSUME NEW t \in Tasks, SpawnFail(t) PROVE EndInv'
  <2>1. /\ "nofakeworker" \in request /\ "setsceneonly" \notin request
        /\ request' = request /\ pc' = "teardown"
    BY <1>4 DEF SpawnFail, NoFakeworker, Ready, Picked, schedUnchanged, steadyVars
  <2> QED BY <2>1 DEF EndInv, Gentle, Over
<1> QED BY <1>1, <1>2, <1>3, <1>4 DEF RunStep

LEMMA EndRest ==
    ASSUME QueueInv, EndInv, \/ Finish \/ WorkerQuit \/ TornDown \/ FinishGone \/ Worker \/ Stop
                   \/ ForceStop \/ Terminated \/ UNCHANGED vars
    PROVE  EndInv'
<1>1. UNCHANGED <<request, runq_running, failed_tids, stats_active, sq_active>>
  <2>1. Worker => UNCHANGED unlessJob
    BY DEF Worker, JobReport, JobExit
  <2>2. Finish \/ WorkerQuit \/ TornDown \/ FinishGone \/ Stop \/ ForceStop => UNCHANGED unlessFinish
    BY DEF Finish, WorkerQuit, TornDown, FinishGone, Stop, ForceStop
  <2> QED BY <2>1, <2>2 DEF unlessJob, unlessFinish, Terminated, vars, runqVars, sceneVars, steadyVars
<1>2. Active' = Active /\ Active \in Int
  BY <1>1 DEF Active, QueueInv, TypeOK, RunqType, SceneType
<1>3. CASE Finish \/ FinishGone
  <2>1. pc' \in {"teardown", "done"} /\ pc \in {"finish", "gone"}
    BY <1>3 DEF Finish, FinishGone
  <2>2. Gentle => Active <= 0 /\ state' = Verdict(failed_tids)
    BY <1>2, <1>3 DEF Finish, FinishGone, EndInv, Gentle, Over
  <2> QED BY <1>1, <1>2, <2>1, <2>2 DEF EndInv, Gentle, Over, Verdict
<1>4. CASE TornDown
  BY <1>1, <1>2, <1>4 DEF TornDown, EndInv, Gentle, Over
<1>5. CASE WorkerQuit \/ Worker \/ Terminated \/ UNCHANGED vars
  <2>1. UNCHANGED <<state, pc>>
    BY <1>5 DEF WorkerQuit, Worker, JobReport, JobExit, unlessJob, Terminated, vars
  <2> QED BY <1>1, <2>1, EndSame
<1>6. CASE Stop
  BY <1>1, <1>6 DEF Stop, EndInv, Gentle, Over
<1>7. CASE ForceStop
  <2>1. "forceshutdown" \in request /\ pc' \in {"done", "teardown"}
    BY <1>7 DEF ForceStop
  <2> QED BY <1>1, <2>1 DEF EndInv, Gentle, Over
<1> QED BY <1>3, <1>4, <1>5, <1>6, <1>7

LEMMA EndNext == KnowsInv /\ KnowsInv' /\ EndInv /\ [Next]_vars => EndInv'
<1> SUFFICES ASSUME KnowsInv, KnowsInv', EndInv, [Next]_vars PROVE EndInv'
  OBVIOUS
<1>1. QueueInv
  BY DEF KnowsInv
<1> QED BY <1>1, EndReading, EndMigrations, EndScene, EndRun, EndRest DEF Next, Server

LEMMA EndInit == Init => EndInv
BY DEF Init, EndInv, Over

LEMMA EndAlways == Spec => [](KnowsInv /\ EndInv)
<1>1. Init => KnowsInv /\ EndInv
  BY KnowsInit, EndInit
<1>2. KnowsInv /\ EndInv /\ [Next]_vars => (KnowsInv /\ EndInv)'
  BY KnowsNext, EndNext
<1> QED BY <1>1, <1>2, PTL DEF Spec

-----------------------------------------------------------------------------
(* What follows from how a build ends *)

\* A build that is not aborted ends with no job alive: its counters say that none
\* is active, and they are right.
THEOREM NoJobIsKilled == Spec => []NothingKilled
<1>1. KnowsInv /\ EndInv => NothingKilled
  <2> SUFFICES ASSUME QueueInv, EndInv, pc \in {"teardown", "done"},
                      request \cap {"forceshutdown", "enforce", "nofakeworker"} = {}
               PROVE  jobs = {}
    BY DEF NothingKilled, KnowsInv
  <2>1. Active <= 0
    BY DEF EndInv, Gentle, Over
  <2>2. Executing = {} /\ sq_live = {}
    BY <2>1, ActiveCounts DEF Spoilt
  <2> QED BY <2>2 DEF QueueInv, SchedInv, JobInv
<1> QED BY <1>1, EndAlways, PTL

\* A build in which a task has failed ends as failed, unless it was aborted or
\* lacked its fakeroot worker.
THEOREM FailureIsTold == Spec => []OutcomeKnown
<1>1. EndInv => OutcomeKnown
  BY DEF EndInv, Gentle, Over, OutcomeKnown
<1> QED BY <1>1, EndAlways, PTL

-----------------------------------------------------------------------------
(* The jobs are counted *)

\* No task is worked on twice, as itself and from the cache.
LEMMA LiveApart == ASSUME QueueInv PROVE sq_live \cap Executing = {}
<1> SUFFICES ASSUME NEW t \in sq_live, t \in Executing PROVE FALSE
  OBVIOUS
<1>1. t \in runq_running /\ t \in Setscene
  BY DEF Executing, QueueInv, TypeOK, SceneType
<1>2. t \in Resolved(sq)
  BY <1>1 DEF QueueInv, SchedInv, HoldInv, IsDecided
<1> QED BY <1>2 DEF QueueInv, SchedInv, SceneInv, SceneOK

\* Steps that concern no job.
JobsSame ==
    /\ UNCHANGED <<jobs, pipe, sq_live, Executing>>
    /\ build_stamps' \subseteq build_stamps
    /\ \A b \in build_stamps : b.task \in sq_live \cup Executing => b \in build_stamps'

\* What a step does to the jobs, and to what is believed of them.
LEMMA WorkStep ==
    ASSUME QueueInv, [Next]_vars
    PROVE  \/ JobsSame
           \/ \E t \in Tasks, ok \in BOOLEAN :
                Exited(t, ok) /\ sq_live' = sq_live \ {t} /\ Executing' = Executing \ {t}
           \/ \E t \in Tasks, h \in Hash :
                ReadUnihash(t, h) /\ UNCHANGED <<sq_live, Executing, build_stamps>>
           \/ \E t \in Setscene : /\ SqStart(t) /\ t \notin sq_live \cup Executing
                                  /\ sq_live' = sq_live \cup {t} /\ Executing' = Executing
           \/ \E t \in Tasks : /\ StartTask(t) /\ t \notin sq_live \cup Executing
                               /\ Executing' = Executing \cup {t} /\ sq_live' = sq_live
           \/ Worker /\ UNCHANGED <<sq_live, Executing, unlessJob>>
           \/ WorkerQuit /\ UNCHANGED <<sq_live, Executing, build_stamps>>
<1>0. sq_live \cap Executing = {}
  BY LiveApart
<1>1. ASSUME NEW t \in Tasks, ReadSqComplete(t) \/ ReadSqFail(t)
      PROVE  \E ok \in BOOLEAN :
                Exited(t, ok) /\ sq_live' = sq_live \ {t} /\ Executing' = Executing \ {t}
  <2>1. /\ Exited(t, TRUE) \/ Exited(t, FALSE)
        /\ t \in sq_live /\ sq_live' = sq_live \ {t} /\ Executing' = Executing
    BY <1>1 DEF ReadSqComplete, ReadSqFail, SqTaskComplete, SqTaskFail, runqVars, Executing
  <2> QED BY <1>0, <2>1
<1>2. ASSUME NEW t \in Tasks, ReadComplete(t) \/ ReadFail(t)
      PROVE  \E ok \in BOOLEAN :
                Exited(t, ok) /\ sq_live' = sq_live \ {t} /\ Executing' = Executing \ {t}
  <2>1. /\ Exited(t, TRUE) \/ Exited(t, FALSE)
        /\ sq_live' = sq_live /\ t \notin sq_live /\ runq_running' = runq_running
        /\ \/ runq_complete' = runq_complete \cup {t} /\ failed_tids' = failed_tids
           \/ runq_complete' = runq_complete /\ failed_tids' = failed_tids \cup {t}
    BY <1>2 DEF ReadComplete, ReadFail, TaskComplete, TaskFail, CompleteOutright, sceneVars
  <2>2. Executing' = Executing \ {t}
    BY <2>1 DEF Executing
  <2> QED BY <2>1, <2>2
<1>3. ASSUME NEW t \in Tasks, NEW h \in Hash, ReadUnihash(t, h)
      PROVE  UNCHANGED <<sq_live, Executing, build_stamps>>
  BY <1>3 DEF ReadUnihash, runqVars, sceneVars, Executing
<1>4. EndRead \/ EndWait => JobsSame
  BY DEF EndRead, EndWait, runqVars, sceneVars, workVars, Executing, JobsSame
<1>5. Migrations => JobsSame
  <2>1. Migrations => UNCHANGED <<sq_live, Executing>>
    <3>1. Migrations => UNCHANGED seenVars
      BY OrderRest
    <3> QED BY <3>1 DEF seenVars, Executing
  <2>2. Migrations => UNCHANGED <<jobs, pipe>>
    BY DEF Migrations, Rehash, MigrateEnd, MigrateNot, Migrate, workVars
  <2>3. Rehash \/ MigrateEnd \/ (\E t \in Setscene : MigrateNot(t)) => UNCHANGED build_stamps
    BY DEF Rehash, MigrateEnd, MigrateNot
  <2>4. ASSUME NEW t \in Setscene, Migrate(t)
        PROVE  /\ build_stamps' = {b \in build_stamps : b.task # t}
               /\ t \notin sq_live \cup Executing
    BY <2>4, MigrateFacts DEF MigrateReset, Executing
  <2>5. Migrations =>
          /\ build_stamps' \subseteq build_stamps
          /\ \A b \in build_stamps : b.task \in sq_live \cup Executing => b \in build_stamps'
    BY <2>3, <2>4 DEF Migrations
  <2> QED BY <2>1, <2>2, <2>5 DEF JobsSame
<1>6. ASSUME NEW t \in Setscene, SqStart(t)
      PROVE  /\ t \notin sq_live \cup Executing
             /\ sq_live' = sq_live \cup {t} /\ Executing' = Executing
  <2>1. /\ sq_live' = sq_live \cup {t} /\ UNCHANGED <<runq_running, runq_complete, failed_tids>>
        /\ t \in sq.buildable \ sq.running
    BY <1>6 DEF SqStart, SqNext, SqReaches, SqCandidate, runqVars
  <2>2. t \notin runq_running
    BY <1>6, QueueSqStart DEF QueueInv, SchedInv, HoldInv
  <2>3. sq_live \subseteq sq.running
    BY DEF QueueInv, SchedInv, SceneInv, SceneOK
  <2> QED BY <2>1, <2>2, <2>3 DEF Executing
<1>7. ASSUME NEW t \in Setscene,
             SqNotNeeded(t) \/ SqInvalid(t) \/ SqOutright(t) \/ SqStampPresent(t)
      PROVE  JobsSame
  BY <1>7 DEF SqNotNeeded, SqInvalid, SqOutright, SqStampPresent, sqStepUnchanged, runqVars,
              workVars, Executing, JobsSame
<1>8. SqNone \/ Holdoff => JobsSame
  BY DEF SqNone, Holdoff, runqVars, sceneVars, workVars, Executing, JobsSame
<1>9. ASSUME NEW t \in Tasks, SkipTask(t) \/ RunNoexec(t) PROVE JobsSame
  <2>1. Executing' = Executing
    BY <1>9, QueueOutright
  <2> QED BY <1>9, <2>1 DEF SkipTask, RunNoexec, schedUnchanged, workVars, JobsSame
<1>10. ASSUME NEW t \in Tasks, Refuse(t) PROVE JobsSame
  <2>1. /\ UNCHANGED <<runq_running, runq_complete, sq_live, jobs, pipe, build_stamps>>
        /\ failed_tids' = failed_tids \cup {t} /\ t \notin runq_running
    BY <1>10, PickedFacts DEF Refuse, TaskFail, schedUnchanged, sceneVars, workVars
  <2> QED BY <2>1 DEF Executing, JobsSame
<1>11. ASSUME NEW t \in Tasks, StartTask(t)
       PROVE  /\ t \notin sq_live \cup Executing
              /\ Executing' = Executing \cup {t} /\ sq_live' = sq_live
  <2>1. t \notin sq_live /\ sq_live' = sq_live
    BY <1>11, PickedFacts DEF StartTask, Ready, sceneVars
  <2> QED BY <1>11, <2>1, QueueStart
<1>12. SchedNone \/ TailWait \/ TailForce \/ TailEnd => JobsSame
  BY DEF SchedNone, TailWait, TailForce, TailEnd, unlessTail, runqVars, sceneVars, workVars,
         Executing, JobsSame
<1>13. Finish \/ TornDown \/ FinishGone \/ Stop \/ ForceStop => JobsSame
  BY DEF Finish, TornDown, FinishGone, Stop, ForceStop, unlessFinish, runqVars,
         sceneVars, Executing, JobsSame
<1>14. Worker => UNCHANGED <<sq_live, Executing, unlessJob>>
  BY DEF Worker, JobReport, JobExit, unlessJob, runqVars, sceneVars, Executing
<1>15. WorkerQuit => UNCHANGED <<sq_live, Executing, build_stamps>>
  BY DEF WorkerQuit, unlessFinish, runqVars, sceneVars, Executing
<1>16. Terminated \/ UNCHANGED vars => JobsSame
  BY DEF Terminated, vars, runqVars, sceneVars, workVars, Executing, JobsSame
<1>20. ASSUME NEW t \in Tasks, SpawnFail(t) PROVE JobsSame
  BY <1>20 DEF SpawnFail, schedUnchanged, diskVars, sceneVars, workVars, Executing, JobsSame
<1>17. CASE Read
  BY <1>1, <1>2, <1>3, <1>4, <1>17 DEF Read
<1>18. CASE SceneStep
  BY <1>6, <1>7, <1>8, <1>18 DEF SceneStep
<1>19. CASE RunStep
  BY <1>9, <1>10, <1>11, <1>12, <1>19, <1>20 DEF RunStep
<1> QED BY <1>5, <1>13, <1>14, <1>15, <1>16, <1>17, <1>18, <1>19 DEF Next, Server

\* The tasks that have a job, and those whose exit has still to be read.
WithJob == {j.task : j \in jobs}
WithExit == {pipe[i].task : i \in Exits}

\* What is believed to be worked on has a job, or has told its end.
LiveInv ==
    request \cap {"forceshutdown", "enforce", "nofakeworker"} = {} =>
        sq_live \cup Executing \subseteq WithJob \cup WithExit

LEMMA LiveNext ==
    ASSUME KnowsInv, EndInv, LiveInv, [Next]_vars
    PROVE  LiveInv'
<1> SUFFICES ASSUME request \cap {"forceshutdown", "enforce", "nofakeworker"} = {}
             PROVE  sq_live' \cup Executing' \subseteq WithJob' \cup WithExit'
  BY SameRequest DEF LiveInv
<1>0. QueueInv /\ sq_live \cup Executing \subseteq WithJob \cup WithExit
      /\ pipe \in Seq(Message) /\ jobs \subseteq Job
  BY DEF LiveInv, KnowsInv, QueueInv, TypeOK, WorkType
<1>1. CASE JobsSame
  BY <1>0, <1>1 DEF JobsSame, WithJob, WithExit, Exits
<1>2. ASSUME NEW m, Receive(m), NEW u \in WithExit, m.type = "exit" => u # m.task
      PROVE  u \in WithExit'
  <2>1. PICK i \in Exits : pipe[i].task = u
    BY DEF WithExit
  <2>2. pipe # <<>> /\ Head(pipe) = m /\ pipe' = Tail(pipe)
    BY <1>2 DEF Receive
  <2>3. i # 1
    BY <1>0, <1>2, <2>1, <2>2 DEF Exits
  <2>4. i - 1 \in 1..Len(pipe') /\ pipe'[i - 1] = pipe[i]
    BY <1>0, <2>1, <2>2, <2>3 DEF Exits
  <2> QED BY <2>1, <2>4 DEF Exits, WithExit
<1>3. ASSUME NEW t \in Tasks, NEW ok \in BOOLEAN, Exited(t, ok),
             sq_live' = sq_live \ {t}, Executing' = Executing \ {t}
      PROVE  sq_live' \cup Executing' \subseteq WithJob' \cup WithExit'
  <2>1. Receive([type |-> "exit", task |-> t, ok |-> ok]) /\ jobs' = jobs
    BY <1>3 DEF Exited, Receive
  <2>2. [type |-> "exit", task |-> t, ok |-> ok].task = t
    OBVIOUS
  <2>3. \A u \in WithExit : u # t => u \in WithExit'
    BY <1>2, <2>1, <2>2
  <2>4. WithJob' = WithJob
    BY <2>1 DEF WithJob
  <2> QED BY <1>0, <1>3, <2>3, <2>4
<1>4. ASSUME NEW t \in Tasks, NEW h \in Hash, ReadUnihash(t, h), UNCHANGED <<sq_live, Executing, build_stamps>>
      PROVE  sq_live' \cup Executing' \subseteq WithJob' \cup WithExit'
  <2>1. Receive([type |-> "unihash", task |-> t, hash |-> h]) /\ jobs' = jobs
    BY <1>4 DEF ReadUnihash, Receive
  <2>2. [type |-> "unihash", task |-> t, hash |-> h].type # "exit"
    OBVIOUS
  <2>3. \A u \in WithExit : u \in WithExit'
    BY <1>2, <2>1, <2>2
  <2>4. WithJob' = WithJob
    BY <2>1 DEF WithJob
  <2> QED BY <1>0, <1>4, <2>3, <2>4
<1>5. ASSUME NEW t \in Tasks, NEW setscene \in BOOLEAN, Send(t, setscene),
             sq_live' \cup Executing' = (sq_live \cup Executing) \cup {t}
      PROVE  sq_live' \cup Executing' \subseteq WithJob' \cup WithExit'
  <2> DEFINE new == [task |-> t, setscene |-> setscene, hash |-> sig[t], told |-> FALSE]
  <2>1. jobs' = jobs \cup {new} /\ pipe' = pipe
    BY <1>5 DEF Send
  <2>2. new.task = t
    OBVIOUS
  <2> HIDE DEF new
  <2> QED BY <1>0, <1>5, <2>1, <2>2 DEF WithJob, WithExit, Exits
<1>6. CASE Worker /\ UNCHANGED <<sq_live, Executing, unlessJob>>
  <2>1. ASSUME NEW j \in jobs, NEW h \in Hash, JobReport(j, h)
        PROVE  WithJob \cup WithExit \subseteq WithJob' \cup WithExit'
    <3> DEFINE new == [j EXCEPT !.hash = h, !.told = TRUE]
               m == [type |-> "unihash", task |-> j.task, hash |-> h]
    <3>1. new.task = j.task
      BY <1>0 DEF Job
    <3>2. jobs' = (jobs \ {j}) \cup {new} /\ pipe' = Append(pipe, m)
      BY <2>1 DEF JobReport
    <3>3. Exits' = Exits /\ \A i \in Exits : pipe'[i] = pipe[i]
      BY <1>0, <3>2 DEF Exits
    <3> HIDE DEF new, m
    <3> QED BY <3>1, <3>2, <3>3 DEF WithJob, WithExit
  <2>2. ASSUME NEW j \in jobs, NEW ok \in BOOLEAN, JobExit(j, ok)
        PROVE  WithJob \cup WithExit \subseteq WithJob' \cup WithExit'
    <3> DEFINE m == [type |-> "exit", task |-> j.task, ok |-> ok]
               n == Len(pipe) + 1
    <3>1. jobs' = jobs \ {j} /\ pipe' = Append(pipe, m)
      BY <2>2 DEF JobExit
    <3>2. Exits' = Exits \cup {n} /\ pipe'[n] = m /\ \A i \in Exits : pipe'[i] = pipe[i]
      BY <1>0, <3>1 DEF Exits
    <3>3. m.task = j.task
      OBVIOUS
    <3> HIDE DEF m, n
    <3> QED BY <3>1, <3>2, <3>3 DEF WithJob, WithExit
  <2> QED BY <1>0, <1>6, <2>1, <2>2 DEF Worker
<1>7. CASE WorkerQuit /\ UNCHANGED <<sq_live, Executing, build_stamps>>
  <2>1. Active <= 0
    BY <1>7 DEF WorkerQuit, EndInv, Gentle, Over
  <2>2. Executing = {} /\ sq_live = {}
    BY <1>0, <2>1, ActiveCounts DEF Spoilt
  <2> QED BY <1>7, <2>2
<1>8. ASSUME NEW t \in Setscene, SqStart(t) PROVE Send(t, TRUE) /\ t \in Tasks
  BY <1>8, SetsceneAssumption DEF SqStart
<1>9. ASSUME NEW t \in Tasks, StartTask(t) PROVE Send(t, FALSE)
  BY <1>9 DEF StartTask
<1>10. CASE \E t \in Setscene : /\ SqStart(t) /\ t \notin sq_live \cup Executing
                                /\ sq_live' = sq_live \cup {t} /\ Executing' = Executing
  BY <1>5, <1>8, <1>10
<1>11. CASE \E t \in Tasks : /\ StartTask(t) /\ t \notin sq_live \cup Executing
                             /\ Executing' = Executing \cup {t} /\ sq_live' = sq_live
  BY <1>5, <1>9, <1>11
<1> QED BY <1>0, <1>1, <1>3, <1>4, <1>6, <1>7, <1>10, <1>11, WorkStep

LEMMA LiveInit == Init => LiveInv
BY DEF Init, LiveInv, Executing

\* There are as many jobs, and as many exits, as there are tasks that have one.
LEMMA CountedOnce ==
    ASSUME QueueInv
    PROVE  /\ IsFiniteSet(WithJob) /\ Cardinality(jobs) = Cardinality(WithJob)
           /\ IsFiniteSet(WithExit) /\ Cardinality(Exits) = Cardinality(WithExit)
<1>1. WithJob \in SUBSET Tasks /\ WithExit \in SUBSET Tasks
  BY SetsceneAssumption DEF WithJob, WithExit, Exits, QueueInv, TypeOK, WorkType, Job, SchedInv, JobInv,
       RunqType, SceneType, Executing
<1>2. IsFiniteSet(WithJob) /\ IsFiniteSet(WithExit)
  BY <1>1, FiniteTasks
<1>3. ExistsBijection(WithJob, jobs)
  <2> DEFINE F == [t \in WithJob |-> CHOOSE j \in jobs : j.task = t]
  <2>1. \A t \in WithJob : F[t] \in jobs /\ F[t].task = t
    BY DEF WithJob
  <2>2. F \in [WithJob -> jobs]
    BY <2>1
  <2>3. \A t, u \in WithJob : F[t] = F[u] => t = u
    BY <2>1
  <2>4. \A j \in jobs : \E t \in WithJob : F[t] = j
    <3>1. \A j, k \in jobs : j.task = k.task => j = k
      BY DEF QueueInv, SchedInv, JobInv
    <3>2. \A j \in jobs : j.task \in WithJob
      BY DEF WithJob
    <3> HIDE DEF F
    <3> QED BY <2>1, <3>1, <3>2
  <2> HIDE DEF F
  <2>5. F \in Bijection(WithJob, jobs)
    BY <2>2, <2>3, <2>4, Fun_IsBij
  <2> QED BY <2>5 DEF ExistsBijection
<1>4. ExistsBijection(WithExit, Exits)
  <2> DEFINE F == [t \in WithExit |-> CHOOSE i \in Exits : pipe[i].task = t]
  <2>1. \A t \in WithExit : F[t] \in Exits /\ pipe[F[t]].task = t
    BY DEF WithExit
  <2>2. F \in [WithExit -> Exits]
    BY <2>1
  <2>3. \A t, u \in WithExit : F[t] = F[u] => t = u
    BY <2>1
  <2>4. \A i \in Exits : \E t \in WithExit : F[t] = i
    <3>1. \A i, k \in Exits : pipe[i].task = pipe[k].task => i = k
      BY DEF QueueInv, SchedInv, JobInv
    <3>2. \A i \in Exits : pipe[i].task \in WithExit
      BY DEF WithExit
    <3> HIDE DEF F
    <3> QED BY <2>1, <3>1, <3>2
  <2> HIDE DEF F
  <2>5. F \in Bijection(WithExit, Exits)
    BY <2>2, <2>3, <2>4, Fun_IsBij
  <2> QED BY <2>5 DEF ExistsBijection
<1> QED BY <1>2, <1>3, <1>4, FS_Bijection

\* The two counters count exactly the jobs that run and those whose exit has
\* still to be read, but for the builds ActiveIsLive excepts.
THEOREM CountersRight == Spec => []ActiveIsLive
<1>1. Init => KnowsInv /\ EndInv /\ LiveInv
  BY KnowsInit, EndInit, LiveInit
<1>2. KnowsInv /\ EndInv /\ LiveInv /\ [Next]_vars => (KnowsInv /\ EndInv /\ LiveInv)'
  BY KnowsNext, EndNext, LiveNext
<1>3. KnowsInv /\ LiveInv => ActiveIsLive
  <2> SUFFICES ASSUME QueueInv, LiveInv,
                      request \cap {"forceshutdown", "enforce", "nofakeworker"} = {}
               PROVE  Active = Cardinality(jobs) + Cardinality(Exits)
    BY DEF ActiveIsLive, KnowsInv
  <2>1. Active = Cardinality(Executing) + Cardinality(sq_live)
    BY ActiveCounts DEF Spoilt
  <2>2. sq_live \cap Executing = {}
    BY LiveApart
  <2>3. /\ IsFiniteSet(Executing) /\ IsFiniteSet(sq_live)
    BY FiniteTasks, SetsceneAssumption DEF QueueInv, TypeOK, RunqType, SceneType, Executing
  <2>4. WithJob \cup WithExit = sq_live \cup Executing /\ WithJob \cap WithExit = {}
    BY DEF LiveInv, WithJob, WithExit, QueueInv, SchedInv, JobInv
  <2>5. Cardinality(sq_live \cup Executing) = Cardinality(sq_live) + Cardinality(Executing)
    <3>1. Cardinality(sq_live \cup Executing)
            = Cardinality(sq_live) + Cardinality(Executing) - Cardinality(sq_live \cap Executing)
      BY <2>3, FS_Union
    <3>2. Cardinality(sq_live \cap Executing) = 0
      BY <2>2, FS_EmptySet
    <3>3. Cardinality(sq_live) \in Nat /\ Cardinality(Executing) \in Nat
      BY <2>3, FS_CardinalityType
    <3> QED BY <3>1, <3>2, <3>3
  <2>6. Cardinality(WithJob \cup WithExit) = Cardinality(WithJob) + Cardinality(WithExit)
    <3>1. Cardinality(WithJob \cup WithExit)
            = Cardinality(WithJob) + Cardinality(WithExit) - Cardinality(WithJob \cap WithExit)
      BY CountedOnce, FS_Union
    <3>2. Cardinality(WithJob \cap WithExit) = 0
      BY <2>4, FS_EmptySet
    <3>3. Cardinality(WithJob) \in Nat /\ Cardinality(WithExit) \in Nat
      BY CountedOnce, FS_CardinalityType
    <3> QED BY <3>1, <3>2, <3>3
  <2>7. Cardinality(sq_live) \in Nat /\ Cardinality(Executing) \in Nat
    BY <2>3, FS_CardinalityType
  <2>8. Cardinality(sq_live \cup Executing) = Cardinality(jobs) + Cardinality(Exits)
    BY <2>4, <2>6, CountedOnce
  <2> QED BY <2>1, <2>5, <2>7, <2>8
<1> QED BY <1>1, <1>2, <1>3, PTL DEF Spec

-----------------------------------------------------------------------------
(* Inputs *)

\* The setscene tasks that have come from the cache and are not to migrate.
Kept == sq.covered \ (todo \cup pending_migrations)

\* What has come from the cache is not asked to migrate.
LEMMA PendingStep ==
    ASSUME QueueInv, [Next]_vars
    PROVE  todo' \cup pending_migrations'
             \subseteq todo \cup pending_migrations \cup (Setscene \ sq.covered)
<1> DEFINE Less == todo' \cup pending_migrations' \subseteq todo \cup pending_migrations
<1>1. CASE Rehash
  <2>1. PICK moved : /\ moved \cap sq.covered = {}
                     /\ todo' = pending_migrations \cup (moved \cap Setscene)
    BY <1>1, RehashMoves
  <2>2. pending_migrations' = todo'
    BY <1>1 DEF Rehash
  <2> QED BY <2>1, <2>2
<1>2. ASSUME NEW t \in Setscene, Migrate(t) PROVE Less
  BY <1>2, MigrateFacts
<1>3. MigrateEnd \/ (\E t \in Setscene : MigrateNot(t)) => Less
  BY DEF MigrateEnd, MigrateNot
<1>4. Read => Less
  BY DEF Read, ReadSqComplete, ReadSqFail, ReadComplete, ReadFail, ReadUnihash, Exited, Receive,
         EndRead, EndWait, moveVars
<1>5. SceneStep => Less
  BY DEF SceneStep, SqNotNeeded, SqInvalid, SqOutright, SqStampPresent, SqStart, SqNone, Holdoff,
         sqStepUnchanged, moveVars
<1>6. RunStep => Less
  BY DEF RunStep, Refuse, SkipTask, RunNoexec, StartTask, SchedNone, TailWait, SpawnFail, TailForce, TailEnd,
         schedUnchanged, unlessTail, moveVars
<1>7. Worker \/ Finish \/ WorkerQuit \/ TornDown \/ FinishGone \/ Stop \/ ForceStop => Less
  BY DEF Worker, JobReport, JobExit, Finish, WorkerQuit, TornDown, FinishGone, Stop, ForceStop,
         unlessFinish, unlessJob, moveVars
<1>8. Terminated \/ UNCHANGED vars => Less
  BY DEF Terminated, vars, moveVars
<1>9. Migrations => Rehash \/ Less
  BY <1>2, <1>3 DEF Migrations
<1> QED BY <1>1, <1>4, <1>5, <1>6, <1>7, <1>8, <1>9 DEF Next, Server

\* So it stays, and so does what is said of it.
LEMMA KeptKept ==
    ASSUME QueueInv, [Next]_vars, NEW v \in Kept
    PROVE  v \in Kept' /\ (v \in sq.notcovered => v \in sq'.notcovered)
<1>1. v \in sq.covered /\ v \notin todo \cup pending_migrations
  BY DEF Kept
<1>2. v \notin todo' \cup pending_migrations'
  BY <1>1, PendingStep
<1>3. v \in sq'.covered /\ (v \in sq.notcovered => v \in sq'.notcovered)
  <2>1. ASSUME NEW good \in SUBSET Setscene, NEW bad \in SUBSET Setscene, Settled(good, bad)
        PROVE  sq.covered \subseteq sq'.covered /\ sq.notcovered \subseteq sq'.notcovered
    BY <2>1, SettledFacts
  <2>2. ASSUME NEW t \in Setscene, SqStart(t)
        PROVE  sq.covered \subseteq sq'.covered /\ sq.notcovered \subseteq sq'.notcovered
    BY <2>2, StartSame
  <2>3. ASSUME NEW t \in Setscene, Migrate(t)
        PROVE  v # t /\ sq'.covered = sq.covered \ {t} /\ sq'.notcovered = sq.notcovered \ {t}
    BY <1>1, <2>3, MigrateFacts
  <2> QED BY <1>1, <2>1, <2>2, <2>3, SqStep
<1> QED BY <1>2, <1>3 DEF Kept

\* What was skipped as covered has come from the cache, if it can; and it did not
\* have to be built.
OutputInv ==
    \A d \in runq_complete \ runq_tasksrun :
        IF d \in Setscene THEN d \in Kept ELSE d \notin unskippable

LEMMA OutputNext ==
    ASSUME KnowsInv, OutputInv, [Next]_vars
    PROVE  OutputInv'
<1>0. QueueInv
  BY DEF KnowsInv
<1>1. CASE UNCHANGED <<runq_complete, runq_tasksrun>>
  BY <1>0, <1>1, KeptKept DEF OutputInv
<1>2. ASSUME NEW t \in Tasks, Ended(t) PROVE OutputInv'
  <2>1. CASE runq_tasksrun' = runq_tasksrun \cup {t}
    <3>1. runq_complete' \ runq_tasksrun' \subseteq runq_complete \ runq_tasksrun
      BY <1>2, <2>1 DEF Ended
    <3> QED BY <1>0, <3>1, KeptKept DEF OutputInv
  <2>2. CASE runq_tasksrun' = runq_tasksrun /\ SkipTask(t) /\ t \in tasks_covered
    <3>1. ~holdoff_need_update /\ ~changed /\ todo = {}
      BY <1>0, <2>2, PickedFacts DEF SkipTask
    <3>2. t \in Setscene => t \in sq.covered \ sq.notcovered
      BY <2>2, <3>1 DEF KnowsInv, KnownInv, QueueInv, SchedInv, HoldInv, UpToDate, CoveredBy
    <3>3. t \in Setscene => t \in Kept
      BY <3>2 DEF Kept, KnowsInv, QueueInv, SchedInv, MoveInv
    <3>4. t \notin Setscene => t \notin unskippable
      BY <2>2, <3>1 DEF KnowsInv, KnownInv
    <3>5. runq_complete' = runq_complete \cup {t}
      BY <1>2 DEF Ended
    <3> QED BY <1>0, <2>2, <3>3, <3>4, <3>5, KeptKept DEF OutputInv
  <2> QED BY <1>2, <2>1, <2>2 DEF Ended
<1>3. ASSUME NEW t \in Tasks, StartTask(t) PROVE UNCHANGED <<runq_complete, runq_tasksrun>>
  BY <1>3 DEF StartTask
<1> QED BY <1>0, <1>1, <1>2, <1>3, RunqStep

\* A dependency of an executing task that has not run has come from the cache; or
\* else it was skipped because v did, and v is held to have come from the cache
\* and to have failed.
InputInv ==
    \A t \in Executing : \A d \in depends[t] :
        \/ d \in Setscene \cup runq_tasksrun
        \/ \E v \in Setscene : d \in sq_covered_tasks[v] /\ v \in Kept \cap sq.notcovered

LEMMA InputStart ==
    ASSUME KnowsInv, OutputInv, NEW t \in Tasks, StartTask(t), NEW d \in depends[t],
           d \notin Setscene \cup runq_tasksrun
    PROVE  \E v \in Setscene : d \in sq_covered_tasks[v] /\ v \in Kept \cap sq.notcovered
<1>0. QueueInv /\ Picked(t) /\ t \notin tasks_covered
  BY DEF KnowsInv, StartTask, Ready
<1>1. ~holdoff_need_update /\ ~changed
  BY <1>0, PickedFacts
<1>2. d \in runq_complete
  BY <1>0, ReadyPicked DEF KnowsInv
<1>3. d \notin unskippable
  BY <1>2 DEF OutputInv
<1>4. t \in CoveredBy(sq.notcovered) \cup (unskippable \ Setscene)
  BY <1>0, <1>1 DEF Picked, Eligible, KnowsInv, KnownInv
<1>5. t \in CoveredBy(sq.notcovered)
  BY <1>3, <1>4, UnskippableFacts
<1>6. PICK v \in sq.notcovered : t \in {v} \cup sq_covered_tasks[v]
  BY <1>5 DEF CoveredBy
<1>7. v \in Setscene
  BY <1>0 DEF QueueInv, TypeOK, SceneType, SqSets
<1>8. d \in sq_covered_tasks[v]
  BY <1>6, <1>7, CoveredFacts
<1>9. v \in Kept
  BY <1>0, <1>2, <1>7, <1>8 DEF QueueInv, SchedInv, MoveInv, Kept
<1> QED BY <1>6, <1>7, <1>8, <1>9

LEMMA InputNext ==
    ASSUME KnowsInv, OutputInv, InputInv, [Next]_vars
    PROVE  InputInv'
<1>0. QueueInv
  BY DEF KnowsInv
<1>1. runq_tasksrun \subseteq runq_tasksrun'
  <2>1. ASSUME NEW t \in Tasks, StartTask(t) PROVE UNCHANGED runq_tasksrun
    BY <2>1 DEF StartTask
  <2> QED BY <1>0, <2>1, RunqStep DEF Ended
<1>2. \A t \in Executing : \A d \in depends[t] :
        \/ d \in Setscene \cup runq_tasksrun'
        \/ \E v \in Setscene : d \in sq_covered_tasks[v] /\ v \in Kept' \cap sq'.notcovered
  BY <1>0, <1>1, KeptKept DEF InputInv
<1>3. ASSUME NEW t \in Tasks, StartTask(t), NEW d \in depends[t]
      PROVE  \/ d \in Setscene \cup runq_tasksrun'
             \/ \E v \in Setscene : d \in sq_covered_tasks[v] /\ v \in Kept' \cap sq'.notcovered
  <2>1. \/ d \in Setscene \cup runq_tasksrun
        \/ \E v \in Setscene : d \in sq_covered_tasks[v] /\ v \in Kept \cap sq.notcovered
    BY <1>3, InputStart
  <2> QED BY <1>0, <1>1, <2>1, KeptKept
<1>4. \A t \in Executing' : t \in Executing \/ (t \in Tasks /\ StartTask(t))
  BY <1>0, WorkStep DEF JobsSame
<1> QED BY <1>2, <1>3, <1>4 DEF InputInv

\* When a task runs, each of its dependencies has run, or its output has come
\* from the cache: unless a setscene task is held to have come from the cache and
\* to have failed, which TailForce can bring about.
THEOREM InputsAreThere == Spec => [](NotBoth => InputsAvailable)
<1> DEFINE Inv == KnowsInv /\ OutputInv /\ InputInv
<1>1. Init => Inv
  BY KnowsInit DEF Init, OutputInv, InputInv, Executing
<1>2. Inv /\ [Next]_vars => Inv'
  BY KnowsNext, OutputNext, InputNext
<1>3. Inv => (NotBoth => InputsAvailable)
  <2> SUFFICES ASSUME Inv, NotBoth, NEW t \in Ordinary, NEW d \in depends[t]
               PROVE  d \in runq_tasksrun \cup sq.covered
    BY DEF InputsAvailable
  <2>1. t \in Executing /\ QueueInv
    BY DEF Ordinary, KnowsInv, QueueInv, SchedInv, JobInv
  <2>2. d \in Setscene \cup runq_tasksrun
    BY <2>1 DEF InputInv, NotBoth, Kept
  <2>3. d \in runq_complete
    BY <2>1 DEF Executing, KnowsInv, BuildableReady
  <2> QED BY <2>2, <2>3 DEF OutputInv, Kept
<1> QED BY <1>1, <1>2, <1>3, PTL DEF Spec

-----------------------------------------------------------------------------
(* Stamps *)

\* build_stamps has the stamps of the tasks that are worked on only; and that of
\* each job until its hash turns out to be another.
StampsLive == \A b \in build_stamps : b.task \in sq_live \cup Executing
StampsKept ==
    \A j \in jobs : ~j.told =>
        [task |-> j.task, setscene |-> j.setscene, hash |-> j.hash] \in build_stamps
StampInv == StampsLive /\ StampsKept /\ StampsOfStart

LEMMA StampSame ==
    ASSUME StampInv, jobs' \subseteq jobs, StampsLive', StampsKept'
    PROVE  StampInv'
BY DEF StampInv, StampsOfStart

LEMMA StampNext ==
    ASSUME QueueInv, StampInv, [Next]_vars
    PROVE  StampInv'
<1>0. /\ \A j \in jobs : j.task \in sq_live \cup Executing
      /\ \A j, k \in jobs : j.task = k.task => j = k
      /\ \A i \in Exits : \A j \in jobs : j.task # pipe[i].task
      /\ jobs \subseteq Job /\ pipe \in Seq(Message)
  BY DEF QueueInv, SchedInv, JobInv, TypeOK, WorkType
<1>1. CASE JobsSame
  <2>1. StampsLive'
    BY <1>1 DEF JobsSame, StampInv, StampsLive
  <2>2. StampsKept'
    BY <1>0, <1>1 DEF JobsSame, StampInv, StampsKept
  <2> QED BY <1>1, <2>1, <2>2, StampSame DEF JobsSame
<1>2. ASSUME NEW t \in Tasks, NEW ok \in BOOLEAN, Exited(t, ok),
             sq_live' = sq_live \ {t}, Executing' = Executing \ {t}
      PROVE  StampInv'
  <2>1. /\ build_stamps' = {b \in build_stamps : b.task # t} /\ jobs' = jobs
        /\ pipe # <<>> /\ Head(pipe) = [type |-> "exit", task |-> t, ok |-> ok]
    BY <1>2 DEF Exited, Receive
  <2>2. 1 \in Exits /\ pipe[1].task = t
    BY <1>0, <2>1 DEF Exits
  <2>3. \A j \in jobs : j.task # t
    BY <1>0, <2>2
  <2>4. StampsLive'
    BY <1>2, <2>1 DEF StampInv, StampsLive
  <2>5. StampsKept'
    BY <2>1, <2>3 DEF StampInv, StampsKept
  <2> QED BY <2>1, <2>4, <2>5, StampSame
<1>3. ASSUME NEW t \in Tasks, NEW h \in Hash, ReadUnihash(t, h),
             UNCHANGED <<sq_live, Executing, build_stamps>>
      PROVE  StampInv'
  <2>1. jobs' = jobs
    BY <1>3 DEF ReadUnihash, Receive
  <2> QED BY <1>3, <2>1, StampSame DEF StampInv, StampsLive, StampsKept
<1>4. ASSUME NEW t \in Tasks, NEW setscene \in BOOLEAN, Send(t, setscene),
             t \notin sq_live \cup Executing,
             sq_live' \cup Executing' = (sq_live \cup Executing) \cup {t}
      PROVE  StampsLive' /\ StampsKept'
  <2> DEFINE new == [task |-> t, setscene |-> setscene, hash |-> sig[t], told |-> FALSE]
             made == [task |-> t, setscene |-> setscene, hash |-> sig[t]]
  <2>1. /\ jobs' = jobs \cup {new}
        /\ build_stamps' = {b \in build_stamps : b.task # t} \cup {made}
    BY <1>4 DEF Send
  <2>2. /\ new.task = t /\ made.task = t
        /\ made = [task |-> new.task, setscene |-> new.setscene, hash |-> new.hash]
    OBVIOUS
  <2>3. \A j \in jobs : j.task # t
    BY <1>0, <1>4
  <2> HIDE DEF new, made
  <2>4. StampsLive'
    BY <1>4, <2>1, <2>2 DEF StampInv, StampsLive
  <2>5. StampsKept'
    BY <2>1, <2>2, <2>3 DEF StampInv, StampsKept
  <2> QED BY <2>4, <2>5
<1>5. ASSUME NEW t \in Setscene, SqStart(t), t \notin sq_live \cup Executing,
             sq_live' = sq_live \cup {t}, Executing' = Executing
      PROVE  StampInv'
  <2>1. Send(t, TRUE) /\ t \in Tasks
    BY <1>5, SetsceneAssumption DEF SqStart
  <2>2. StampsLive' /\ StampsKept'
    BY <1>4, <1>5, <2>1
  <2>3. \A j \in jobs' : ~j.setscene => j \in jobs
    BY <2>1 DEF Send
  <2> QED BY <2>2, <2>3 DEF StampInv, StampsOfStart
<1>6. ASSUME NEW t \in Tasks, StartTask(t), t \notin sq_live \cup Executing,
             Executing' = Executing \cup {t}, sq_live' = sq_live
      PROVE  StampInv'
  <2> DEFINE new == [task |-> t, setscene |-> FALSE, hash |-> sig[t], told |-> FALSE]
  <2>1. Send(t, FALSE) /\ Eligible(t)
    BY <1>6 DEF StartTask, Ready, Picked
  <2>2. StampsLive' /\ StampsKept'
    BY <1>4, <1>6, <2>1
  <2>3. jobs' = jobs \cup {new}
    BY <2>1 DEF Send
  <2>4. ASSUME NEW k \in jobs, ~k.setscene, ~k.told, k.hash = Unihash0[t]
        PROVE  Stamp[k.task] # Stamp[t]
    <3> DEFINE b == [task |-> k.task, setscene |-> k.setscene, hash |-> k.hash]
    <3>1. b \in build_stamps
      BY <2>4 DEF StampInv, StampsKept
    <3>2. b.task = k.task /\ b.setscene = k.setscene /\ b.hash = k.hash
      OBVIOUS
    <3> HIDE DEF b
    <3> QED BY <2>1, <2>4, <3>1, <3>2 DEF Eligible
  <2>5. new.task = t /\ new.hash = sig[t]
    OBVIOUS
  <2> HIDE DEF new
  <2>7. StampsOfStart /\ UNCHANGED Unihash0
    BY DEF StampInv
  <2>8. ASSUME NEW k \in jobs', NEW l \in jobs', k.task # l.task, ~k.setscene, ~l.setscene,
               ~k.told, ~l.told, k.hash = l.hash, k.hash = Unihash0[k.task],
               l.hash = Unihash0[l.task]
        PROVE  Stamp[k.task] # Stamp[l.task]
    <3>1. CASE k \in jobs /\ l \in jobs
      BY <2>7, <2>8, <3>1 DEF StampsOfStart
    <3>2. CASE k = new /\ l \in jobs
      BY <2>4, <2>5, <2>8, <3>2
    <3>3. CASE l = new /\ k \in jobs
      BY <2>4, <2>5, <2>8, <3>3
    <3>4. k # new \/ l # new
      BY <2>8
    <3> QED BY <2>3, <3>1, <3>2, <3>3, <3>4
  <2>6. StampsOfStart'
    BY <2>8 DEF StampsOfStart
  <2> QED BY <2>2, <2>6 DEF StampInv
<1>7. CASE Worker /\ UNCHANGED <<sq_live, Executing, unlessJob>>
  <2>1. UNCHANGED build_stamps
    BY <1>7 DEF unlessJob
  <2>2. ASSUME NEW j \in jobs, NEW h \in Hash, JobReport(j, h) PROVE StampInv'
    <3> DEFINE new == [j EXCEPT !.hash = h, !.told = TRUE]
    <3>1. jobs' = (jobs \ {j}) \cup {new}
      BY <2>2 DEF JobReport
    <3>2. new.told
      BY <1>0 DEF Job
    <3> HIDE DEF new
    <3>3. StampsLive' /\ StampsKept'
      BY <1>7, <2>1, <3>1, <3>2 DEF StampInv, StampsLive, StampsKept
    <3>4. StampsOfStart'
      BY <3>1, <3>2 DEF StampInv, StampsOfStart
    <3> QED BY <3>3, <3>4 DEF StampInv
  <2>3. ASSUME NEW j \in jobs, NEW ok \in BOOLEAN, JobExit(j, ok) PROVE StampInv'
    <3>1. jobs' \subseteq jobs
      BY <2>3 DEF JobExit
    <3>2. StampsLive' /\ StampsKept'
      BY <1>7, <2>1, <3>1 DEF StampInv, StampsLive, StampsKept
    <3> QED BY <3>1, <3>2, StampSame
  <2> QED BY <1>7, <2>2, <2>3 DEF Worker
<1>8. CASE WorkerQuit /\ UNCHANGED <<sq_live, Executing, build_stamps>>
  <2>1. jobs' = {}
    BY <1>8 DEF WorkerQuit
  <2> QED BY <1>8, <2>1, StampSame DEF StampInv, StampsLive, StampsKept
<1> QED BY <1>1, <1>2, <1>3, <1>5, <1>6, <1>7, <1>8, WorkStep

LEMMA StampInit == Init => StampInv
BY DEF Init, StampInv, StampsLive, StampsKept, StampsOfStart

\* No two ordinary jobs whose hashes are those of the start make one stamp.
THEOREM StampsMadeOnce == Spec => []StampsOfStart
<1>1. Init => QueueInv /\ StampInv
  BY QueueInit, StampInit
<1>2. QueueInv /\ StampInv /\ [Next]_vars => (QueueInv /\ StampInv)'
  BY QueueNext, StampNext
<1>3. StampInv => StampsOfStart
  BY DEF StampInv
<1> QED BY <1>1, <1>2, <1>3, PTL DEF Spec

-----------------------------------------------------------------------------
(* Setscene tasks are freed *)

LEMMA SqGraph ==
    /\ sq_revdeps \in [Setscene -> SUBSET Setscene]
    /\ \A t, g \in Setscene : t \in sq_deps[g] <=> g \in sq_revdeps[t]
<1>1. sq_revdeps = [t \in Setscene |->
        (IF sq_harddeps[t] # {} THEN {} ELSE SquashedRevDeps(depends, Setscene)[t])
            \cup {u \in Setscene : t \in sq_harddeps[u]}]
  BY DEF sq_revdeps, SqRevDeps
<1>2. \A t \in Setscene : SquashedRevDeps(depends, Setscene)[t] \subseteq Setscene
  BY DEF SquashedRevDeps
<1>3. \A t \in Setscene :
        (IF sq_harddeps[t] # {} THEN {} ELSE SquashedRevDeps(depends, Setscene)[t])
            \cup {u \in Setscene : t \in sq_harddeps[u]} \in SUBSET Setscene
  BY <1>2
<1>4. sq_revdeps \in [Setscene -> SUBSET Setscene]
  BY <1>1, <1>3
<1>5. sq_deps = [t \in Setscene |-> {u \in Setscene : t \in sq_revdeps[u]}]
  BY DEF sq_deps, SqDeps, sq_revdeps
<1> QED BY <1>4, <1>5

\* A setscene task that waits for nothing undecided may be started, unless it is
\* about to fail with a hard dependency.
FreedOK(q, late) ==
    \A t \in Setscene \ late : sq_revdeps[t] \subseteq Resolved(q) => t \in q.buildable

LEMMA FreedSkip ==
    ASSUME NEW q \in SqSets, NEW late, FreedOK(q, late), NEW tids \in SUBSET Setscene
    PROVE  FreedOK(SqSkip(q, tids), late)
<1> DEFINE d == Dispatched(q, tids)
           p == SqSkip(q, tids)
<1>1. /\ d.covered = q.covered /\ d.notcovered = q.notcovered
      /\ d.buildable = q.buildable \cup tids
  BY DEF Dispatched, SqSets
<1>2. /\ Resolved(p) = Resolved(q) \cup tids /\ q.buildable \subseteq p.buildable
  BY SkipFacts
<1>3. PICK none : none = {}
  OBVIOUS
<1>4. p = Settle(d, tids, none) /\ HardFailures(d, none) = none
  BY <1>3, HardFacts DEF SqSkip
<1>5. \A t \in Setscene, g \in tids :
        sq_revdeps[t] \subseteq Resolved(d) \cup tids /\ t \in sq_deps[g] => t \in p.buildable
  <2> HIDE DEF d
  <2>1. p.buildable = d.buildable \cup
          {t \in Setscene :
             /\ sq_revdeps[t] \subseteq Resolved(d) \cup tids \cup none
             /\ \/ \E g \in tids : t \in sq_deps[g]
                \/ \E g \in none : t \in sq_deps[g] \ sq_harddeps[g]} \cup (none \ none)
    BY <1>4 DEF Settle
  <2>2. Resolved(d) \cup tids \cup none = Resolved(d) \cup tids
    BY <1>3
  <2> QED BY <2>1, <2>2
<1>6. Resolved(d) = Resolved(q)
  BY <1>1 DEF Resolved
<1> HIDE DEF d, p
<1>7. ASSUME NEW t \in Setscene \ late, sq_revdeps[t] \subseteq Resolved(p)
      PROVE  t \in p.buildable
  <2>1. CASE sq_revdeps[t] \subseteq Resolved(q)
    BY <1>2, <2>1 DEF FreedOK
  <2>2. CASE ~(sq_revdeps[t] \subseteq Resolved(q))
    <3>1. PICK g \in tids : g \in sq_revdeps[t]
      BY <1>2, <1>7, <2>2
    <3> QED BY <1>2, <1>5, <1>6, <1>7, <3>1, SqGraph
  <2> QED BY <2>1, <2>2
<1> QED BY <1>7 DEF FreedOK, p

LEMMA FreedFail ==
    ASSUME NEW q \in SqSets, NEW late, FreedOK(q, late), Resolved(q) \subseteq q.buildable,
           NEW tids \in SUBSET Setscene
    PROVE  FreedOK(SqFailOutright(q, tids), late \ tids)
<1> DEFINE d == Dispatched(q, tids)
           p == SqFailOutright(q, tids)
           fails == HardFailures(q, tids)
<1>1. /\ d.covered = q.covered /\ d.notcovered = q.notcovered
      /\ d.buildable = q.buildable \cup tids
  BY DEF Dispatched, SqSets
<1>2. /\ Resolved(p) = Resolved(q) \cup fails /\ q.buildable \cup fails \subseteq p.buildable
  BY FailFacts
<1>3. /\ tids \subseteq fails /\ fails \subseteq Setscene
      /\ \A u \in fails : sq_harddeps[u] \subseteq fails \cup Resolved(q)
  BY HardFacts
<1>4. PICK none : none = {}
  OBVIOUS
<1>5. p = Settle(d, none, tids) /\ HardFailures(d, tids) = fails
  BY <1>1, <1>4 DEF SqFailOutright, HardFailures, Resolved
<1>6. Resolved(d) = Resolved(q)
  BY <1>1 DEF Resolved
<1> HIDE DEF d, p, fails
<1>7. \A t \in Setscene, g \in fails :
        /\ sq_revdeps[t] \subseteq Resolved(d) \cup fails
        /\ t \in sq_deps[g] \ sq_harddeps[g]
        => t \in p.buildable
  <2>1. p.buildable = d.buildable \cup
          {t \in Setscene :
             /\ sq_revdeps[t] \subseteq Resolved(d) \cup none \cup fails
             /\ \/ \E g \in none : t \in sq_deps[g]
                \/ \E g \in fails : t \in sq_deps[g] \ sq_harddeps[g]} \cup (fails \ tids)
    BY <1>5 DEF Settle
  <2>2. Resolved(d) \cup none \cup fails = Resolved(d) \cup fails
    BY <1>4
  <2> QED BY <2>1, <2>2
<1>8. ASSUME NEW t \in Setscene \ (late \ tids), sq_revdeps[t] \subseteq Resolved(p)
      PROVE  t \in p.buildable
  <2>1. CASE t \in fails \cup Resolved(q)
    BY <1>2, <2>1
  <2>2. CASE t \notin fails \cup Resolved(q) /\ sq_revdeps[t] \subseteq Resolved(q)
    BY <1>2, <1>3, <2>2 DEF FreedOK
  <2>3. CASE t \notin fails \cup Resolved(q) /\ ~(sq_revdeps[t] \subseteq Resolved(q))
    <3>1. PICK g \in fails : g \in sq_revdeps[t]
      BY <1>2, <1>8, <2>3
    <3>2. t \in sq_deps[g] \ sq_harddeps[g]
      BY <1>3, <2>3, <3>1, SqGraph
    <3> QED BY <1>2, <1>6, <1>7, <1>8, <3>2
  <2> QED BY <2>1, <2>2, <2>3
<1> QED BY <1>8 DEF FreedOK, p

\* What migrated is looked at once all of it has.
LEMMA UpdateStep ==
    ASSUME QueueInv, [Next]_vars
    PROVE  \/ UNCHANGED update_tasks
           \/ MigrateEnd
           \/ \E t \in Setscene : Migrate(t)
<1> DEFINE Same == UNCHANGED update_tasks
<1>1. Rehash => Same
  BY DEF Rehash, QueueInv, SchedInv, SceneInv
<1>2. (\E t \in Setscene : MigrateNot(t)) => Same
  BY DEF MigrateNot
<1>3. Read => Same
  BY DEF Read, ReadSqComplete, ReadSqFail, ReadComplete, ReadFail, ReadUnihash, Exited, Receive,
         EndRead, EndWait, moveVars
<1>4. SceneStep => Same
  BY DEF SceneStep, SqNotNeeded, SqInvalid, SqOutright, SqStampPresent, SqStart, SqNone, Holdoff,
         sqStepUnchanged, moveVars
<1>5. RunStep => Same
  BY DEF RunStep, Refuse, SkipTask, RunNoexec, StartTask, SchedNone, TailWait, SpawnFail, TailForce, TailEnd,
         schedUnchanged, unlessTail, moveVars
<1>6. Worker \/ Finish \/ WorkerQuit \/ TornDown \/ FinishGone \/ Stop \/ ForceStop => Same
  BY DEF Worker, JobReport, JobExit, Finish, WorkerQuit, TornDown, FinishGone, Stop, ForceStop,
         unlessFinish, unlessJob, moveVars
<1>7. Terminated \/ UNCHANGED vars => Same
  BY DEF Terminated, vars, moveVars
<1> QED BY <1>1, <1>2, <1>3, <1>4, <1>5, <1>6, <1>7 DEF Next, Server, Migrations

LEMMA MigrateEndSettles ==
    ASSUME QueueInv, MigrateEnd
    PROVE  \E good \in SUBSET Setscene : Settled(good, Late) /\ Late \in SUBSET Setscene
<1> DEFINE tids == {u.task : u \in update_tasks}
           skips == Skipped(tids, sqstamp)
<1>1. Settled(skips, Late)
  BY DEF MigrateEnd, Late, Settled
<1>2. tids \in SUBSET Setscene /\ Late \subseteq tids
  BY DEF QueueInv, TypeOK, MoveType, Late
<1>3. skips \subseteq tids
  BY DEF Skipped
<1> HIDE DEF skips, tids
<1> QED BY <1>1, <1>2, <1>3

LEMMA FreedSettled ==
    ASSUME QueueInv, FreedOK(sq, Late), NEW good \in SUBSET Setscene, NEW bad \in SUBSET Setscene,
           Settled(good, bad)
    PROVE  FreedOK(sq', Late \ bad)
<1> DEFINE q == SqSkip(sq, good)
<1>1. sq \in SqSets /\ Resolved(sq) \subseteq sq.buildable
  BY DEF QueueInv, TypeOK, SceneType, SchedInv, SceneInv, SceneOK
<1>2. /\ q \in SqSets /\ Resolved(q) = Resolved(sq) \cup good
      /\ sq.buildable \cup good \subseteq q.buildable
  BY <1>1, SkipFacts
<1>3. FreedOK(q, Late)
  BY <1>1, FreedSkip
<1>4. sq' = SqFailOutright(q, bad)
  BY DEF Settled
<1> HIDE DEF q
<1> QED BY <1>1, <1>2, <1>3, <1>4, FreedFail

Freed == FreedOK(sq, Late)

LEMMA FreedNext == ASSUME QueueInv, Freed, [Next]_vars PROVE Freed'
<1>1. CASE MigrateEnd
  <2>1. PICK good \in SUBSET Setscene : Settled(good, Late) /\ Late \in SUBSET Setscene
    BY <1>1, MigrateEndSettles
  <2>2. FreedOK(sq', Late \ Late)
    BY <2>1, FreedSettled DEF Freed
  <2> QED BY <2>2 DEF FreedOK, Freed
<1>2. ASSUME NEW t \in Setscene, Migrate(t) PROVE Freed'
  <2>1. MigrateReset(t) /\ Resolved(sq') = Resolved(sq) \ {t}
    BY <1>2, MigrateFacts
  <2> DEFINE hard == \E u \in sq.notcovered : t \in sq_harddeps[u]
             new == [task |-> t, harddepfail |-> hard]
  <2>2. /\ sq'.buildable = (sq.buildable \ {t}) \cup
             (IF (~hard /\ sq_revdeps[t] \subseteq Resolved(sq)) \/ sq_revdeps[t] = {}
              THEN {t} ELSE {})
        /\ update_tasks' = update_tasks \cup {new}
    BY <2>1 DEF MigrateReset
  <2>3. new.task = t /\ new.harddepfail = hard
    OBVIOUS
  <2> HIDE DEF hard, new
  <2>4. Late \subseteq Late' /\ (hard => t \in Late')
    BY <2>2, <2>3 DEF Late
  <2> QED BY <2>1, <2>2, <2>4 DEF Freed, FreedOK
<1>3. CASE ~MigrateEnd /\ ~\E t \in Setscene : Migrate(t)
  <2>1. Late' = Late
    BY <1>3, UpdateStep DEF Late
  <2>2. ASSUME NEW good \in SUBSET Setscene, NEW bad \in SUBSET Setscene, Settled(good, bad)
        PROVE  Freed'
    <3>1. FreedOK(sq', Late \ bad)
      BY <2>2, FreedSettled DEF Freed
    <3> QED BY <2>1, <3>1 DEF Freed, FreedOK
  <2>3. ASSUME NEW t \in Setscene, SqStart(t) PROVE Freed'
    <3>1. Resolved(sq') = Resolved(sq) /\ sq'.buildable = sq.buildable
      BY <2>3, StartSame
    <3> QED BY <2>1, <3>1 DEF Freed, FreedOK
  <2> QED BY <1>3, <2>2, <2>3, SqStep
<1> QED BY <1>1, <1>2, <1>3

LEMMA FreedInit == Init => Freed
<1> SUFFICES ASSUME Init PROVE Freed
  OBVIOUS
<1> DEFINE present == {t \in Setscene :
                         \/ sqstamp[Stamp[t]] = Unihash0[t]
                         \/ StampCurrentBelow(t, stamp, sqstamp, {})}
           q == [buildable |-> {t \in Setscene : sq_revdeps[t] = {}},
                 running |-> {}, covered |-> {}, notcovered |-> {},
                 done |-> unskippable \ Setscene]
<1>1. sq = SqSkip(q, present)
  BY Zenon DEF Init
<1>2. q \in SqSets
  BY GraphType DEF SqSets
<1>3. present \in SUBSET Setscene /\ Late = {}
  BY DEF Init, Late
<1>4. FreedOK(q, {})
  <2>1. Resolved(q) = {} /\ q.buildable = {t \in Setscene : sq_revdeps[t] = {}}
    BY DEF Resolved
  <2> QED BY <2>1 DEF FreedOK
<1> HIDE DEF q, present
<1>5. FreedOK(sq, {})
  BY <1>1, <1>2, <1>3, <1>4, FreedSkip
<1> QED BY <1>3, <1>5 DEF Freed

-----------------------------------------------------------------------------
(* The setscene queue is over when it is said to be *)

SceneOver ==
    /\ sqdone /\ update_tasks = {} => Setscene \subseteq Resolved(sq)
    /\ "setsceneonly" \in request /\ Setscene # {} => ~sqdone

LEMMA DoneStep ==
    ASSUME [Next]_vars
    PROVE  UNCHANGED sqdone \/ MigrateEnd \/ Holdoff
<1>1. Read => UNCHANGED sqdone
  BY DEF Read, ReadSqComplete, ReadSqFail, ReadComplete, ReadFail, ReadUnihash, SqTaskComplete,
         SqTaskFail, TaskComplete, TaskFail, EndRead, EndWait, sceneVars
<1>2. Rehash \/ (\E t \in Setscene : MigrateNot(t) \/ Migrate(t)) => UNCHANGED sqdone
  BY DEF Rehash, MigrateNot, Migrate, sceneVars
<1>3. SceneStep => Holdoff \/ UNCHANGED sqdone
  BY DEF SceneStep, SqNotNeeded, SqInvalid, SqOutright, SqStampPresent, SqStart, SqNone,
         sqStepUnchanged, sceneVars
<1>4. RunStep => UNCHANGED sqdone
  BY DEF RunStep, Refuse, TaskFail, SkipTask, RunNoexec, StartTask, SchedNone, TailWait, SpawnFail,
         TailForce, TailEnd, unlessTail, sceneVars
<1>5. Worker \/ Finish \/ WorkerQuit \/ TornDown \/ FinishGone \/ Stop \/ ForceStop
        => UNCHANGED sqdone
  BY DEF Worker, JobReport, JobExit, Finish, WorkerQuit, TornDown, FinishGone, Stop, ForceStop,
         unlessFinish, unlessJob, sceneVars
<1>6. Terminated \/ UNCHANGED vars => UNCHANGED sqdone
  BY DEF Terminated, vars, sceneVars
<1> QED BY <1>1, <1>2, <1>3, <1>4, <1>5, <1>6 DEF Next, Server, Migrations

LEMMA SceneOverNext ==
    ASSUME QueueInv, SceneOver, [Next]_vars
    PROVE  SceneOver'
<1>0. request' = request
  BY SameRequest
<1>1. CASE MigrateEnd
  <2>1. sqdone' = (sqdone /\ {u.task : u \in update_tasks} = {})
    BY <1>1 DEF MigrateEnd
  <2>2. PICK good \in SUBSET Setscene : Settled(good, Late) /\ Late \in SUBSET Setscene
    BY <1>1, MigrateEndSettles
  <2>3. Resolved(sq) \subseteq Resolved(sq')
    BY <2>2, SettledFacts
  <2>4. sqdone' => sqdone /\ update_tasks = {}
    BY <2>1
  <2> QED BY <1>0, <2>3, <2>4 DEF SceneOver
<1>2. CASE Holdoff
  <2>1. UNCHANGED <<sq, update_tasks>>
    BY <1>2 DEF Holdoff, moveVars
  <2>2. \/ sqdone' = sqdone
        \/ sqdone' = ~(SceneErrors \/ "setsceneonly" \in request)
    BY <1>2 DEF Holdoff
  <2>3. CASE sqdone' = sqdone
    BY <1>0, <2>1, <2>3 DEF SceneOver
  <2>4. CASE sqdone' = ~(SceneErrors \/ "setsceneonly" \in request)
    <3>1. ~SceneErrors => Setscene \subseteq Resolved(sq)
      BY DEF SceneErrors
    <3> QED BY <1>0, <2>1, <2>4, <3>1 DEF SceneOver
  <2> QED BY <2>2, <2>3, <2>4
<1>3. CASE ~MigrateEnd /\ UNCHANGED sqdone
  <2>1. ASSUME NEW t \in Setscene, Migrate(t) PROVE update_tasks' # {}
    <3>1. MigrateReset(t)
      BY <2>1, MigrateFacts
    <3> QED BY <3>1 DEF MigrateReset
  <2>2. CASE \E t \in Setscene : Migrate(t)
    BY <1>0, <1>3, <2>1, <2>2 DEF SceneOver
  <2>3. CASE UNCHANGED update_tasks /\ ~\E t \in Setscene : Migrate(t)
    <3>1. Resolved(sq) \subseteq Resolved(sq')
      BY <2>3, SqStep, SettledFacts, StartSame
    <3> QED BY <1>0, <1>3, <2>3, <3>1 DEF SceneOver
  <2> QED BY <1>3, <2>2, <2>3, UpdateStep
<1> QED BY <1>1, <1>2, <1>3, DoneStep

LEMMA SceneOverInit == Init => SceneOver
BY DEF Init, SceneOver

-----------------------------------------------------------------------------
(* What a call has tried *)

\* The places of a call after it has followed changed hashes: those that are
\* left in updated_taskhash_queue are of tasks that run.
Places == {"migrate", "setscene", "holdoff", "sched", "tail"}
NewsTaken ==
    pc \in Places => \A u \in updated_taskhash_queue : u.task \in runq_running \ runq_complete

\* Nothing runs, and the counters say so (BB_SETSCENE_ENFORCE miscounts the tasks
\* it refuses).
Still ==
    /\ Executing = {} /\ sq_live = {}
    /\ "enforce" \notin request \/ failed_tids = {}

\* The loop over the setscene tasks has found nothing to start, and neither has
\* the scheduler.
Looked ==
    pc \in {"holdoff", "sched", "tail"} /\ Still /\ ~sqdone =>
        \A t \in Setscene : SqCandidate(t) => SqWaits(t)
Tried ==
    pc = "tail" /\ Still /\ "setsceneonly" \notin request => \A t \in Tasks : ~Eligible(t)

\* The end of the setscene queue has been looked for.
NotOver ==
    pc \in {"sched", "tail"} =>
        /\ ~holdoff_need_update
        /\ "setsceneonly" \in request /\ ~sqdone =>
             ~(/\ sq_live = {} /\ DOMAIN sq_deferred = {}
               /\ updated_taskhash_queue = {} /\ holdoff_tasks = {})

PlaceInv == NewsTaken /\ Looked /\ Tried /\ NotOver

placeVars == <<request, runq_buildable, runq_running, runq_complete, failed_tids, build_stamps,
               sq, sq_live, sq_deferred, sqdone, holdVars, holdoff_need_update,
               updated_taskhash_queue, sq_stamps>>

\* What these say does not change when what they are about does not.
LEMMA PlaceKept ==
    ASSUME UNCHANGED placeVars
    PROVE  /\ (\A u \in updated_taskhash_queue : u.task \in runq_running \ runq_complete)'
                = \A u \in updated_taskhash_queue : u.task \in runq_running \ runq_complete
           /\ Still' = Still
           /\ \A t : SqCandidate(t)' = SqCandidate(t) /\ SqWaits(t)' = SqWaits(t)
           /\ \A t : Eligible(t)' = Eligible(t)
BY DEF placeVars, holdVars, Still, Executing, SqCandidate, StampLive, SqWaits, Eligible, ThreadsUsed

LEMMA PlaceSame ==
    ASSUME PlaceInv, UNCHANGED placeVars, pc' = pc \/ pc' \notin Places
    PROVE  PlaceInv'
<1>1. CASE pc' \notin Places
  BY <1>1 DEF PlaceInv, NewsTaken, Looked, Tried, NotOver, Places
<1>2. CASE pc' = pc
  <2>1. NewsTaken'
    BY <1>2 DEF PlaceInv, NewsTaken, placeVars, Places
  <2>2. Looked' /\ Tried'
    BY <1>2, PlaceKept DEF PlaceInv, Looked, Tried, placeVars
  <2>3. NotOver'
    BY <1>2 DEF PlaceInv, NotOver, placeVars, holdVars
  <2> QED BY <2>1, <2>2, <2>3 DEF PlaceInv
<1> QED BY <1>1, <1>2

LEMMA PlaceElsewhere == ASSUME pc' \notin Places PROVE PlaceInv'
BY DEF PlaceInv, NewsTaken, Looked, Tried, NotOver, Places

LEMMA PlaceEarly ==
    ASSUME pc' \in {"migrate", "setscene"}, NewsTaken'
    PROVE  PlaceInv'
BY DEF PlaceInv, Looked, Tried, NotOver

LEMMA PlaceRead == ASSUME QueueInv, PlaceInv, Read PROVE PlaceInv'
<1>1. ASSUME NEW t \in Tasks,
             \/ ReadSqComplete(t) \/ ReadSqFail(t) \/ ReadComplete(t) \/ ReadFail(t)
             \/ \E h \in Hash : ReadUnihash(t, h)
      PROVE  pc' \notin Places
  BY <1>1 DEF ReadSqComplete, ReadSqFail, ReadComplete, ReadFail, ReadUnihash, Exited, Receive,
              Reading, Places
<1>2. CASE EndRead
  <2>1. pc' \in {"rehash", "setscene"} /\ (pc' = "setscene" => updated_taskhash_queue' = {})
    BY <1>2 DEF EndRead
  <2>2. pc' = "setscene" => NewsTaken'
    BY <2>1 DEF NewsTaken
  <2> QED BY <2>1, <2>2, PlaceEarly, PlaceElsewhere DEF Places
<1>3. EndWait => pc' \notin Places
  BY DEF EndWait, ReturnIn, Places
<1> QED BY <1>1, <1>2, <1>3, PlaceElsewhere DEF Read

LEMMA PlaceMigrations == ASSUME QueueInv, PlaceInv, Migrations PROVE PlaceInv'
<1>1. CASE Rehash
  <2>1. /\ pc' = "migrate" /\ UNCHANGED <<runq_running, runq_complete>>
        /\ updated_taskhash_queue' = updated_taskhash_queue \
             {u \in updated_taskhash_queue : u.task \notin runq_running \ runq_complete}
    BY <1>1 DEF Rehash, runqVars
  <2> QED BY <2>1, PlaceEarly DEF NewsTaken
<1>2. ASSUME pc = "migrate", pc' \in {"migrate", "setscene"},
             UNCHANGED <<runq_running, runq_complete, updated_taskhash_queue>>
      PROVE  PlaceInv'
  BY <1>2, PlaceEarly DEF PlaceInv, NewsTaken, Places
<1>3. CASE MigrateEnd
  BY <1>2, <1>3 DEF MigrateEnd, runqVars
<1>4. ASSUME NEW t \in Setscene, MigrateNot(t) PROVE PlaceInv'
  BY <1>2, <1>4 DEF MigrateNot, runqVars
<1>5. ASSUME NEW t \in Setscene, Migrate(t) PROVE PlaceInv'
  BY <1>2, <1>5, MigrateFacts DEF Migrate
<1> QED BY <1>1, <1>3, <1>4, <1>5 DEF Migrations

\* When nothing runs there is room for a job.
LEMMA StillRoom ==
    ASSUME QueueInv, Still, pc \in {"setscene", "sched"}
    PROVE  CanStartTask /\ stats_active = 0 /\ sq_active = 0
<1>1. stats_active = Cardinality(Executing) /\ sq_active = Cardinality(sq_live)
  BY DEF Spoilt, Still, QueueInv, SchedInv, SceneInv, FailInv
<1>2. stats_active = 0 /\ sq_active = 0
  BY <1>1, FS_EmptySet DEF Still
<1> QED BY <1>2, NumberTasksAssumption DEF CanStartTask, Active

LEMMA PlaceScene == ASSUME QueueInv, EndInv, PlaceInv, SceneStep PROVE PlaceInv'
<1>1. ASSUME NEW t \in Setscene,
             SqNotNeeded(t) \/ SqInvalid(t) \/ SqOutright(t) \/ SqStampPresent(t)
      PROVE  PlaceInv'
  <2>1. pc' \notin Places
    BY <1>1 DEF SqNotNeeded, SqInvalid, SqOutright, SqStampPresent, ReturnIn, Places
  <2> QED BY <2>1, PlaceElsewhere
<1>2. ASSUME NEW t \in Setscene, SqStart(t) PROVE PlaceInv'
  <2>1. /\ pc = "setscene" /\ UNCHANGED <<runq_running, runq_complete, updated_taskhash_queue>>
        /\ sq_live' # {} /\ (pc' = ReturnIn(state) \/ pc' = "holdoff")
    BY <1>2 DEF SqStart, SqNext, SqReaches, runqVars
  <2>2. CASE pc' = ReturnIn(state)
    BY <2>2, PlaceElsewhere DEF ReturnIn, Places
  <2>3. CASE pc' = "holdoff"
    BY <2>1, <2>3 DEF PlaceInv, NewsTaken, Places, Looked, Tried, NotOver, Still
  <2> QED BY <2>1, <2>2, <2>3
<1>3. CASE SqNone
  <2>1. pc = "setscene" /\ pc' = "holdoff" /\ UNCHANGED placeVars
    BY <1>3 DEF SqNone, placeVars, runqVars, sceneVars, validVars, steadyVars, moveVars
  <2>2. ASSUME Still, ~sqdone, NEW t \in Setscene, SqCandidate(t), ~SqWaits(t) PROVE FALSE
    <3> DEFINE S == {u \in Setscene : SqCandidate(u) /\ ~SqWaits(u)}
    <3>1. S \in SUBSET Nat /\ S # {}
      BY <2>2, SetsceneAssumption, TasksAssumption
    <3>2. PICK u \in S : \A w \in S : u <= w
      <4> HIDE DEF S
      <4> QED BY <3>1, LeastNat
    <3>3. \A w \in Setscene : w < u => ~SqCandidate(w) \/ SqWaits(w)
      BY <3>1, <3>2, SetsceneAssumption, TasksAssumption
    <3>4. SqReaches(u)
      BY <2>1, <2>2, <3>2, <3>3, StillRoom DEF SqReaches
    <3> QED BY <1>3, <3>2, <3>4 DEF SqNone
  <2>3. Looked'
    BY <2>1, <2>2, PlaceKept DEF Looked, placeVars
  <2> QED BY <2>1, <2>3 DEF PlaceInv, NewsTaken, Places, Tried, NotOver, placeVars
<1>4. CASE Holdoff
  <2>1. /\ pc = "holdoff" /\ UNCHANGED <<request, runq_running, runq_complete, failed_tids,
             build_stamps, sq, sq_live, sq_deferred, updated_taskhash_queue, sq_stamps>>
        /\ ~holdoff_need_update' /\ pc' \in {"sched", "teardown"}
        /\ (pc' = "sched" => state' = state)
    <3>1. ~holdoff_need_update'
      BY <1>4 DEF Holdoff, UpdateHoldoffTasks, QueueInv, TypeOK, ValidType
    <3> QED BY <1>4, <3>1 DEF Holdoff, steadyVars, moveVars
  <2>2. \/ sqdone' = sqdone /\ ~SceneComplete
        \/ SceneComplete /\ state' = IF SceneErrors THEN "Failed"
                                     ELSE IF "setsceneonly" \in request \/ Tasks = {}
                                          THEN "Complete" ELSE state
    BY <1>4 DEF Holdoff
  <2>3. CASE pc' = "sched"
    <3>1. NewsTaken'
      BY <2>1, <2>3 DEF PlaceInv, NewsTaken, Places
    <3>2. Looked'
      <4>1. ~sqdone' => ~sqdone
        BY <2>2 DEF SceneComplete
      <4>2. Still' = Still
        BY <2>1 DEF Still, Executing
      <4>3. \A t : SqCandidate(t)' = SqCandidate(t) /\ SqWaits(t)' = SqWaits(t)
        BY <2>1 DEF SqCandidate, StampLive, SqWaits
      <4> QED BY <2>1, <4>1, <4>2, <4>3 DEF PlaceInv, Looked
    <3>3. NotOver'
      <4>1. state \in {"Running", "CleanUp"}
        BY <2>1 DEF EndInv, Over
      <4>2. "setsceneonly" \in request => ~SceneComplete
        BY <2>1, <2>2, <2>3, <4>1
      <4>3. ASSUME "setsceneonly" \in request', ~sqdone', sq_live' = {}, DOMAIN sq_deferred' = {},
                   updated_taskhash_queue' = {}, holdoff_tasks' = {}
            PROVE  FALSE
        BY <2>1, <2>2, <4>2, <4>3 DEF SceneComplete
      <4> QED BY <2>1, <4>3 DEF NotOver
    <3> QED BY <2>3, <3>1, <3>2, <3>3 DEF PlaceInv, Tried
  <2> QED BY <2>1, <2>3, PlaceElsewhere DEF Places
<1> QED BY <1>1, <1>2, <1>3, <1>4 DEF SceneStep

LEMMA PlaceRun == ASSUME QueueInv, PlaceInv, RunStep PROVE PlaceInv'
<1>1. ASSUME NEW t \in Tasks, Refuse(t) \/ SkipTask(t) \/ RunNoexec(t) PROVE pc' \notin Places
  BY <1>1 DEF Refuse, SkipTask, RunNoexec, ReturnIn, Places
<1>2. TailWait \/ TailForce \/ TailEnd => pc' \notin Places
  BY DEF TailWait, TailForce, TailEnd, ReturnIn, Places
<1>3. ASSUME NEW t \in Tasks, StartTask(t) PROVE PlaceInv'
  <2>1. /\ pc = "sched" /\ pc' \in {ReturnIn(state), "tail"}
        /\ runq_running \subseteq runq_running'
        /\ UNCHANGED <<request, runq_complete, updated_taskhash_queue, holdoff_need_update,
                       holdVars, sq_live, sq_deferred, sqdone>>
    BY <1>3 DEF StartTask, Ready, Picked, sceneVars, validVars, steadyVars
  <2>2. Executing' # {}
    BY <1>3, QueueStart
  <2>3. CASE pc' = "tail"
    BY <2>1, <2>2, <2>3 DEF PlaceInv, NewsTaken, Places, Looked, Tried, NotOver, Still, holdVars
  <2>4. CASE pc' = ReturnIn(state)
    BY <2>4, PlaceElsewhere DEF ReturnIn, Places
  <2> QED BY <2>1, <2>3, <2>4
<1>4. CASE SchedNone
  <2>1. pc = "sched" /\ pc' = "tail" /\ UNCHANGED placeVars
    BY <1>4 DEF SchedNone, placeVars, runqVars, sceneVars, validVars, steadyVars, moveVars
  <2>2. Still /\ "setsceneonly" \notin request => \A t \in Tasks : ~Eligible(t)
    BY <1>4, StillRoom DEF SchedNone
  <2>3. Looked' /\ Tried'
    BY <2>1, <2>2, PlaceKept DEF PlaceInv, Looked, Tried, placeVars
  <2> QED BY <2>1, <2>3 DEF PlaceInv, NewsTaken, Places, NotOver, placeVars, holdVars
<1>5. ASSUME NEW t \in Tasks, SpawnFail(t) PROVE pc' \notin Places
  BY <1>5 DEF SpawnFail, Places
<1> QED BY <1>1, <1>2, <1>3, <1>4, <1>5, PlaceElsewhere DEF RunStep

LEMMA PlaceRest ==
    ASSUME PlaceInv, \/ Finish \/ WorkerQuit \/ TornDown \/ FinishGone \/ Worker \/ Stop
                     \/ ForceStop \/ Terminated \/ UNCHANGED vars
    PROVE  PlaceInv'
<1>1. Finish \/ WorkerQuit \/ TornDown \/ FinishGone \/ Stop \/ ForceStop => pc' \notin Places
  BY DEF Finish, WorkerQuit, TornDown, FinishGone, Stop, ForceStop, Places
<1>2. Worker => UNCHANGED placeVars /\ pc' = pc
  BY DEF Worker, JobReport, JobExit, unlessJob, placeVars, runqVars, sceneVars, steadyVars, moveVars
<1>3. Terminated \/ UNCHANGED vars => UNCHANGED placeVars /\ pc' = pc
  BY DEF Terminated, vars, placeVars, runqVars, sceneVars, validVars, steadyVars, moveVars
<1> QED BY <1>1, <1>2, <1>3, PlaceSame, PlaceElsewhere

LEMMA PlaceNext == ASSUME QueueInv, EndInv, PlaceInv, [Next]_vars PROVE PlaceInv'
BY PlaceRead, PlaceMigrations, PlaceScene, PlaceRun, PlaceRest DEF Next, Server

LEMMA PlaceInit == Init => PlaceInv
BY DEF Init, PlaceInv, NewsTaken, Looked, Tried, NotOver, Places

-----------------------------------------------------------------------------
(* No sanity check fires *)

\* --setscene-only is asked of a build that has setscene tasks, or nothing to do.
Fetchable == "setsceneonly" \in request => Setscene # {} \/ Tasks = {}

\* Where the end of the build is decided all setscene tasks are.
LEMMA AllResolved ==
    ASSUME SqAcyclic, KnowsInv, Freed, SceneOver, PlaceInv, StampsLive, pc = "tail", Still,
           DOMAIN sq_deferred = {}
    PROVE  Setscene \subseteq Resolved(sq)
<1>1. /\ update_tasks = {} /\ Late = {}
      /\ sq.running = Resolved(sq) \cup sq_live
  BY DEF KnowsInv, QueueInv, SchedInv, SceneInv, SceneOK, Late
<1>2. CASE sqdone
  BY <1>1, <1>2 DEF SceneOver
<1>3. CASE ~sqdone
  <2>1. build_stamps = {}
    BY DEF StampsLive, Still
  <2>2. \A t \in Setscene : t \in sq.buildable => t \in sq.running
    BY <1>3, <2>1 DEF PlaceInv, Looked, SqCandidate, SqWaits, StampLive
  <2>3. \A t \in Setscene : sq_revdeps[t] \subseteq Resolved(sq) => t \in Resolved(sq)
    BY <1>1, <2>2 DEF Freed, FreedOK, Still
  <2> DEFINE S == Setscene \ Resolved(sq)
  <2> SUFFICES ASSUME S # {} PROVE FALSE
    OBVIOUS
  <2>4. S \in SUBSET Setscene /\ IsFiniteSet(Setscene)
    BY FiniteTasks
  <2>5. PICK t \in S : sq_revdeps[t] \cap S = {}
    <3> HIDE DEF S
    <3> QED BY <2>4, SqGraph, LowestOf DEF SqAcyclic
  <2>6. sq_revdeps[t] \subseteq Resolved(sq)
    BY <2>4, <2>5, SqGraph
  <2> QED BY <2>3, <2>5, <2>6
<1> QED BY <1>2, <1>3

\* There nothing is left to wait for, and what may start has been started.
LEMMA AtTheEnd ==
    ASSUME SqAcyclic, KnowsInv, Freed, SceneOver, PlaceInv, StampsLive, TailEnd,
           "enforce" \notin request \/ failed_tids = {}
    PROVE  /\ pc = "tail" /\ Still /\ DOMAIN sq_deferred = {}
           /\ UNCHANGED <<holdVars, runqVars, sq, sq_deferred, updated_taskhash_queue>>
           /\ runq_running \subseteq runq_complete \cup failed_tids
           /\ holdoff_tasks = {} /\ SceneFine /\ Setscene \subseteq Resolved(sq)
           /\ "setsceneonly" \notin request =>
                \A t \in Tasks \ runq_running : depends[t] \subseteq runq_complete =>
                    /\ NumberThreads[TaskName[t]] # 0
                    /\ ~(ThreadsUsed(t) < NumberThreads[TaskName[t]])
<1>1. /\ pc = "tail" /\ DOMAIN sq_deferred = {} /\ Active <= 0
      /\ UNCHANGED <<holdVars, runqVars, sq, sq_deferred, updated_taskhash_queue>>
  <2>1. /\ pc = "tail" /\ DOMAIN sq_deferred = {} /\ ~(stats_active > 0 \/ sq_active > 0)
        /\ UNCHANGED <<holdVars, runqVars, sq, sq_deferred, updated_taskhash_queue>>
    BY DEF TailEnd, unlessTail
  <2> QED BY <2>1 DEF Active, KnowsInv, QueueInv, TypeOK, RunqType, SceneType
<1>2. Still
  BY <1>1, ActiveCounts DEF KnowsInv, Spoilt, Still
<1>3. Setscene \subseteq Resolved(sq)
  BY <1>1, <1>2, AllResolved
<1>4. runq_running \subseteq runq_complete \cup failed_tids
  BY <1>2 DEF Still, Executing
<1>5. ~holdoff_need_update /\ ~changed
  BY <1>1 DEF PlaceInv, NotOver, KnowsInv, QueueInv, SchedInv, HoldInv
<1>6. holdoff_tasks = {}
  <2>1. holdoff_tasks \subseteq CoveredBy(Setscene \ Resolved(sq))
    BY <1>5 DEF KnowsInv, KnownInv
  <2> QED BY <1>3, <2>1 DEF CoveredBy
<1>7. SceneFine
  BY <1>5, <1>6, AllDecided
<1>8. ASSUME "setsceneonly" \notin request, NEW t \in Tasks \ runq_running,
             depends[t] \subseteq runq_complete
      PROVE  /\ NumberThreads[TaskName[t]] # 0
             /\ ~(ThreadsUsed(t) < NumberThreads[TaskName[t]])
  <2>1. t \in tasks_covered \cup tasks_notcovered /\ t \in runq_buildable
    BY <1>7, <1>8 DEF SceneFine, KnowsInv, LaunchInv
  <2>2. build_stamps = {}
    BY <1>2 DEF StampsLive, Still
  <2>3. ~Eligible(t)
    BY <1>1, <1>2, <1>8 DEF PlaceInv, Tried
  <2> QED BY <1>6, <1>8, <2>1, <2>2, <2>3 DEF Eligible
<1> QED BY <1>1, <1>2, <1>3, <1>4, <1>6, <1>7, <1>8

\* There it is found that nothing is wrong.
LEMMA NothingWrong ==
    ASSUME SqAcyclic, ThreadsSane, Fetchable, KnowsInv, Freed, SceneOver, PlaceInv, StampsLive,
           TailEnd, failed_tids = {}
    PROVE  ~RunErrors
<1>1. /\ pc = "tail" /\ DOMAIN sq_deferred = {} /\ Still
      /\ UNCHANGED <<holdVars, runqVars, sq, sq_deferred, updated_taskhash_queue>>
      /\ holdoff_tasks = {} /\ SceneFine
  BY AtTheEnd
<1>2. runq_running = runq_complete
  BY AtTheEnd DEF KnowsInv, QueueInv, SchedInv, HoldInv
<1>3. updated_taskhash_queue = {}
  BY <1>1, <1>2 DEF PlaceInv, NewsTaken, Places
<1>4. ~SceneErrors
  BY <1>1, <1>3 DEF SceneErrors, SceneFine, holdVars, runqVars
<1>5. CASE "setsceneonly" \in request
  <2>1. sqdone
    BY <1>1, <1>3, <1>5 DEF PlaceInv, NotOver, Still
  <2>2. Tasks = {}
    BY <1>5, <2>1 DEF SceneOver, Fetchable
  <2> QED BY <1>4, <2>2 DEF RunErrors
<1>6. CASE "setsceneonly" \notin request
  <2> DEFINE S == Tasks \ runq_complete
  <2>1. ASSUME S # {} PROVE FALSE
    <3>1. PICK t \in S : depends[t] \cap S = {}
      <4>1. S \in SUBSET Tasks
        OBVIOUS
      <4> HIDE DEF S
      <4> QED BY <2>1, <4>1, Lowest
    <3>2. t \in Tasks \ runq_running /\ depends[t] \subseteq runq_complete
      BY <1>2, <3>1, DependsAssumption
    <3>3. {u \in runq_running \ runq_complete : TaskName[u] = TaskName[t]} = {}
      BY <1>2
    <3>4. ThreadsUsed(t) = 0
      BY <3>3, FS_EmptySet DEF ThreadsUsed
    <3>5. NumberThreads[TaskName[t]] # 0 /\ ~(ThreadsUsed(t) < NumberThreads[TaskName[t]])
      BY <1>6, <3>2, AtTheEnd
    <3>6. NumberThreads[TaskName[t]] \in Nat
      BY <3>2 DEF ThreadsSane
    <3> QED BY <3>4, <3>5, <3>6
  <2>2. Tasks \subseteq runq_buildable \cap runq_running \cap runq_complete
    BY <1>2, <2>1 DEF KnowsInv, LaunchInv
  <2> QED BY <1>4, <2>2 DEF RunErrors
<1> QED BY <1>5, <1>6

\* What becomes of the verdict.
LEMMA OutcomeStep ==
    ASSUME [Next]_vars
    PROVE  /\ failed_tids \subseteq failed_tids'
           /\ \/ state' = state \/ state' = "CleanUp" \/ state' = Verdict(failed_tids)
              \/ Holdoff \/ TailEnd \/ \E t \in Tasks : SpawnFail(t)
<1> DEFINE P == /\ failed_tids \subseteq failed_tids'
                /\ \/ state' = state \/ state' = "CleanUp" \/ state' = Verdict(failed_tids)
                   \/ Holdoff \/ TailEnd \/ \E t \in Tasks : SpawnFail(t)
<1>1. Read => P
  BY DEF Read, ReadSqComplete, ReadSqFail, ReadComplete, ReadFail, ReadUnihash, SqTaskComplete,
         SqTaskFail, TaskComplete, TaskFail, EndRead, EndWait, runqVars
<1>2. Rehash \/ MigrateEnd \/ (\E t \in Setscene : MigrateNot(t) \/ Migrate(t)) => P
  BY DEF Rehash, MigrateEnd, MigrateNot, Migrate, MigrateReset, MigrateAbort, runqVars
<1>3. SceneStep => P
  BY DEF SceneStep, SqNotNeeded, SqInvalid, SqOutright, SqStampPresent, SqStart, SqNone, Holdoff,
         sqStepUnchanged, runqVars
<1>4. RunStep => P
  <2>1. ASSUME NEW t \in Tasks, SpawnFail(t) PROVE P
    BY <2>1 DEF SpawnFail
  <2>2. RunStep /\ ~(\E t \in Tasks : SpawnFail(t)) => P
    BY DEF RunStep, Refuse, TaskFail, SkipTask, RunNoexec, StartTask, SchedNone, TailWait,
           TailForce, TailEnd, unlessTail, runqVars
  <2> QED BY <2>1, <2>2
<1>5. Worker \/ Finish \/ WorkerQuit \/ TornDown \/ FinishGone \/ Stop \/ ForceStop => P
  BY DEF Worker, JobReport, JobExit, Finish, WorkerQuit, TornDown, FinishGone, Stop, ForceStop,
         unlessFinish, unlessJob, runqVars
<1>6. Terminated \/ UNCHANGED vars => P
  BY DEF Terminated, vars, runqVars
<1> QED BY <1>1, <1>2, <1>3, <1>4, <1>5, <1>6 DEF Next, Server, Migrations

CalmInv == KnowsInv /\ EndInv /\ StampInv /\ Freed /\ SceneOver /\ PlaceInv

LEMMA CalmInit == Init => CalmInv
BY KnowsInit, EndInit, StampInit, FreedInit, SceneOverInit, PlaceInit DEF CalmInv

LEMMA CalmNext == CalmInv /\ [Next]_vars => CalmInv'
BY KnowsNext, EndNext, StampNext, FreedNext, SceneOverNext, PlaceNext DEF CalmInv, KnowsInv

LEMMA SaneNext ==
    ASSUME SqAcyclic, ThreadsSane, Fetchable, CalmInv, CalmInv', SaneQueues, [Next]_vars
    PROVE  SaneQueues'
<1> SUFFICES ASSUME state' = "Failed", failed_tids' = {}, "nofakeworker" \notin request
             PROVE  FALSE
  BY SameRequest DEF SaneQueues
<1>1. failed_tids = {} /\ state # "Failed" /\ Verdict(failed_tids) = "Complete"
  BY OutcomeStep DEF SaneQueues, Verdict
<1>2. CASE Holdoff
  <2>1. SceneComplete => ~SceneErrors
    BY <1>2, SceneNeverFails DEF CalmInv
  <2>2. state' # "Failed"
    BY <1>1, <1>2, <2>1 DEF Holdoff
  <2> QED BY <2>2
<1>3. CASE TailEnd
  <2>1. ~RunErrors
    BY <1>1, <1>3, NothingWrong DEF CalmInv, StampInv
  <2> QED BY <1>1, <1>3, <2>1 DEF TailEnd
<1>4. ~(\E t \in Tasks : SpawnFail(t))
  BY DEF SpawnFail, NoFakeworker
<1> QED BY <1>1, <1>2, <1>3, <1>4, OutcomeStep

\* A build that can start its workers fails only when a task has: none of the sanity checks at the end of
\* the setscene queue or of the build ("Task %s never ran!") ever fires, if
\* number_threads makes sense, the setscene tasks go round in no circle and
\* there is something that --setscene-only could fetch.
THEOREM NoFalseAlarm ==
    ASSUME SqAcyclic, ThreadsSane
    PROVE  Spec /\ Fetchable => []SaneQueues
<1>1. Init => CalmInv /\ SaneQueues
  BY CalmInit DEF Init, SaneQueues
<1>2. CalmInv /\ SaneQueues /\ Fetchable /\ [Next]_vars => (CalmInv /\ SaneQueues /\ Fetchable)'
  BY CalmNext, SaneNext, SameRequest DEF Fetchable
<1> QED BY <1>1, <1>2, PTL DEF Spec

-----------------------------------------------------------------------------
(* Hashes *)

\* A changed hash that is on its way is of a task that executes, and it comes
\* before the exit.
PipeInv ==
    \A i \in 1..Len(pipe) : pipe[i].type = "unihash" =>
        /\ pipe[i].task \in Executing
        /\ \A k \in Exits : pipe[k].task = pipe[i].task => i < k

LEMMA PipeKept ==
    ASSUME PipeInv, UNCHANGED pipe, Executing \subseteq Executing'
    PROVE  PipeInv'
BY DEF PipeInv, Exits

LEMMA PipeTail ==
    ASSUME QueueInv, PipeInv, NEW m, Receive(m),
           \A t \in Executing : t \in Executing' \/ (m.type = "exit" /\ m.task = t)
    PROVE  PipeInv'
<1>1. pipe \in Seq(Message) /\ pipe # <<>> /\ pipe' = Tail(pipe) /\ pipe[1] = m
  BY DEF QueueInv, TypeOK, WorkType, Receive
<1>2. ASSUME NEW i \in 1..Len(pipe'), pipe'[i].type = "unihash"
      PROVE  /\ pipe'[i].task \in Executing'
             /\ \A k \in Exits' : pipe'[k].task = pipe'[i].task => i < k
  <2>1. i + 1 \in 1..Len(pipe) /\ pipe'[i] = pipe[i + 1]
    BY <1>1
  <2>2. pipe[i + 1].task \in Executing
    BY <1>2, <2>1 DEF PipeInv
  <2>3. ASSUME m.type = "exit", m.task = pipe[i + 1].task PROVE FALSE
    <3>1. 1 \in Exits
      BY <1>1, <2>3 DEF Exits
    <3>2. i + 1 < 1
      BY <1>1, <1>2, <2>1, <2>3, <3>1 DEF PipeInv
    <3> QED BY <3>2
  <2>4. ASSUME NEW k \in Exits', pipe'[k].task = pipe'[i].task PROVE i < k
    <3>1. k + 1 \in Exits /\ pipe'[k] = pipe[k + 1] /\ k \in Nat
      BY <1>1 DEF Exits
    <3>2. i + 1 < k + 1
      BY <1>2, <2>1, <2>4, <3>1 DEF PipeInv
    <3> QED BY <3>1, <3>2
  <2> QED BY <2>1, <2>2, <2>3, <2>4
<1> QED BY <1>2 DEF PipeInv

LEMMA PipeNext ==
    ASSUME QueueInv, PipeInv, [Next]_vars
    PROVE  PipeInv'
<1>0. /\ \A j \in jobs : j.task \in (IF j.setscene THEN sq_live ELSE Executing)
      /\ \A i \in Exits : \A j \in jobs : j.task # pipe[i].task
      /\ pipe \in Seq(Message)
  BY DEF QueueInv, SchedInv, JobInv, TypeOK, WorkType
<1>1. CASE JobsSame
  BY <1>1, PipeKept DEF JobsSame
<1>2. ASSUME NEW t \in Tasks, NEW ok \in BOOLEAN, Exited(t, ok), Executing' = Executing \ {t}
      PROVE  PipeInv'
  <2> DEFINE m == [type |-> "exit", task |-> t, ok |-> ok]
  <2>1. Receive(m) /\ m.type = "exit" /\ m.task = t
    BY <1>2 DEF Exited
  <2> HIDE DEF m
  <2> QED BY <1>2, <2>1, PipeTail
<1>3. ASSUME NEW t \in Tasks, NEW h \in Hash, ReadUnihash(t, h), UNCHANGED Executing
      PROVE  PipeInv'
  <2>1. Receive([type |-> "unihash", task |-> t, hash |-> h])
    BY <1>3 DEF ReadUnihash
  <2> QED BY <1>3, <2>1, PipeTail
<1>4. ASSUME NEW t, NEW setscene, Send(t, setscene), Executing \subseteq Executing'
      PROVE  PipeInv'
  BY <1>4, PipeKept DEF Send
<1>5. ASSUME NEW t \in Setscene, SqStart(t), Executing' = Executing PROVE PipeInv'
  BY <1>4, <1>5 DEF SqStart
<1>6. ASSUME NEW t \in Tasks, StartTask(t), Executing' = Executing \cup {t} PROVE PipeInv'
  BY <1>4, <1>6 DEF StartTask
<1>7. CASE Worker /\ UNCHANGED <<sq_live, Executing, unlessJob>>
  <2>1. ASSUME NEW j \in jobs, NEW m, pipe' = Append(pipe, m), m.task = j.task,
               m.type = "exit" \/ (m.type = "unihash" /\ ~j.setscene)
        PROVE  PipeInv'
    <3> DEFINE n == Len(pipe) + 1
    <3>1. /\ 1..Len(pipe') = 1..Len(pipe) \cup {n} /\ pipe'[n] = m
          /\ \A i \in 1..Len(pipe) : pipe'[i] = pipe[i] /\ i < n
      BY <1>0, <2>1
    <3>2. /\ \A k \in Exits' : k = n \/ (k \in Exits /\ k \in 1..Len(pipe))
          /\ \A k \in Exits : pipe[k].task # j.task
      BY <1>0, <3>1 DEF Exits
    <3>3. m.type = "unihash" => m.task \in Executing'
      BY <1>0, <1>7, <2>1
    <3>4. m.type = "unihash" => \A k \in Exits' : pipe'[k].task # m.task
      <4>1. m.type = "unihash" => n \notin Exits'
        BY <3>1 DEF Exits
      <4> QED BY <2>1, <3>1, <3>2, <4>1
    <3>5. ASSUME NEW i \in 1..Len(pipe), pipe'[i].type = "unihash"
          PROVE  /\ pipe'[i].task \in Executing'
                 /\ \A k \in Exits' : pipe'[k].task = pipe'[i].task => i < k
      BY <1>7, <3>1, <3>2, <3>5 DEF PipeInv
    <3> HIDE DEF n
    <3> QED BY <3>1, <3>3, <3>4, <3>5 DEF PipeInv
  <2>2. ASSUME NEW j \in jobs, NEW h \in Hash, JobReport(j, h) PROVE PipeInv'
    <3> DEFINE m == [type |-> "unihash", task |-> j.task, hash |-> h]
    <3>1. pipe' = Append(pipe, m) /\ m.task = j.task /\ m.type = "unihash" /\ ~j.setscene
      BY <2>2 DEF JobReport
    <3> HIDE DEF m
    <3> QED BY <2>1, <3>1
  <2>3. ASSUME NEW j \in jobs, NEW ok \in BOOLEAN, JobExit(j, ok) PROVE PipeInv'
    <3> DEFINE m == [type |-> "exit", task |-> j.task, ok |-> ok]
    <3>1. pipe' = Append(pipe, m) /\ m.task = j.task /\ m.type = "exit"
      BY <2>3 DEF JobExit
    <3> HIDE DEF m
    <3> QED BY <2>1, <3>1
  <2> QED BY <1>7, <2>2, <2>3 DEF Worker
<1>8. CASE WorkerQuit /\ UNCHANGED <<sq_live, Executing, build_stamps>>
  BY <1>8, PipeKept DEF WorkerQuit, unlessFinish
<1> QED BY <1>1, <1>2, <1>3, <1>5, <1>6, <1>7, <1>8, WorkStep

-----------------------------------------------------------------------------
(* Deferred tasks *)

\* A task is deferred after another one of the same package.
DeferInv == \A d \in DOMAIN sq_deferred : sq_deferred[d] # d /\ PN[sq_deferred[d]] = PN[d]

\* Tasks may leave sq_deferred, and the others wait for the same task as before.
DeferLess ==
    \A d \in DOMAIN sq_deferred' : d \in DOMAIN sq_deferred /\ sq_deferred'[d] = sq_deferred[d]

LEMMA DeferStep ==
    ASSUME QueueInv, DeferInv, [Next]_vars
    PROVE  \/ MigrateEnd
           \/ DeferLess /\ UNCHANGED runq_complete
           \/ \E t \in Tasks : \E buildable, running, scene :
                CompleteOutright(t, buildable, running, scene)
<1> DEFINE Same == UNCHANGED <<sq_deferred, runq_complete>>
           Less == DeferLess /\ UNCHANGED runq_complete
           Outright == \E t \in Tasks : \E buildable, running, scene :
                         CompleteOutright(t, buildable, running, scene)
<1>1. Same => Less
  BY DEF DeferLess
<1>2. Read => Same \/ Outright
  BY DEF Read, ReadSqComplete, ReadSqFail, ReadComplete, ReadFail, ReadUnihash, SqTaskComplete,
         SqTaskFail, TaskComplete, TaskFail, EndRead, EndWait, runqVars, sceneVars
<1>3. Rehash \/ (\E t \in Setscene : MigrateNot(t) \/ Migrate(t)) => Same
  BY DEF Rehash, MigrateNot, Migrate, runqVars, sceneVars
<1>4. ASSUME NEW t, Undefer(t), UNCHANGED runq_complete PROVE Less
  BY <1>4 DEF Undefer, Defer, DeferLess
<1>5. SceneStep => Less
  <2>1. ASSUME NEW t \in Setscene, SqNotNeeded(t) \/ SqInvalid(t) \/ SqOutright(t)
                                     \/ SqStampPresent(t) \/ SqStart(t)
        PROVE  Undefer(t) /\ UNCHANGED runq_complete
    BY <2>1 DEF SqNotNeeded, SqInvalid, SqOutright, SqStampPresent, SqStart, SqNext,
                sqStepUnchanged, runqVars
  <2>2. SqNone \/ Holdoff => Same
    BY DEF SqNone, Holdoff, runqVars, sceneVars
  <2> QED BY <1>1, <1>4, <2>1, <2>2 DEF SceneStep
<1>6. RunStep => Less \/ Outright
  <2>1. ASSUME NEW t \in Tasks, SkipTask(t) \/ RunNoexec(t) PROVE Outright
    BY <2>1 DEF SkipTask, RunNoexec
  <2>2. ASSUME NEW t \in Tasks, Refuse(t) \/ StartTask(t) PROVE Same
    BY <2>2 DEF Refuse, TaskFail, StartTask, sceneVars
  <2>3. SchedNone \/ TailWait \/ TailEnd => Same
    BY DEF SchedNone, TailWait, TailEnd, unlessTail, runqVars, sceneVars
  <2>4. TailForce => Less
    <3>1. TailForce => UNCHANGED runq_complete /\ \E d \in DOMAIN sq_deferred : Undefer(d)
      BY DEF TailForce, unlessTail, runqVars
    <3> QED BY <1>4, <3>1
  <2>5. ASSUME NEW t \in Tasks, SpawnFail(t) PROVE Same
    BY <2>5 DEF SpawnFail, sceneVars
  <2> QED BY <1>1, <2>1, <2>2, <2>3, <2>4, <2>5 DEF RunStep
<1>7. Worker \/ Finish \/ WorkerQuit \/ TornDown \/ FinishGone \/ Stop \/ ForceStop => Same
  BY DEF Worker, JobReport, JobExit, Finish, WorkerQuit, TornDown, FinishGone, Stop, ForceStop,
         unlessFinish, unlessJob, runqVars, sceneVars
<1>8. Terminated \/ UNCHANGED vars => Same
  BY DEF Terminated, vars, runqVars, sceneVars
<1> QED BY <1>1, <1>2, <1>3, <1>5, <1>6, <1>7, <1>8 DEF Next, Server, Migrations

\* Who leads a task.
LEMMA LeaderOf ==
    ASSUME NEW t \in Setscene, NEW h
    PROVE  Leaders(t, h) # {} =>
             /\ Leaders(t, h) = {Least(Leaders(t, h))}
             /\ Least(Leaders(t, h)) \in Setscene
             /\ PN[Least(Leaders(t, h))] = PN[t]
<1> SUFFICES ASSUME Leaders(t, h) # {}
             PROVE  /\ Leaders(t, h) = {Least(Leaders(t, h))}
                    /\ Least(Leaders(t, h)) \in Setscene
                    /\ PN[Least(Leaders(t, h))] = PN[t]
  OBVIOUS
<1> DEFINE same == {u \in Setscene : PN[u] = PN[t] /\ Unihash0[u] = h}
<1>1. Leaders(t, h) = {Least(same)} /\ same # {}
  BY DEF Leaders
<1>2. Least(same) \in same
  BY <1>1, LeastIn, SetsceneAssumption
<1>3. Least({Least(same)}) = Least(same)
  <2>1. Least({Least(same)}) \in {Least(same)}
    BY <1>2, LeastIn, SetsceneAssumption
  <2> QED BY <2>1
<1> QED BY <1>1, <1>2, <1>3

\* What completing a task does to those deferred after it.
LEMMA DeferOutright ==
    ASSUME QueueInv, DeferInv, NEW t \in Tasks, NEW buildable, NEW running, NEW scene,
           CompleteOutright(t, buildable, running, scene)
    PROVE  /\ DeferInv'
           /\ runq_complete' = runq_complete \cup {t}
           /\ TwoConfigs => \A d \in DOMAIN sq_deferred' :
                /\ d \in DOMAIN sq_deferred
                /\ sq_deferred'[d] = sq_deferred[d] /\ sq_deferred[d] # t
<1> DEFINE waiting == {d \in DOMAIN sq_deferred : sq_deferred[d] = t}
           found == IF waiting = {} THEN {} ELSE {Least(waiting)}
<1>1. /\ sq_deferred' = [d \in DOMAIN sq_deferred \ found |->
                           IF d \in waiting THEN Least(waiting) ELSE sq_deferred[d]]
      /\ runq_complete' = runq_complete \cup {t}
  BY DEF CompleteOutright, Defer
<1>2. waiting \in SUBSET Setscene /\ (waiting # {} => t \in Setscene)
  BY DEF QueueInv, TypeOK, SceneType
<1>3. waiting # {} => Least(waiting) \in waiting
  BY <1>2, LeastIn, SetsceneAssumption
<1>4. \A d \in waiting : d # t /\ PN[d] = PN[t] /\ sq_deferred[d] = t
  BY DEF DeferInv
<1>5. \A d \in DOMAIN sq_deferred \ waiting : sq_deferred[d] # t
  OBVIOUS
<1> HIDE DEF waiting
<1>6. /\ DOMAIN sq_deferred' = DOMAIN sq_deferred \ found
      /\ \A d \in DOMAIN sq_deferred' :
           sq_deferred'[d] = IF d \in waiting THEN Least(waiting) ELSE sq_deferred[d]
  BY <1>1
<1>7. DeferInv'
  <2> SUFFICES ASSUME NEW d \in DOMAIN sq_deferred'
               PROVE  sq_deferred'[d] # d /\ PN[sq_deferred'[d]] = PN[d]
    BY DEF DeferInv
  <2>1. CASE d \in waiting
    BY <1>3, <1>4, <1>6, <2>1
  <2>2. CASE d \notin waiting
    BY <1>6, <2>2 DEF DeferInv
  <2> QED BY <2>1, <2>2
<1>8. ASSUME TwoConfigs, NEW d \in DOMAIN sq_deferred'
      PROVE  d \notin waiting
  <2> SUFFICES ASSUME d \in waiting PROVE FALSE
    OBVIOUS
  <2>1. /\ Least(waiting) \in Setscene /\ d \in Setscene /\ t \in Setscene
        /\ PN[d] = PN[t] /\ PN[t] = PN[Least(waiting)]
        /\ d # t /\ t # Least(waiting) /\ d # Least(waiting)
    BY <1>2, <1>3, <1>4, <1>6
  <2> QED BY <1>8, <2>1 DEF TwoConfigs
<1> QED BY <1>1, <1>5, <1>6, <1>7, <1>8

LEMMA DeferNext ==
    ASSUME QueueInv, DeferInv, [Next]_vars
    PROVE  DeferInv'
<1>1. CASE MigrateEnd
  <2> DEFINE tids == {u.task : u \in update_tasks}
             follows == {t \in tids : Leaders(t, unihash[t]) \ {t} # {}}
  <2>1. sq_deferred' = [d \in DOMAIN sq_deferred \cup follows |->
                          IF d \in follows THEN Least(Leaders(d, unihash[d]))
                          ELSE sq_deferred[d]]
    BY <1>1 DEF MigrateEnd, Defer
  <2>2. ASSUME NEW d \in follows
        PROVE  /\ Least(Leaders(d, unihash[d])) # d
               /\ PN[Least(Leaders(d, unihash[d]))] = PN[d]
    <3>1. d \in Setscene /\ Leaders(d, unihash[d]) \ {d} # {}
      BY DEF QueueInv, TypeOK, MoveType
    <3>2. Leaders(d, unihash[d]) # {}
      BY <3>1
    <3> HIDE DEF follows
    <3> QED BY <3>1, <3>2, LeaderOf
  <2> HIDE DEF follows
  <2>3. /\ DOMAIN sq_deferred' = DOMAIN sq_deferred \cup follows
        /\ \A d \in DOMAIN sq_deferred' :
             sq_deferred'[d] = IF d \in follows THEN Least(Leaders(d, unihash[d]))
                               ELSE sq_deferred[d]
    BY <2>1
  <2> QED BY <2>2, <2>3 DEF DeferInv
<1>2. CASE DeferLess
  BY <1>2 DEF DeferInv, DeferLess
<1> QED BY <1>1, <1>2, DeferStep, DeferOutright

LEMMA DeferInit == Init => DeferInv
<1> SUFFICES ASSUME Init PROVE DeferInv
  OBVIOUS
<1> DEFINE deferred == {t \in Setscene : Leaders(t, Unihash0[t]) # {t}}
<1>1. sq_deferred = [t \in deferred |-> Least(Leaders(t, Unihash0[t]))]
  BY DEF Init
<1>2. ASSUME NEW t \in deferred
      PROVE  /\ Least(Leaders(t, Unihash0[t])) # t
             /\ PN[Least(Leaders(t, Unihash0[t]))] = PN[t]
  <2>1. Leaders(t, Unihash0[t]) # {}
    <3>1. t \in {u \in Setscene : PN[u] = PN[t] /\ Unihash0[u] = Unihash0[t]}
      OBVIOUS
    <3> QED BY <3>1 DEF Leaders
  <2> QED BY <2>1, LeaderOf
<1> HIDE DEF deferred
<1> QED BY <1>1, <1>2 DEF DeferInv

-----------------------------------------------------------------------------
(* Changed hashes *)

\* The changed hashes that BitBake has heard of are of tasks that have been
\* started, and nothing that executes depends on them; once such a task is
\* complete, no task is deferred after it any more.
NewsInv ==
    \A u \in updated_taskhash_queue :
        /\ u.task \in runq_running
        /\ \A w \in Executing : u.task \notin Below(depends, {}, {w})
        /\ u.task \in runq_complete =>
             \A d \in DOMAIN sq_deferred : sq_deferred[d] # u.task

\* Everything below a task that may run is complete.
LEMMA BelowComplete ==
    ASSUME KnowsInv, NEW t \in Tasks, depends[t] \subseteq runq_complete
    PROVE  Below(depends, {}, {t}) \subseteq runq_complete
<1>1. \A u \in {t} \cup (runq_complete \ {}) : depends[u] \subseteq runq_complete
  BY DEF KnowsInv, QueueInv, SchedInv, HoldInv, BuildableReady
<1> DEFINE below == Below(depends, {}, {t})
<1>2. \A S : (\A u \in {t} \cup (S \ {}) : depends[u] \subseteq S) => below \subseteq S
  <2>1. {t} \in SUBSET Tasks
    OBVIOUS
  <2> QED BY <2>1, BelowFacts
<1> HIDE DEF below
<1>3. below \subseteq runq_complete
  BY <1>1, <1>2
<1> QED BY <1>3 DEF below

\* What is above a set of tasks has one of them below it.
LEMMA AboveBelow ==
    ASSUME NEW From \in SUBSET Tasks, NEW t \in Above(depends, From)
    PROVE  t \in Tasks /\ \E p \in From : p \in Below(depends, {}, {t})
<1> DEFINE B(x) == Below(depends, {}, {x})
           S == {x \in Tasks : \E p \in From : p \in B(x)}
<1>1. \A x \in Tasks : depends[x] \subseteq B(x) /\ \A u \in B(x) : depends[u] \subseteq B(x)
  <2> TAKE x \in Tasks
  <2>1. {x} \in SUBSET Tasks
    OBVIOUS
  <2>2. \A u \in {x} \cup (B(x) \ {}) : depends[u] \subseteq B(x)
    BY <2>1, BelowFacts
  <2> QED BY <2>2
<1>2. \A x \in Tasks : \A y \in depends[x] : B(y) \subseteq B(x)
  <2> TAKE x \in Tasks
  <2> TAKE y \in depends[x]
  <2>1. {y} \in SUBSET Tasks
    BY DependsAssumption
  <2>2. \A SS : (\A u \in {y} \cup (SS \ {}) : depends[u] \subseteq SS) => B(y) \subseteq SS
    BY <2>1, BelowFacts
  <2>3. \A u \in {y} \cup (B(x) \ {}) : depends[u] \subseteq B(x)
    BY <1>1
  <2> HIDE DEF B
  <2> QED BY <2>2, <2>3
<1> HIDE DEF B
<1>3. \A u \in From \cup (S \ {}) : revdeps[u] \subseteq S
  <2> TAKE u \in From \cup (S \ {})
  <2>1. ASSUME NEW y \in revdeps[u] PROVE y \in S
    <3>1. y \in Tasks /\ u \in depends[y]
      BY <2>1, RevDepends
    <3>2. u \in B(y) /\ B(u) \subseteq B(y)
      BY <1>1, <1>2, <3>1
    <3> QED BY <3>1, <3>2
  <2> QED BY <2>1
<1>4. Above(depends, From) \subseteq S
  <2> DEFINE above == Above(depends, From)
  <2>1. above = Below(revdeps, {}, From)
    BY DEF Above, revdeps
  <2>2. revdeps \in [Tasks -> SUBSET Tasks] /\ IsFiniteSet(Tasks)
    BY GraphType, TasksAssumption
  <2> HIDE DEF above, S
  <2>4. \A SS : (\A u \in From \cup (SS \ {}) : revdeps[u] \subseteq SS) => above \subseteq SS
    BY <2>1, <2>2, BelowOf
  <2>3. above \subseteq S
    BY <1>3, <2>4
  <2> QED BY <2>3 DEF above
<1> QED BY <1>4 DEF B

\* What a step does to the changed hashes.
LEMMA NewsStep ==
    ASSUME [Next]_vars
    PROVE  \/ UNCHANGED <<updated_taskhash_queue, sig>>
           \/ Rehash
           \/ \E t \in Tasks, h \in Hash : ReadUnihash(t, h)
<1> DEFINE Same == UNCHANGED <<updated_taskhash_queue, sig>>
<1>1. Read => Same \/ \E t \in Tasks, h \in Hash : ReadUnihash(t, h)
  BY DEF Read, ReadSqComplete, ReadSqFail, ReadComplete, ReadFail, Exited, Receive, EndRead,
         EndWait, steadyVars
<1>2. MigrateEnd \/ (\E t \in Setscene : MigrateNot(t) \/ Migrate(t)) => Same
  BY DEF MigrateEnd, MigrateNot, Migrate, steadyVars
<1>3. SceneStep => Same
  BY DEF SceneStep, SqNotNeeded, SqInvalid, SqOutright, SqStampPresent, SqStart, SqNone, Holdoff,
         sqStepUnchanged, steadyVars
<1>4. RunStep => Same
  BY DEF RunStep, Refuse, SkipTask, RunNoexec, StartTask, SchedNone, TailWait, SpawnFail, TailForce, TailEnd,
         unlessTail, schedUnchanged, steadyVars
<1>5. Worker \/ Finish \/ WorkerQuit \/ TornDown \/ FinishGone \/ Stop \/ ForceStop => Same
  BY DEF Worker, JobReport, JobExit, Finish, WorkerQuit, TornDown, FinishGone, Stop, ForceStop,
         unlessFinish, unlessJob, steadyVars
<1>6. Terminated \/ UNCHANGED vars => Same
  BY DEF Terminated, vars, steadyVars
<1> QED BY <1>1, <1>2, <1>3, <1>4, <1>5, <1>6 DEF Next, Server, Migrations

LEMMA RunsOn == QueueInv /\ [Next]_vars => runq_running \subseteq runq_running'
BY RunqStep DEF StartTask, Ended

LEMMA NewsNext ==
    ASSUME TwoConfigs, KnowsInv, EndInv, PlaceInv, PipeInv, DeferInv, NewsInv, [Next]_vars
    PROVE  NewsInv'
<1>0. QueueInv /\ runq_running \subseteq runq_running' /\ Executing \subseteq Tasks
  BY RunsOn DEF KnowsInv, QueueInv, TypeOK, RunqType, Executing
<1>1. \A w \in Executing : Below(depends, {}, {w}) \subseteq runq_complete
  BY <1>0, BelowComplete DEF KnowsInv, BuildableReady, Executing
<1>2. ASSUME NEW u \in updated_taskhash_queue, NEW w \in Executing'
      PROVE  u.task \notin Below(depends, {}, {w})
  <2>1. CASE w \in Executing
    BY <2>1 DEF NewsInv
  <2>2. CASE w \notin Executing
    <3>1. StartTask(w)
      BY <1>0, <1>2, <2>2, WorkStep DEF JobsSame
    <3>2. pc = "sched" /\ depends[w] \subseteq runq_complete /\ w \in Tasks
      BY <1>0, <3>1, ReadyPicked DEF StartTask, Ready, Picked, KnowsInv, Eligible, QueueInv, TypeOK,
         RunqType
    <3>3. u.task \notin runq_complete
      BY <3>2 DEF PlaceInv, NewsTaken, Places
    <3> QED BY <3>2, <3>3, BelowComplete
  <2> QED BY <2>1, <2>2
<1>3. ASSUME NEW u \in updated_taskhash_queue, u.task \in runq_complete',
             NEW d \in DOMAIN sq_deferred'
      PROVE  sq_deferred'[d] # u.task
  <2>1. CASE MigrateEnd
    <3>1. u.task \notin runq_complete
      BY <2>1 DEF MigrateEnd, PlaceInv, NewsTaken, Places
    <3> QED BY <1>3, <2>1, <3>1 DEF MigrateEnd, runqVars
  <2>2. CASE DeferLess /\ UNCHANGED runq_complete
    BY <1>3, <2>2 DEF DeferLess, NewsInv
  <2>3. ASSUME NEW t \in Tasks, NEW buildable, NEW running, NEW scene,
               CompleteOutright(t, buildable, running, scene)
        PROVE  sq_deferred'[d] # u.task
    <3>1. /\ runq_complete' = runq_complete \cup {t}
          /\ d \in DOMAIN sq_deferred /\ sq_deferred'[d] = sq_deferred[d] /\ sq_deferred[d] # t
      BY <1>0, <2>3, DeferOutright
    <3> QED BY <1>3, <3>1 DEF NewsInv
  <2> QED BY <1>0, <2>1, <2>2, <2>3, DeferStep
<1>4. ASSUME NEW t \in Tasks, NEW h \in Hash, ReadUnihash(t, h) PROVE NewsInv'
  <2> DEFINE new == [task |-> t, hash |-> h]
             m == [type |-> "unihash", task |-> t, hash |-> h]
  <2>1. /\ updated_taskhash_queue' = updated_taskhash_queue \cup {new}
        /\ new.task = t
        /\ Receive(m) /\ m.type = "unihash" /\ m.task = t
        /\ UNCHANGED <<runq_complete, runq_running, failed_tids>>
    BY <1>4 DEF ReadUnihash, runqVars
  <2> HIDE DEF new, m
  <2>2. t \in Executing
    <3>1. pipe # <<>> /\ pipe[1] = m /\ pipe \in Seq(Message)
      BY <1>0, <2>1 DEF Receive, QueueInv, TypeOK, WorkType
    <3>2. 1 \in 1..Len(pipe)
      BY <3>1
    <3> QED BY <2>1, <3>1, <3>2 DEF PipeInv
  <2>3. Executing' = Executing
    BY <2>1 DEF Executing
  <2>4. t \in runq_running' /\ t \notin runq_complete'
    BY <1>0, <2>1, <2>2 DEF Executing
  <2>5. \A w \in Executing' : t \notin Below(depends, {}, {w})
    BY <1>1, <2>2, <2>3 DEF Executing
  <2>6. \A u \in updated_taskhash_queue' : u \in updated_taskhash_queue \/ u = new
    BY <2>1
  <2> QED BY <1>0, <1>2, <1>3, <2>1, <2>4, <2>5, <2>6 DEF NewsInv
<1>5. CASE updated_taskhash_queue' \subseteq updated_taskhash_queue
  BY <1>0, <1>2, <1>3, <1>5 DEF NewsInv
<1>6. Rehash => updated_taskhash_queue' \subseteq updated_taskhash_queue
  BY DEF Rehash
<1> QED BY <1>4, <1>5, <1>6, NewsStep

\* A changed hash is followed through tasks that do not run.
LEMMA RehashSteady ==
    ASSUME KnowsInv, NewsInv, Rehash, NEW w \in Executing
    PROVE  sig'[w] = sig[w]
<1> DEFINE taken == {u \in updated_taskhash_queue : u.task \notin runq_running \ runq_complete}
           news == {u \in taken : u.hash # unihash[u.task]}
           hit(t) == {u \in news : \/ u.task = t
                                   \/ t \in DOMAIN sq_deferred /\ sq_deferred[t] = u.task}
           toprocess == {t \in Tasks : hit(t) # {}}
           reported(old) == [t \in Tasks |-> IF t \in toprocess
                                             THEN (CHOOSE u \in hit(t) : TRUE).hash
                                             ELSE old[t]]
           total == Above(depends, toprocess)
           differ(newuni) == {t \in total : newuni[t] # reported(unihash)[t]}
           remapped(newuni) == differ(newuni) \cap Remapped
           moved(newuni) == differ(newuni) \ remapped(newuni)
<1>1. PICK newuni \in [total -> Hash] :
        \E accepted \in SUBSET remapped(newuni) :
          /\ sig' = [t \in Tasks |-> IF t \in accepted THEN reported(unihash)[t]
                                     ELSE IF t \in total THEN newuni[t]
                                     ELSE reported(sig)[t]]
          /\ \A t \in total :
               newuni[t] # reported(sig)[t] => \E d \in depends[t] : sig'[d] # sig[d]
          /\ unihash' = [t \in Tasks |-> IF t \in moved(newuni) THEN newuni[t]
                                         ELSE reported(unihash)[t]]
          /\ changed' = (moved(newuni) # {})
          /\ todo' = pending_migrations \cup (moved(newuni) \cap Setscene)
  BY Zenon DEF Rehash
<1>2. \E accepted \in SUBSET total :
        sig' = [t \in Tasks |-> IF t \in accepted THEN reported(unihash)[t]
                                ELSE IF t \in total THEN newuni[t]
                                ELSE reported(sig)[t]]
  <2>1. remapped(newuni) \subseteq total
    OBVIOUS
  <2> HIDE DEF reported, total, remapped
  <2> QED BY <1>1, <2>1
<1>3. \A t \in toprocess : \E u \in updated_taskhash_queue : u.task = t /\ t \in runq_complete
  BY DEF NewsInv
<1>4. w \in Tasks /\ w \notin toprocess
  BY <1>3 DEF Executing, KnowsInv, QueueInv, TypeOK, RunqType
<1>5. w \notin total
  <2>1. toprocess \in SUBSET Tasks
    OBVIOUS
  <2> HIDE DEF toprocess
  <2> SUFFICES ASSUME w \in total PROVE FALSE
    OBVIOUS
  <2>2. PICK p \in toprocess : p \in Below(depends, {}, {w})
    BY <2>1, AboveBelow
  <2> QED BY <1>3, <2>2 DEF NewsInv
<1>6. reported(sig)[w] = sig[w]
  BY <1>4
<1> HIDE DEF total, reported
<1> QED BY <1>2, <1>4, <1>5, <1>6

\* The hash of a task stays what its job was told as long as the job runs.
LEMMA SteadyNext ==
    ASSUME KnowsInv, NewsInv, HashSteady, [Next]_vars
    PROVE  HashSteady'
<1>0. /\ QueueInv /\ \A j \in jobs : ~j.setscene => j.task \in Executing
      /\ jobs \subseteq Job
  BY DEF KnowsInv, QueueInv, SchedInv, JobInv, TypeOK, WorkType
<1>1. ASSUME NEW w \in Executing PROVE sig'[w] = sig[w]
  <2>1. CASE UNCHANGED sig
    BY <2>1
  <2>2. (\E t \in Tasks, h \in Hash : ReadUnihash(t, h)) => UNCHANGED sig
    BY DEF ReadUnihash, Receive, steadyVars
  <2> QED BY <2>1, <2>2, RehashSteady, NewsStep
<1>2. ASSUME NEW j \in jobs', ~j.setscene, ~j.told PROVE j.hash = sig'[j.task]
  <2>1. CASE j \in jobs
    BY <1>0, <1>1, <1>2, <2>1 DEF HashSteady
  <2>2. ASSUME NEW t, NEW setscene, Send(t, setscene), UNCHANGED sig, j \notin jobs
        PROVE  j.hash = sig'[j.task]
    BY <2>2 DEF Send
  <2>3. ASSUME NEW i \in jobs, NEW h \in Hash, JobReport(i, h) PROVE j \in jobs
    <3> DEFINE new == [i EXCEPT !.hash = h, !.told = TRUE]
    <3>1. jobs' = (jobs \ {i}) \cup {new}
      BY <2>3 DEF JobReport
    <3>2. new.told
      BY <1>0 DEF Job
    <3> HIDE DEF new
    <3> QED BY <1>2, <3>1, <3>2
  <2>4. Worker => j \in jobs
    BY <1>2, <2>3 DEF Worker, JobExit
  <2>5. ASSUME NEW t \in Setscene, SqStart(t), j \notin jobs PROVE j.hash = sig'[j.task]
    BY <2>2, <2>5 DEF SqStart, steadyVars
  <2>6. ASSUME NEW t \in Tasks, StartTask(t), j \notin jobs PROVE j.hash = sig'[j.task]
    BY <2>2, <2>6 DEF StartTask, steadyVars
  <2>7. JobsSame => j \in jobs
    BY <1>2 DEF JobsSame
  <2>8. (\E t \in Tasks, ok \in BOOLEAN : Exited(t, ok)) => j \in jobs
    BY <1>2 DEF Exited, Receive
  <2>9. (\E t \in Tasks, h \in Hash : ReadUnihash(t, h)) => j \in jobs
    BY <1>2 DEF ReadUnihash, Receive
  <2>10. WorkerQuit => j \in jobs
    BY <1>2 DEF WorkerQuit
  <2> QED BY <1>0, <2>1, <2>4, <2>5, <2>6, <2>7, <2>8, <2>9, <2>10, WorkStep
<1> QED BY <1>2 DEF HashSteady

TrackInv == CalmInv /\ PipeInv /\ DeferInv /\ NewsInv /\ HashSteady

\* Where no more than two configurations share a recipe, the hash of a task does
\* not move while the task runs.
THEOREM HashesHold ==
    ASSUME TwoConfigs
    PROVE  Spec => []HashSteady
<1>1. Init => TrackInv
  <2>1. Init => NewsInv /\ HashSteady
    BY DEF Init, NewsInv, HashSteady
  <2>2. Init => PipeInv
    BY DEF Init, PipeInv
  <2> QED BY <2>1, <2>2, CalmInit, DeferInit DEF TrackInv
<1>2. TrackInv /\ [Next]_vars => TrackInv'
  BY CalmNext, PipeNext, DeferNext, NewsNext, SteadyNext DEF TrackInv, CalmInv, KnowsInv
<1>3. TrackInv => HashSteady
  BY DEF TrackInv
<1> QED BY <1>1, <1>2, <1>3, PTL DEF Spec

-----------------------------------------------------------------------------
(* A build that goes on *)

\* A task that can still be built.
Possible(t) == t \notin runq_complete \cup failed_tids
                 /\ Below(depends, {}, {t}) \cap failed_tids = {}

\* With -k alone nothing stops the build before its end, and it ends when nothing
\* is left that can be built.
GoOnInv ==
    request = {"continue"} =>
        /\ state # "CleanUp" /\ pc \notin {"finish", "gone"}
        /\ Over => \A t \in Tasks : ~Possible(t)

\* Less and less can be built.
LEMMA PossibleLess ==
    ASSUME NEW t, failed_tids \subseteq failed_tids', runq_complete \subseteq runq_complete',
           Possible(t)'
    PROVE  Possible(t)
BY DEF Possible

\* At the end nothing can.
LEMMA NothingPossible ==
    ASSUME SqAcyclic, NoLimits, CalmInv, TailEnd, request = {"continue"}
    PROVE  \A t \in Tasks : ~Possible(t)
<1> DEFINE S == {t \in Tasks : Possible(t)}
<1> SUFFICES ASSUME S # {} PROVE FALSE
  OBVIOUS
<1>1. PICK t \in S : depends[t] \cap S = {}
  <2>1. S \in SUBSET Tasks
    OBVIOUS
  <2> HIDE DEF S
  <2> QED BY <2>1, Lowest
<1>2. t \in Tasks /\ Possible(t)
  BY <1>1
<1>3. \A d \in depends[t] : d \in Below(depends, {}, {t})
                              /\ Below(depends, {}, {d}) \subseteq Below(depends, {}, {t})
  <2> DEFINE below == Below(depends, {}, {t})
  <2>1. \A u \in {t} \cup (below \ {}) : depends[u] \subseteq below
    <3>1. {t} \in SUBSET Tasks
      BY <1>2
    <3> QED BY <3>1, BelowFacts
  <2> HIDE DEF below
  <2>2. ASSUME NEW d \in depends[t]
        PROVE  d \in below /\ Below(depends, {}, {d}) \subseteq below
    <3> DEFINE less == Below(depends, {}, {d})
    <3>1. {d} \in SUBSET Tasks
      BY <1>2, DependsAssumption
    <3>2. \A SS : (\A u \in {d} \cup (SS \ {}) : depends[u] \subseteq SS) => less \subseteq SS
      BY <3>1, BelowFacts
    <3>3. d \in below /\ \A u \in {d} \cup (below \ {}) : depends[u] \subseteq below
      BY <2>1, <2>2
    <3> HIDE DEF less
    <3>4. less \subseteq below
      BY <3>2, <3>3
    <3> QED BY <3>3, <3>4 DEF less
  <2> QED BY <2>2 DEF below
<1>4. depends[t] \subseteq runq_complete
  <2> SUFFICES ASSUME NEW d \in depends[t], d \notin runq_complete PROVE FALSE
    OBVIOUS
  <2>1. d \in Tasks /\ d \notin failed_tids /\ Below(depends, {}, {d}) \cap failed_tids = {}
    BY <1>2, <1>3, DependsAssumption DEF Possible
  <2>2. d \in S
    BY <2>1 DEF Possible
  <2> QED BY <1>1, <2>2
<1>5. t \in Tasks \ runq_running
  BY <1>2, AtTheEnd DEF Possible, CalmInv, StampInv
<1>6. NumberThreads[TaskName[t]] # 0
  BY <1>4, <1>5, AtTheEnd DEF CalmInv, StampInv
<1> QED BY <1>2, <1>6 DEF NoLimits

LEMMA GoOnSame ==
    ASSUME GoOnInv, request' = request,
           failed_tids \subseteq failed_tids', runq_complete \subseteq runq_complete',
           request = {"continue"} =>
             /\ state' = state \/ state' # "CleanUp"
             /\ pc' = pc \/ pc' \notin {"finish", "gone"}
             /\ ~Over' \/ Over \/ \A t \in Tasks : ~Possible(t)
    PROVE  GoOnInv'
BY PossibleLess DEF GoOnInv

LEMMA GoOnNext ==
    ASSUME SqAcyclic, NoLimits, CalmInv, CalmInv', GoOnInv, [Next]_vars
    PROVE  GoOnInv'
<1>0. /\ QueueInv /\ request' = request /\ failed_tids \subseteq failed_tids'
      /\ runq_complete \subseteq runq_complete'
  <2>1. QueueInv
    BY DEF CalmInv, KnowsInv
  <2>2. runq_complete \subseteq runq_complete'
    BY <2>1, RunqStep DEF StartTask, Ended
  <2> QED BY <2>1, <2>2, SameRequest, OutcomeStep
<1> SUFFICES ASSUME request = {"continue"}
             PROVE  /\ state' = state \/ state' # "CleanUp"
                    /\ pc' = pc \/ pc' \notin {"finish", "gone"}
                    /\ ~Over' \/ Over \/ \A t \in Tasks : ~Possible(t)
  BY <1>0, GoOnSame
<1> DEFINE Goal == /\ state' = state \/ state' # "CleanUp"
                   /\ pc' = pc \/ pc' \notin {"finish", "gone"}
                   /\ ~Over' \/ Over \/ \A t \in Tasks : ~Possible(t)
<1>1. /\ state # "CleanUp" /\ pc \notin {"finish", "gone"}
      /\ ~Over => state = "Running"
      /\ "shutdown" \notin request /\ "forceshutdown" \notin request
      /\ "enforce" \notin request /\ "setsceneonly" \notin request
      /\ "continue" \in request
  BY DEF GoOnInv, CalmInv, EndInv
<1>2. ~Over => ReturnIn(state) = "read"
  BY <1>1 DEF ReturnIn
<1>3. ASSUME ~Over, state' = state,
             \/ pc' = ReturnIn(state)
             \/ pc' \in {"read", "rehash", "migrate", "setscene", "holdoff", "sched", "tail", "wait"}
      PROVE  Goal
  BY <1>2, <1>3 DEF Over
<1>4. Read => Goal
  <2>1. ASSUME NEW t \in Tasks,
               \/ ReadSqComplete(t) \/ ReadSqFail(t) \/ ReadComplete(t) \/ ReadFail(t)
               \/ \E h \in Hash : ReadUnihash(t, h)
        PROVE  state' = state /\ pc' = pc
    BY <1>1, <2>1 DEF ReadSqComplete, ReadSqFail, ReadComplete, ReadFail, ReadUnihash, Exited,
         Receive, SqTaskComplete, SqTaskFail, TaskComplete, TaskFail
  <2>2. ASSUME state' = state, pc' = pc PROVE Goal
    BY <2>2 DEF Over
  <2>3. EndRead \/ EndWait => Goal
    BY <1>3 DEF EndRead, EndWait, Over
  <2> QED BY <2>1, <2>2, <2>3 DEF Read
<1>5. Migrations => Goal
  <2>1. ASSUME NEW t \in Setscene, Migrate(t) PROVE state' = state /\ pc' = pc
    BY <1>0, <2>1, MigrateFacts DEF MigrateReset
  <2>2. \A t \in Setscene : MigrateNot(t) => state' = state /\ pc' = pc
    BY DEF MigrateNot
  <2>3. ASSUME state' = state, pc' = pc PROVE Goal
    BY <2>3 DEF Over
  <2>4. Rehash \/ MigrateEnd => Goal
    BY <1>3 DEF Rehash, MigrateEnd, Over
  <2> QED BY <2>1, <2>2, <2>3, <2>4 DEF Migrations
<1>6. SceneStep => Goal
  <2>1. ASSUME NEW t \in Setscene, SqNotNeeded(t) \/ SqInvalid(t) \/ SqOutright(t)
                                     \/ SqStampPresent(t) \/ SqStart(t)
        PROVE  pc = "setscene" /\ state' = state /\ pc' \in {ReturnIn(state), "holdoff"}
    BY <2>1 DEF SqNotNeeded, SqInvalid, SqOutright, SqStampPresent, SqStart, SqNext, SqReaches,
                sqStepUnchanged
  <2>2. SqNone => pc = "setscene" /\ state' = state /\ pc' = "holdoff"
    BY DEF SqNone
  <2>3. CASE Holdoff
    <3>1. CASE state' = state
      BY <1>3, <2>3, <3>1 DEF Holdoff, Over
    <3>2. CASE state' # state
      <4>1. ~SceneErrors
        BY <2>3, <3>2, SceneNeverFails DEF Holdoff, CalmInv
      <4>2. state' = "Complete" /\ Tasks = {} /\ pc' = "teardown"
        BY <1>1, <2>3, <3>2, <4>1 DEF Holdoff
      <4> QED BY <4>2
    <3> QED BY <3>1, <3>2
  <2> QED BY <1>3, <2>1, <2>2, <2>3 DEF SceneStep, Over
<1>7. RunStep => Goal
  <2>1. ASSUME NEW t \in Tasks, Refuse(t) PROVE FALSE
    BY <1>1, <2>1 DEF Refuse, NotAllowed
  <2>2. ASSUME NEW t \in Tasks, SkipTask(t) \/ RunNoexec(t) \/ StartTask(t)
        PROVE  pc = "sched" /\ state' = state /\ pc' \in {ReturnIn(state), "tail"}
    BY <2>2 DEF SkipTask, RunNoexec, StartTask, Ready, Picked
  <2>3. SchedNone \/ TailWait \/ TailForce =>
          ~Over /\ state' = state /\ pc' \in {ReturnIn(state), "tail", "wait"}
    BY DEF SchedNone, TailWait, TailForce, Over
  <2>4. CASE TailEnd
    <3>1. state' # "CleanUp" /\ pc' = "teardown"
      BY <2>4 DEF TailEnd
    <3> QED BY <2>4, <3>1, NothingPossible
  <2>5. ASSUME NEW t \in Tasks, SpawnFail(t) PROVE FALSE
    BY <1>1, <2>5 DEF SpawnFail, NoFakeworker
  <2> QED BY <1>3, <2>1, <2>2, <2>3, <2>4, <2>5 DEF RunStep, Over
<1>8. Finish \/ FinishGone \/ Stop \/ ForceStop => FALSE
  BY <1>1 DEF Finish, FinishGone, Stop, ForceStop
<1>9. Worker \/ WorkerQuit \/ TornDown \/ Terminated \/ UNCHANGED vars => Goal
  BY <1>1 DEF Worker, JobReport, JobExit, unlessJob, WorkerQuit, TornDown, Terminated, vars, Over
<1> QED BY <1>4, <1>5, <1>6, <1>7, <1>8, <1>9 DEF Next, Server

\* With -k, and where no task name has a limit of its own, a build ends only when
\* all that does not depend on a failed task has been built.
THEOREM AllThatCanBeIsBuilt ==
    ASSUME SqAcyclic, NoLimits
    PROVE  Spec => []KeepGoing
<1>1. Init => CalmInv /\ GoOnInv
  BY CalmInit DEF Init, GoOnInv, Over
<1>2. CalmInv /\ GoOnInv /\ [Next]_vars => (CalmInv /\ GoOnInv)'
  BY CalmNext, GoOnNext
<1>3. GoOnInv => KeepGoing
  BY DEF GoOnInv, KeepGoing, Over, Possible
<1> QED BY <1>1, <1>2, <1>3, PTL DEF Spec

-----------------------------------------------------------------------------
(* Two configurations share a setscene task *)

\* Two setscene tasks of one package name that had one hash when the build began:
\* t is met first.
Twins(t, u) == PN[t] = PN[u] /\ Unihash0[t] = Unihash0[u] /\ t < u

\* u waits, or has come from the cache, and is neither worked on nor to be built.
Idle(u) == /\ u \in DOMAIN sq_deferred \cup Kept
           /\ u \notin sq_live \cup Executing \cup sq.notcovered

\* Until the first of two such tasks is complete, the other one is idle.
TwinInv ==
    /\ Late = {}
    /\ \A t, u \in Setscene : Twins(t, u) /\ t \notin runq_complete => Idle(u)

\* A task with a twin is deferred after that twin, if at all.
LEMMA AfterTwin ==
    ASSUME TwoConfigs, QueueInv, DeferInv, NEW t \in Setscene, NEW u \in Setscene,
           Twins(t, u), u \in DOMAIN sq_deferred
    PROVE  sq_deferred[u] = t
<1>1. /\ sq_deferred[u] \in Setscene /\ sq_deferred[u] # u
      /\ PN[sq_deferred[u]] = PN[u] /\ PN[t] = PN[u]
  BY DEF QueueInv, TypeOK, SceneType, DeferInv, Twins
<1>2. t # u
  <2>1. t \in Nat /\ t < u
    BY SetsceneAssumption, TasksAssumption DEF Twins
  <2> QED BY <2>1
<1> QED BY <1>1, <1>2 DEF TwoConfigs

\* A deferred task stays deferred as long as the task it waits for is not
\* complete, unless it turns out not to be needed, or is forced.
LEMMA StaysDeferred ==
    ASSUME QueueInv, [Next]_vars, ~TailForce,
           NEW u \in DOMAIN sq_deferred, sq_deferred[u] \notin runq_complete'
    PROVE  u \in DOMAIN sq_deferred' \/ SqNotNeeded(u)
<1> DEFINE Stays == u \in DOMAIN sq_deferred'
<1>1. UNCHANGED sq_deferred => Stays
  OBVIOUS
<1>2. ASSUME NEW t, NEW buildable, NEW running, NEW scene,
             CompleteOutright(t, buildable, running, scene)
      PROVE  Stays
  <2> DEFINE waiting == {d \in DOMAIN sq_deferred : sq_deferred[d] = t}
             found == IF waiting = {} THEN {} ELSE {Least(waiting)}
  <2>1. /\ DOMAIN sq_deferred' = DOMAIN sq_deferred \ found
        /\ runq_complete' = runq_complete \cup {t}
    BY <1>2 DEF CompleteOutright, Defer
  <2>2. waiting \in SUBSET Tasks
    BY SetsceneAssumption DEF QueueInv, TypeOK, SceneType
  <2>3. found \subseteq waiting
    <3> HIDE DEF waiting
    <3> QED BY <2>2, LeastIn
  <2>4. u \notin waiting
    BY <2>1
  <2> HIDE DEF waiting, found
  <2> QED BY <2>1, <2>3, <2>4
<1>3. ASSUME Read PROVE Stays
  <2>1. ASSUME NEW t \in Tasks, ReadComplete(t) PROVE Stays
    BY <1>2, <2>1 DEF ReadComplete, TaskComplete
  <2>2. ASSUME NEW t \in Tasks, ReadSqComplete(t) \/ ReadSqFail(t) \/ ReadFail(t)
                                  \/ \E h \in Hash : ReadUnihash(t, h)
        PROVE  UNCHANGED sq_deferred
    BY <2>2 DEF ReadSqComplete, ReadSqFail, ReadFail, ReadUnihash, SqTaskComplete, SqTaskFail,
                TaskFail, sceneVars
  <2>3. EndRead \/ EndWait => UNCHANGED sq_deferred
    BY DEF EndRead, EndWait, sceneVars
  <2> QED BY <1>1, <1>3, <2>1, <2>2, <2>3 DEF Read
<1>4. ASSUME Migrations PROVE Stays
  <2>1. MigrateEnd => Stays
    BY DEF MigrateEnd, Defer
  <2>2. Rehash \/ (\E t \in Setscene : MigrateNot(t) \/ Migrate(t)) => UNCHANGED sq_deferred
    BY DEF Rehash, MigrateNot, Migrate, sceneVars
  <2> QED BY <1>1, <1>4, <2>1, <2>2 DEF Migrations
<1>5. ASSUME SceneStep PROVE Stays \/ SqNotNeeded(u)
  <2>1. ASSUME NEW t \in Setscene, SqInvalid(t) \/ SqOutright(t) \/ SqStampPresent(t) \/ SqStart(t)
        PROVE  Stays
    <3>1. Undefer(t) /\ ~SqWaits(t) /\ UNCHANGED runq_complete
      BY <2>1 DEF SqInvalid, SqOutright, SqStampPresent, SqStart, SqNext, sqStepUnchanged, runqVars
    <3>2. u # t
      BY <3>1 DEF SqWaits
    <3> QED BY <3>1, <3>2 DEF Undefer, Defer
  <2>2. ASSUME NEW t \in Setscene, SqNotNeeded(t), t # u PROVE Stays
    BY <2>2 DEF SqNotNeeded, Undefer, Defer
  <2>3. SqNone \/ Holdoff => UNCHANGED sq_deferred
    BY DEF SqNone, Holdoff, sceneVars
  <2> QED BY <1>1, <1>5, <2>1, <2>2, <2>3 DEF SceneStep
<1>6. ASSUME RunStep PROVE Stays
  <2>1. ASSUME NEW t \in Tasks, SkipTask(t) \/ RunNoexec(t) PROVE Stays
    BY <1>2, <2>1 DEF SkipTask, RunNoexec
  <2>2. ASSUME NEW t \in Tasks, Refuse(t) \/ StartTask(t) \/ SpawnFail(t)
        PROVE  UNCHANGED sq_deferred
    BY <2>2 DEF Refuse, TaskFail, StartTask, SpawnFail, sceneVars
  <2>3. SchedNone \/ TailWait \/ TailEnd => UNCHANGED sq_deferred
    BY DEF SchedNone, TailWait, TailEnd, sceneVars
  <2> QED BY <1>1, <1>6, <2>1, <2>2, <2>3 DEF RunStep
<1>7. Worker \/ Finish \/ WorkerQuit \/ TornDown \/ FinishGone \/ Stop \/ ForceStop
        => UNCHANGED sq_deferred
  BY DEF Worker, JobReport, JobExit, Finish, WorkerQuit, TornDown, FinishGone, Stop, ForceStop,
         unlessFinish, unlessJob, sceneVars
<1>8. Terminated \/ UNCHANGED vars => UNCHANGED sq_deferred
  BY DEF Terminated, vars, sceneVars
<1> QED BY <1>1, <1>3, <1>4, <1>5, <1>6, <1>7, <1>8 DEF Next, Server

\* Where setscene tasks do not need each other, only the task of a failed job and
\* the one the loop has come to turn out not to come from the cache.
LEMMA FailsAlone ==
    ASSUME NoHardDeps, QueueInv, Late = {}, [Next]_vars, ~TailForce,
           NEW u \in sq'.notcovered \ sq.notcovered
    PROVE  u \in sq_live \/ (SqReaches(u) /\ ~SqWaits(u))
<1>1. ASSUME NEW good \in SUBSET Setscene, NEW bad \in SUBSET Setscene, Settled(good, bad)
      PROVE  sq'.notcovered = sq.notcovered \cup bad
  <2> DEFINE q == SqSkip(sq, good)
  <2>1. sq \in SqSets
    BY DEF QueueInv, TypeOK, SceneType
  <2>2. q \in SqSets /\ q.notcovered = sq.notcovered
    BY <2>1, SkipFacts
  <2> HIDE DEF q
  <2>3. sq' = SqFailOutright(q, bad)
    BY <1>1 DEF Settled, q
  <2>4. sq'.notcovered = q.notcovered \cup HardFailures(q, bad)
    BY <2>2, <2>3, FailFacts
  <2>5. HardFailures(q, bad) = bad
    <3>1. /\ bad \subseteq HardFailures(q, bad) /\ HardFailures(q, bad) \subseteq Setscene
          /\ \A c \in HardFailures(q, bad) \ bad :
               \E v \in HardFailures(q, bad) : c \in sq_harddeps[v]
      BY HardFacts
    <3> QED BY <3>1 DEF NoHardDeps
  <2> QED BY <2>2, <2>4, <2>5
<1>2. ASSUME NEW t \in Setscene, SqStart(t) PROVE sq'.notcovered = sq.notcovered
  BY <1>2, StartSame
<1>3. ASSUME NEW t \in Setscene, Migrate(t) PROVE sq'.notcovered = sq.notcovered \ {t}
  BY <1>3, MigrateFacts
<1>4. Failing(u)
  BY <1>1, <1>2, <1>3, SqStep
<1> QED BY <1>4 DEF Failing

\* The loop does not come to an idle task before its twin is complete.
LEMMA IdleWaits ==
    ASSUME TwoConfigs, QueueInv, DeferInv, NEW t \in Setscene, NEW u \in Setscene, Twins(t, u),
           t \notin runq_complete, Idle(u), SqReaches(u)
    PROVE  SqWaits(u)
<1>1. u \notin Kept
  <2>1. u \notin sq.running
    BY DEF SqReaches, SqCandidate
  <2> QED BY <2>1 DEF Kept, QueueInv, SchedInv, SceneInv, SceneOK, Resolved
<1>2. u \in DOMAIN sq_deferred
  BY <1>1 DEF Idle
<1> QED BY <1>2, AfterTwin DEF SqWaits

\* Nor is it built.
LEMMA IdleRests ==
    ASSUME KnowsInv, NEW u \in Setscene, Idle(u)
    PROVE  ~StartTask(u)
<1> SUFFICES ASSUME StartTask(u) PROVE FALSE
  OBVIOUS
<1>0. QueueInv /\ Picked(u) /\ u \notin tasks_covered /\ u \in Tasks
  BY SetsceneAssumption DEF KnowsInv, StartTask, Ready
<1>1. ~holdoff_need_update /\ ~changed
  BY <1>0, PickedFacts
<1>2. u \in CoveredBy(sq.notcovered) \cup (unskippable \ Setscene)
  BY <1>0, <1>1 DEF Picked, Eligible, KnowsInv, KnownInv
<1>3. sq.notcovered \in SUBSET Setscene
  BY <1>0 DEF QueueInv, TypeOK, SceneType, SqSets
<1>4. u \in sq.notcovered
  BY <1>2, <1>3, CoveredByScene
<1> QED BY <1>4 DEF Idle

LEMMA LateNone ==
    ASSUME NoHardDeps, QueueInv, Late = {}, [Next]_vars
    PROVE  Late' = {}
<1>1. CASE UNCHANGED update_tasks
  BY <1>1 DEF Late
<1>2. CASE MigrateEnd
  BY <1>2 DEF MigrateEnd, Late
<1>3. ASSUME NEW t \in Setscene, Migrate(t) PROVE Late' = {}
  <2> DEFINE hard == \E u \in sq.notcovered : t \in sq_harddeps[u]
  <2>1. sq.notcovered \subseteq Setscene
    BY DEF QueueInv, TypeOK, SceneType, SqSets
  <2>2. hard = FALSE
    BY <2>1 DEF NoHardDeps
  <2>3. update_tasks' = update_tasks \cup {[task |-> t, harddepfail |-> hard]}
    BY <1>3, MigrateFacts DEF MigrateReset
  <2> HIDE DEF hard
  <2>4. \A v \in update_tasks' : v \in update_tasks \/ ~v.harddepfail
    BY <2>2, <2>3
  <2> QED BY <2>4 DEF Late
<1> QED BY <1>1, <1>2, <1>3, UpdateStep

LEMMA TwinNext ==
    ASSUME TwoConfigs, NoHardDeps, KnowsInv, KnowsInv', DeferInv, TwinInv, [Next]_vars, ~TailForce
    PROVE  TwinInv'
<1>0. QueueInv /\ QueueInv' /\ Late = {}
  BY DEF KnowsInv, TwinInv
<1> SUFFICES ASSUME NEW t \in Setscene, NEW u \in Setscene, Twins(t, u), t \notin runq_complete'
             PROVE  Idle(u)'
  BY <1>0, LateNone DEF TwinInv, Twins
<1>1. t \notin runq_complete
  <2>1. ASSUME NEW v \in Tasks, StartTask(v) PROVE UNCHANGED runq_complete
    BY <2>1 DEF StartTask
  <2> QED BY <1>0, <2>1, RunqStep DEF Ended
<1>2. Idle(u)
  BY <1>1 DEF TwinInv
<1>3. ~(SqReaches(u) /\ ~SqWaits(u)) /\ ~SqStart(u) /\ ~StartTask(u)
  <2>1. SqReaches(u) => SqWaits(u)
    BY <1>0, <1>1, <1>2, IdleWaits
  <2>2. ~StartTask(u)
    BY <1>2, IdleRests
  <2> QED BY <2>1, <2>2 DEF SqStart, SqNext
<1>4. u \notin sq'.notcovered
  BY <1>0, <1>2, <1>3, FailsAlone DEF Idle
<1>5. u \notin sq_live' \cup Executing'
  BY <1>0, <1>2, <1>3, WorkStep DEF Idle, JobsSame
<1>6. u \in DOMAIN sq_deferred' \cup Kept'
  <2>1. CASE u \in Kept
    BY <1>0, <2>1, KeptKept
  <2>2. CASE u \in DOMAIN sq_deferred /\ ~SqNotNeeded(u)
    <3>1. sq_deferred[u] = t
      BY <1>0, <2>2, AfterTwin
    <3> QED BY <1>0, <2>2, <3>1, StaysDeferred
  <2>3. CASE SqNotNeeded(u)
    <3>1. u \in sq'.covered
      <4>1. sq' = SqSkip(sq, {u}) /\ sq \in SqSets
        BY <1>0, <2>3 DEF SqNotNeeded, QueueInv, TypeOK, SceneType
      <4> QED BY <4>1, SkipFacts
    <3>2. u \notin todo' \cup pending_migrations'
      BY <1>0, <1>4, <3>1 DEF QueueInv, SchedInv, MoveInv
    <3> QED BY <3>1, <3>2 DEF Kept
  <2> QED BY <1>2, <2>1, <2>2, <2>3 DEF Idle
<1> QED BY <1>4, <1>5, <1>6 DEF Idle

\* When the build begins, the second of two such tasks is deferred.
LEMMA TwinInit == Init => TwinInv
<1> SUFFICES ASSUME Init PROVE TwinInv
  OBVIOUS
<1>1. Late = {}
  BY DEF Init, Late
<1>2. ASSUME NEW t \in Setscene, NEW u \in Setscene, Twins(t, u)
      PROVE  u \in DOMAIN sq_deferred
  <2> DEFINE same == {v \in Setscene : PN[v] = PN[u] /\ Unihash0[v] = Unihash0[u]}
  <2>1. DOMAIN sq_deferred = {v \in Setscene : Leaders(v, Unihash0[v]) # {v}}
    BY DEF Init
  <2>2. same \in SUBSET Nat /\ t \in same /\ u \in same
    BY <1>2, SetsceneAssumption, TasksAssumption DEF Twins
  <2>3. Leaders(u, Unihash0[u]) = {Least(same)}
    BY <2>2 DEF Leaders
  <2> HIDE DEF same
  <2>4. Least(same) <= t /\ Least(same) \in Nat
    <3>1. \E x \in same : \A y \in same : x <= y
      BY <2>2, LeastNat
    <3> QED BY <2>2, <3>1 DEF Least
  <2>5. t < u /\ t \in Nat /\ u \in Nat
    BY <1>2, <2>2 DEF Twins
  <2>6. Least(same) # u
    BY <2>4, <2>5
  <2> QED BY <2>1, <2>3, <2>6
<1>3. sq_live = {} /\ Executing = {} /\ sq.notcovered = {}
  <2>1. sq.notcovered = {}
    <3> DEFINE q == [buildable |-> {t \in Setscene : sq_revdeps[t] = {}},
                     running |-> {}, covered |-> {}, notcovered |-> {},
                     done |-> unskippable \ Setscene]
    <3>1. PICK present \in SUBSET Setscene : sq = SqSkip(q, present)
      BY DEF Init
    <3>2. q \in SqSets /\ q.notcovered = {}
      BY GraphType DEF SqSets
    <3> HIDE DEF q
    <3> QED BY <3>1, <3>2, SkipFacts
  <2> QED BY <2>1 DEF Init, Executing
<1> QED BY <1>1, <1>2, <1>3 DEF TwinInv, Idle

\* Where no more than two configurations share a recipe and setscene tasks do not
\* need each other, two setscene tasks of one package name and hash are never
\* worked on at once, as long as the hashes are those of the start and no
\* deadlock of deferred tasks is broken by force.
THEOREM OneBuildsForAll ==
    ASSUME TwoConfigs, NoHardDeps
    PROVE  Spec /\ NeverForced => [](HashesOfStart => OneBuilder)
<1> DEFINE Inv == KnowsInv /\ DeferInv /\ TwinInv
<1>1. Init => Inv
  BY KnowsInit, DeferInit, TwinInit
<1>2. Inv /\ [Next]_vars /\ [~TailForce]_vars => Inv'
  <2> SUFFICES ASSUME Inv, [Next]_vars, [~TailForce]_vars PROVE Inv'
    OBVIOUS
  <2>1. KnowsInv' /\ DeferInv'
    BY KnowsNext, DeferNext DEF KnowsInv
  <2>2. TailForce => pc = "tail" /\ pc' = ReturnIn(state)
    BY DEF TailForce
  <2>3. ~TailForce
    BY <2>2 DEF vars, ReturnIn
  <2>4. TwinInv'
    BY <2>1, <2>3, TwinNext
  <2> QED BY <2>1, <2>4
<1>3. Inv => (HashesOfStart => OneBuilder)
  <2> SUFFICES ASSUME QueueInv, TwinInv, HashesOfStart PROVE OneBuilder
    BY DEF KnowsInv
  <2> SUFFICES ASSUME NEW j \in jobs, NEW k \in jobs,
                      j.task \in Setscene, k.task \in Setscene, j.task < k.task,
                      PN[j.task] = PN[k.task], j.hash = k.hash
               PROVE  FALSE
    <3>1. \A i \in jobs : i.task \in Nat
      BY TasksAssumption DEF QueueInv, TypeOK, WorkType, Job
    <3>2. \A i, k \in jobs : i.task # k.task => i.task < k.task \/ k.task < i.task
      BY <3>1
    <3> QED BY <3>2 DEF OneBuilder
  <2>1. Twins(j.task, k.task)
    BY DEF Twins, HashesOfStart
  <2>2. \A i \in jobs : i.task \in sq_live \cup Executing
    BY DEF QueueInv, SchedInv, JobInv
  <2>3. j.task \notin runq_complete
    <3>1. CASE j.task \in Executing
      BY <3>1 DEF Executing
    <3>2. CASE j.task \in sq_live
      BY <3>2 DEF QueueInv, SchedInv, HoldInv, IsDecided, SceneInv, SceneOK
    <3> QED BY <2>2, <3>1, <3>2
  <2>4. Idle(k.task)
    BY <2>1, <2>3 DEF TwinInv
  <2> QED BY <2>2, <2>4 DEF Idle
<1> QED BY <1>1, <1>2, <1>3, PTL DEF Spec, NeverForced
=============================================================================
