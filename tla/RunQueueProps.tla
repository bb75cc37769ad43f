---------------------------- MODULE RunQueueProps ----------------------------
(***************************************************************************)
(* What RunQueue promises: the invariants, step and liveness properties    *)
(* that the runs check and RunQueueProofs proves.                          *)
(***************************************************************************)
EXTENDS RunQueue

\* The tasks a worker is running, as themselves and from the cache.
Ordinary == {j.task : j \in {k \in jobs : ~k.setscene}}
FromCache == {j.task : j \in {k \in jobs : k.setscene}}

\* The jobs that have ended and that the server has not heard of.
Exits == {i \in 1..Len(pipe) : pipe[i].type = "exit"}

\* The tasks the server believes to be executing.
Executing == runq_running \ (runq_complete \cup failed_tids)

-----------------------------------------------------------------------------
(* Types *)

ControlType ==
    /\ request \in Requests
    /\ state \in {"Running", "CleanUp", "Failed", "Complete"}
    /\ pc \in {"read", "rehash", "migrate", "setscene", "holdoff", "sched",
               "tail", "wait", "finish", "teardown", "gone", "done"}

RunqType ==
    /\ runq_buildable \subseteq Tasks /\ runq_running \subseteq Tasks
    /\ runq_complete \subseteq Tasks /\ runq_tasksrun \subseteq Tasks
    /\ failed_tids \subseteq Tasks
    /\ stats_active \in Int

BuildType == build_stamps \subseteq [task : Tasks, setscene : BOOLEAN, hash : Hash]

SqSets == [buildable : SUBSET Setscene, running : SUBSET Setscene,
           covered : SUBSET Setscene, notcovered : SUBSET Setscene,
           done : SUBSET Tasks]
SceneType ==
    /\ sq \in SqSets
    /\ sq_live \subseteq Setscene /\ notneeded \subseteq Setscene
    /\ DOMAIN sq_deferred \subseteq Setscene
    /\ \A t \in DOMAIN sq_deferred : sq_deferred[t] \in Setscene
    /\ sq_before \subseteq Setscene \X Setscene
    /\ sqdone \in BOOLEAN
    /\ sq_active \in Int

StampTypes == [StampFiles -> Hash \cup {None}]
ValidType == /\ outrightfail \subseteq Setscene
             /\ sqstamp \in StampTypes
             /\ holdoff_need_update \in BOOLEAN

HoldType == /\ tasks_covered \subseteq Tasks /\ tasks_notcovered \subseteq Tasks
            /\ holdoff_tasks \subseteq Tasks

NameType == unihash \in [Tasks -> Hash] /\ sig \in [Tasks -> Hash]

NewsType == updated_taskhash_queue \subseteq [task : Tasks, hash : Hash]

MoveType == /\ sq_stamps \in [Setscene -> Hash]
            /\ pending_migrations \subseteq Setscene /\ todo \subseteq Setscene
            /\ changed \in BOOLEAN
            /\ update_tasks \subseteq [task : Setscene, harddepfail : BOOLEAN]

DiskType == stamp \in StampTypes /\ fresh \subseteq StampFiles

WorkType == jobs \subseteq Job /\ pipe \in Seq(Message)

\* Every variable of a build keeps its type: in particular the sets of the
\* setscene queue hold setscene tasks only, tasks are deferred after setscene
\* tasks, and the stamps are those of the tasks' files.
TypeOK == /\ ControlType /\ RunqType /\ BuildType /\ SceneType /\ ValidType
          /\ HoldType /\ NameType /\ NewsType /\ MoveType /\ DiskType /\ WorkType

-----------------------------------------------------------------------------
(* Order *)

\* No task is started, or skipped, before every task it depends on is complete
\* (setbuildable and task_completeoutright decide it, several calls before).
DepsFirst == \A t \in runq_running : depends[t] \subseteq runq_complete

\* When a task runs, each of its dependencies has run, or was found up to date,
\* in this build or its output has come from the cache: that a task is
\* "covered" never hides that its output is missing.
InputsAvailable ==
    \A t \in Ordinary : depends[t] \subseteq runq_tasksrun \cup sq.covered

\* An ordinary task executes only when its own setscene task, and every one that
\* would make it unnecessary, has been decided (holdoff_tasks).  So no setscene task runs while what it covers does,
\* though the loop of execute() that should see to it, "if covered tasks are
\* running, need to wait for them to complete", has no effect.
DecidedFirst ==
    \A t \in Executing : \A u \in Setscene :
        t \in sq_covered_tasks[u] \cup {u} => u \in Resolved(sq)

-----------------------------------------------------------------------------
(* Jobs *)

\* The two counters that say how many jobs are active count exactly the jobs
\* that run and those whose exit has still to be read; a build waits for its
\* jobs by them alone.  Killed jobs never report, and BB_SETSCENE_ENFORCE counts
\* a refused task as a job that has ended, as a build without its fakeroot
\* worker does the task it could not start.
ActiveIsLive ==
    request \cap {"forceshutdown", "enforce", "nofakeworker"} = {} /\ pc # "done" =>
        Active = Cardinality(jobs) + Cardinality(Exits)

\* runqueue_process_waitpid tells the exit of t_setscene from that of t by
\* sq_live alone, and looks build_stamps up by the task: there is never a
\* second job of the task while one lives, or before its exit was read.
ExitUnambiguous ==
    /\ \A j, k \in jobs : j.task = k.task => j = k
    /\ \A i \in Exits : pipe[i].task \notin Ordinary \cup FromCache

\* Two ordinary jobs never make the same stamp at once, as long as their hashes
\* are those the build began with, which are all the scheduler looks at.
StampsOfStart ==
    \A j, k \in jobs :
        /\ j.task # k.task /\ ~j.setscene /\ ~k.setscene
        /\ ~j.told /\ ~k.told /\ j.hash = k.hash
        /\ j.hash = Unihash0[j.task] /\ k.hash = Unihash0[k.task]
        => Stamp[j.task] # Stamp[k.task]

\* Two jobs never make the same stamp at once: "cache of stamp files so
\* duplicates can't run in parallel" in SQData.  Not so once hashes have changed.
StampExclusive ==
    \A j, k \in jobs :
        /\ j.task # k.task /\ j.setscene = k.setscene
        /\ ~j.told /\ ~k.told /\ j.hash = k.hash
        => Stamp[j.task] # Stamp[k.task]

\* Two setscene tasks of one package name and hash, of two multiconfigs, are
\* never worked on at once, be it from the cache or not: "we shouldn't allow
\* all to run at once as it is prone to races" in task_completeoutright.
OneBuilder ==
    \A j, k \in jobs :
        /\ {j.task, k.task} \subseteq Setscene /\ j.task # k.task
        /\ ~j.told /\ ~k.told
        => PN[j.task] # PN[k.task] \/ j.hash # k.hash

\* A build that is not aborted ends with no job alive: finish() waits for the
\* "active tasks to finish" (runQueueExitWait).  Under BB_SETSCENE_ENFORCE it may
\* not: a refused task is counted as a job that has ended.  Nor does a build that
\* cannot start its fakeroot worker, which fails at once.
NothingKilled ==
    request \cap {"forceshutdown", "enforce", "nofakeworker"} = {}
      /\ pc \in {"teardown", "done"} =>
        jobs = {}

-----------------------------------------------------------------------------
(* Hashes *)

\* The server's hash of a task does not move while the task runs, so that the
\* stamp it is going to write is the one the server will look for.
HashSteady ==
    \A j \in jobs : ~j.setscene /\ ~j.told => j.hash = sig[j.task]

-----------------------------------------------------------------------------
(* The setscene queue and the end of a build *)

\* "No task should end up in both covered and uncovered, that is a bug", says
\* summarise_scenequeue_errors.
NotBoth == sq.covered \cap sq.notcovered = {}

\* A build fails only when a task has failed: none of the sanity checks of the
\* two queues (summarise_scenequeue_errors, "Task %s never ran!") ever fires.
\* The one other reason is a fakeroot worker that cannot be started.
SaneQueues ==
    state = "Failed" /\ "nofakeworker" \notin request => failed_tids # {}

\* A build in which a task has failed ends as failed, unless it was aborted, or
\* its jobs were killed for want of a fakeroot worker.
OutcomeKnown ==
    pc = "done" /\ failed_tids # {}
      /\ request \cap {"forceshutdown", "nofakeworker"} = {}
        => state = "Failed"

\* A build that nobody stopped and that ends as complete has dealt with every
\* task, and has really run the targets that have no setscene variant.  Not so
\* under BB_SETSCENE_ENFORCE: a setscene task that fails there stops the build,
\* but is no failed task, and the build is complete.
CompleteIsBuilt ==
    /\ request \cap {"shutdown", "forceshutdown", "setsceneonly", "enforce"} = {}
    /\ pc = "done"
    /\ state = "Complete"
    =>
        runq_complete = Tasks /\ cantskip \subseteq runq_tasksrun

\* With -k, "while the target that failed and anything depending on it cannot
\* be built, as much as possible will be built before stopping".
KeepGoing ==
    request = {"continue"} /\ pc = "done" => \A t \in Tasks :
        \/ t \in runq_complete \cup failed_tids
        \/ Below(depends, {}, {t}) \cap failed_tids # {}

\* Every build ends: neither deferred setscene tasks, nor held off tasks, nor
\* the wait for jobs can keep it for ever, provided every job ends.
Ends == <>(pc = "done")

-----------------------------------------------------------------------------
(* What some of the theorems ask of a build *)

\* The setscene tasks and their hard dependencies go round in no circle.
SqAcyclic == Acyclic(sq_revdeps)

\* number_threads is no negative number.
ThreadsSane == \A t \in Tasks : NumberThreads[TaskName[t]] \in Nat

\* No task name has a limit of its own.
NoLimits == \A t \in Tasks : NumberThreads[TaskName[t]] = 0

\* No more than two configurations of a multiconfig build share a setscene task.
TwoConfigs ==
    \A t, u, v \in Setscene : PN[t] = PN[u] /\ PN[u] = PN[v] => t = u \/ u = v \/ t = v

\* No setscene task needs another one first.
NoHardDeps == \A t \in Setscene : sq_harddeps[t] = {}

\* The workers' jobs have the hashes the build began with.
HashesOfStart == \A j \in jobs : j.hash = Unihash0[j.task]

\* "Runqueue deadlocked on deferred tasks" is never said.
NeverForced == [][~TailForce]_vars

-----------------------------------------------------------------------------
(* The abstract build *)

\* The two queues together schedule a build as BuildOrder says.
Order == INSTANCE BuildOrder WITH
    building <- Executing,
    fetching <- sq_live,
    done <- runq_complete,
    failed <- failed_tids

Implements == Order!Spec
=============================================================================
