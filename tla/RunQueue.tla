------------------------------ MODULE RunQueue ------------------------------
(***************************************************************************)
(* RunQueueExecute of bb.runqueue: one build of BitBake, from the moment   *)
(* the workers are started to their teardown.                              *)
(*                                                                         *)
(* The BitBake server calls execute_runqueue() again and again from its    *)
(* idle loop.  One call reads what the workers have written to their pipe, *)
(* follows changed hashes through the graph, tries to start one setscene   *)
(* task, moves what the setscene queue has settled over to the run queue,  *)
(* tries to start one ordinary task, and at the end decides whether the    *)
(* build is over.  pc says how far the current call has come; the workers  *)
(* run their jobs, touch stamps and write to the pipe between any two      *)
(* steps.                                                                  *)
(***************************************************************************)
EXTENDS Integers, Sequences, FiniteSets, TaskGraph

CONSTANTS
  Tasks,          \* runtaskentries: the tasks of the build, in sorted order
  depends,        \* runtaskentries[t].depends
  Setscene,       \* runq_setscene_tids
  sq_harddeps,    \* [depends] flags between setscene tasks (TaskGraph)
  Targets,        \* target_tids
  Noexec,         \* tasks flagged noexec
  Nostamp,        \* tasks flagged nostamp
  Fakeroot,       \* tasks flagged fakeroot
  Recipe,         \* the recipe file of a task
  PN,             \* the package name of a task, part of pending_hash_index
  Stamp,          \* its stamp file, less the hash: tasks may share one
  TaskName,       \* the task name, the unit of number_threads
  NumberThreads,  \* number_threads of a task name, 0 when it is not set
  NumberTasks,    \* BB_NUMBER_THREADS
  Whitelisted,    \* tasks BB_SETSCENE_ENFORCE_WHITELIST lets run
  Hash,           \* unihashes
  Unihash0,       \* unihash of each task after RunQueueData.prepare
  OldStamps,      \* the sets of tasks a build may find the stamp of on disk
  OldSqStamps,    \* the same for setscene stamps
  Requests        \* the builds asked for, sets of: "continue" (-k), "force"
                  \* (-f), "skipsetscene", "setsceneonly", "enforce"
                  \* (BB_SETSCENE_ENFORCE); "shutdown", "forceshutdown"
                  \* when the build may be stopped, or aborted; and
                  \* "nofakeworker" when no fakeroot worker can be started

None == "none"

ASSUME TasksAssumption == Tasks \subseteq Nat /\ IsFiniteSet(Tasks)
ASSUME DependsAssumption == depends \in [Tasks -> SUBSET Tasks]
ASSUME AcyclicAssumption == Acyclic(depends)
ASSUME SetsceneAssumption ==
    /\ Setscene \subseteq Tasks
    /\ sq_harddeps \in [Setscene -> SUBSET Setscene]
ASSUME NumberTasksAssumption == NumberTasks \in Nat \ {0}
ASSUME HashAssumption == Unihash0 \in [Tasks -> Hash] /\ None \notin Hash
ASSUME StampsAssumption ==
    OldStamps \subseteq SUBSET Tasks /\ OldSqStamps \subseteq SUBSET Setscene

revdeps == RevDeps(depends)
sq_revdeps == SqRevDeps(depends, Setscene, sq_harddeps)
sq_deps == SqDeps(depends, Setscene, sq_harddeps)
sq_covered_tasks == CoveredTasks(depends, Setscene)
cantskip == CantSkip(depends, Setscene, Targets)
unskippable == Unskippable(depends, Setscene, Targets)
leaves == {t \in Tasks : depends[t] = {}}
StampFiles == {Stamp[t] : t \in Tasks}
StampsOf(S) == {Stamp[t] : t \in S}

Least(S) == CHOOSE t \in S : \A u \in S : t <= u

\* sqdata.hashes: the setscene tasks that first had this hash when the build
\* began (at most one); tasks of the same hash wait for that one.
Leaders(t, hash) ==
    LET same == {u \in Setscene : PN[u] = PN[t] /\ Unihash0[u] = hash}
    IN  IF same = {} THEN {} ELSE {Least(same)}

-----------------------------------------------------------------------------
VARIABLES
  request,           \* what is asked of this build
  state,             \* rq.state
  pc,                \* where the call of execute_runqueue() is
  \* the run queue
  runq_buildable, runq_running, runq_complete, runq_tasksrun,
  build_stamps,      \* the stamps of the jobs sent and not come back
  failed_tids,
  stats_active,      \* stats.active
  \* the setscene queue
  sq,                \* its task sets: buildable, running, covered,
                     \* notcovered, and done (tasks_scenequeue_done)
  sq_live, notneeded, outrightfail, sq_deferred, sqdone,
  sq_before,         \* the order of the keys of sq_deferred: <<d, e>> when d
                     \* was inserted before e
  sq_active,         \* sq_stats.active
  \* what the setscene queue lets the run queue do
  tasks_covered, tasks_notcovered, holdoff_tasks, holdoff_need_update,
  \* hash equivalence
  unihash,           \* runtaskentries[t].unihash
  sig,               \* siggen's unihash, which names the stamp files
  sq_stamps,         \* the hash in sqdata.stamps[t]
  updated_taskhash_queue, pending_migrations,
  todo,              \* pending migrations this call has still to look at
  changed, update_tasks,
  \* the disk
  stamp, sqstamp,    \* the hash of each stamp file, or None
  fresh,             \* the ordinary stamps made by this build
  \* the workers
  jobs, pipe

runqVars  == <<runq_buildable, runq_running, runq_complete, runq_tasksrun,
               failed_tids, stats_active>>
sceneVars == <<sq, sq_live, notneeded, sq_deferred, sq_before, sqdone, sq_active>>
validVars == <<outrightfail, sqstamp, holdoff_need_update>>
holdVars  == <<tasks_covered, tasks_notcovered, holdoff_tasks>>
steadyVars == <<request, unihash, sig>>
moveVars  == <<sq_stamps, pending_migrations, todo, changed, update_tasks>>
diskVars  == <<stamp, fresh>>
workVars  == <<jobs, pipe>>
vars == <<state, pc, runqVars, build_stamps, sceneVars, validVars, holdVars,
          steadyVars, updated_taskhash_queue, moveVars, diskVars, workVars>>

Job == [task : Tasks, setscene : BOOLEAN, hash : Hash, told : BOOLEAN]
Message == [type : {"exit"}, task : Tasks, ok : BOOLEAN]
             \cup [type : {"unihash"}, task : Tasks, hash : Hash]

-----------------------------------------------------------------------------
(* Counters and stamps *)

Active == stats_active + sq_active
CanStartTask == Active < NumberTasks

\* Mutant: the failures are forgotten when the build is stopped.
VerdictDeaf(failed) == "Complete"
\* The state the build ends in when no more jobs are active.
Verdict(failed) == IF failed # {} THEN "Failed" ELSE "Complete"

\* execute() returns: finish() follows when the build is being cleaned up.
ReturnIn(st) == CASE st = "CleanUp" -> "finish"
                  [] st = "Running" -> "read"
                  [] OTHER -> "teardown"

\* stamp in build_stamps.values()
StampLive(t, setscene, hash) ==
    \E b \in build_stamps : /\ Stamp[b.task] = Stamp[t]
                            /\ b.setscene = setscene
                            /\ b.hash = hash

\* The files once make_stamp has been called for the tasks of S.
Touch(files, S) ==
    [f \in StampFiles |-> IF f \in StampsOf(S)
                          THEN sig[CHOOSE t \in S : Stamp[t] = f]
                          ELSE files[f]]

\* check_stamp_task for the ordinary task t.  made and scene are the stamps on
\* disk; a stamp of this build is newer than one found there, and a setscene
\* stamp is newer than the ordinary one, which make_stamp would have replaced.
Has(files, t) == files[Stamp[t]] = sig[t]

StampCurrent(t, made, scene, new) ==
    /\ Has(made, t)
    /\ t \notin Nostamp
    /\ \A d \in depends[t] :
         \/ Has(scene, d)
         \/ Recipe[d] # Recipe[t]
         \/ Has(made, d) /\ (Stamp[d] \in new => Stamp[t] \in new)

\* The same with recurse=True, evaluated anew each time: stampcache, which lives
\* as long as the execution, is not kept.
StampCurrentBelow(t, made, scene, new) ==
    LET asked == [u \in Tasks |-> {d \in depends[u] : /\ ~Has(scene, d)
                                                      /\ Recipe[d] = Recipe[u]}]
    IN  \A u \in {t} \cup Below(asked, {}, {t}) :
            StampCurrent(u, made, scene, new)

IsCurrent(t) == StampCurrent(t, stamp, sqstamp, fresh)

-----------------------------------------------------------------------------
(* The setscene queue's bookkeeping, on q, a value of sq *)

Resolved(q) == q.covered \cup q.notcovered


\* scenequeue_updatecounters(task, True): the hard dependencies that fail too.
HardFailures(q, failed) ==
    failed \cup Down(sq_harddeps, Setscene \ Resolved(q), failed)

\* Mutant: ordinary tasks are never done.
DoneBelowNever(done, From) == done \cup From

\* scenequeue_updatecounters: the tasks done once those of From are.  It goes
\* down over ordinary tasks, to each when all that depend on it are done.
DoneBelow(done, From) ==
    LET open == Tasks \ (Setscene \cup done \cup From)
        met == Down(depends, open, From)
        stuck == {u \in met : ~(revdeps[u] \subseteq done \cup From \cup met)}
    IN  done \cup From \cup (met \ (stuck \cup Down(depends, open, stuck)))

\* scenequeue_updatecounters for the tasks of good, which are now covered, and
\* of bad, which are not.
Settle(q, good, bad) ==
    LET fails == HardFailures(q, bad)
        settled == Resolved(q) \cup good \cup fails
        freed == {d \in Setscene :
                    /\ sq_revdeps[d] \subseteq settled
                    /\ \/ \E t \in good : d \in sq_deps[t]
                       \/ \E t \in fails : d \in sq_deps[t] \ sq_harddeps[t]}
    IN  [buildable |-> q.buildable \cup freed \cup (fails \ bad),
         running |-> q.running \cup (fails \ bad),
         covered |-> q.covered \cup good,
         notcovered |-> q.notcovered \cup fails,
         done |-> DoneBelow(q.done, good \cup fails)]

\* Mutant: the tasks skipped or failed are not marked as running.
DispatchedNot(q, tids) == [q EXCEPT !.buildable = @ \cup tids]
Dispatched(q, tids) ==
    [q EXCEPT !.buildable = @ \cup tids, !.running = @ \cup tids]

SqSkip(q, tids) == Settle(Dispatched(q, tids), tids, {})
SqFailOutright(q, tids) == Settle(Dispatched(q, tids), {}, tids)

\* update_scenequeue_data: the tasks of tids skipped because they are noexec or
\* a stamp says they need not run.  scene holds the setscene stamps found; the
\* tasks are met in sorted order, and the noexec ones get their stamp.
Skipped(tids, scene) ==
    LET noexec == tids \cap Noexec
        at(t) == Touch(scene, {u \in noexec : u < t})
    IN  noexec \cup
        {t \in tids : \/ Has(at(t), t)
                      \/ StampCurrentBelow(t, stamp', at(t), fresh')}

\* update_scenequeue_data, less what becomes of sq: q is sq after the skips.
\* The cache validates some of the others; those neither valid nor deferred
\* can only fail.
UpdateScenequeue(q, tids, deferred, scene) ==
    /\ \E valid \in SUBSET (tids \ Skipped(tids, scene)) :
         outrightfail' = (outrightfail \ tids) \cup
           (tids \ (Skipped(tids, scene) \cup valid \cup Resolved(q)
                     \cup deferred))
    /\ sqstamp' = Touch(scene, tids \cap Noexec)

-----------------------------------------------------------------------------
(* RunQueueExecute.__init__ and build_scenequeue_data *)

\* The stamp files on disk when those of the tasks of S are.
Found(S) == [f \in StampFiles |-> IF f \in StampsOf(S)
                                  THEN Unihash0[CHOOSE t \in S : Stamp[t] = f]
                                  ELSE None]

Init ==
    /\ request \in Requests
    /\ stamp \in {Found(S) : S \in OldStamps}
    /\ sqstamp \in {Found(S \cup (Setscene \cap Noexec)) : S \in OldSqStamps}
    /\ fresh = {}
    /\ unihash = Unihash0 /\ sig = Unihash0
    /\ sq_stamps = [t \in Setscene |-> Unihash0[t]]
    /\ updated_taskhash_queue = {} /\ pending_migrations = {}
    /\ todo = {} /\ changed = FALSE /\ update_tasks = {}
    /\ LET deferred == {t \in Setscene : Leaders(t, Unihash0[t]) # {t}}
           present == {t \in Setscene :
                         \/ sqstamp[Stamp[t]] = Unihash0[t]
                         \/ StampCurrentBelow(t, stamp, sqstamp, {})}
           q == [buildable |-> {t \in Setscene : sq_revdeps[t] = {}},
                 running |-> {}, covered |-> {}, notcovered |-> {},
                 done |-> unskippable \ Setscene]
       IN  /\ sq_deferred = [t \in deferred |->
                               Least(Leaders(t, Unihash0[t]))]
           /\ sq_before = {p \in deferred \X deferred : p[1] < p[2]}
           /\ sq = SqSkip(q, present)
           /\ \E valid \in SUBSET (Setscene \ present) :
                outrightfail = Setscene \ (present \cup valid \cup deferred)
    /\ runq_buildable = leaves \cap (IF Setscene = {} THEN Tasks
                                     ELSE unskippable \ Setscene)
    /\ runq_running = {} /\ runq_complete = {} /\ runq_tasksrun = {}
    /\ build_stamps = {} /\ failed_tids = {}
    /\ stats_active = 0 /\ sq_active = 0
    /\ sq_live = {} /\ notneeded = {}
    /\ sqdone = (Setscene = {})
    /\ tasks_covered = {}
    /\ tasks_notcovered = IF Setscene = {} THEN Tasks ELSE {}
    /\ holdoff_tasks = {} /\ holdoff_need_update = TRUE
    /\ jobs = {} /\ pipe = <<>>
    /\ state = "Running" /\ pc = "read"

-----------------------------------------------------------------------------
(* The end of a task *)

\* sq_deferred becomes f.  A key keeps its place in the dict; those inserted now
\* come last, in sorted order.
Defer(f) ==
    /\ sq_deferred' = f
    /\ sq_before' = {p \in (DOMAIN f) \X (DOMAIN f) :
                       \/ p \in sq_before
                       \/ p[2] \notin DOMAIN sq_deferred
                            /\ (p[1] \in DOMAIN sq_deferred \/ p[1] < p[2])}

\* task_completeoutright(t), from the sets buildable and running and with the
\* setscene stamps in scene.  The first of the setscene tasks deferred after t
\* may go ahead, the others after that one.
CompleteOutright(t, buildable, running, scene) ==
    LET complete == runq_complete \cup {t}
        waiting == {d \in DOMAIN sq_deferred : sq_deferred[d] = t}
        found == IF waiting = {} THEN {} ELSE {Least(waiting)}
    IN  /\ runq_complete' = complete
        /\ runq_running' = running
        /\ runq_buildable' = buildable \cup
             {u \in revdeps[t] \ running : depends[u] \subseteq complete}
        /\ Defer([d \in DOMAIN sq_deferred \ found |->
                    IF d \in waiting THEN Least(waiting) ELSE sq_deferred[d]])
        /\ sq' = SqSkip(sq, Skipped(found, scene))
        /\ UpdateScenequeue(sq', found, DOMAIN sq_deferred', scene)
        /\ holdoff_need_update' = (holdoff_need_update \/ Skipped(found, scene) # {})

TaskComplete(t) ==
    /\ stats_active' = stats_active - 1
    /\ CompleteOutright(t, runq_buildable, runq_running, sqstamp)
    /\ runq_tasksrun' = runq_tasksrun \cup {t}
    /\ UNCHANGED <<state, failed_tids, sq_live, notneeded, sqdone, sq_active>>

\* Mutants: the job of a failed task stays active; -k is not honoured.
TaskFailActive(t) ==
    /\ failed_tids' = failed_tids \cup {t}
    /\ state' = IF "continue" \in request THEN state ELSE "CleanUp"
    /\ UNCHANGED <<stats_active, runq_buildable, runq_running, runq_complete,
                   runq_tasksrun, sceneVars, validVars>>
TaskFailStop(t) ==
    /\ stats_active' = stats_active - 1
    /\ failed_tids' = failed_tids \cup {t}
    /\ state' = "CleanUp"
    /\ UNCHANGED <<runq_buildable, runq_running, runq_complete, runq_tasksrun,
                   sceneVars, validVars>>

TaskFail(t) ==
    /\ stats_active' = stats_active - 1
    /\ failed_tids' = failed_tids \cup {t}
    /\ state' = IF "continue" \in request THEN state ELSE "CleanUp"
    /\ UNCHANGED <<runq_buildable, runq_running, runq_complete, runq_tasksrun,
                   sceneVars, validVars>>

SqTaskComplete(t) ==
    /\ sq_active' = sq_active - 1
    /\ sq' = Settle(sq, {t}, {})
    /\ holdoff_need_update' = TRUE
    /\ sq_live' = sq_live \ {t}
    /\ UNCHANGED <<state, runqVars, notneeded, sq_deferred, sq_before, sqdone,
                   outrightfail, sqstamp>>

SqTaskFail(t) ==
    /\ sq_active' = sq_active - 1
    /\ sq' = Settle(sq, {}, {t})
    /\ holdoff_need_update' = TRUE
    /\ state' = IF "enforce" \in request /\ t \notin Whitelisted
                THEN "CleanUp" ELSE state
    /\ sq_live' = sq_live \ {t}
    /\ UNCHANGED <<runqVars, notneeded, sq_deferred, sq_before, sqdone,
                   outrightfail, sqstamp>>

-----------------------------------------------------------------------------
(* read_workers *)

\* execute() reads at its start and before it returns for want of work,
\* finish() while jobs are active, the teardown until the worker is gone.
Reading == \/ pc \in {"read", "wait", "teardown"}
           \/ pc = "finish" /\ Active > 0

Receive(m) ==
    /\ Reading
    /\ pipe # <<>>
    /\ Head(pipe) = m
    /\ pipe' = Tail(pipe)
    /\ UNCHANGED <<pc, holdVars, steadyVars, moveVars, diskVars, jobs>>

\* runqueue_process_waitpid
Exited(t, ok) ==
    /\ Receive([type |-> "exit", task |-> t, ok |-> ok])
    /\ build_stamps' = {b \in build_stamps : b.task # t}
    /\ UNCHANGED updated_taskhash_queue

ReadSqComplete(t) == Exited(t, TRUE) /\ t \in sq_live /\ SqTaskComplete(t)
ReadSqFail(t) == Exited(t, FALSE) /\ t \in sq_live /\ SqTaskFail(t)
ReadComplete(t) == Exited(t, TRUE) /\ t \notin sq_live /\ TaskComplete(t)
ReadFail(t) == Exited(t, FALSE) /\ t \notin sq_live /\ TaskFail(t)

\* The event taskUniHashUpdate.
ReadUnihash(t, hash) ==
    /\ Receive([type |-> "unihash", task |-> t, hash |-> hash])
    /\ updated_taskhash_queue' =
         updated_taskhash_queue \cup {[task |-> t, hash |-> hash]}
    /\ UNCHANGED <<state, runqVars, build_stamps, sceneVars, validVars>>

\* Mutant: the reported hashes wait for the setscene tasks that run.
EndReadLate ==
    /\ pc = "read" /\ pipe = <<>>
    /\ pc' = IF (updated_taskhash_queue # {} \/ pending_migrations # {})
                  /\ sq_live = {}
             THEN "rehash" ELSE "setscene"
    /\ UNCHANGED <<state, runqVars, build_stamps, sceneVars, validVars, holdVars,
                   steadyVars, updated_taskhash_queue, moveVars, diskVars,
                   workVars>>

EndRead ==
    /\ pc = "read" /\ pipe = <<>>
    /\ pc' = IF updated_taskhash_queue # {} \/ pending_migrations # {}
             THEN "rehash" ELSE "setscene"
    /\ UNCHANGED <<state, runqVars, build_stamps, sceneVars, validVars, holdVars,
                   steadyVars, updated_taskhash_queue, moveVars, diskVars,
                   workVars>>

EndWait ==
    /\ pc = "wait" /\ pipe = <<>>
    /\ pc' = ReturnIn(state)
    /\ UNCHANGED <<state, runqVars, build_stamps, sceneVars, validVars, holdVars,
                   steadyVars, updated_taskhash_queue, moveVars, diskVars,
                   workVars>>

-----------------------------------------------------------------------------
(* process_possible_migrations *)

\* The tasks whose new hash comes too late: they have come from the cache, or
\* are about to.
Remapped == sq.covered \cup sq_live

\* The taskhash of t is made of the unihashes below it (SIGGEN may leave some
\* out), and get_unihash may find any unihash for it.  A covered task whose
\* hash moves keeps its old unihash, and asks the server to treat the two as
\* one.
Rehash ==
    /\ pc = "rehash"
    /\ LET taken == {u \in updated_taskhash_queue :
                       u.task \notin runq_running \ runq_complete}
           news == {u \in taken : u.hash # unihash[u.task]}
           hit(t) == {u \in news : \/ u.task = t
                                   \/ t \in DOMAIN sq_deferred
                                        /\ sq_deferred[t] = u.task}
           toprocess == {t \in Tasks : hit(t) # {}}
           reported(old) == [t \in Tasks |-> IF t \in toprocess
                                             THEN (CHOOSE u \in hit(t) : TRUE).hash
                                             ELSE old[t]]
           total == Above(depends, toprocess)
       IN  /\ updated_taskhash_queue' = updated_taskhash_queue \ taken
           /\ \E newuni \in [total -> Hash] :
                LET differ == {t \in total : newuni[t] # reported(unihash)[t]}
                    remapped == differ \cap Remapped
                    moved == differ \ remapped
                IN  \E accepted \in SUBSET remapped :
                      /\ sig' = [t \in Tasks |->
                                   IF t \in accepted THEN reported(unihash)[t]
                                   ELSE IF t \in total THEN newuni[t]
                                   ELSE reported(sig)[t]]
                      /\ \A t \in total :
                           newuni[t] # reported(sig)[t] =>
                             \E d \in depends[t] : sig'[d] # sig[d]
                      /\ unihash' = [t \in Tasks |->
                                       IF t \in moved THEN newuni[t]
                                       ELSE reported(unihash)[t]]
                      /\ changed' = (moved # {})
                      /\ todo' = pending_migrations \cup (moved \cap Setscene)
    /\ pending_migrations' = todo'
    /\ update_tasks' = {}
    /\ pc' = "migrate"
    /\ UNCHANGED <<request, state, runqVars, build_stamps, sceneVars, validVars,
                   holdVars, sq_stamps, diskVars, workVars>>

\* t may have a new chance to come from the cache.
MigrateReset(t) ==
    /\ LET harddepfail == \E u \in sq.notcovered : t \in sq_harddeps[u]
           ready == \/ ~harddepfail /\ sq_revdeps[t] \subseteq Resolved(sq)
                    \/ sq_revdeps[t] = {}
       IN  /\ sq' = [buildable |-> (sq.buildable \ {t}) \cup
                                     (IF ready THEN {t} ELSE {}),
                     running |-> sq.running \ {t},
                     covered |-> sq.covered \ {t},
                     notcovered |-> sq.notcovered \ {t},
                     done |-> sq.done \ ({t} \cup
                       (sq_covered_tasks[t] \ (runq_complete \cup unskippable)))]
           /\ update_tasks' = update_tasks \cup
                {[task |-> t, harddepfail |-> harddepfail]}
    /\ outrightfail' = outrightfail \ {t}
    /\ notneeded' = notneeded \ {t}
    /\ sq_stamps' = [sq_stamps EXCEPT ![t] = sig[t]]
    /\ build_stamps' = {b \in build_stamps : b.task # t}
    /\ todo' = todo \ {t}
    /\ changed' = TRUE
    /\ UNCHANGED <<state, pc, failed_tids>>

\* "Task %s marked as completed but now needing to rerun? Aborting build."  The
\* covered tasks looked at before that one are no longer done, and what the
\* call had reset is not looked at again.
MigrateAbort(t) ==
    /\ \E seen \in SUBSET (sq_covered_tasks[t] \ (runq_complete \cup unskippable)) :
         sq' = [sq EXCEPT !.done = @ \ ({t} \cup seen)]
    /\ failed_tids' = failed_tids \cup {t}
    /\ state' = "CleanUp"
    /\ todo' = {} /\ changed' = FALSE /\ update_tasks' = {}
    /\ pc' = "setscene"
    /\ UNCHANGED <<outrightfail, notneeded, sq_stamps, build_stamps>>

MustRerun(t) == sq_covered_tasks[t] \cap (runq_complete \ runq_tasksrun) # {}

Migratable(t) ==
    /\ pc = "migrate" /\ t \in todo
    /\ t \notin runq_running \cup sq_live
    /\ sq_covered_tasks[t] \cap (runq_running \ runq_complete) = {}

Migrate(t) ==
    /\ Migratable(t)
    /\ IF MustRerun(t) THEN MigrateAbort(t) ELSE MigrateReset(t)
    /\ pending_migrations' = pending_migrations \ {t}
    /\ UNCHANGED <<runq_buildable, runq_running, runq_complete, runq_tasksrun,
                   stats_active, sq_live, sq_deferred, sq_before, sqdone,
                   sq_active, sqstamp, holdoff_need_update, holdVars,
                   steadyVars, updated_taskhash_queue, diskVars, workVars>>

\* "Too late, task already running", or a task it covers is running.
MigrateNot(t) ==
    /\ pc = "migrate" /\ t \in todo
    /\ ~Migratable(t)
    /\ pending_migrations' = pending_migrations \
                               ({t} \cap (runq_running \cup sq_live))
    /\ todo' = todo \ {t}
    /\ UNCHANGED <<state, pc, runqVars, build_stamps, sceneVars, validVars,
                   holdVars, steadyVars, updated_taskhash_queue, sq_stamps,
                   changed, update_tasks, diskVars, workVars>>

\* update_scenequeue_data for the tasks that migrated, then sq_task_failoutright
\* for those of a hard dependency that failed.  (Bound by \E, q is computed once.)
MigrateEnd ==
    /\ pc = "migrate" /\ todo = {}
    /\ UNCHANGED <<stamp, fresh>>
    /\ LET tids == {u.task : u \in update_tasks}
           follows == {t \in tids : Leaders(t, unihash[t]) \ {t} # {}}
       IN  \E q \in {SqSkip(sq, Skipped(tids, sqstamp))} :
             /\ Defer([d \in DOMAIN sq_deferred \cup follows |->
                         IF d \in follows THEN Least(Leaders(d, unihash[d]))
                                          ELSE sq_deferred[d]])
             /\ UpdateScenequeue(q, tids, DOMAIN sq_deferred', sqstamp)
             /\ sq' = SqFailOutright(q, {u.task : u \in {v \in update_tasks :
                                                           v.harddepfail}})
             /\ sqdone' = (sqdone /\ tids = {})
    /\ holdoff_need_update' = (holdoff_need_update \/ changed)
    /\ changed' = FALSE /\ update_tasks' = {}
    /\ pc' = "setscene"
    /\ UNCHANGED <<state, runqVars, build_stamps, sq_live, notneeded, sq_active,
                   holdVars, steadyVars, updated_taskhash_queue, sq_stamps,
                   pending_migrations, todo, workVars>>

-----------------------------------------------------------------------------
(* execute(): find the next setscene task to run *)

SqCandidate(t) ==
    t \in sq.buildable \ sq.running /\ ~StampLive(t, TRUE, sq_stamps[t])

\* Mutant: a task deferred by a new hash does not wait.
SqWaitsNot(t) == FALSE
SqWaits(t) == t \in DOMAIN sq_deferred /\ sq_deferred[t] \notin runq_complete

\* The loop over sorted_setscene_tids gets as far as t.
SqReaches(t) ==
    /\ pc = "setscene" /\ ~sqdone /\ CanStartTask
    /\ SqCandidate(t)
    /\ \A u \in Setscene : u < t => ~SqCandidate(u) \/ SqWaits(u)

\* Mutant: the deferral is looked up but not removed.
UndeferNot(t) == UNCHANGED <<sq_deferred, sq_before>>
Undefer(t) == Defer([d \in DOMAIN sq_deferred \ {t} |-> sq_deferred[d]])

sqStepUnchanged == <<state, runqVars, sq_live, sqdone, sq_active, outrightfail,
                     sqstamp, holdVars, steadyVars, build_stamps,
                     updated_taskhash_queue, moveVars, diskVars, workVars>>

\* Everything above t came from the cache and BB_SETSCENE_DEPVALID says that
\* none of it needs t.
SqNotNeeded(t) ==
    /\ SqReaches(t)
    /\ t \notin unskippable \cup Targets
    /\ sq_revdeps[t] # {} /\ sq_revdeps[t] \subseteq sq.covered
    /\ sq' = SqSkip(sq, {t})
    /\ notneeded' = notneeded \cup {t}
    /\ Undefer(t)
    /\ holdoff_need_update' = TRUE
    /\ pc' = ReturnIn(state)
    /\ UNCHANGED sqStepUnchanged

\* A deferred task whose turn has come "didn't become valid".
SqInvalid(t) ==
    /\ SqReaches(t)
    /\ t \in DOMAIN sq_deferred /\ ~SqWaits(t)
    /\ sq' = SqFailOutright(sq, {t})
    /\ Undefer(t)
    /\ holdoff_need_update' = TRUE
    /\ pc' = ReturnIn(state)
    /\ UNCHANGED <<notneeded, sqStepUnchanged>>

\* The task the loop has found.
SqNext(t) == SqReaches(t) /\ ~SqWaits(t) /\ Undefer(t)

\* There is nothing in the cache for it, its ordinary task is current, or it is
\* to be rebuilt.
SqRefused(t) == \/ t \in outrightfail
                \/ StampCurrentBelow(t, stamp, sqstamp, fresh)
                \/ "force" \in request /\ t \in Targets

SqOutright(t) ==
    /\ SqNext(t)
    /\ \/ SqRefused(t)
       \/ ~Has(sqstamp, t) /\ "skipsetscene" \in request
    /\ sq' = SqFailOutright(sq, {t})
    /\ holdoff_need_update' = TRUE
    /\ pc' = ReturnIn(state)
    /\ UNCHANGED <<notneeded, sqStepUnchanged>>

SqStampPresent(t) ==
    /\ SqNext(t)
    /\ ~SqRefused(t)
    /\ Has(sqstamp, t)
    /\ sq' = SqSkip(sq, {t})
    /\ holdoff_need_update' = TRUE
    /\ pc' = ReturnIn(state)
    /\ UNCHANGED <<notneeded, sqStepUnchanged>>

\* build_stamps[t] and the message <runtask>
Send(t, setscene) ==
    /\ jobs' = jobs \cup {[task |-> t, setscene |-> setscene, hash |-> sig[t],
                           told |-> FALSE]}
    /\ build_stamps' = {b \in build_stamps : b.task # t} \cup
         {[task |-> t, setscene |-> setscene, hash |-> sig[t]]}
    /\ UNCHANGED pipe

SqStart(t) ==
    /\ SqNext(t)
    /\ ~SqRefused(t)
    /\ ~Has(sqstamp, t) /\ "skipsetscene" \notin request
    /\ Send(t, TRUE)
    /\ sq' = [sq EXCEPT !.running = @ \cup {t}]
    /\ sq_live' = sq_live \cup {t}
    /\ sq_active' = sq_active + 1
    /\ IF Active + 1 < NumberTasks THEN pc' = ReturnIn(state) ELSE pc' = "holdoff"
    /\ UNCHANGED <<state, runqVars, notneeded, sqdone, validVars, holdVars,
                   steadyVars, updated_taskhash_queue, moveVars, diskVars>>

SqNone ==
    /\ pc = "setscene"
    /\ \A t \in Setscene : SqReaches(t) => SqWaits(t)
    /\ pc' = "holdoff"
    /\ UNCHANGED <<state, runqVars, build_stamps, sceneVars, validVars, holdVars,
                   steadyVars, updated_taskhash_queue, moveVars, diskVars,
                   workVars>>

-----------------------------------------------------------------------------
(* execute(): update_holdofftasks and the end of the setscene queue *)

CoveredBy(S) == S \cup UNION {sq_covered_tasks[t] : t \in S}

\* What must run, and of the rest what has come from the cache.
NotCovered == sq.done \cap (CoveredBy(sq.notcovered) \cup cantskip
                              \cup (unskippable \ Setscene))
\* Mutant: what must run may count as covered.
CoveredFirst == CoveredBy(sq.covered) \cap sq.done
Covered == (CoveredBy(sq.covered) \ NotCovered) \cap sq.done

UpdateHoldoffTasks ==
    /\ tasks_notcovered' = NotCovered
    /\ tasks_covered' = Covered
    /\ runq_buildable' = runq_buildable \cup
         {t \in tasks_notcovered' \cup tasks_covered' :
            depends[t] \subseteq runq_complete}
    /\ LET undecided == Setscene \ Resolved(sq)
       IN  holdoff_tasks' =
             undecided \cup (CoveredBy(undecided) \ runq_complete)
    /\ holdoff_need_update' = FALSE

\* summarise_scenequeue_errors
SceneErrors ==
    \/ DOMAIN sq_deferred # {} \/ updated_taskhash_queue # {}
    \/ holdoff_tasks' # {}
    \/ ~(Setscene \subseteq Resolved(sq) \cap sq.buildable \cap sq.running)
    \/ ~(Tasks \subseteq (tasks_covered' \cup tasks_notcovered') \cap sq.done)
    \/ ~(leaves \subseteq runq_buildable')

SceneComplete ==
    /\ sq_live = {} /\ ~sqdone /\ DOMAIN sq_deferred = {}
    /\ updated_taskhash_queue = {} /\ holdoff_tasks' = {}

Holdoff ==
    /\ pc = "holdoff"
    /\ IF holdoff_need_update
       THEN UpdateHoldoffTasks
       ELSE UNCHANGED <<holdVars, runq_buildable, holdoff_need_update>>
    /\ IF SceneComplete
       THEN /\ state' = IF SceneErrors THEN "Failed"
                        ELSE IF "setsceneonly" \in request \/ Tasks = {}
                             THEN "Complete" ELSE state
            /\ sqdone' = ~(SceneErrors \/ "setsceneonly" \in request)
       ELSE UNCHANGED <<state, sqdone>>
    /\ pc' = IF state' = state THEN "sched" ELSE "teardown"
    /\ UNCHANGED <<runq_running, runq_complete, runq_tasksrun, build_stamps,
                   failed_tids, stats_active, sq, sq_live, notneeded,
                   sq_deferred, sq_before, sq_active, outrightfail, sqstamp,
                   steadyVars, updated_taskhash_queue, moveVars, diskVars,
                   workVars>>

-----------------------------------------------------------------------------
(* execute(): the next task of the run queue *)

\* RunQueueScheduler.next_buildable_task.  What runs and has not completed
\* counts against number_threads.
ThreadsUsed(t) ==
    Cardinality({u \in runq_running \ runq_complete : TaskName[u] = TaskName[t]})

\* Mutants: tasks held off, not buildable, or started already, may start.
EligibleHeld(t) ==
    /\ t \in (runq_buildable \ runq_running)
               \cap (tasks_covered \cup tasks_notcovered)
    /\ ~\E b \in build_stamps : Stamp[b.task] = Stamp[t] /\ ~b.setscene
EligibleAny(t) ==
    t \in (tasks_covered \cup tasks_notcovered)
             \ (runq_running \cup holdoff_tasks)
EligibleAgain(t) ==
    t \in (runq_buildable \ (runq_complete \cup holdoff_tasks))
             \cap (tasks_covered \cup tasks_notcovered)
\* Mutant: the stamps of live jobs are not looked at.
EligibleStamp(t) ==
    /\ t \in (runq_buildable \ (runq_running \cup holdoff_tasks))
               \cap (tasks_covered \cup tasks_notcovered)
    /\ NumberThreads[TaskName[t]] # 0 =>
         ThreadsUsed(t) < NumberThreads[TaskName[t]]

Eligible(t) ==
    /\ t \in (runq_buildable \ (runq_running \cup holdoff_tasks))
               \cap (tasks_covered \cup tasks_notcovered)
    /\ NumberThreads[TaskName[t]] # 0 =>
         ThreadsUsed(t) < NumberThreads[TaskName[t]]
    /\ ~\E b \in build_stamps : /\ Stamp[b.task] = Stamp[t]
                                /\ ~b.setscene /\ b.hash = Unihash0[t]

\* sched.next() gives t; its priorities are left open.
Picked(t) ==
    /\ pc = "sched" /\ "setsceneonly" \notin request
    /\ CanStartTask
    /\ Eligible(t)

\* It gives nothing, when nothing may start or the machine is under pressure.
SchedNone ==
    /\ pc = "sched"
    /\ \/ "setsceneonly" \in request \/ ~CanStartTask
       \/ \A t \in Tasks : ~Eligible(t)
       \/ stats_active # 0
    /\ pc' = "tail"
    /\ UNCHANGED <<state, runqVars, build_stamps, sceneVars, validVars, holdVars,
                   steadyVars, updated_taskhash_queue, moveVars, diskVars,
                   workVars>>


\* check_setscenewhitelist
NotAllowed(t) == /\ "enforce" \in request
                 /\ t \notin tasks_covered \cup Noexec \cup Whitelisted
                 /\ ~IsCurrent(t)

schedUnchanged == <<build_stamps, holdVars, steadyVars, updated_taskhash_queue,
                    moveVars, workVars>>

Refuse(t) ==
    /\ Picked(t)
    /\ NotAllowed(t)
    /\ TaskFail(t)
    /\ pc' = ReturnIn(state')
    /\ UNCHANGED <<diskVars, schedUnchanged>>

\* task_skip(t, "covered") or, of a task whose stamp is current, "existing"
SkipTask(t) ==
    /\ Picked(t)
    /\ t \in tasks_covered \/ IsCurrent(t)
    /\ UNCHANGED <<diskVars, schedUnchanged>>
    /\ CompleteOutright(t, runq_buildable \cup {t}, runq_running \cup {t}, sqstamp)
    /\ runq_tasksrun' = IF t \in tasks_covered THEN runq_tasksrun
                        ELSE runq_tasksrun \cup {t}
    /\ UNCHANGED <<state, failed_tids, stats_active, sq_live, notneeded, sqdone,
                   sq_active>>
    /\ pc' = ReturnIn(state)

Ready(t) == /\ Picked(t)
            /\ ~NotAllowed(t)
            /\ t \notin tasks_covered
            /\ ~IsCurrent(t)

\* Mutant: the task is recorded instead of its stamp file.
MakeStampOf(t, hash) ==
    /\ stamp' = [stamp EXCEPT ![Stamp[t]] = hash]
    /\ fresh' = fresh \cup {t}

\* make_stamp for an ordinary task, less the removal of its setscene stamp.
MakeStamp(t, hash) ==
    /\ stamp' = [stamp EXCEPT ![Stamp[t]] = hash]
    /\ fresh' = fresh \cup {Stamp[t]}

\* A noexec task is complete as soon as it has its stamp.
RunNoexec(t) ==
    /\ Ready(t) /\ t \in Noexec
    /\ IF "enforce" \in request THEN UNCHANGED diskVars ELSE MakeStamp(t, sig[t])
    /\ CompleteOutright(t, runq_buildable, runq_running \cup {t},
                        IF "enforce" \in request THEN sqstamp
                        ELSE [sqstamp EXCEPT ![Stamp[t]] = None])
    /\ runq_tasksrun' = runq_tasksrun \cup {t}
    /\ UNCHANGED <<state, failed_tids, stats_active, sq_live, notneeded, sqdone,
                   sq_active>>
    /\ pc' = ReturnIn(state)
    /\ UNCHANGED schedUnchanged

\* The task needs a fakeroot worker, which cannot be started.
NoFakeworker(t) ==
    t \in Fakeroot /\ "nofakeworker" \in request /\ "enforce" \notin request

StartTask(t) ==
    /\ Ready(t) /\ t \notin Noexec
    /\ ~NoFakeworker(t)
    /\ Send(t, FALSE)
    /\ runq_running' = runq_running \cup {t}
    /\ stats_active' = stats_active + 1
    /\ IF Active + 1 < NumberTasks THEN pc' = ReturnIn(state) ELSE pc' = "tail"
    /\ UNCHANGED <<state, runq_buildable, runq_complete, runq_tasksrun,
                   failed_tids, sceneVars, validVars, holdVars, steadyVars,
                   updated_taskhash_queue, moveVars, diskVars>>

\* "Failed to spawn fakeroot worker": the build has failed, though no task has
\* and jobs may be alive, and stats.taskFailed() takes a job off the active ones
\* that taskActive() never added.
SpawnFail(t) ==
    /\ Ready(t) /\ t \notin Noexec
    /\ NoFakeworker(t)
    /\ state' = "Failed"
    /\ stats_active' = stats_active - 1
    /\ pc' = "teardown"
    /\ UNCHANGED <<runq_buildable, runq_running, runq_complete, runq_tasksrun,
                   failed_tids, sceneVars, validVars, diskVars, schedUnchanged>>

-----------------------------------------------------------------------------
(* execute(): nothing more to start *)

unlessTail == <<runqVars, build_stamps, sq_live, notneeded, sqdone, sq_active,
                outrightfail, sqstamp, holdVars, steadyVars,
                updated_taskhash_queue, moveVars, diskVars, workVars>>

TailWait ==
    /\ pc = "tail"
    /\ stats_active > 0 \/ sq_active > 0
    /\ pc' = "wait"
    /\ UNCHANGED <<state, sq, sq_deferred, sq_before, holdoff_need_update, unlessTail>>

\* The first key of sq_deferred.
FirstDeferred(d) == /\ d \in DOMAIN sq_deferred
                    /\ \A e \in DOMAIN sq_deferred : <<e, d>> \notin sq_before

\* "Runqueue deadlocked on deferred tasks": pop() takes the first key, and its
\* value, the task waited for, is what fails outright.
TailForce ==
    /\ pc = "tail"
    /\ ~(stats_active > 0 \/ sq_active > 0)
    /\ \E d \in DOMAIN sq_deferred :
         /\ FirstDeferred(d)
         /\ Undefer(d)
         /\ IF sq_deferred[d] \in runq_complete
            THEN UNCHANGED <<sq, holdoff_need_update>>
            ELSE /\ sq' = SqFailOutright(sq, {sq_deferred[d]})
                 /\ holdoff_need_update' = TRUE
    /\ pc' = ReturnIn(state)
    /\ UNCHANGED <<state, unlessTail>>

\* The sanity checks at the end of execute().
RunErrors ==
    \/ SceneErrors
    \/ ~(Tasks \subseteq runq_buildable \cap runq_running \cap runq_complete)

\* Mutant: the failures are not looked at.
TailEndDeaf ==
    /\ pc = "tail"
    /\ ~(stats_active > 0 \/ sq_active > 0) /\ DOMAIN sq_deferred = {}
    /\ UNCHANGED <<sq, sq_deferred, sq_before, holdoff_need_update, unlessTail>>
    /\ state' = "Complete"
    /\ pc' = "teardown"

TailEnd ==
    /\ pc = "tail"
    /\ ~(stats_active > 0 \/ sq_active > 0) /\ DOMAIN sq_deferred = {}
    /\ UNCHANGED <<sq, sq_deferred, sq_before, holdoff_need_update, unlessTail>>
    /\ state' = IF failed_tids # {} \/ RunErrors THEN "Failed" ELSE "Complete"
    /\ pc' = "teardown"

-----------------------------------------------------------------------------
(* finish(), finish_now() and the teardown of the workers *)

unlessFinish == <<runqVars, build_stamps, sceneVars, validVars, holdVars,
                  steadyVars, updated_taskhash_queue, moveVars, diskVars, pipe>>

\* Mutant: a stopped build does not wait for its jobs.
FinishNow ==
    /\ pc = "finish"
    /\ state' = Verdict(failed_tids)
    /\ pc' = "teardown"
    /\ UNCHANGED <<jobs, unlessFinish>>

Finish ==
    /\ pc = "finish" /\ Active <= 0
    /\ state' = Verdict(failed_tids)
    /\ pc' = "teardown"
    /\ UNCHANGED <<jobs, unlessFinish>>

\* finish_runqueue(False), before a call of execute_runqueue(): the user or the
\* disk monitor stops the build.
Stop ==
    /\ "shutdown" \in request
    /\ pc = "read"
    /\ state' = "CleanUp"
    /\ pc' = "finish"
    /\ UNCHANGED <<jobs, unlessFinish>>

\* finish_runqueue(True), before a call: the worker is told to kill its jobs,
\* and it says nothing of those it kills.
ForceStop ==
    /\ "forceshutdown" \in request
    /\ pc \in {"read", "finish", "gone"}
    /\ state' = Verdict(failed_tids)
    /\ pc' = IF pc = "gone" THEN "done" ELSE "teardown"
    /\ UNCHANGED <<jobs, unlessFinish>>

\* <finishnow> or <quit>: the worker exits, and its jobs with it.
WorkerQuit ==
    /\ pc = "teardown" /\ jobs # {}
    /\ jobs' = {}
    /\ UNCHANGED <<state, pc, unlessFinish>>

\* The workers are gone: what they had still to say may have set the state back
\* to CleanUp.
TornDown ==
    /\ pc = "teardown" /\ jobs = {} /\ pipe = <<>>
    /\ pc' = IF state = "CleanUp" THEN "gone" ELSE "done"
    /\ UNCHANGED <<state, jobs, unlessFinish>>

\* Mutant: it waits for jobs that were killed.
FinishGoneWait ==
    /\ pc = "gone"
    /\ state' = IF Active > 0 THEN state ELSE Verdict(failed_tids)
    /\ pc' = IF Active > 0 THEN "gone" ELSE "done"
    /\ UNCHANGED <<jobs, unlessFinish>>

\* finish() with no workers left.  active_fds() is then empty, which ends the
\* build in the state CleanUp when some job never reported.
FinishGone ==
    /\ pc = "gone"
    /\ state' = IF Active > 0 THEN state ELSE Verdict(failed_tids)
    /\ pc' = "done"
    /\ UNCHANGED <<jobs, unlessFinish>>

-----------------------------------------------------------------------------
(* The workers *)

unlessJob == <<state, pc, runqVars, build_stamps, sceneVars, outrightfail,
               holdoff_need_update, holdVars, steadyVars, updated_taskhash_queue,
               moveVars>>

\* report_unihash, when the output of the task of j turns out to be equivalent
\* to one that has the unihash h.
JobReport(j, h) ==
    /\ j.task \in Setscene /\ ~j.setscene /\ ~j.told /\ h # j.hash
    /\ "enforce" \notin request
    /\ jobs' = (jobs \ {j}) \cup {[j EXCEPT !.hash = h, !.told = TRUE]}
    /\ pipe' = Append(pipe, [type |-> "unihash", task |-> j.task, hash |-> h])
    /\ UNCHANGED <<sqstamp, diskVars, unlessJob>>

\* The job of j ends.  With enforce an ordinary task is only pretended to run.
JobExit(j, ok) ==
    /\ jobs' = jobs \ {j}
    /\ pipe' = Append(pipe, [type |-> "exit", task |-> j.task, ok |-> ok])
    /\ IF ~ok THEN UNCHANGED <<sqstamp, diskVars>>
       ELSE IF j.setscene
       THEN /\ sqstamp' = [sqstamp EXCEPT ![Stamp[j.task]] = j.hash]
            /\ UNCHANGED diskVars
       ELSE IF j.task \in Nostamp \/ "enforce" \in request
       THEN UNCHANGED <<sqstamp, diskVars>>
       ELSE /\ MakeStamp(j.task, j.hash)
            /\ sqstamp' = [sqstamp EXCEPT ![Stamp[j.task]] = None]
    /\ UNCHANGED unlessJob

-----------------------------------------------------------------------------
Terminated == pc = "done" /\ UNCHANGED vars

Read == \/ \E t \in Tasks : \/ ReadSqComplete(t) \/ ReadSqFail(t)
                            \/ ReadComplete(t) \/ ReadFail(t)
                            \/ \E h \in Hash : ReadUnihash(t, h)
        \/ EndRead \/ EndWait

Migrations == \/ Rehash \/ MigrateEnd
              \/ \E t \in Setscene : MigrateNot(t) \/ Migrate(t)

SceneStep == \/ \E t \in Setscene : \/ SqNotNeeded(t) \/ SqInvalid(t)
                                    \/ SqOutright(t) \/ SqStampPresent(t)
                                    \/ SqStart(t)
             \/ SqNone \/ Holdoff

RunStep == \/ \E t \in Tasks : \/ Refuse(t) \/ SkipTask(t) \/ RunNoexec(t)
                               \/ StartTask(t) \/ SpawnFail(t)
           \/ SchedNone \/ TailWait \/ TailForce \/ TailEnd

\* The calls of execute_runqueue() by the server's idle loop.
Server == Read \/ Migrations \/ SceneStep \/ RunStep \/ Finish \/ WorkerQuit
            \/ TornDown \/ FinishGone

Worker == \E j \in jobs : \/ \E h \in Hash : JobReport(j, h)
                          \/ \E ok \in BOOLEAN : JobExit(j, ok)

Next == Server \/ Worker \/ Stop \/ ForceStop \/ Terminated

\* The idle loop never stops calling, and jobs do not all run for ever.
Fairness ==
    /\ WF_vars(Server)
    /\ WF_vars(\E j \in jobs, ok \in BOOLEAN : JobExit(j, ok))

Spec == Init /\ [][Next]_vars
FairSpec == Spec /\ Fairness
=============================================================================
