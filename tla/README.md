# A verification development of BitBake, the build engine of this BSP

The repository is a Yocto board support package. Almost all of it is data:
recipes, patches, machine and image configurations in layers. The program that
gives them their meaning is BitBake (`src/poky/bitbake`), and inside BitBake
the parts where things happen concurrently, fail, arrive late or are taken back:
the run queue (`lib/bb/runqueue.py`) and its workers, the server and its clients,
the parsers, the hash and PR servers that builds share, the fetcher, and the lock
files under all of them. Those are what is modelled here.

## 1. Inventory

Paths are below `src/poky/bitbake` unless they begin with `src/`.

| Component | State it keeps | Operations | Talks to | What is hard |
|---|---|---|---|---|
| `RunQueueExecute` (`lib/bb/runqueue.py`) | the sets `runq_*`, `tasks_scenequeue_done`, `scenequeue_covered`, `scenequeue_notcovered`, `sq_buildable`, `sq_running`, `sq_live`, `sq_deferred`, `holdoff_tasks`, `tasks_covered`, `tasks_notcovered`, `build_stamps`, two sets of counters, `rq.state` | `execute`, `process_possible_migrations`, `update_holdofftasks`, `task_*`, `sq_task_*`, `scenequeue_updatecounters`, `finish`, `finish_now` | workers (pipe), siggen, stamps on disk, the idle loop | two queues over one graph; exits that arrive at any time; hashes that change while the build runs; stopping and aborting |
| `build_scenequeue_data`, `update_scenequeue_data` | `sqdata` | once at the start; again when hashes moved | the cache check | which tasks a cached output replaces |
| `RunQueueData.prepare` | `runtaskentries` | once | taskdata, providers, siggen | the graph; cycles |
| schedulers | `buildable`, `skip_maxthread`, `stamps` | `newbuildable`, `next` | `RunQueueExecute` | `number_threads`, shared stamps |
| `bin/bitbake-worker` | `queue`, `build_pids`, `build_pipes`, `worker_queue` | `serve`, `handle_item`, `handle_runtask`, `handle_finishnow`, `handle_quit`, `process_waitpid`, `worker_flush` | pipe to the server, child processes | items handled by kind instead of in order; children killed before they can be; its own death, and that of the cooker |
| stamps (`lib/bb/build.py`) | files | `make_stamp`, `stampfile`, `check_stamp_task` | run queue and jobs | a stamp's name contains the task's hash |
| signatures (`lib/bb/siggen.py`) | `taskhash`, `unihash`, `unitaskhashes` | `get_unihash`, `report_unihash`, `report_unihash_equiv` | hash server | answers that change, a server that is gone |
| `lib/hashserv` | table `tasks_v2` | `get`, `report`, `report-equiv` | all builders | two reports of one task; a request served twice or late; a clock that is set back |
| `lib/prserv` | table of PR values, a request queue | `getPR`, `quit`, `sync`, signals | all builders | the commit comes after the answer; two threads on one connection |
| `lib/bb/utils.py` `lockfile` | a file and its inode | `lockfile`, `unlockfile` | all processes | deleting a lock file others wait on |
| `lib/bb/server/process.py` | `controllersock`, `command_channel`, `newconnections`, `haveui`, idle functions | start, accept, disconnect, idle, end | cooker, UIs, `bitbake.lock` | a second client; a client that dies; time-outs; one server that ends while another starts |
| `lib/bb/command.py`, `lib/bb/cooker.py` | `currentAsyncCommand`, `cooker.state` | commands, `shutdown`, `finishcommand`, `buildTargets` | run queue, parser | a stop that meets an end |
| `CookerParser` (`lib/bb/cooker.py`) | processes and two queues | `start`, `parse_next`, `shutdown` | parsing processes | joining a process whose queue is full; a stop at any moment |
| `lib/bb/monitordisk.py` | `checked`, previous free space | `check` | run queue | stop and abort at any moment |
| `lib/bb/event.py` | `ui_queue`, handlers | `fire`, `register` | everybody | events before a UI is there |
| `lib/bb/fetch2` | downloads, done stamps, locks | `download`, `clean`, `try_mirrors` | network, mirrors on disk | wrong files, stale stamps, builds that are killed, mirrors that two download directories share |
| `lib/bb/cache.py` | recipe cache, `MultiProcessCache` | `save_extras`, `save_merge` | parsing processes | merging what several wrote |
| `lib/bb/persist_data.py` | SQLite table | get and set with retry | processes | locked data base |
| taskdata, providers | providers chosen | `add_provider`, ... | prepare | sequential |
| the metadata language (`data_smart`, `COW`, `parse`) | variables | parse, expand | everybody | sequential |
| `sstate.bbclass`, `sstatesig.py` (`src/poky/meta`) | shared state archives | hash check, `setscene_depvalid` | run queue | which dependency a cached output still needs |
| `burn_emmc.sh` (`src/meta-myir/.../fac-burn-emmc-full`) | partitions of the board | flash boot loader, format, copy | hardware | goes on after a failed step and reports success |
| UIs, tinfoil, toaster, layerindex; rpmsg-sample; layers | - | - | - | not modelled, see section 8 |

What makes the central components correct is the subject of section 4.

## 2. Modules

| Module | What it is |
|---|---|
| `TaskGraph` | the relations derived from the graph: `sq_revdeps`, `sq_covered_tasks`, `unskippable`, ... |
| `RunQueue` | the detailed model of one build: server, workers, pipe and stamps |
| `RunQueueProps` | its properties, and the mapping to `BuildOrder` |
| `BuildOrder` | abstract specification: what a build is to its user |
| `Worker` | `bitbake-worker`: main loop, writing thread, children, both pipes, and the cooker's end of them |
| `WorkerProps` | its properties, and the mapping to `Jobs` |
| `Jobs` | abstract specification: what the run queue is told of its jobs |
| `Cooker` | the states of the cooker, the asynchronous command, the idle functions, events |
| `Server` | `ProcessServer.main` around `Cooker`, its clients, `bitbake.lock` |
| `ServerProps` | what server and clients promise each other |
| `Parsing` | `CookerParser`, its processes and queues, and what the parsers save |
| `ParsingProps` | its properties |
| `HashServ` | the table of the hash equivalence server and its handlers |
| `PRServ` | the PR server: two threads, one table, a commit |
| `Publish` | builders that use both: look up, build or restore, report, ask for a number |
| `PublishProps` | what they rely on |
| `Fetch` | `Fetch.download` and `Fetch.clean` of several builds, with mirrors |
| `FetchProps` | what a download promises |
| `Lockfile` | `lockfile` and `unlockfile` of `bb.utils` on one lock file, for any number of processes |
| `LockfileProps` | what they promise, and the mapping to `SharedLock` |
| `SharedLock` | abstract specification: one lock, held by one process or shared by several |
| `*Proofs`, `RunQueueInv` | theorems and proofs, section 6 |
| `MC*` | the small instances; each `MC_*.cfg` checks one question on one of them |

How they are composed: `Server` extends `Cooker`, of which it takes the steps;
`Publish` extends `HashServ` and `PRServ` and puts the builders and their
connections between the two. The others meet at an interface that one side
refines: the jobs of `RunQueue` are what `Jobs` promises and `Worker` implements;
that a server runs alone, which `RunQueue` and `Parsing` assume, is `OneServer`; the
locks that `Fetch` and `Parsing` take as one step are what `Lockfile` is shown to
implement; the hash server, any answer in `RunQueue`, is `HashServ`.

### RunQueue: state

Variables have the names of the code. `sq` is a record of the five task sets
that the setscene queue's bookkeeping changes together. Counters that only
serve the display are left out. Where a variable is not the code's own:

* `request` is what is asked of this build, chosen once from the constant
  `Requests`: options of the command line (`-k`, `-f`, `--skip-setscene`,
  `--setscene-only`), `BB_SETSCENE_ENFORCE`, whether somebody (the user, the
  disk monitor) may stop or abort it, and whether the worker for fakeroot tasks
  cannot be started (`nofakeworker`).
* `pc` is how far the current call of `execute_runqueue()` has come. The
  server is one process; but between two of its steps workers may end, write
  to the pipe and make stamps, and some tests of the code (`can_start_task`,
  stamps) look at what they changed.
* `stamp` and `sqstamp` hold, per stamp file name without its hash, the hash
  in the name on disk. `make_stamp` removes the stamps of other hashes, so
  there is one. `fresh` says which ordinary stamps this build has made, all
  that is left of the modification times that `check_stamp_task` compares.
* `unihash` is `runtaskentries[t].unihash`, and `sig` what siggen answers,
  which names stamps and goes to jobs. They are the same except for a task
  that has come from the cache when its new hash comes (`Remapped`).
* `sq_before` is the order of the keys of `sq_deferred`, a dict: which of two was
  inserted first.
* `sq_stamps` is the hash in `sqdata.stamps[t]`, which is not updated with `sig`.
* `todo`, `changed`, `update_tasks` are local variables of
  `process_possible_migrations`.
* `jobs` and `pipe` are what the workers execute and what they wrote that the
  server has not read.

Tasks are numbers, in the order in which the code sorts them, so that every
`sorted()` that decides something is kept.

### RunQueue: actions

| Actions | Code |
|---|---|
| `ReadComplete`, `ReadFail`, `ReadSqComplete`, `ReadSqFail`, `ReadUnihash`, `EndRead` | `runQueuePipe.read`, `runqueue_process_waitpid`, `task_complete`, `task_fail`, `sq_task_complete`, `sq_task_fail`, with `task_completeoutright` and `scenequeue_updatecounters` in the same step |
| `Rehash`, `Migrate`, `MigrateNot`, `MigrateEnd` | `process_possible_migrations`: the new hashes, the loop over `pending_migrations`, `update_scenequeue_data` at its end |
| `SqNotNeeded`, `SqInvalid`, `SqOutright`, `SqStampPresent`, `SqStart`, `SqNone` | `execute()`, first part: at most one setscene task |
| `Holdoff` | `update_holdofftasks`, and "We can skip no more" when the setscene queue is over |
| `Refuse`, `SkipTask`, `RunNoexec`, `StartTask`, `SpawnFail`, `SchedNone` | `execute()`, second part: at most one task; every choice the schedulers could make; a fakeroot worker that cannot be started |
| `TailWait`, `EndWait`, `TailForce`, `TailEnd` | `execute()`, end: wait, break a deadlock of deferred tasks by the first of them (`FirstDeferred`), or finish with the sanity checks |
| `Stop`, `ForceStop`, `Finish`, `WorkerQuit`, `TornDown`, `FinishGone` | `finish_runqueue`, `finish`, `finish_now`, `_teardown_workers` |
| `JobReport`, `JobExit` | a job reports a unihash; a job ends, with its stamp |

What is a free choice: the answers of the shared state cache, of
`BB_SETSCENE_DEPVALID`, of the hash server (any hash for a task when the
hashes below it changed), the outcome of each job, what a job reports, which
eligible task the scheduler prefers, whether the machine is too busy.

### Worker

`unflushed` is the buffer of `process.stdin`, `stdin` the pipe, `queue` what the worker
has read of it and `item` the kind of item whose `handle_item` is running: `serve`
calls `handle_item` once per kind, in a fixed order, and each call takes items of its
kind from the front. `worker_queue` is what its thread has still to write, `stdout`
the pipe up, `heard` what the cooker has read. A child is forked, gets into a
session of its own (only then can it be signalled, and only then does it die
with the worker), ends, and is reaped.

| Actions | Code |
|---|---|
| `Execute`, `NewTaskHashes`, `SendFinishNow`, `Teardown`, `Read`, `TornDown` | the cooker: `execute`, `process_possible_migrations`, `finish_now`, `_teardown_workers`, `runQueuePipe.read` |
| `Select`, `NewHashes`, `HandleRuntask`, `HandleFinishNow`, `HandleQuit`, `Garbage`, `ReadPipes`, `Waitpid` | `serve` and `handle_item`; `Garbage` is an item that is unpickled with another before it |
| `KillChild`, `FinishedNow`, `Join` | `handle_finishnow`, `sigterm_exception`; the exit |
| `Flush`, `Session`, `Fire`, `Ends` | `worker_flush`; `fork_off_task`, `worker_child_fire` |
| `WorkerKilled`, `CookerKilled` | at any step |

### Cooker and Server

`Cooker` is the state of `BBCooker`, `Command` and the idle functions as operators
without a program counter: all of it runs in the main thread. `Server` has the
program counter `main` of `ProcessServer.main`, `pc` of each client in
`setup_bitbake` and in knotty, and `conn` with both ends of each connection. What is
ready is stored by `Select` and used later, as `ready` is.

| Actions | Code |
|---|---|
| `Accept`, `Control`, `NoCommand`, `Command`, `TerminateServer`, `CommandEof`, `TimersOver`, `Select` | the loop of `main`, `disconnect_client` |
| `RunCommands`, `Parsing`, `BuildWaits`, `BuildGoesOn`, `BuildTargetsIdle`, `IdleNothing`, `IdleRaises`, `Heartbeat` | `idle_commands` and its functions |
| `Boot`, `CloseSocket`, `Served`, `ReleaseLock`, `Killed`, `Signalled` | `_startServer`, the end of `main`, SIGKILL, SIGTERM |
| `LockBitbake`, `Reconnect`, `WaitLock`, `Unlock`, `StartServer`, `Retry`, `Connect`, `SendFds`, `Featured`, `HangUp`, `Action`, `Interrupt`, `Interrupted`, `ReadEvent`, `Terminated`, `Die` | a client: `setup_bitbake`, `connectProcessServer`, knotty, `--kill-server` |

`lockBitbake()` does not wait. A client that finds the lock taken and no socket tries for
the lock until 5 s are over (`WaitLock`), gives it back if it gets it (`Unlock`) and
retries; a client with a socket may be refused, because nobody listens there or
because the backlog of the socket is full (`Refused`).

### Parsing

`results` is the pipe of the result queue, `buffer[p]` what parser `p` has put and its
feeder thread has not written; `quitting` and `quit` are the same for the tokens of
`parser_quit`. `extras` is the directory with the files that `save_extras` writes.

| Actions | Code |
|---|---|
| `UpdateCache`, `EnterParseNext`, `ParseNext`, `ParseCompleted`, `Drain`, `Join`, `SaveMerge` | `updateCache`, `parse_next`, `parse_generator`, `shutdown`, `save_merge` |
| `StateShutdown`, `Abandon`, `Sigterm` | a stop or an abort, a client that leaves, SIGTERM |
| `Quit`, `PopJob`, `Parse`, `Close`, `TryName`, `SaveExtras`, `Killed` | `Parser.realrun`, `save_extras` |
| `Feed`, `FeedQuit` | the feeder threads |

### HashServ, PRServ and Publish

`rows` is `tasks_v2` in the order of `created`; the clock may be set back. `table` is
what the SQLite connection of the PR server sees, `disk` what is committed, `given`
the answers, and `kept` those of them made from what is committed. An orderly end
of the server (`Join`) takes no answer back; a SIGKILL (`Killed`) takes back what is in
`given` and not in `kept`. A builder goes
from `Parse` over `GotUnihash` to `Restore` or `ReportUnihash`/`Reported`, perhaps
`Rehash`/`ReportEquiv`/`EquivReported`, to `AskPR`. `Break` is `_send_wrapper`, `ServeStray`
a request whose sender has given it up. The PR server's threads are `PRAnswers`,
`SyncIfDirty`, `HandlerEnds` and `Sigterm`, `SigtermQuits`, `Join`.

### Fetch

`run[b]` holds the step `at`, the `phase` of `download` (the first look at the done
stamp, premirrors, the early check, the second look, upstream, mirrors, the last
check), the index `n` in a list of mirrors and the two local variables `done` and
`verified_stamp`. A content stands for its checksum. `file[d]` is absent, a content, or
a link to a mirror on disk. `verify_donestamp` is `VerifyMissing`, `VerifyPresent`,
`SumsRight`, `SumsWrong`, `Unstamp`, `SumsLost`; `update_stamp` is `Touch`, `UpdateRight`,
`UpdateWrong`, `UpdateLost`; the other actions have the names of what they do.

### Lockfile

`entry` is the inode the name of the lock file stands for; per process, `call`
holds the parameters of its call, `ino` the inode of `lf`, `lock` its flock on it
and `pc` the place in the two functions. A lock on an inode that has no name any
more excludes nobody who opens the name again: that is the race the comment of
`lockfile` is about.

| Actions | Code |
|---|---|
| `Begin`, `Open`, `Flock`, `FlockFails` | `open(name, 'a+')`, `flock` with the flags the parameters give |
| `Exists`, `Stat`, `Gone`, `Refused` | is the file locked the one on disk; once more, or `return None` |
| `Promote`, `Unlink`, `Unlocked` | `unlockfile`: a shared lock becomes exclusive or is lost, the file is deleted, closed |
| `Die` | a process is killed at any place; its files are closed |

An inode is used again as soon as nobody has it open and no name stands for it, as
file systems do; the comparison of inode numbers would be wrong otherwise.

## 3. Runs

All run with `-workers 2`, the longest in about three minutes.

| Run | Instance | What is asked |
|---|---|---|
| `image` | an image of three recipes, three setscene tasks and one of a second multiconfig with the hash and the stamps of one of them, one hard dependency, a noexec target, stamps found on disk; nothing asked, a stop, an abort, `-k`, `--skip-setscene -f`, `--setscene-only`, `BB_SETSCENE_ENFORCE`, no worker for the two fakeroot tasks | the two queues agree on what is built; the counters are exact; a stopped build kills nothing; failures are reported; the build ends |
| `bridge` | setscene tasks with ordinary tasks between, hashes that change, a second multiconfig with a shared stamp, `number_threads` of one task name; with `-k` and without | migrations never meet what they cover; no exit is booked on the wrong queue; `RunQueue` implements `BuildOrder` |
| `merge` | a hash that becomes that of another multiconfig's task | deferral after a migration; the deadlock is broken; the build ends |
| `both_queues` (violation) | a recipe that uses a native one, in two multiconfigs | the disagreement of section 5 |
| `worker` | two tasks, one change of hashes, two faults | `Worker` implements `Jobs`; tasks run with the hashes they were sent with; nothing is forgotten; the worker ends |
| `server` | two clients, each a build or `--kill-server`, one SIGKILL and one SIGTERM | one server; no client lost; each outcome told once; a stop is honoured |
| `server_ends` | the same without signals, with and without `BB_SERVER_TIMEOUT`, at a backlog that refuses the second client | clients and server end |
| `kill_server` (violation) | the same with `BB_SERVER_TIMEOUT=-1` | the disagreement of section 5 |
| `parsing` | two parsers, three recipes, a pipe for one result, a file of extras left over, one kill | a parsing that completes is complete; extras are kept; the parsing ends |
| `publish` | two builders, two task hashes, two outputs, two builds, two faults | one unihash for one output; one checksum for one number, and one answer at most that a kill takes back |
| `fetch` | two builds with one or two download directories, a mirror on disk, three servers, two contents, one fault | a download leaves the right file; a wrong mirror does no harm |
| `lock` | three processes, three inodes, the four calls the sources make | never two holders; a holder's file stays; somebody gets the lock; `Lockfile` implements `SharedLock` |

Ten more configurations are no runs of the project's check. In nine of them, the witnesses, TLC
finds violated, by what the code does, a property that theorems state under a hypothesis, or
that a run checks on other builds. They are what the hypotheses of section 6 are for, and
section 5 says what they show.

| Configuration | Property | Instance | Hypothesis it breaks |
|---|---|---|---|
| `MC_stale_stamps.cfg` | `StampExclusive` | two tasks of one stamp, whose hash changes | hashes are those of the start (`StampsOfStart`) |
| `MC_threads_kept.cfg` | `KeepGoing` | two tasks of one name, `number_threads` of one, `-k` | `NoLimits` |
| `MC_nothing_to_fetch.cfg` | `SaneQueues` | `--setscene-only`, no setscene task | `Fetchable` |
| `MC_rehash_running.cfg` | `HashSteady` | three multiconfigs with hard dependencies | `TwoConfigs` |
| `MC_hard_failures.cfg` | `OneBuilder` | two multiconfigs, one hard dependency | `NoHardDeps` |
| `MC_deferred_done.cfg` | `OneBuilder` | four multiconfigs, of which one was restored before | `TwoConfigs` |
| `MC_new_hash.cfg` | `OneBuilder` | two multiconfigs, whose hashes both become a third one | `HashesOfStart` |
| `MC_forced.cfg` | `OneBuilder` | two recipes that use each other, each in one of two multiconfigs | `NeverForced` |
| `MC_lost_answer.cfg` | `AnswersKept` | that of `publish` | none: it is why `OneChecksum` and `NeverLower` speak of `given` |

The tenth, `MC_server_retries.cfg`, passes: one client with three tries, where `server_ends` has
one for each of two. A client that meets a server which ends really tries again there, waits
for the lock, and starts a server of its own.

Each property of a passing run is falsified under the run's own configuration when
the definition it depends on is replaced by a plausible slip; those
definitions stand before the right ones, marked "Mutant".

### Bounds, and why they are enough

*The run queue.* The bounds are the graphs, `NumberTasks` = 2 (two jobs can be
alive, which is the least with which one task can overtake another) and one to
three hashes. No counter is capped: every build ends by itself, because a job
reports at most one hash and a hash changes only upwards in the graph. The graphs
were chosen so that each mechanism is met: hard dependencies, covered tasks with
two owners, setscene tasks that are not needed, noexec and current tasks, deferred
tasks from the start (where the stamp of one may appear while it waits) and after a
migration, shared stamps. A build with the
request {} is one that nobody interrupts.
The cases in which the code goes wrong (`number_threads` after a failure, several deferred
tasks with hard dependencies, three multiconfigs) are not in these graphs, where the
properties hold, but in those of the witnesses below the runs.

*Worker.* Two tasks are one that may be overtaken; one change of hashes can come
before, between and after them; two faults (`MaxFaults` counts `finishnow` and both
deaths) let a worker die in a build that is being ended.

*Server.* Two clients: one in control and one that waits, or one that starts a
server while the other ends one. `Retries` is 1 for 8 in the code: a client that comes too late is seen to give up.
Two tries for each of two clients are more than 7 million states; several tries of one
client are in `MC_server_retries.cfg`, and the safety theorems of section 6 hold for any number.
`Backlog` is 1 in `server` and `kill_server`, as in `listen(1)`, which lets two connections
wait; two clients seldom fill that, so `server_ends` has 0, which lets one wait, and
the other client is refused. `Timeouts` are those `BB_SERVER_TIMEOUT` can make: none, some
seconds (`server_ends` has both), or never (`kill_server`).
`ToParse` and `Tasks` are 1: a parsing and a build that are begun, go on and end.
`Kills` and `Terms` bound the signals: 1 in `server`, 0 in `server_ends`, because nobody
is promised an answer by a server that was killed (knotty waits for events for ever
then).

*Parsing.* `Capacity` = 1: a full pipe needs one result, and the third recipe is one
that comes after the queue was found empty. `MaxKills` = 1; `OldFiles` = {1}, the first
number that the first parser tries.

*Publish.* Two of each are the least that can disagree. `MaxBuilds` = 2, `MaxFaults` = 2
(lost connections, steps of the clock, a PR server that is stopped or killed), `Retries` = 1 for 3 in
the code: once more, and then HashConnectionError.

*Fetch.* Two builds and two directories, so that a directory is shared or not; the
mirror on disk is before a server in `PREMIRRORS`, so that what follows a wrong file
is seen; two contents, right and wrong for each; `MaxCalls` = 2, so that a build meets
what a call before left; `MaxFaults` = 1, a lost connection or a killed build.

*Lockfile.* Three processes are one that holds the lock, one that waits with the
deleted file open, and one that creates the file again, which is the race that
matters; three inodes are enough because a process about to create the file has
none, so one is always free, and the number of a deleted file can come again.

Symmetry is used where no liveness is checked: clients in `server`, builders and
outputs in `publish`, builds, directories and contents in `fetch`.
`CHECK_DEADLOCK FALSE` stands where the system stops: all clients gone, the parsing or
the worker over, the bounds of calls and builds used up.

### Fairness, and why the code justifies it

*RunQueue* (`FairSpec`): the server goes on calling
(`WF_vars(Server)`: the idle loop of `server/process.py` calls
`buildTargetsIdle` as long as it does not return False), and jobs do not all
run for ever (`WF_vars` of some job's exit: there are finitely many, so each
ends; a task that hangs keeps the build waiting in the code too). Nothing is
assumed of stops, reports of hashes, or of which outcome a job has.

*Lockfile*: each process goes on as long as it lives, and a holder gives the
lock up in the end: every caller pairs `lockfile` with `unlockfile` or ends.
Weak fairness of a process is all: a process blocked in `flock` is served only if
the lock is free for good. Hence `Progress` promises the lock to somebody, not to
everybody, and only when processes do not go on dying while they have it.

*Server*: the loop goes on, and each client does. `TimersOver` and `BuildGoesOn` are
strongly fair: time passes while the server is in its loop, and a job that runs ends,
but the server is at the place where it notices only now and then. Nobody has to
press Control-C, die or raise an exception.

*Worker*: its main thread, its writing thread, the children, and the cooker's reads,
which the idle loop repeats. Nothing is assumed of `Execute`, `Teardown` or deaths.
*Parsing*: the cooker, the feeder threads and each parser; every recipe is parsed in
the end. *Publish* and *Fetch* check no liveness and assume none.

## 4. Properties

*The run queue.* Order: `DepsFirst`, `InputsAvailable`, `DecidedFirst`. Jobs:
`ActiveIsLive` (the counters by which a build waits are exact), `ExitUnambiguous`,
`StampsOfStart` (`StampExclusive` is what the code means to ensure, and does not), `OneBuilder`, `NothingKilled`. Hashes: `HashSteady`. The setscene queue
and the outcome: `NotBoth`, `SaneQueues`, `OutcomeKnown`, `CompleteIsBuilt`, `KeepGoing`.
`Ends` (liveness), `Implements` (refinement).

`BuildOrder` shows a build without queues: tasks are built, reused or fetched,
after their dependencies, never more than `NumberTasks` at a time, a task is
not fetched once it was begun, and what failed is not built again. The mapping is

    building <- runq_running \ (runq_complete \cup failed_tids)
    fetching <- sq_live      done <- runq_complete      failed <- failed_tids

*The worker.* `Implements`: of each task the run queue hears at most one exit code, and
what the task has announced before it. `HashesAsSent`: a task runs with the hashes
the cooker had when it sent it. `NothingLost`: a task that was sent is reported, or the
cooker has noticed that the worker is gone. `WorkerEnds`: a teardown ends, and a
worker without a cooker ends or is at the join of its thread.

*Server and clients.* `OneServer`, `NobodyForgotten`, `ToldOnce`, `StopHonoured`; `ClientsEnd` and
`ServerEnds` (liveness).

*Parsing.* `Complete`, `ExtrasKept`, `ParseEnds` (liveness). Two exceptions are in
`ParseEnds`, because the code can really stay there: the join that meets a result put
after the queue was found empty (`Blocked`), and a parser that was killed.

*Publishing.* `OuthashShared`, `GetSteady` and `AgreeOnOutput` are what makes a build
reproducible over builders: equal outputs share a unihash; an answer does not
change (unless the clock of the server was set back, for the table is ordered by
local time); a builder takes over what the server answered. `OneChecksum` and
`NeverLower` are what package managers need of a PR value. The PR server answers before it commits,
so when it is killed in between the answer is lost, and both speak of the others:
`AnswersKept` does not hold. How much that can be is the second half of `OneChecksum`: one answer, the
last.

*Fetching.* `FetchedRight` and `Resilient`. Their exception is a mirror on disk that builds
with different download directories share: the lock is that of the download
directory, and a build that finds the mirror's file wrong renames the mirror's own.

*Locks.* `MutualExclusion`, `FileKept`, `Progress` (liveness), `Implements`.

## 5. Findings

Each is a configuration under which TLC finds a property violated, on behaviour read in
the code. The first two are runs; the others, all of the run queue, were met while
proving, as hypotheses that a theorem could not do without.

* `both_queues` (`lib/bb/runqueue.py:2249`): to break a deadlock on deferred
  tasks `execute()` pops the first entry and fails its *value*, the task that is waited
  for. That task may have come from the cache already; it is then in
  `scenequeue_covered` and in `scenequeue_notcovered`, of which
  `summarise_scenequeue_errors` says "that is a bug".
* `kill_server` (`lib/bb/server/process.py:196`): `bitbake --kill-server` writes its
  command and closes its connection. The server finds both descriptors readable,
  looks at the socket first, meets its end, and disconnects the client without
  reading the command. With `BB_SERVER_TIMEOUT=-1` the server then stays, while the
  client has said "Terminated bitbake server."

* `MC_stale_stamps.cfg` (`runqueue.py:232`): "Cache of stamp files so duplicates can't run
  in parallel" says `SQData` (`:2682`). The scheduler compares `build_stamps` with the
  stamps it computed when it was created (`:141`, `:249`), which contain hashes, while
  `build_stamps` gets the stamp of the moment (`:2236`). Once the hash of two tasks
  that share a stamp has changed the two never match, and both run at once.
* `MC_threads_kept.cfg` (`:216`): `number_threads` counts the tasks in `runq_running` that are
  not complete. A failed task stays so for ever: with `-k` no other task of its name
  runs, and the build ends with "never ran!". The help of `-k` (`main.py:139`) promises that
  "as much as possible will be built before stopping".
* `MC_nothing_to_fetch.cfg` (`:1544`): with `--setscene-only` and no setscene task in the build
  `sqdone` is True from the start, so the place where such a build ends (`:2159`) is never
  reached, and the sanity check of an ordinary build fails it because nothing ran.
  `main.py:264`: "Only run setscene tasks, don't run any real tasks."
* `MC_hard_failures.cfg` (`:2536`): a hard dependency that fails decides the tasks above it although
  they are deferred, and leaves them in `sq_deferred`. They are then built beside the task
  they waited for, which has their hash: "We shouldn't allow all to run at once as it is
  prone to races", says `:1982`.
* `MC_deferred_done.cfg` (`:1979`): several tasks are deferred after one. When it is complete the
  first of them in sorted order goes on and the others wait for that one. But a task whose
  stamp is there was skipped when the build began (`:2893`, which does not look at
  `sq_deferred`) and may be complete already: the others then wait for a task that is
  complete, that is for nothing, and all run at once.
* `MC_new_hash.cfg` (`:2518`): a task that migrates is deferred after the task that
  `sqdata.hashes` has for its new hash. `sqdata.hashes` is filled when the build begins (`:2862`)
  and never again: two tasks that both come to a hash no task had then do not find each other,
  and run at once.
* `MC_forced.cfg` (`:2247`): what breaks the deadlock of `both_queues` lets the deferred task go although the
  task with its hash is not complete: both run at once.
* `MC_rehash_running.cfg` (`:2366`): by `MC_hard_failures.cfg` three multiconfigs build one recipe at once. The second
  reports a new hash and ends, then the first ends: the third becomes deferred after the second while
  it runs, and "Make sure we rehash any other tasks with the same task hash that we're
  deferred against" changes its hash, although "Too late, task already running, not much
  we can do now" (`:2447`) is what the code says of such tasks elsewhere. The stamp the
  job is going to write is not the one that will be looked for.
* `MC_lost_answer.cfg` (`lib/prserv/serv.py:98`): the answer of `getPR` is sent before it is committed, and
  a PR server that is killed in between gives the number again, perhaps for another
  checksum. `db.py:22` says of this mode: "the value can NOT be decremented".

Seen while modelling, and kept out of the properties by a stated exception:

* A task refused by `BB_SETSCENE_ENFORCE` goes through `task_fail` (`:2186`), which counts
  a job that ended although none was started: the build stops waiting one job
  early and kills it; with `-k` the refused task is picked again in every call.
  `ActiveIsLive` and `NothingKilled` except such builds. A setscene task that fails
  under `BB_SETSCENE_ENFORCE` stops the build, which is then reported as complete.
* A worker for fakeroot tasks that cannot be started (`:2225`) makes the build Failed at once: no task
  has failed, jobs of the other worker may be alive and are killed, and `stats.taskFailed()`
  counts a job as ended that was never started. `ActiveIsLive`, `NothingKilled`, `SaneQueues` and
  `OutcomeKnown` except such builds (`SpawnFail`); `Ends` and all the others do not.
* A worker that reads `runtask`, `newtaskhashes`, `runtask` at once loops in the handler
  of `runtask` while an end tag of it is left anywhere in the queue
  (`bitbake-worker:400`), unpickles the wrong bytes, and exits. The run queue notices,
  and the build ends: `NothingLost` holds, at this price.
* `lockfile(retry=False, block=True)` blocks, but returns `None` when the file it waited
  for was deleted by its holder, the normal end of every other holder
  (`utils.py:516`). Its one caller, the end of `main` in `process.py`, calls it in a loop.
* The `except IOError` of `Fetch.download` (`fetch2/__init__.py:1755`) raises for ESTALE
  only. Any other, for example a file that vanishes between the test for it and its
  checksum, is dropped, and `download` returns as if it had succeeded. On a private
  download directory the lock keeps that from happening; on a shared mirror on disk
  `try_mirror_url` (`:1044`) renames the mirror's file under no lock.
* `update_stamp` touches a done stamp that exists without looking at the file. It is
  right because every file that is replaced loses its stamp first, which is what
  `FetchProofs` shows.
* A premirror server that answers ends the list of premirrors, also with a wrong
  file: later premirrors are not tried, upstream is.
* `sync_if_dirty` of the PR server follows every request, though the comment says about
  30 s.
* The client that waits longest is served last: `newconnections.pop(-1)`.
* The outcome of a build whose client has left is kept and told to the next client.
* A SIGTERM between the two halves of `updateCache` is overwritten by the state
  `parsing` (`cooker.py:1566`); parsing goes on.
* `clientComplete` leaves a build running that nobody waits for; the next command is
  refused until it ends.

## 6. What is proved

Theorems hold for every value of the constants.

*The run queue*, for every graph, number of threads, request, cache, hash server and
outcome of the jobs, from the assumptions on the constants of `RunQueue`: tasks are
finitely many numbers (their sorted order), the graph is one over them, setscene
tasks are tasks, the hashes given by `prepare` are hashes, and stamps found on
disk belong to tasks.

* `DependenciesFirst`: `Spec => []DepsFirst`. The invariant is not
  inductive: a task starts because `runq_buildable` holds it, which was decided
  calls ago. `BuildableReady` says the same of every task in `runq_buildable`, and
  is: the set grows in `CompleteOutright` and `UpdateHoldoffTasks` only, which look
  at `runq_complete`, and `runq_complete` never shrinks. `QuietStep` collects the
  actions that touch none of the three sets.
* `TypeCorrect`: `Spec => []TypeOK`. `TypeOK` is inductive by itself.
  The lemmas it rests on are those about the closures over the graph (`BelowType`,
  `GraphType`, `SettleType`: the loops of `scenequeue_updatecounters` stay among
  the tasks), about `Least` (`LeastIn`, from the well-foundedness of `<`: a task is
  deferred after one that exists), and about stamps (`TouchType`, `MakeStampType`).
  Each group of variables has its own conjunct, and `TypesKept` says once that what
  a step leaves alone keeps its type.

Almost all else rests on `QueueInv` (`RunQueueInv`), the types and five parts that hold only
together:

* `SceneInv`: a setscene task is live, resolved, or not yet running; `sq_active` counts the
  live ones, and a deferred task is never live.
* `MoveInv`: a task that has come from the cache never migrates, what waits for a migration
  has been decided, and a task that was skipped as covered is covered by setscene tasks
  that came from the cache and stay.
* `HoldInv`: what runs was decided. `holdoff_tasks` has all undecided setscene tasks and what
  they cover and is not complete, unless it is due to be computed anew
  (`holdoff_need_update`, `changed`) before the next task is chosen. What is decided stays so, but
  for a migration, which takes it back only while what it covers does not run.
* `JobInv`: each job belongs to a live setscene task or an executing task, has no twin, and no
  exit of its task lies in the pipe.
* `FailInv`: a failed task ran, unless `BB_SETSCENE_ENFORCE` refused it; `stats_active` is
  exact until then.

Why together: that no second job of a task is sent (`JobInv`) needs that `t` and
`t_setscene` are never worked on at once (`HoldInv`), which needs that what is decided is not taken back
while it matters (`MoveInv`), which needs the books of the queue (`SceneInv`). From it follow

* `NothingTooEarly`: `Spec => []DecidedFirst`, of every build. That it holds in builds that are stopped, too, was not
  clear before the proof: the branch "marked as completed but now needing to
  rerun? Aborting build." of `process_possible_migrations` leaves the call halfway.
  `RerunNeverNeeded` shows that it is never taken (`NoRerun`, from `MoveInv`).
* `ExitsTold`: `Spec => []ExitUnambiguous`.
* `TheQueuesBuild`: `Spec /\ "enforce" \notin request => Implements`: every step of `RunQueue` is one
  of `BuildOrder` or changes nothing it sees. `SkipTask` is `Reuse`; a start needs `RoomForJob`,
  that `Active` is the number of jobs, from `SceneInv` and `FailInv`. Under `BB_SETSCENE_ENFORCE`
  it is not (section 5), and one job too many may be started after a refusal.
* `CompleteMeansBuilt`: `Spec => []CompleteIsBuilt`. `BuiltInv` keeps three things apart
  that lie far from each other in the code: a task in `cantskip` is never marked
  covered, clean-up is entered in a build nobody stops only after a failure, and the end
  is reached from there, or when all tasks are complete.

The end of a build needs more:

* `KnowsInv` adds to `QueueInv` and `BuildableReady` what the setscene queue has worked out: what is resolved is in
  `tasks_scenequeue_done`, and an ordinary task that is not has something above it that is
  not either (`DoneOK`). This is where the loop of `scenequeue_updatecounters`, going down the
  graph as tasks are decided in any order, is shown to miss nothing. Since
  the graph is finite and acyclic (`Down` and `Below` are shown to be closures, and a
  set of tasks has one with none of the set above it), once all is resolved all is done.
* `NoJobIsKilled`, `FailureIsTold`: `Spec => []NothingKilled`, `[]OutcomeKnown`, with `EndInv`: a build is over only
  when no job is active, and when a task has failed, the state says so, or will before `pc` is "done".
* `CountersRight`: `Spec => []ActiveIsLive`. `LiveInv`: what is believed to be worked on has a job or has
  told its end, the converse of `JobInv`; then a bijection between tasks and jobs and exits.
* `InputsAreThere`: `Spec => [](NotBoth => InputsAvailable)`. `OutputInv`: what was skipped has come from the cache
  if it can, and else need not be built. `InputInv`: a dependency that has not run and
  is not there can only be covered by a task that is both covered and not. That state
  exists (`both_queues`), so the premise cannot go.
* `StampsMadeOnce`: `Spec => []StampsOfStart`. `StampInv`: `build_stamps` has the stamp of each job whose hash has not
  changed.
* `NoFalseAlarm`: `Spec /\ Fetchable => []SaneQueues`, if `SqAcyclic` and `ThreadsSane`. The invariant is
  `CalmInv`: `Freed`, a setscene task all of whose `sq_revdeps` are resolved is in `sq_buildable`;
  `SceneOver`, `sqdone` is set only when all are resolved; and `PlaceInv`, which says for each place of
  a call what the places before it have found out, for example that at its tail nothing could be
  started. When nothing runs and nothing can be started, nothing is undecided, for the last of the undecided in the
  order of the graph could go on.
* `HashesHold`: `Spec => []HashSteady`, if `TwoConfigs`. `PipeInv`: a new hash precedes the exit of its task.
  `NewsInv`: nothing that executes depends on a task whose hash has changed. What is left is the
  rehashing of deferred tasks, and `DeferInv`: they are deferred after a task of their name.
* `OneBuildsForAll`: `Spec /\ NeverForced => [](HashesOfStart => OneBuilder)`, if `TwoConfigs` and `NoHardDeps`.
  `TwinInv`: until the first of two tasks of one package name and hash is complete, the other one is
  `Idle`: deferred, or come from the cache, and neither worked on nor to be built. That a
  deferred task stays so (`StaysDeferred`) is not all: it leaves `sq_deferred`, too, when it is
  not needed, and is then covered; so what matters is that nothing fails it behind the
  back of `sq_deferred`. `Failing`, in `SqStep`, lists what a step may fail; without hard
  dependencies and force that is a job's own task or the one the loop came to, and the loop
  comes to no idle task (`IdleWaits`). Each of the four hypotheses has its witness in section 3.
* `AllThatCanBeIsBuilt`: `Spec => []KeepGoing`, if `SqAcyclic` and `NoLimits`. `GoOnInv`: nothing stops such a build before its end, and when it is over no
  task is `Possible`, that is, neither complete nor failed nor above one that failed.

The hypotheses: `SqAcyclic` says that setscene tasks and their hard dependencies go round in no
circle; the code does not look at that, and with a circle those tasks are never buildable
and the sanity check rightly speaks up. `ThreadsSane`: `number_threads` is not negative.
`MCRunQueue` assumes both of its builds, so TLC evaluates them. `Fetchable`, `NoLimits`,
`TwoConfigs`, `NoHardDeps`, `HashesOfStart` and `NeverForced` cannot go, as the witnesses of section 3 show.

*Locks*, for every number of processes and inodes, all calls, with `Die` at any place, and
from two assumptions, that `None` is no inode (`InodesAssumption`) and that there is
some call, a record of parameters (`CallsAssumption`):

* `LocksExclude`, `HeldFileKept`: `Spec => []MutualExclusion`, `Spec => []FileKept`.
  Neither is inductive: two holders exclude each other only because both have
  their flock on the same inode, the one of the name. `IInv` adds `LockWhere` (the
  flock each place of the code has), `FlockSound` (what flock promises on one inode)
  and `EntryLocked`: from the comparison of inodes until the deletion the name
  stands for the file that was locked. The last is kept because only a process
  with the exclusive lock on the file of the name deletes it (`UnlinkInv`).
* `ImplementsLock`: `Spec => Implements`. Each step of `Lockfile` is a step of
  `SharedLock` or changes no holder; `Stat` is where the lock is taken, and
  `HoldersShare` shows that it is free then. `TypeCorrect` is the type invariant.

*Worker*, for any tasks, any order of their hashes, and pipes that cut and delay what is written:

* `HashesKeepUp`: `Spec => []HashesAsSent`. What is under way is one line, from the
  buffer of the writer through the pipe to the queue of the reader (`Line`). `LineInv`
  says that the last hashes before a task in it, or else those the worker has, are the
  ones the task was sent with; each step moves the border between two parts of the line and
  so keeps it. That `Worker` implements `Jobs` is only model-checked: what the run
  queue still has to hear is a flattened sequence, and that needs induction over data.

*Server*, for any clients, retries, signals and time-outs:

* `SingleServer`: `Spec => []OneServer`. `LockInv` ties three things of which no
  process sees all: the lock, the place of the server in `main`, and the
  socket on disk. While there is a server the lock is its own, and so no client is
  between taking the lock and starting a server; the socket is removed only after
  the server has ceased to listen and before the lock is free.
* `EveryoneServed`: `Spec => []NobodyForgotten`. Inductive with the types of the
  connections and lists (`TurnInv`). The client takes part in it: `Connect` puts it in the
  backlog. `Accept` takes the first of the backlog and appends the rest, and
  `DisconnectClient` takes the last of the list (`ElementsTail`, `ElementsFront`: nothing
  but the one taken is missing); the other steps write to the pipes (`Written`).
* `ControlCWorks`: `Spec => StopHonoured`. `CookInv`: a command exists exactly as long as its
  idle function, a run queue as long as this is `buildTargetsIdle`. `HaltInv`: who has pressed
  Control-C sends nothing but that. `StopInv`, the invariant itself: the build of a
  stopped command finishes or aborts, or else the server is about to run its idle functions and
  the state says stop. It is the place that matters: `clientComplete` and `finishAsyncCommand`
  both set the state back, and a stop that came before would be forgotten, did they not end
  the command too.
* `ToldAtMostOnce`: `Spec => []ToldOnce`. `TellInv`: a command is still to be sent, or under way, or
  carried out, and never two of these; as long as it is one of them nothing has been
  said of it. The rest is that `fire` and `register` move what was said from queue to queue and
  copy nothing (`OutcomesConcat`). That `None` is not a word (`WordsAssumption`) is needed
  of both.

*Publishing*, for any builders, hashes, numbers of retries, faults and builds:

* `TypeCorrect`: the types, with what is needed of the connection: a report that is
  answered is answered with a hash, so a builder that goes on has a unihash.
* `OutputsShareUnihash`: `Spec => []OuthashShared`. Inductive with the types: `HandleReport`
  copies the unihash of the oldest row with the output, and by the invariant of any.
* `NumbersUnique`: `Spec => []OneChecksum`. What is given must be compared with what will
  be given, so `ValueInv` speaks of the table: its values are distinct per package,
  for every answer that was given there is a row of its package at least as large,
  a row with the number of an answer has its checksum, and the same of `kept` and
  `disk`, to which a kill returns. `SavedInv` says when the two pairs are the same: from the
  commit that follows an answer until the next answer, and so whenever the handler thread
  is about to take a request, or has ended, which is why an orderly end takes nothing back, and a kill
  one answer. `NumbersGrow`: `Spec => NeverLower` follows from the
  same invariant, and from the value given being the largest of the package, or the one after it (`GetValue`).
* `AnswersSteady`: `Spec => GetSteady`. While the clock does not go back, a report adds
  its row after all others, so the oldest row of a task hash stays the oldest (`OldestStays`).
* `BuildersAgree`: `Spec => []AgreeOnOutput`. `AgreeInv` says that what a builder goes on
  with is in the table next to its output, from the answer of the server on, while it
  is in the pipe and after it was read; with `OuthashShared` two of them agree.

*Parsing*, for any number of parsers, recipes, kills and old files:

* `ExtrasSafe`: `Spec => []ExtrasKept`. `IInv` says that the parsers which write have
  different names, and that no file has the name of one that is being written:
  `Free` is tested before the file exists, and nobody else may write in between.
* `NothingMissing`: `Spec => []Complete`. The cooker counts results and compares the count with
  that of the recipes. `PlaceInv`: each recipe is in one place, to be parsed, parsed, in the
  buffer of its parser, in the pipe, or counted; so none is counted twice, and
  what has the size of `Recipes` is `Recipes` (`CountInv`). `OverInv`: a parsing that
  is shut down as complete waits for all parsers before it merges what they saved.

*Fetching*, for any builds, directories, mirrors, servers and faults, and lists of
mirrors of any length:

* `DownloadRight`, `FailsWithUpstream`: `Spec => []FetchedRight`, `Spec => []Resilient`. The
  inductive invariant has: `Held`, who is in `download` has the lock; `Shape`, which phases
  a step belongs to, and whether its source is on disk; `AsideGone`; `StampTrue`, a stamp
  next to a file tells its checksum; and `Knows`, what a build knows of its file and its
  stamp at each step, for example that neither is there while a mirror is tried.
  The last two hold of a directory unless it is `Foreign`: a build of another
  directory has set a mirror's file aside. `OwnStep` says once what all steps that
  leave the mirrors alone have in common, `MirrorStep` is the other one.

Only model-checked are

* `Implements` of `Worker`, for the reason given there;
* `OneBuilder` of the instance of `merge` beyond `OneBuildsForAll`: it holds there although hashes change, because
  the one that changes becomes a hash of the start;
* `Ends`, `Progress`, `ClientsEnd`, `ServerEnds`, `ParseEnds`, `NothingLost` and `WorkerEnds`:
  liveness under fairness, which is out of the prover's reach.

`NotBoth` and `KillEnds` are what the code gets wrong (section 5).

## 7. Abstractions

* *RunQueue.* One worker and one pipe stand for the normal and the fakeroot workers of
  all multiconfigs. Exits from two workers may be read in the other order than they
  were written in; since a job exits at any time in the model, every order of
  exits is there. `stampcache` is not kept, and `check_stamp_task` evaluated anew each time. In the
  code it lives as long as the execution (`:1780`). It is read only in the recursion, for a
  dependency of the same recipe whose own stamp is there and not newer (`:1444`), and an entry is dropped
  only for a task that migrates (`:2504`). What was remembered of such a dependency can be out of date
  only when something below it, of the same recipe, got a new stamp in between. So the model
  differs for a setscene task with two more tasks of its recipe in a chain below it; no instance has
  such a chain. In the code a stale entry there fetches a task that is current, or skips one that
  a stamp made since below it has put out of date.
  The proofs take `StampCurrentBelow` as it is, and use nothing of what it says.
  Setscene tasks have hard dependencies on setscene tasks only (the code makes
  it an error otherwise). A killed job leaves no stamp. That a fakeroot worker cannot be started
  is modelled where the code catches it, for an ordinary task (`SpawnFail`); for a setscene task
  (`:2143`) the error leaves `execute()`, and exceptions that leave `execute_runqueue` are not
  modelled. The death of a worker is in `Worker` only.
  `BB_SETSCENE_ENFORCE` skips the ordinary tasks ("dry run" of jobs): a job then
  makes no stamp, as `fork_off_task` says.
  A task's hash is a value; that it is made of the hashes below it is kept by
  letting it change only when one of them does (`Rehash`).
* *Worker.* A message is the bytes between its tags; one that is cut by the death of its
  writer is dropped, as both readers do. `handle_finishnow` waits for any child with
  `waitpid(-1)`, which may reap another than the one it killed: both are modelled. A
  child that has not called `setsid` yet cannot be signalled.
* *Server.* The 5 s for which a client tries for the lock are one step, `WaitLock`, that finds the
  lock free or does not. The socket and the pipes of a connection are one record. A wait of 60 s that
  runs out is `Die` or the third case of `Featured`. Events other than outcomes are
  `Fire(<<>>)`: they push out what was kept. A client is knotty with one command, or
  `--kill-server`. XML-RPC, `--observe-only` and the removal of the lock file after it
  was released (which takes the lock again for a moment) are left out.
* *Parsing.* Recipes found in the recipe cache are loaded before. One of the two
  multi-process caches is modelled. A parser is not killed while half a result is in
  the pipe.
* *PRServ.* A commit is one step, and what is committed survives the process. It need not survive the
  machine: `db.py:259` sets `synchronous=off` and keeps the journal in memory. A machine that goes
  down is not modelled.
* *Publish.* One method of computing output hashes: rows of different methods never
  meet. The handlers of the hash server have no await between their first query and
  the commit, so each is one step.
* *Fetch.* A recipe has a checksum. Modification times are left to chance: a stamp may be
  older or newer than its file, and its checksums are used or not. Mirrors on disk
  are directories of files nobody else changes.
* *Lockfile.* `Promote` is one step. flock(2) does not promise that the conversion of a
  lock is atomic; between giving up the shared lock and taking the exclusive one
  another process may come first, which `Promote` covers by its failing branch
  only as far as nobody is left with the lock in between. One lock file is one name
  and needs no directory; names that are too long, and directories that are not
  writable (`sys.exit`), are left out.

## 8. Not modelled, and why

What `PROJECT.json` lists as not modelled has no concurrency, no failure that it
recovers from, or no state of its own:

* the metadata language (`data_smart`, `COW`, `parse`, `codeparser`, the vendored `ply`),
  `taskdata` and `providers`, `RunQueueData.prepare`: sequential text and set processing,
  covered by the repository's unit tests; their result, a task graph, is a constant
  of `RunQueue`, any acyclic graph;
* UIs, tinfoil, toaster and layerindex (presentation and database front ends), the
  scripts of `src/poky/scripts` (command line tools), `persist_data` (its atomicity is
  SQLite's);
* `burn_emmc.sh`: a straight script; rpmsg-sample: its partner, the firmware, is not in
  the repository; the layers: data.

These are most of the repository's lines of code. The modules here cover the part that
is concurrent.

Within modelled components, what would come next: exceptions that leave `execute_runqueue` and
the death of a worker composed with `RunQueue`; the XML-RPC interface of the server;
the history mode of the PR server and `importone`; `unpack` and the version control
fetchers with their mirror archives; the loops of `build_scenequeue_data` against the
closed forms of `TaskGraph`. Theorems that would come next: that `HashServ` and `PRServ`
implement a table that answers at once; that the run queue composed with the modules of
the worker keeps what it promises when a worker dies; and `OneBuilder` under less than
`HashesOfStart`: what `MC_new_hash.cfg` does is that two tasks come to one new hash.
