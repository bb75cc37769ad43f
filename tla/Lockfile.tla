------------------------------ MODULE Lockfile ------------------------------
(***************************************************************************)
(* bb.utils.lockfile and unlockfile on one lock file, called by any number *)
(* of processes: the server, its clients, the parsers, the tasks.          *)
(*                                                                         *)
(* The holder of the lock deletes the file, so that the flock of a waiting *)
(* process may be on a file that is no longer the one of that name.  A     *)
(* process therefore compares the file it has locked with the one on disk, *)
(* and starts again when they differ.                                      *)
(***************************************************************************)
EXTENDS Integers

CONSTANTS
  Procs,    \* the processes
  Inodes,   \* inode numbers; the file system uses them again
  Calls     \* the parameters the processes use, records of Call

Call == [shared : BOOLEAN, retry : BOOLEAN, block : BOOLEAN]
None == "none"
AnyCall == CHOOSE c \in Calls : TRUE

ASSUME CallsAssumption == Calls \subseteq Call /\ Calls # {}
ASSUME InodesAssumption == None \notin Inodes

VARIABLES
  entry,    \* the inode the name of the lock file stands for, or None
  pc,       \* where each process is in lockfile and unlockfile
  call,     \* the parameters of its call, AnyCall outside of both functions
  ino,      \* the inode of lf, or None when it is closed
  lock      \* the flock it has: "shared", "exclusive" or "none"

vars == <<entry, pc, call, ino, lock>>

Init == /\ entry \in Inodes \cup {None}
        /\ pc = [p \in Procs |-> "idle"]
        /\ call = [p \in Procs |-> AnyCall]
        /\ ino = [p \in Procs |-> None]
        /\ lock = [p \in Procs |-> "none"]

Mode(p) == IF call[p].shared THEN "shared" ELSE "exclusive"
NonBlocking(p) == ~call[p].retry /\ ~call[p].block

\* flock(2) gives p the lock in this mode.
Free(p, mode) ==
    \A q \in Procs \ {p} : ino[q] = ino[p] =>
        lock[q] = "none" \/ (mode = "shared" /\ lock[q] = "shared")

Goto(p, l) == pc' = [pc EXCEPT ![p] = l]
Return(p) == Goto(p, "idle") /\ call' = [call EXCEPT ![p] = AnyCall]
Locked(p, mode) == lock' = [lock EXCEPT ![p] = mode]

\* lf.close() releases the lock.
Close(p) == ino' = [ino EXCEPT ![p] = None] /\ Locked(p, "none")

\* The lock was not to be had: once more, or return None.
Again(p) == /\ Close(p)
            /\ Goto(p, IF call[p].retry THEN "open" ELSE "refused")
            /\ UNCHANGED <<entry, call>>

-----------------------------------------------------------------------------
(* lockfile(name, shared, retry, block) *)

Begin(p) == /\ pc[p] = "idle"
            /\ \E c \in Calls : call' = [call EXCEPT ![p] = c]
            /\ Goto(p, "open")
            /\ UNCHANGED <<entry, ino, lock>>

\* open(name, 'a+') creates the file, with an inode nobody uses, if need be.
Open(p) ==
    /\ pc[p] = "open"
    /\ \/ entry # None /\ entry' = entry
       \/ entry = None /\ entry' \in Inodes \ {ino[q] : q \in Procs}
    /\ ino' = [ino EXCEPT ![p] = entry']
    /\ Goto(p, "flock")
    /\ UNCHANGED <<call, lock>>

Flock(p) == /\ pc[p] = "flock" /\ Free(p, Mode(p))
            /\ Locked(p, Mode(p))
            /\ Goto(p, "exists")
            /\ UNCHANGED <<entry, call, ino>>

\* BlockingIOError
FlockFails(p) == /\ pc[p] = "flock" /\ ~Free(p, Mode(p)) /\ NonBlocking(p)
                 /\ Again(p)

\* os.path.exists(lf.name)
Exists(p) == /\ pc[p] = "exists" /\ entry # None
             /\ Goto(p, "stat")
             /\ UNCHANGED <<entry, call, ino, lock>>

\* Mutant: that the file is there is enough.
StatAny(p) == /\ pc[p] = "stat" /\ entry # None
              /\ Goto(p, "held")
              /\ UNCHANGED <<entry, call, ino, lock>>
\* os.stat(lf.name): it is the file that was locked.
Stat(p) == /\ pc[p] = "stat" /\ entry = ino[p]
           /\ Goto(p, "held")
           /\ UNCHANGED <<entry, call, ino, lock>>

\* Mutant: it is waited for.
GoneWait(p) == pc[p] = "stat" /\ entry # ino[p] /\ Again(p)
\* The file is gone, be it before the stat, or is another one.
Gone(p) == /\ \/ pc[p] = "exists" /\ entry = None
              \/ pc[p] = "stat" /\ entry # ino[p]
           /\ Again(p)

\* The caller is told that it has no lock.
Refused(p) == /\ pc[p] = "refused"
              /\ Return(p)
              /\ UNCHANGED <<entry, ino, lock>>

-----------------------------------------------------------------------------
(* unlockfile(lf) *)

\* Mutant: the file is removed by a holder of a shared lock, too.
PromoteNot(p) == /\ pc[p] = "held"
                 /\ Goto(p, "unlink")
                 /\ UNCHANGED <<entry, call, ino, lock>>
\* Mutant: the lock is given up before the file is removed.
PromoteEarly(p) == /\ pc[p] = "held"
                   /\ Locked(p, "none")
                   /\ Goto(p, IF Free(p, "exclusive") THEN "unlink" ELSE "close")
                   /\ UNCHANGED <<entry, call, ino>>
\* flock(LOCK_EX|LOCK_NB) turns a shared lock into an exclusive one.  If others
\* share it, it fails, and p has no lock at all.
Promote(p) ==
    /\ pc[p] = "held"
    /\ IF Free(p, "exclusive")
       THEN Locked(p, "exclusive") /\ Goto(p, "unlink")
       ELSE Locked(p, "none") /\ Goto(p, "close")
    /\ UNCHANGED <<entry, call, ino>>

Unlink(p) == /\ pc[p] = "unlink"
             /\ entry' = None
             /\ Goto(p, "close")
             /\ UNCHANGED <<call, ino, lock>>

Unlocked(p) == /\ pc[p] = "close"
               /\ Close(p)
               /\ Return(p)
               /\ UNCHANGED entry

\* p is killed, wherever it is: its files are closed, and the lock file stays.
Die(p) == /\ pc[p] # "idle"
          /\ Close(p)
          /\ Return(p)
          /\ UNCHANGED entry

-----------------------------------------------------------------------------
Lock(p) == Open(p) \/ Flock(p) \/ FlockFails(p) \/ Exists(p) \/ Stat(p) \/ Gone(p)
Unlock(p) == Promote(p) \/ Unlink(p) \/ Unlocked(p)

Next == \E p \in Procs : \/ Begin(p) \/ Lock(p) \/ Refused(p)
                         \/ Unlock(p) \/ Die(p)

\* A process goes on as long as it lives, and who holds the lock gives it up.
Fairness == \A p \in Procs : WF_vars(Lock(p) \/ Unlock(p) \/ Refused(p))

Spec == Init /\ [][Next]_vars
FairSpec == Spec /\ Fairness
=============================================================================
