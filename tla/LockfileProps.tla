---------------------------- MODULE LockfileProps ----------------------------
(***************************************************************************)
(* What lockfile and unlockfile promise.                                   *)
(***************************************************************************)
EXTENDS Lockfile

\* The processes that have the lock: lockfile has returned, unlockfile has not
\* been called.
Holders == {p \in Procs : pc[p] = "held"}

\* Types, and lf is open just between open and close: no round of the loop of
\* lockfile, and no return of it, leaves a file open behind it.
TypeOK ==
    /\ entry \in Inodes \cup {None}
    /\ pc \in [Procs -> {"idle", "open", "flock", "exists", "stat", "held",
                         "refused", "unlink", "close"}]
    /\ call \in [Procs -> Calls]
    /\ ino \in [Procs -> Inodes \cup {None}]
    /\ lock \in [Procs -> {"none", "shared", "exclusive"}]
    /\ \A p \in Procs : ino[p] = None <=> pc[p] \in {"idle", "open", "refused"}

\* Never two holders, unless both share the lock, although the file is deleted
\* by some, created again by others, and waited for by others still.
MutualExclusion ==
    \A p, q \in Holders : p # q => call[p].shared /\ call[q].shared

\* The file on disk is the one that is held as long as anybody holds it: what a
\* holder writes to it (the server its pid, in bitbake.lock) can be read.
FileKept == \A p \in Holders : entry = ino[p]

\* "This implementation is unfair", but not to all: as long as somebody wants the
\* lock somebody gets it, or all are refused, unless processes die for ever.
Wanting == {p \in Procs : pc[p] \in {"open", "flock", "exists", "stat"}}
Progress ==
    <>[][\A p \in Procs : ~Die(p)]_vars =>
        (Wanting # {} ~> Holders # {} \/ Wanting = {})

\* The processes have the lock one after the other, or share it.
Has(p) == IF pc[p] = "held" THEN Mode(p) ELSE "none"
Shared == INSTANCE SharedLock WITH holds <- [p \in Procs |-> Has(p)]
Implements == Shared!Spec
=============================================================================
