--------------------------- MODULE LockfileProofs ---------------------------
(***************************************************************************)
(* The proofs about lockfile and unlockfile, for any number of processes   *)
(* and inodes, and any calls.                                              *)
(***************************************************************************)
EXTENDS LockfileProps, TLAPS

-----------------------------------------------------------------------------
(* The inductive invariant *)

\* What flock a process has on the file it has open.
LockWhere == \A p \in Procs :
    /\ pc[p] \in {"idle", "open", "flock", "refused"} => lock[p] = "none"
    /\ pc[p] \in {"exists", "stat", "held"} => lock[p] = Mode(p)
    /\ pc[p] = "unlink" => lock[p] = "exclusive"

\* flock(2): two processes have a lock on one inode only if they share it.
FlockSound == \A p, q \in Procs :
    p # q /\ ino[p] = ino[q] =>
        lock[p] = "none" \/ lock[q] = "none" \/ (lock[p] = "shared" /\ lock[q] = "shared")

\* From the comparison of the inodes until the file is removed the name stands
\* for the file that was locked.
EntryLocked == \A p \in Procs : pc[p] \in {"held", "unlink"} => entry = ino[p]

IInv == TypeOK /\ LockWhere /\ FlockSound /\ EntryLocked

-----------------------------------------------------------------------------
LEMMA InitInv == Init => IInv
<1> SUFFICES ASSUME Init PROVE IInv
  OBVIOUS
<1>1. TypeOK
  BY CallsAssumption DEF Init, AnyCall, TypeOK
<1>2. LockWhere /\ FlockSound /\ EntryLocked
  BY DEF Init, LockWhere, FlockSound, EntryLocked
<1> QED BY <1>1, <1>2 DEF IInv

\* Where p goes when it has closed lf does not matter.
LEMMA CloseInv ==
    ASSUME IInv, NEW p \in Procs, Close(p), UNCHANGED entry,
           NEW c \in Calls, call' = [call EXCEPT ![p] = c],
           NEW l \in {"idle", "open", "refused"}, Goto(p, l)
    PROVE  IInv'
<1> USE DEF Close, Locked, Goto
<1>1. TypeOK'
  BY DEF IInv, TypeOK
<1>2. LockWhere'
  BY DEF IInv, TypeOK, LockWhere, Mode
<1>3. FlockSound'
  BY DEF IInv, TypeOK, FlockSound
<1>4. EntryLocked'
  BY DEF IInv, TypeOK, EntryLocked
<1> QED BY <1>1, <1>2, <1>3, <1>4 DEF IInv

LEMMA AnyCallType == AnyCall \in Calls
BY CallsAssumption DEF AnyCall

LEMMA AgainInv == ASSUME IInv, NEW p \in Procs, Again(p) PROVE IInv'
<1>1. PICK l \in {"open", "refused"} : Goto(p, l)
  BY DEF Again
<1>2. call[p] \in Calls /\ call' = [call EXCEPT ![p] = call[p]]
  BY DEF Again, IInv, TypeOK
<1> QED BY <1>1, <1>2, CloseInv DEF Again

LEMMA OpenInv == ASSUME IInv, NEW p \in Procs, Open(p) PROVE IInv'
<1> USE DEF Goto
<1>1. entry' \in Inodes /\ TypeOK'
  BY DEF Open, IInv, TypeOK
<1>2. LockWhere'
  BY <1>1 DEF Open, IInv, TypeOK, LockWhere, Mode
<1>3. FlockSound'
  <2>1. lock[p] = "none"
    BY DEF Open, IInv, LockWhere
  <2> QED BY <2>1 DEF Open, IInv, TypeOK, FlockSound
<1>4. EntryLocked'
  <2> SUFFICES ASSUME NEW q \in Procs, pc'[q] \in {"held", "unlink"}
               PROVE  entry' = ino'[q]
    BY DEF EntryLocked
  <2>1. q # p /\ pc[q] = pc'[q] /\ ino'[q] = ino[q]
    BY DEF Open, IInv, TypeOK
  <2>2. entry = ino[q] /\ ino[q] \in Inodes
    BY <2>1 DEF IInv, EntryLocked, TypeOK
  <2>3. entry' = entry
    BY <2>2, InodesAssumption DEF Open
  <2> QED BY <2>1, <2>2, <2>3
<1> QED BY <1>1, <1>2, <1>3, <1>4 DEF IInv

LEMMA FlockInv == ASSUME IInv, NEW p \in Procs, Flock(p) PROVE IInv'
<1> USE DEF Goto, Locked
<1>1. TypeOK'
  BY DEF Flock, IInv, TypeOK, Mode
<1>2. LockWhere'
  BY DEF Flock, IInv, TypeOK, LockWhere, Mode
<1>3. FlockSound'
  BY DEF Flock, Free, Mode, IInv, TypeOK, FlockSound
<1>4. EntryLocked'
  BY DEF Flock, IInv, TypeOK, EntryLocked
<1> QED BY <1>1, <1>2, <1>3, <1>4 DEF IInv

LEMMA CheckInv == ASSUME IInv, NEW p \in Procs, Exists(p) \/ Stat(p) PROVE IInv'
<1> USE DEF Goto
<1>1. TypeOK'
  BY DEF Exists, Stat, IInv, TypeOK
<1>2. LockWhere'
  BY DEF Exists, Stat, IInv, TypeOK, LockWhere, Mode
<1>3. FlockSound'
  BY DEF Exists, Stat, IInv, FlockSound
<1>4. EntryLocked'
  BY DEF Exists, Stat, IInv, TypeOK, EntryLocked
<1> QED BY <1>1, <1>2, <1>3, <1>4 DEF IInv

LEMMA PromoteInv == ASSUME IInv, NEW p \in Procs, Promote(p) PROVE IInv'
<1> USE DEF Goto, Locked
<1>1. TypeOK'
  BY DEF Promote, IInv, TypeOK
<1>2. LockWhere'
  BY DEF Promote, IInv, TypeOK, LockWhere, Mode
<1>3. FlockSound'
  BY DEF Promote, Free, IInv, TypeOK, FlockSound
<1>4. EntryLocked'
  BY DEF Promote, IInv, TypeOK, EntryLocked
<1> QED BY <1>1, <1>2, <1>3, <1>4 DEF IInv

LEMMA UnlinkInv == ASSUME IInv, NEW p \in Procs, Unlink(p) PROVE IInv'
<1> USE DEF Goto
<1>1. TypeOK'
  BY DEF Unlink, IInv, TypeOK
<1>2. LockWhere'
  BY DEF Unlink, IInv, TypeOK, LockWhere, Mode
<1>3. FlockSound'
  BY DEF Unlink, IInv, FlockSound
<1>4. EntryLocked'
  \* p has an exclusive lock on the file of that name: it alone holds it.
  <2> SUFFICES ASSUME NEW q \in Procs, q # p, pc[q] \in {"held", "unlink"}
               PROVE  FALSE
    BY DEF EntryLocked, Unlink, IInv, TypeOK
  <2>1. ino[p] = ino[q]
    BY DEF Unlink, IInv, EntryLocked
  <2>2. lock[p] = "exclusive" /\ lock[q] # "none"
    BY DEF Unlink, IInv, LockWhere, Mode
  <2> QED BY <2>1, <2>2 DEF IInv, FlockSound
<1> QED BY <1>1, <1>2, <1>3, <1>4 DEF IInv

LEMMA CallInv == ASSUME IInv, NEW p \in Procs, Begin(p) \/ Refused(p) PROVE IInv'
<1> USE AnyCallType DEF Goto, Return
<1>1. TypeOK'
  BY DEF Begin, Refused, IInv, TypeOK
<1>2. LockWhere'
  BY DEF Begin, Refused, IInv, TypeOK, LockWhere, Mode
<1>3. FlockSound' /\ EntryLocked'
  BY DEF Begin, Refused, IInv, TypeOK, FlockSound, EntryLocked
<1> QED BY <1>1, <1>2, <1>3 DEF IInv

LEMMA NextInv == IInv /\ [Next]_vars => IInv'
<1> SUFFICES ASSUME IInv, [Next]_vars PROVE IInv'
  OBVIOUS
<1>1. ASSUME NEW p \in Procs, Lock(p) PROVE IInv'
  BY <1>1, OpenInv, FlockInv, CheckInv, AgainInv DEF Lock, FlockFails, Gone
<1>2. ASSUME NEW p \in Procs, Unlock(p) PROVE IInv'
  BY <1>2, PromoteInv, UnlinkInv, CloseInv, AnyCallType
  DEF Unlock, Unlocked, Return
<1>3. ASSUME NEW p \in Procs, Begin(p) \/ Refused(p) \/ Die(p) PROVE IInv'
  BY <1>3, CallInv, CloseInv, AnyCallType DEF Die, Return
<1>4. CASE UNCHANGED vars
  BY <1>4 DEF vars, IInv, TypeOK, LockWhere, Mode, FlockSound, EntryLocked
<1> QED BY <1>1, <1>2, <1>3, <1>4 DEF Next

LEMMA Invariant == Spec => []IInv
BY InitInv, NextInv, PTL DEF Spec

-----------------------------------------------------------------------------
(* What follows *)

\* Two holders hold the same file, and share its lock.
LEMMA HoldersShare ==
    ASSUME IInv, NEW p \in Procs, NEW q \in Procs, p # q,
           pc[p] \in {"exists", "stat", "held"}, ino[p] = entry, pc[q] = "held"
    PROVE  call[p].shared /\ call[q].shared
<1>1. ino[p] = ino[q]
  BY DEF IInv, EntryLocked
<1>2. lock[p] = Mode(p) /\ lock[q] = Mode(q)
  BY DEF IInv, LockWhere
<1>3. Mode(p) # "none" /\ Mode(q) # "none"
  BY DEF Mode
<1>4. Mode(p) = "shared" /\ Mode(q) = "shared"
  BY <1>1, <1>2, <1>3 DEF IInv, FlockSound
<1> QED BY <1>4 DEF Mode

\* However many processes lock, delete, create and wait for the file, and
\* wherever they are killed, never two have the lock unless they share it.
THEOREM LocksExclude == Spec => []MutualExclusion
<1>1. IInv => MutualExclusion
  <2> SUFFICES ASSUME IInv, NEW p \in Holders, NEW q \in Holders, p # q
               PROVE  call[p].shared /\ call[q].shared
    BY DEF MutualExclusion
  <2>1. p \in Procs /\ q \in Procs /\ pc[p] = "held" /\ pc[q] = "held"
    BY DEF Holders
  <2>2. ino[p] = entry
    BY <2>1 DEF IInv, EntryLocked
  <2> QED BY <2>1, <2>2, HoldersShare
<1> QED BY <1>1, Invariant, PTL

\* Types; and whatever lockfile returns, no file is left open behind it.
THEOREM TypeCorrect == Spec => []TypeOK
<1>1. IInv => TypeOK
  BY DEF IInv
<1> QED BY <1>1, Invariant, PTL

\* The file a process holds stays the one of that name.
THEOREM HeldFileKept == Spec => []FileKept
<1>1. IInv => FileKept
  BY DEF IInv, EntryLocked, FileKept, Holders
<1> QED BY <1>1, Invariant, PTL

-----------------------------------------------------------------------------
(* Lockfile implements SharedLock *)

LEMMA StepMaps == IInv /\ [Next]_vars => [Shared!Next]_([p \in Procs |-> Has(p)])
<1> DEFINE holds == [p \in Procs |-> Has(p)]
<1> SUFFICES ASSUME IInv, [Next]_vars PROVE Shared!Next \/ UNCHANGED holds
  OBVIOUS
\* The step of p changes the place of p only.
<1>1. ASSUME NEW p \in Procs, NEW l, Goto(p, l), l # "held",
             pc[p] # "held", \A q \in Procs \ {p} : call'[q] = call[q]
      PROVE  UNCHANGED holds
  <2>1. \A q \in Procs : Has(q)' = Has(q)
    BY <1>1 DEF Has, Goto, Mode, IInv, TypeOK
  <2> QED BY <2>1
<1>2. ASSUME NEW p \in Procs, NEW l, Goto(p, l), l # "held",
             pc[p] = "held", \A q \in Procs \ {p} : call'[q] = call[q]
      PROVE  Shared!Next
  <2>1. Has(p) # "none" /\ Has(p)' = "none"
    BY <1>2 DEF Has, Goto, Mode, IInv, TypeOK
  <2>2. \A q \in Procs \ {p} : Has(q)' = Has(q)
    BY <1>2 DEF Has, Goto, Mode, IInv, TypeOK
  <2>3. holds' = [holds EXCEPT ![p] = "none"]
    BY <2>1, <2>2
  <2>4. Shared!Drop(p)
    BY <2>1, <2>3 DEF Shared!Drop
  <2> QED BY <2>4 DEF Shared!Next
<1>3. ASSUME NEW p \in Procs, Stat(p) PROVE Shared!Next
  <2>1. Has(p) = "none" /\ Has(p)' = Mode(p)
    BY <1>3 DEF Stat, Has, Goto, Mode, IInv, TypeOK
  <2>2. \A q \in Procs \ {p} : Has(q)' = Has(q)
    BY <1>3 DEF Stat, Has, Goto, Mode, IInv, TypeOK
  <2>3. holds' = [holds EXCEPT ![p] = Mode(p)]
    BY <2>1, <2>2
  <2>4. ASSUME NEW q \in Procs
        PROVE  Has(q) = "none" \/ (Has(q) = "shared" /\ Mode(p) = "shared")
    <3>1. CASE q = p \/ pc[q] # "held"
      BY <3>1, <2>1 DEF Has
    <3>2. CASE q # p /\ pc[q] = "held"
      <4>1. call[p].shared /\ call[q].shared
        BY <1>3, <3>2, HoldersShare DEF Stat
      <4> QED BY <3>2, <4>1 DEF Has, Mode
    <3> QED BY <3>1, <3>2
  <2>5. Shared!Take(p, Mode(p))
    BY <2>1, <2>3, <2>4 DEF Shared!Take
  <2>6. Mode(p) \in {"shared", "exclusive"}
    BY DEF Mode
  <2> QED BY <2>5, <2>6 DEF Shared!Next
<1>4. ASSUME NEW p \in Procs, Again(p), pc[p] # "held" PROVE UNCHANGED holds
  BY <1>4, <1>1 DEF Again
<1>5. ASSUME NEW p \in Procs, Lock(p) PROVE Shared!Next \/ UNCHANGED holds
  <2>1. CASE Open(p) \/ Flock(p) \/ Exists(p)
    BY <1>1, <2>1 DEF Open, Flock, Exists
  <2>2. CASE FlockFails(p) \/ Gone(p)
    BY <1>4, <2>2 DEF FlockFails, Gone
  <2> QED BY <1>3, <1>5, <2>1, <2>2 DEF Lock
<1>6. ASSUME NEW p \in Procs, Unlock(p) PROVE Shared!Next \/ UNCHANGED holds
  <2>1. CASE Promote(p)
    BY <1>2, <2>1 DEF Promote
  <2>2. CASE Unlink(p) \/ Unlocked(p)
    BY <1>1, <2>2 DEF Unlink, Unlocked, Return, IInv, TypeOK
  <2> QED BY <1>6, <2>1, <2>2 DEF Unlock
<1>7. ASSUME NEW p \in Procs, Begin(p) \/ Refused(p) PROVE UNCHANGED holds
  <2>1. \A q \in Procs \ {p} : call'[q] = call[q]
    BY <1>7 DEF Begin, Refused, Return, IInv, TypeOK
  <2> QED BY <1>1, <1>7, <2>1 DEF Begin, Refused, Return
<1>8. ASSUME NEW p \in Procs, Die(p) PROVE Shared!Next \/ UNCHANGED holds
  <2>1. \A q \in Procs \ {p} : call'[q] = call[q]
    BY <1>8 DEF Die, Return, IInv, TypeOK
  <2> QED BY <1>1, <1>2, <1>8, <2>1 DEF Die, Return
<1>9. CASE UNCHANGED vars
  BY <1>9 DEF vars, Has, Mode
<1> QED BY <1>5, <1>6, <1>7, <1>8, <1>9 DEF Next

\* lockfile returns, and unlockfile is called, in the order in which one lock
\* without any file behind it would be taken and dropped.
THEOREM ImplementsLock == Spec => Implements
<1>1. Init => Shared!Init
  BY DEF Init, Shared!Init, Has
<1>2. IInv /\ [Next]_vars => [Shared!Next]_([p \in Procs |-> Has(p)])
  BY StepMaps
<1> QED BY <1>1, <1>2, Invariant, PTL DEF Spec, Implements, Shared!Spec
=============================================================================
