----------------------------- MODULE SharedLock -----------------------------
(***************************************************************************)
(* What a lock is to those who take it: at any time one process has it for *)
(* itself, or some share it, or nobody has it.                             *)
(***************************************************************************)
CONSTANT Procs
VARIABLE holds    \* "none", "shared" or "exclusive"

Init == holds = [p \in Procs |-> "none"]

Take(p, mode) ==
    /\ holds[p] = "none"
    /\ \A q \in Procs : holds[q] = "none" \/ (holds[q] = "shared" /\ mode = "shared")
    /\ holds' = [holds EXCEPT ![p] = mode]

Drop(p) == /\ holds[p] # "none"
           /\ holds' = [holds EXCEPT ![p] = "none"]

Next == \E p \in Procs : \/ \E mode \in {"shared", "exclusive"} : Take(p, mode)
                         \/ Drop(p)

Spec == Init /\ [][Next]_holds
=============================================================================
