----------------------------- MODULE MCLockfile -----------------------------
(***************************************************************************)
(* The calls of lockfile the sources make.                                 *)
(***************************************************************************)
EXTENDS LockfileProps

Default == [shared |-> FALSE, retry |-> TRUE, block |-> FALSE]
\* MultiProcessCache.save_extras
Sharing == [Default EXCEPT !.shared = TRUE]
\* setup_bitbake
Once == [Default EXCEPT !.retry = FALSE]
\* BitBakeServer, when it ends
Block == [Once EXCEPT !.block = TRUE]

AllCalls == {Default, Sharing, Once, Block}
=============================================================================
