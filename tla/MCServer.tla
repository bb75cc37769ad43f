------------------------------ MODULE MCServer ------------------------------
(***************************************************************************)
(* Two bitbake processes in one build directory.                           *)
(***************************************************************************)
EXTENDS ServerProps, TLC

Pairs == Clients \X (1..Retries)
Symmetry == Permutations(Clients)
=============================================================================
