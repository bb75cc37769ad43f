------------------------------ MODULE MCPublish ------------------------------
(***************************************************************************)
(* Two builders, a hash server and a PR server.                            *)
(***************************************************************************)
EXTENDS PublishProps, TLC

\* One value that was given before, or none.
OneValue == {{}, {[package |-> Package, checksum |-> CHOOSE c \in Checksums : TRUE, value |-> 0]}}

Symmetry == Permutations(Builders) \cup Permutations(Outhashes)
=============================================================================
