------------------------------- MODULE MCFetch -------------------------------
(***************************************************************************)
(* A mirror on disk and a server as PREMIRRORS, a server as MIRRORS.       *)
(***************************************************************************)
EXTENDS FetchProps, TLC

CONSTANTS local, before, upstream, after

DiskAndServer == <<local, before>>
OneServer == <<after>>
Symmetry == Permutations(Builds) \cup Permutations(Dirs) \cup Permutations(Contents)
=============================================================================
