------------------------------ MODULE MCParsing ------------------------------
(***************************************************************************)
(* Two parsers, one with two recipes and one with one, and the file of     *)
(* extras of an earlier process that had the number of the first.          *)
(***************************************************************************)
EXTENDS ParsingProps, TLC

CONSTANTS p1, p2

TwoOne == p1 :> {"r1", "r3"} @@ p2 :> {"r2"}
Pids == p1 :> 1 @@ p2 :> 2
=============================================================================
