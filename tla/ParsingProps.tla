---------------------------- MODULE ParsingProps ----------------------------
(***************************************************************************)
(* What the pool of parsers promises to the cooker.                        *)
(***************************************************************************)
EXTENDS Parsing

\* A parsing that completes has every recipe in the recipe caches, and, if no
\* parser was killed, what each of them and an earlier bitbake have learnt in
\* the cache file: the parsers save it when they exit, after their last result.
Complete ==
    main = "over" /\ how = "complete" =>
        /\ added = Recipes
        /\ (\A p \in Parsers : pc[p] # "killed") =>
              Parsers \cup {f.of : f \in {File(n, Old, "whole") : n \in OldFiles}} \subseteq disk

\* What was saved is kept: by the cooker, or in a file that the next save_merge
\* reads, whether the parsing is stopped, abandoned, or a file of the name is
\* there already.
ExtrasKept ==
    \A x \in Parsers \cup {Old} :
        (IF x = Old THEN OldFiles # {} ELSE pc[x] = "exited") =>
            x \in memory \/ \E f \in extras : f.of = x /\ f.content = "whole"

\* What was written after the queue was cleaned up fills its pipe.
Blocked == /\ main = "join" /\ how = "clean"
           /\ Len(results) = Capacity /\ \A i \in DOMAIN results : results[i].late
           /\ \E p \in Parsers : At(p, "close") /\ buffer[p] # <<>>

\* The parsing ends, by itself or stopped at any moment, unless a parser is
\* killed: "Cleanup the queue before call process.join(), otherwise there might
\* be deadlocks" leaves only one, by results that come after that.
ParseEnds == \/ <>(main = "over") \/ <>[]Blocked
             \/ <>(\E p \in Parsers : At(p, "killed"))
=============================================================================
