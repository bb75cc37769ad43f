------------------------------ MODULE FetchProps ------------------------------
(***************************************************************************)
(* What a download promises.                                               *)
(***************************************************************************)
EXTENDS Fetch

\* A build with another download directory has set a mirror's file aside.
AsideByOther(b) == \E m \in Locals : aside[m] # None /\ dir[aside[m]] # dir[b]

\* When download returns, the file is there and is what the recipe wants, unless
\* it leads to a mirror on disk in which a build with another directory has
\* renamed the file: then it may be gone, and download does not say so.
FetchedRight ==
    \A b \in Builds : run[b].at \in {"fetched", "lost"} =>
        \/ At(b, "fetched") /\ Read(dir[b]) = want[b]
        \/ AsideByOther(b)

\* A wrong file on a mirror is no reason to fail: a build only fails when its
\* upstream does not serve the file it wants, connections were lost, or another
\* download directory's build has meddled with a mirror.
Resilient ==
    \A b \in Builds : At(b, "failed") =>
        serves[Upstream] # want[b] \/ faults > 0 \/ AsideByOther(b)
=============================================================================
