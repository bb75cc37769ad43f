------------------------------ MODULE MCRunQueue ------------------------------
(***************************************************************************)
(* The builds RunQueue is checked on.  Tasks are numbered in sorted order. *)
(***************************************************************************)
EXTENDS RunQueueProps, TLC

\* The builds below are such as the theorems ask for.
ASSUME BuildsSane == SqAcyclic /\ ThreadsSane

None0(S) == [t \in S |-> 0]
Each(S) == [t \in S |-> t]
NoHard(S) == [t \in S |-> {}]
All(S, x) == [t \in S |-> x]

(* Recipe a has an ordinary task 1 and the setscene tasks 2 and 3; the cached
   form of 3 needs the cached form of 2.  Recipe b uses 2 in 4, packed by the
   setscene task 5.  6 makes an image of 3 and 5, and 7 is its noexec do_build.
   8 is 5 in a second multiconfig, with the same hash and the same stamps. *)
imageTasks == 1..8
imageDepends == 1 :> {} @@ 2 :> {1} @@ 3 :> {1} @@ 4 :> {2} @@ 5 :> {4}
                  @@ 6 :> {3, 5} @@ 7 :> {6} @@ 8 :> {}
imageSetscene == {2, 3, 5, 8}
imageHard == 2 :> {3} @@ 3 :> {} @@ 5 :> {} @@ 8 :> {}
imageRecipe == 1 :> "a" @@ 2 :> "a" @@ 3 :> "a" @@ 4 :> "b" @@ 5 :> "b"
                 @@ 6 :> "c" @@ 7 :> "c" @@ 8 :> "b'"
imageNone == None0(imageTasks)
imageEach == Each(imageTasks)
imageShared == [imageEach EXCEPT ![8] = 5]
imageHash == All(imageTasks, "h1")

(* The setscene task 3 of b needs the setscene task 1 of a and the ordinary
   task 2 of b; 5 is the setscene task of c above them, 6 the target, which
   needs 4 as well.  7 is 2 in a second multiconfig, with the same stamp, and has
   the name of 4, of which one job may run at a time. *)
bridgeTasks == 1..7
bridgeDepends == 1 :> {} @@ 2 :> {} @@ 3 :> {1, 2} @@ 4 :> {3} @@ 5 :> {4}
                   @@ 6 :> {4, 5} @@ 7 :> {}
bridgeSetscene == {1, 3, 5}
bridgeHard == NoHard(bridgeSetscene)
bridgeRecipe == 1 :> "a" @@ 2 :> "b" @@ 3 :> "b" @@ 4 :> "c" @@ 5 :> "c"
                  @@ 6 :> "c" @@ 7 :> "b'"
bridgePN == [bridgeRecipe EXCEPT ![7] = "b"]
bridgeNone == None0(bridgeTasks)
bridgeEach == Each(bridgeTasks)
bridgeShared == [bridgeEach EXCEPT ![7] = 2]
bridgeName == [bridgeEach EXCEPT ![7] = 4]
bridgeOne == [bridgeNone EXCEPT ![4] = 1]
bridgeHash == All(bridgeTasks, "h1")

(* The setscene tasks 2 and 3 are of recipe a in two multiconfigs, with
   different hashes: 3 uses the setscene task 1 of c, whose output may turn out
   to be what 2 was built with.  2 and 3 are the targets. *)
mergeTasks == 1..3
mergeDepends == 1 :> {} @@ 2 :> {} @@ 3 :> {1}
mergeSetscene == {1, 2, 3}
mergeHard == NoHard(mergeSetscene)
mergeRecipe == 1 :> "c" @@ 2 :> "a" @@ 3 :> "a'"
mergePN == 1 :> "c" @@ 2 :> "a" @@ 3 :> "a"
mergeNone == None0(mergeTasks)
mergeEach == Each(mergeTasks)
mergeHash == 1 :> "h1" @@ 2 :> "h2" @@ 3 :> "h1"

(* A recipe a, the tasks 1 and 4, that uses a native recipe c, 2 and 5, of two
   multiconfigs with the same hashes and the same stamps.  3 and 6, of d, are the
   targets. *)
nativeTasks == 1..6
nativeDepends == 1 :> {2} @@ 2 :> {} @@ 3 :> {1} @@ 4 :> {5} @@ 5 :> {} @@ 6 :> {4}
nativeSetscene == {1, 2, 4, 5}
nativeHard == NoHard(nativeSetscene)
nativeRecipe == 1 :> "a" @@ 2 :> "c" @@ 3 :> "d" @@ 4 :> "a'" @@ 5 :> "c'" @@ 6 :> "d'"
nativePN == 1 :> "a" @@ 2 :> "c" @@ 3 :> "d" @@ 4 :> "a" @@ 5 :> "c" @@ 6 :> "d"
nativeNone == None0(nativeTasks)
nativeEach == Each(nativeTasks)
nativeShared == 1 :> 1 @@ 2 :> 2 @@ 3 :> 3 @@ 4 :> 1 @@ 5 :> 2 @@ 6 :> 6
nativeHash == 1 :> "h1" @@ 2 :> "h2" @@ 3 :> "h3" @@ 4 :> "h1" @@ 5 :> "h2" @@ 6 :> "h3"

(* Two multiconfigs of one recipe, whose setscene tasks 1 and 2 have one stamp and
   whose ordinary tasks 3 and 4 another; 3 and 4 are the targets.  They have one
   task name, of which one job may run at a time. *)
pairTasks == 1..4
pairDepends == 1 :> {} @@ 2 :> {} @@ 3 :> {1} @@ 4 :> {2}
pairSetscene == {1, 2}
pairHard == NoHard(pairSetscene)
pairNoHard == NoHard({})
pairRecipe == 1 :> "a" @@ 2 :> "a'" @@ 3 :> "a" @@ 4 :> "a'"
pairPN == All(pairTasks, "a")
pairNone == None0(pairTasks)
pairEach == Each(pairTasks)
pairShared == 1 :> 1 @@ 2 :> 1 @@ 3 :> 3 @@ 4 :> 3
pairName == pairShared
pairOne == [pairNone EXCEPT ![3] = 1]
pairHash == All(pairTasks, "h1")

(* Three multiconfigs of one recipe a with one hash, the tasks 1, 2 and 3.  In the
   second and the third the cached form of a needs that of b, 4 and 5. *)
trioTasks == 1..5
trioDepends == 1 :> {} @@ 2 :> {4} @@ 3 :> {5} @@ 4 :> {} @@ 5 :> {}
trioSetscene == 1..5
trioHard == 1 :> {} @@ 2 :> {} @@ 3 :> {} @@ 4 :> {2} @@ 5 :> {3}
trioRecipe == 1 :> "a" @@ 2 :> "a'" @@ 3 :> "a''" @@ 4 :> "b'" @@ 5 :> "b''"
trioPN == 1 :> "a" @@ 2 :> "a" @@ 3 :> "a" @@ 4 :> "b" @@ 5 :> "b"
trioNone == None0(trioTasks)
trioEach == Each(trioTasks)
trioHash == All(trioTasks, "h1")

(* Two multiconfigs of one recipe a with one hash, the tasks 1 and 2.  In the second the
   cached form of a needs that of b, 3. *)
duoTasks == 1..3
duoDepends == 1 :> {} @@ 2 :> {3} @@ 3 :> {}
duoSetscene == duoTasks
duoHard == 1 :> {} @@ 2 :> {} @@ 3 :> {2}
duoRecipe == 1 :> "a" @@ 2 :> "a'" @@ 3 :> "b'"
duoPN == 1 :> "a" @@ 2 :> "a" @@ 3 :> "b"
duoNone == None0(duoTasks)
duoEach == Each(duoTasks)
duoHash == All(duoTasks, "h1")

(* Four multiconfigs of one recipe with one hash, all of them targets, the second
   of which an earlier build has restored. *)
quadTasks == 1..4
quadSetscene == quadTasks
quadHard == NoHard(quadTasks)
quadDepends == quadHard
quadRecipe == 1 :> "a" @@ 2 :> "a'" @@ 3 :> "a''" @@ 4 :> "a*"
quadPN == All(quadTasks, "a")
quadNone == None0(quadTasks)
quadEach == Each(quadTasks)
quadHash == All(quadTasks, "h1")

(* The tasks 2 and 3 of a in two multiconfigs, with different hashes, both use 1 of c. *)
newsTasks == 1..3
newsSetscene == newsTasks
newsDepends == 1 :> {} @@ 2 :> {1} @@ 3 :> {1}
newsHard == NoHard(newsTasks)
newsRecipe == 1 :> "c" @@ 2 :> "a" @@ 3 :> "a'"
newsPN == 1 :> "c" @@ 2 :> "a" @@ 3 :> "a"
newsNone == None0(newsTasks)
newsEach == Each(newsTasks)
newsHash == 1 :> "h1" @@ 2 :> "h1" @@ 3 :> "h2"

(* Two multiconfigs of a, 1 and 4, and of b, 2 and 3: in the first b uses a, in the
   second a uses b. *)
crossTasks == 1..4
crossSetscene == crossTasks
crossDepends == 1 :> {} @@ 2 :> {} @@ 3 :> {1} @@ 4 :> {2}
crossHard == NoHard(crossTasks)
crossRecipe == 1 :> "a" @@ 2 :> "b'" @@ 3 :> "b" @@ 4 :> "a'"
crossPN == 1 :> "a" @@ 2 :> "b" @@ 3 :> "b" @@ 4 :> "a"
crossNone == None0(crossTasks)
crossEach == Each(crossTasks)
crossHash == All(crossTasks, "h1")
=============================================================================
