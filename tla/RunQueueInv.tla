----------------------------- MODULE RunQueueInv ------------------------------
(***************************************************************************)
(* What the closures of TaskGraph are, that every variable of RunQueue     *)
(* keeps its type, and the invariant QueueInv on which the other proofs    *)
(* about RunQueue rest, with what follows from it at once.                 *)
(***************************************************************************)
EXTENDS RunQueueProps, FiniteSetTheorems, WellFoundedInduction, TLAPS

-----------------------------------------------------------------------------
(* The closure Down of a finite graph *)

\* One round of Down: the tasks of S and those they lead to within Within.
Round(dep, Within, S) == UNION {{u} \cup (dep[u] \cap Within) : u \in S}

\* down is the rounds 0 to N of Down from First.
AreRounds(down, dep, Within, First, N) ==
    down = [i \in 0..N |-> IF i = 0 THEN First
                           ELSE UNION {{u} \cup (dep[u] \cap Within) : u \in down[i - 1]}]

\* In every nonempty set of numbers there is a least one.
LEMMA LeastNat ==
    ASSUME NEW S \in SUBSET Nat, S # {}
    PROVE  \E x \in S : \A y \in S : x <= y
<1> DEFINE before == OpToRel(<, Nat)
<1>1. PICK x \in S : \A y \in S : <<y, x>> \notin before
  <2> HIDE DEF before
  <2>1. IsWellFoundedOn(before, Nat)
    BY NatLessThanWellFounded DEF before
  <2> QED BY <2>1, WFMin
<1>2. ASSUME NEW y \in S PROVE x <= y
  <2>1. ~(y < x)
    BY <1>1 DEF OpToRel
  <2> QED BY <2>1
<1> QED BY <1>2

\* The rounds of Down exist: a function defined by recursion on the round.
LEMMA RoundsExist ==
    ASSUME NEW dep, NEW Within, NEW First, NEW N \in Nat
    PROVE  \E down : AreRounds(down, dep, Within, First, N)
<1> DEFINE Is(f, n) == f = [i \in 0..n |-> IF i = 0 THEN First
                                          ELSE Round(dep, Within, f[i - 1])]
           bad == {n \in Nat : \A f : ~Is(f, n)}
<1> SUFFICES ASSUME N \in bad PROVE FALSE
  BY DEF AreRounds, Round
<1>1. PICK n \in bad : \A k \in bad : n <= k
  <2>1. bad \in SUBSET Nat /\ bad # {}
    OBVIOUS
  <2> HIDE DEF bad
  <2> QED BY <2>1, LeastNat
<1>2. CASE n = 0
  <2> DEFINE f == [i \in 0..0 |-> First]
  <2>1. Is(f, 0)
    OBVIOUS
  <2> QED BY <1>2, <2>1
<1>3. CASE n # 0
  <2>1. n \in Nat /\ n - 1 \in Nat /\ ~(n <= n - 1)
    BY <1>3
  <2>2. n - 1 \notin bad
    BY <1>1, <2>1
  <2>3. PICK g : Is(g, n - 1)
    BY <2>1, <2>2
  <2> DEFINE f == [i \in 0..n |-> IF i = n THEN Round(dep, Within, g[n - 1]) ELSE g[i]]
  <2>4. ASSUME NEW i \in 0..n, i # 0
        PROVE  f[i] = Round(dep, Within, f[i - 1])
    <3>1. i - 1 \in 0..(n - 1) /\ i - 1 \in 0..n /\ i - 1 # n
      BY <2>1, <2>4
    <3>2. f[i - 1] = g[i - 1]
      BY <3>1
    <3>3. CASE i = n
      BY <3>2, <3>3, <2>1
    <3>4. CASE i # n
      <4>1. i \in 0..(n - 1)
        BY <2>1, <3>4
      <4>2. g[i] = Round(dep, Within, g[i - 1])
        BY <2>3, <2>4, <4>1
      <4> QED BY <3>2, <3>4, <4>2
    <3> QED BY <3>3, <3>4
  <2>5. 0 \in 0..n /\ 0 \in 0..(n - 1) /\ f[0] = First
    <3>1. 0 \in 0..n /\ 0 \in 0..(n - 1) /\ 0 # n
      BY <2>1, <1>3
    <3>2. g[0] = First
      BY <2>3, <3>1
    <3> QED BY <3>1, <3>2
  <2>6. ASSUME NEW i \in 0..n
        PROVE  f[i] = IF i = 0 THEN First ELSE Round(dep, Within, f[i - 1])
    BY <2>4, <2>5
  <2>7. Is(f, n)
    <3>1. f = [i \in 0..n |-> f[i]]
      OBVIOUS
    <3> HIDE DEF f
    <3> QED BY <3>1, <2>6
  <2> QED BY <2>7
<1> QED BY <1>2, <1>3

\* What the rounds down of Down are, N being the number of tasks.
RoundsOf(down, dep, Within, From, N) ==
    /\ N \in Nat
    /\ down[0] = UNION {dep[t] \cap Within : t \in From}
    /\ \A i \in 1..N : down[i] = Round(dep, Within, down[i - 1])
    /\ Down(dep, Within, From) = Within \cap down[N]

LEMMA Rounds ==
    ASSUME NEW V, IsFiniteSet(V), NEW dep, DOMAIN dep = V, NEW Within, NEW From,
           NEW N, N = Cardinality(V)
    PROVE  \E down : RoundsOf(down, dep, Within, From, N)
<1> DEFINE First == UNION {dep[t] \cap Within : t \in From}
           down == CHOOSE f : AreRounds(f, dep, Within, First, N)
<1>1. N \in Nat
  BY FS_CardinalityType
<1>2. AreRounds(down, dep, Within, First, N)
  <2> HIDE DEF First
  <2> QED BY <1>1, RoundsExist
<1>3. Down(dep, Within, From) = Within \cap down[N]
  BY DEF Down, AreRounds
<1> HIDE DEF down
<1>4. down[0] = First
  <2>1. 0 \in 0..N
    BY <1>1
  <2> HIDE DEF First
  <2> QED BY <1>2, <2>1 DEF AreRounds
<1>5. ASSUME NEW i \in 1..N
      PROVE  down[i] = Round(dep, Within, down[i - 1])
  <2>1. i \in 0..N /\ i # 0
    BY <1>1
  <2> HIDE DEF First
  <2> QED BY <1>2, <2>1 DEF AreRounds, Round
<1> QED BY <1>1, <1>3, <1>4, <1>5 DEF RoundsOf

\* Down stays within Within, has what From leads to, and is closed: what its
\* tasks lead to within Within is in it.
LEMMA DownClosed ==
    ASSUME NEW V, IsFiniteSet(V), NEW dep \in [V -> SUBSET V], NEW Within,
           NEW From \in SUBSET V
    PROVE  /\ Down(dep, Within, From) \subseteq Within \cap V
           /\ \A u \in From \cup Down(dep, Within, From) :
                dep[u] \cap Within \subseteq Down(dep, Within, From)
<1> DEFINE N == Cardinality(V)
<1>a. N = Cardinality(V) /\ DOMAIN dep = V
  OBVIOUS
<1> HIDE DEF N
<1>b. PICK down : RoundsOf(down, dep, Within, From, N)
  BY <1>a, Rounds
<1>1. /\ N \in Nat
      /\ down[0] = UNION {dep[t] \cap Within : t \in From}
      /\ \A i \in 1..N : down[i] = Round(dep, Within, down[i - 1])
      /\ Down(dep, Within, From) = Within \cap down[N]
  BY <1>b DEF RoundsOf
<1> DEFINE Closed(S) == \A u \in S : dep[u] \cap Within \subseteq S
           Good(i) == /\ down[i] \subseteq Within \cap V
                      /\ down[0] \subseteq down[i]
                      /\ Closed(down[i]) \/ Cardinality(down[i]) >= i
           bad == {i \in 0..N : ~Good(i)}
<1>2. Good(0)
  <2>1. down[0] \subseteq Within \cap V
    BY <1>1
  <2>2. IsFiniteSet(down[0])
    BY <2>1, FS_Subset
  <2>3. Cardinality(down[0]) >= 0
    BY <2>2, FS_CardinalityType
  <2> QED BY <2>1, <2>3
<1>3. ASSUME NEW i \in 1..N, Good(i - 1)
      PROVE  Good(i)
  <2> DEFINE D == down[i - 1]
             E == down[i]
  <2>1. E = Round(dep, Within, D)
    BY <1>1
  <2>2. D \subseteq Within \cap V /\ down[0] \subseteq D
    BY <1>3
  <2>3. D \subseteq E /\ E \subseteq Within \cap V
    BY <2>1, <2>2 DEF Round
  <2>4. CASE Closed(D)
    <3>1. E = D
      BY <2>1, <2>3, <2>4 DEF Round
    <3> QED BY <2>2, <2>4, <3>1
  <2>5. CASE ~Closed(D)
    <3>1. PICK u, c : u \in D /\ c \in (dep[u] \cap Within) \ D
      BY <2>5
    <3>2. D \cup {c} \subseteq E
      BY <2>1, <2>3, <3>1 DEF Round
    <3>3. IsFiniteSet(D) /\ IsFiniteSet(E)
      BY <2>2, <2>3, FS_Subset
    <3>4. Cardinality(D \cup {c}) = Cardinality(D) + 1
      <4> HIDE DEF D
      <4> QED BY <3>1, <3>3, FS_AddElement
    <3>5. IsFiniteSet(D \cup {c}) /\ Cardinality(D \cup {c}) <= Cardinality(E)
      BY <3>2, <3>3, FS_Subset
    <3>6. Cardinality(D) >= i - 1
      BY <1>3, <2>5
    <3>7. Cardinality(D) \in Nat /\ Cardinality(E) \in Nat /\ i \in Int
      BY <3>3, FS_CardinalityType
    <3>8. Cardinality(E) >= i
      <4> HIDE DEF D, E
      <4> QED BY <3>4, <3>5, <3>6, <3>7
    <3> QED BY <2>2, <2>3, <3>8
  <2> QED BY <2>4, <2>5
<1>4. bad = {}
  <2> SUFFICES ASSUME bad # {} PROVE FALSE
    OBVIOUS
  <2>1. PICK n \in bad : \A k \in bad : n <= k
    <3>1. bad \in SUBSET Nat
      BY <1>1
    <3> HIDE DEF bad
    <3> QED BY <3>1, LeastNat
  <2> HIDE DEF Good
  <2>2. n \in 1..N
    BY <1>1, <1>2
  <2>3. n - 1 \in 0..N /\ ~(n <= n - 1)
    BY <1>1, <2>2
  <2>4. Good(n - 1)
    BY <2>1, <2>3
  <2> QED BY <1>3, <2>2, <2>4
<1>5. Good(N)
  <2>1. N \in 0..N
    BY <1>1
  <2> HIDE DEF Good
  <2> QED BY <1>4, <2>1
<1>6. Closed(down[N])
  <2> SUFFICES ASSUME Cardinality(down[N]) >= N PROVE Closed(down[N])
    BY <1>5
  <2>1. down[N] \subseteq V
    BY <1>5
  <2>2. down[N] = V
    BY <2>1, <1>a, <1>1, FS_Subset, FS_CardinalityType
  <2>3. V \subseteq Within
    BY <1>5, <2>2
  <2> QED BY <2>2
<1>7. Down(dep, Within, From) = down[N]
  BY <1>1, <1>5
<1>8. \A u \in From : dep[u] \cap Within \subseteq down[0]
  BY <1>1
<1> QED BY <1>5, <1>6, <1>7, <1>8

\* Down is in every closed set that has what From leads to.
LEMMA DownLeast ==
    ASSUME NEW V, IsFiniteSet(V), NEW dep \in [V -> SUBSET V], NEW Within,
           NEW From, NEW S,
           \A u \in From \cup S : dep[u] \cap Within \subseteq S
    PROVE  Down(dep, Within, From) \subseteq S
<1> DEFINE N == Cardinality(V)
<1>a. N = Cardinality(V) /\ DOMAIN dep = V
  OBVIOUS
<1> HIDE DEF N
<1>b. PICK down : RoundsOf(down, dep, Within, From, N)
  BY <1>a, Rounds
<1>1. /\ N \in Nat
      /\ down[0] = UNION {dep[t] \cap Within : t \in From}
      /\ \A i \in 1..N : down[i] = Round(dep, Within, down[i - 1])
      /\ Down(dep, Within, From) = Within \cap down[N]
  BY <1>b DEF RoundsOf
<1> DEFINE bad == {i \in 0..N : ~(down[i] \subseteq S)}
<1>2. down[0] \subseteq S
  BY <1>1
<1>3. ASSUME NEW i \in 1..N, down[i - 1] \subseteq S
      PROVE  down[i] \subseteq S
  BY <1>1, <1>3 DEF Round
<1>4. bad = {}
  <2> SUFFICES ASSUME bad # {} PROVE FALSE
    OBVIOUS
  <2>1. PICK n \in bad : \A k \in bad : n <= k
    <3>1. bad \in SUBSET Nat
      BY <1>1
    <3> HIDE DEF bad
    <3> QED BY <3>1, LeastNat
  <2>2. n \in 1..N
    BY <1>1, <1>2
  <2>3. n - 1 \in 0..N /\ ~(n <= n - 1)
    BY <1>1, <2>2
  <2>4. down[n - 1] \subseteq S
    BY <2>1, <2>3
  <2> QED BY <1>3, <2>2, <2>4
<1> QED BY <1>1, <1>4

\* Nothing is below nothing.
LEMMA DownOfNone ==
    ASSUME NEW V, IsFiniteSet(V), NEW dep \in [V -> SUBSET V], NEW Within
    PROVE  Down(dep, Within, {}) = {}
BY DownLeast

\* Each task of Down is met from one of From or of Down.
LEMMA DownLast ==
    ASSUME NEW V, IsFiniteSet(V), NEW dep \in [V -> SUBSET V], NEW Within,
           NEW From \in SUBSET V, NEW c \in Down(dep, Within, From)
    PROVE  \E u \in From \cup Down(dep, Within, From) : c \in dep[u]
<1> DEFINE down == Down(dep, Within, From)
           S == UNION {dep[u] \cap Within : u \in From \cup down}
<1>1. S \subseteq down
  BY DownClosed
<1>2. \A u \in From \cup S : dep[u] \cap Within \subseteq S
  BY <1>1
<1>3. down \subseteq S
  <2> HIDE DEF S
  <2> QED BY <1>2, DownLeast
<1> QED BY <1>3

-----------------------------------------------------------------------------
(* The first of some tasks *)

\* In every nonempty set of tasks there is a first one.
LEMMA LeastIn ==
    ASSUME NEW S \in SUBSET Tasks, S # {}
    PROVE  Least(S) \in S
<1>1. S \in SUBSET Nat
  BY TasksAssumption
<1>2. \E x \in S : \A y \in S : x <= y
  BY <1>1, LeastNat
<1> QED BY <1>2 DEF Least

\* A task waits for a setscene task.
LEMMA LeadersType ==
    ASSUME NEW t, NEW h, Leaders(t, h) # {}
    PROVE  Least(Leaders(t, h)) \in Setscene
<1> DEFINE same == {u \in Setscene : PN[u] = PN[t] /\ Unihash0[u] = h}
<1>1. same # {} /\ Leaders(t, h) = {Least(same)}
  BY DEF Leaders
<1>2. same \in SUBSET Tasks
  BY SetsceneAssumption
<1>3. Least(same) \in same
  BY <1>1, <1>2, LeastIn
<1>4. {Least(same)} \in SUBSET Tasks /\ {Least(same)} # {}
  BY <1>2, <1>3
<1>5. Least({Least(same)}) \in {Least(same)}
  BY <1>4, LeastIn
<1> QED BY <1>1, <1>3, <1>5

-----------------------------------------------------------------------------
(* The graphs *)

\* The closures over a graph of tasks stay among the tasks.
LEMMA BelowType ==
    ASSUME NEW dep \in [Tasks -> SUBSET Tasks], NEW SS, NEW From \in SUBSET Tasks
    PROVE  Below(dep, SS, From) \in SUBSET Tasks
<1>1. Down(dep, DOMAIN dep \ SS, From) \in SUBSET Tasks
  BY DEF Down
<1> QED BY <1>1 DEF Below

\* The relations of the setscene queue relate tasks of the build.
LEMMA GraphType ==
    /\ revdeps \in [Tasks -> SUBSET Tasks]
    /\ sq_covered_tasks \in [Setscene -> SUBSET Tasks]
    /\ sq_deps \in [Setscene -> SUBSET Setscene]
    /\ cantskip \in SUBSET Tasks
    /\ unskippable \in SUBSET Tasks
<1>1. revdeps \in [Tasks -> SUBSET Tasks]
  BY DependsAssumption DEF revdeps, RevDeps
<1>2. sq_covered_tasks \in [Setscene -> SUBSET Tasks]
  <2>1. \A t \in Setscene : Below(depends, Setscene, {t}) \in SUBSET Tasks
    BY BelowType, DependsAssumption, SetsceneAssumption
  <2> QED BY <2>1 DEF sq_covered_tasks, CoveredTasks
<1>3. sq_deps \in [Setscene -> SUBSET Setscene]
  BY DEF sq_deps, SqDeps
<1>4. cantskip \in SUBSET Tasks
  BY DependsAssumption DEF cantskip, CantSkip
<1>5. unskippable \in SUBSET Tasks
  <2> DEFINE tops == {t \in DOMAIN depends : RevDeps(depends)[t] = {}}
                       \cup CantSkip(depends, Setscene, Targets)
  <2>1. tops \in SUBSET Tasks
    BY DependsAssumption DEF CantSkip
  <2>2. tops \ Setscene \in SUBSET Tasks
    BY <2>1
  <2> HIDE DEF tops
  <2>3. Below(depends, Setscene, tops \ Setscene) \in SUBSET Tasks
    BY <2>2, BelowType, DependsAssumption
  <2> QED BY <2>1, <2>3 DEF unskippable, Unskippable, tops
<1> QED BY <1>1, <1>2, <1>3, <1>4, <1>5

\* What a task covers is among the tasks.
LEMMA CoveredByType ==
    ASSUME NEW S \in SUBSET Setscene
    PROVE  CoveredBy(S) \in SUBSET Tasks
BY GraphType, SetsceneAssumption DEF CoveredBy

-----------------------------------------------------------------------------
(* The setscene queue's bookkeeping *)

LEMMA SettleType ==
    ASSUME NEW q \in SqSets, NEW good \in SUBSET Setscene,
           NEW bad \in SUBSET Setscene
    PROVE  Settle(q, good, bad) \in SqSets
<1>1. HardFailures(q, bad) \in SUBSET Setscene
  BY DEF HardFailures, Down
<1>2. ASSUME NEW From \in SUBSET Tasks
      PROVE  DoneBelow(q.done, From) \in SUBSET Tasks
  BY <1>2 DEF DoneBelow, Down, SqSets
<1>3. DoneBelow(q.done, good \cup HardFailures(q, bad)) \in SUBSET Tasks
  BY <1>1, <1>2, SetsceneAssumption
<1> QED BY <1>1, <1>3 DEF Settle, SqSets

LEMMA DispatchedType ==
    ASSUME NEW q \in SqSets, NEW tids \in SUBSET Setscene
    PROVE  Dispatched(q, tids) \in SqSets
BY DEF Dispatched, SqSets

LEMMA SqSkipType ==
    ASSUME NEW q \in SqSets, NEW tids \in SUBSET Setscene
    PROVE  SqSkip(q, tids) \in SqSets
BY SettleType, DispatchedType DEF SqSkip

LEMMA SqFailType ==
    ASSUME NEW q \in SqSets, NEW tids \in SUBSET Setscene
    PROVE  SqFailOutright(q, tids) \in SqSets
BY SettleType, DispatchedType DEF SqFailOutright

-----------------------------------------------------------------------------
(* Stamps *)

LEMMA TouchType ==
    ASSUME NameType, NEW files \in StampTypes, NEW S \in SUBSET Tasks
    PROVE  Touch(files, S) \in StampTypes
<1>1. ASSUME NEW f \in StampsOf(S)
      PROVE  sig[CHOOSE t \in S : Stamp[t] = f] \in Hash
  <2>1. \E t \in S : Stamp[t] = f
    BY <1>1 DEF StampsOf
  <2>2. (CHOOSE t \in S : Stamp[t] = f) \in S
    BY <2>1
  <2> QED BY <2>2 DEF NameType
<1> QED BY <1>1 DEF Touch, StampTypes

LEMMA MakeStampType ==
    ASSUME DiskType, NEW t \in Tasks, NEW h \in Hash, MakeStamp(t, h)
    PROVE  DiskType'
<1>1. Stamp[t] \in StampFiles
  BY DEF StampFiles
<1> QED BY <1>1 DEF MakeStamp, DiskType, StampTypes

\* update_scenequeue_data keeps the types of what it sets.
LEMMA UpdateScenequeueType ==
    ASSUME NameType, ValidType, NEW scene \in StampTypes,
           NEW q, NEW tids \in SUBSET Setscene, NEW deferred,
           UpdateScenequeue(q, tids, deferred, scene)
    PROVE  outrightfail' \in SUBSET Setscene /\ sqstamp' \in StampTypes
<1>1. tids \cap Noexec \in SUBSET Tasks
  BY SetsceneAssumption
<1>2. sqstamp' \in StampTypes
  BY <1>1, TouchType DEF UpdateScenequeue
<1>3. outrightfail' \in SUBSET Setscene
  BY DEF UpdateScenequeue, ValidType
<1> QED BY <1>2, <1>3

-----------------------------------------------------------------------------
(* Steps *)

\* What a step leaves alone keeps its type.
LEMMA TypesKept ==
    /\ RunqType /\ UNCHANGED runqVars => RunqType'
    /\ BuildType /\ UNCHANGED build_stamps => BuildType'
    /\ SceneType /\ UNCHANGED sceneVars => SceneType'
    /\ ValidType /\ UNCHANGED validVars => ValidType'
    /\ HoldType /\ UNCHANGED holdVars => HoldType'
    /\ NameType /\ UNCHANGED steadyVars => NameType'
    /\ NewsType /\ UNCHANGED updated_taskhash_queue => NewsType'
    /\ MoveType /\ UNCHANGED moveVars => MoveType'
    /\ DiskType /\ UNCHANGED diskVars => DiskType'
    /\ WorkType /\ UNCHANGED workVars => WorkType'
<1>1. /\ RunqType /\ UNCHANGED runqVars => RunqType'
      /\ BuildType /\ UNCHANGED build_stamps => BuildType'
      /\ SceneType /\ UNCHANGED sceneVars => SceneType'
  BY DEF RunqType, runqVars, BuildType, SceneType, sceneVars
<1>2. /\ ValidType /\ UNCHANGED validVars => ValidType'
      /\ HoldType /\ UNCHANGED holdVars => HoldType'
      /\ NameType /\ UNCHANGED steadyVars => NameType'
      /\ NewsType /\ UNCHANGED updated_taskhash_queue => NewsType'
  BY DEF ValidType, validVars, HoldType, holdVars, NameType, steadyVars, NewsType
<1>3. /\ MoveType /\ UNCHANGED moveVars => MoveType'
      /\ DiskType /\ UNCHANGED diskVars => DiskType'
      /\ WorkType /\ UNCHANGED workVars => WorkType'
  BY DEF MoveType, moveVars, DiskType, diskVars, WorkType, workVars
<1> QED BY <1>1, <1>2, <1>3

\* execute() returns to a place there is.
LEMMA ReturnType ==
    ASSUME NEW st
    PROVE  ReturnIn(st) \in {"finish", "read", "teardown"}
BY DEF ReturnIn

\* A message read is a message, and leaves messages behind.
LEMMA ReceiveType ==
    ASSUME WorkType, NEW m, Receive(m)
    PROVE  WorkType' /\ m \in Message
BY DEF WorkType, Receive

\* Deferred tasks are setscene tasks, and so are those they wait for.
LEMMA DeferType ==
    ASSUME SceneType, NEW f, Defer(f), DOMAIN f \subseteq Setscene,
           \A d \in DOMAIN f : f[d] \in Setscene
    PROVE  /\ DOMAIN sq_deferred' \subseteq Setscene
           /\ \A d \in DOMAIN sq_deferred' : sq_deferred'[d] \in Setscene
           /\ sq_before' \subseteq Setscene \X Setscene
<1>1. sq_before' \subseteq (DOMAIN f) \X (DOMAIN f)
  BY DEF Defer
<1> QED BY <1>1 DEF Defer

\* task_completeoutright keeps the types of what it sets.
LEMMA CompleteOutrightType ==
    ASSUME RunqType, SceneType, ValidType, NameType, NEW t \in Tasks,
           NEW buildable \in SUBSET Tasks, NEW running \in SUBSET Tasks,
           NEW scene \in StampTypes, CompleteOutright(t, buildable, running, scene)
    PROVE  /\ runq_complete' \subseteq Tasks /\ runq_running' \subseteq Tasks
           /\ runq_buildable' \subseteq Tasks
           /\ sq' \in SqSets
           /\ DOMAIN sq_deferred' \subseteq Setscene
           /\ \A d \in DOMAIN sq_deferred' : sq_deferred'[d] \in Setscene
           /\ sq_before' \subseteq Setscene \X Setscene
           /\ ValidType'
<1> DEFINE waiting == {d \in DOMAIN sq_deferred : sq_deferred[d] = t}
           found == IF waiting = {} THEN {} ELSE {Least(waiting)}
<1>1. /\ waiting \in SUBSET Setscene
      /\ waiting # {} => Least(waiting) \in waiting
  <2>1. waiting \in SUBSET Setscene
    BY DEF SceneType
  <2>2. waiting \in SUBSET Tasks
    BY <2>1, SetsceneAssumption
  <2> QED BY <2>1, <2>2, LeastIn
<1>2. found \in SUBSET Setscene
  BY <1>1
<1>3. /\ runq_complete' \subseteq Tasks /\ runq_running' \subseteq Tasks
      /\ runq_buildable' \subseteq Tasks
  BY GraphType DEF CompleteOutright, RunqType
<1>4. sq' \in SqSets
  <2>1. Skipped(found, scene) \in SUBSET Setscene
    BY <1>2 DEF Skipped
  <2>2. sq' = SqSkip(sq, Skipped(found, scene))
    BY DEF CompleteOutright
  <2> QED BY <2>1, <2>2, SqSkipType DEF SceneType
<1>5. /\ DOMAIN sq_deferred' \subseteq Setscene
      /\ \A d \in DOMAIN sq_deferred' : sq_deferred'[d] \in Setscene
      /\ sq_before' \subseteq Setscene \X Setscene
  <2> DEFINE f == [d \in DOMAIN sq_deferred \ found |->
                     IF d \in waiting THEN Least(waiting) ELSE sq_deferred[d]]
  <2>1. Defer(f)
    BY DEF CompleteOutright
  <2>2. DOMAIN f \subseteq Setscene /\ \A d \in DOMAIN f : f[d] \in Setscene
    BY <1>1 DEF SceneType
  <2> HIDE DEF f
  <2> QED BY <2>1, <2>2, DeferType
<1>6. ValidType'
  <2>1. UpdateScenequeue(sq', found, DOMAIN sq_deferred', scene)
    BY DEF CompleteOutright
  <2>2. outrightfail' \in SUBSET Setscene /\ sqstamp' \in StampTypes
    BY <1>2, <2>1, UpdateScenequeueType
  <2>3. holdoff_need_update' \in BOOLEAN
    BY DEF CompleteOutright, ValidType
  <2> QED BY <2>2, <2>3 DEF ValidType
<1> QED BY <1>3, <1>4, <1>5, <1>6

-----------------------------------------------------------------------------
(* read_workers *)

LEMMA ReadType ==
    ASSUME TypeOK, NEW t \in Tasks,
           \/ ReadSqComplete(t) \/ ReadSqFail(t)
           \/ ReadComplete(t) \/ ReadFail(t)
           \/ \E h \in Hash : ReadUnihash(t, h)
    PROVE  TypeOK'
<1>1. ASSUME NEW m, Receive(m)
      PROVE  /\ WorkType' /\ m \in Message
             /\ HoldType' /\ NameType' /\ MoveType' /\ DiskType'
             /\ pc' = pc /\ request' = request
  BY <1>1, ReceiveType, TypesKept DEF Receive, TypeOK, steadyVars
<1>2. ASSUME NEW ok, Exited(t, ok)
      PROVE  /\ WorkType' /\ HoldType' /\ NameType' /\ MoveType' /\ DiskType'
             /\ NewsType' /\ BuildType'
             /\ pc' = pc /\ request' = request
  <2>1. Receive([type |-> "exit", task |-> t, ok |-> ok])
    BY <1>2 DEF Exited
  <2>2. NewsType' /\ BuildType'
    BY <1>2, TypesKept DEF Exited, TypeOK, BuildType
  <2> QED BY <1>1, <2>1, <2>2
<1>3. CASE ReadSqComplete(t)
  <2>1. t \in Setscene /\ Exited(t, TRUE) /\ SqTaskComplete(t)
    BY <1>3 DEF ReadSqComplete, TypeOK, SceneType
  <2>2. Settle(sq, {t}, {}) \in SqSets
    BY <2>1, SettleType DEF TypeOK, SceneType
  <2>3. SceneType'
    BY <2>1, <2>2 DEF SqTaskComplete, TypeOK, SceneType
  <2>4. ValidType' /\ ControlType'
    BY <1>2, <2>1 DEF SqTaskComplete, TypeOK, ValidType, ControlType
  <2>5. RunqType'
    BY <2>1, TypesKept DEF SqTaskComplete, TypeOK
  <2> QED BY <1>2, <2>1, <2>3, <2>4, <2>5 DEF TypeOK
<1>4. CASE ReadSqFail(t)
  <2>1. t \in Setscene /\ Exited(t, FALSE) /\ SqTaskFail(t)
    BY <1>4 DEF ReadSqFail, TypeOK, SceneType
  <2>2. Settle(sq, {}, {t}) \in SqSets
    BY <2>1, SettleType DEF TypeOK, SceneType
  <2>3. SceneType'
    BY <2>1, <2>2 DEF SqTaskFail, TypeOK, SceneType
  <2>4. ValidType' /\ ControlType'
    BY <1>2, <2>1 DEF SqTaskFail, TypeOK, ValidType, ControlType
  <2>5. RunqType'
    BY <2>1, TypesKept DEF SqTaskFail, TypeOK
  <2> QED BY <1>2, <2>1, <2>3, <2>4, <2>5 DEF TypeOK
<1>5. CASE ReadComplete(t)
  <2>1. /\ Exited(t, TRUE) /\ TaskComplete(t)
        /\ CompleteOutright(t, runq_buildable, runq_running, sqstamp)
    BY <1>5 DEF ReadComplete, TaskComplete
  <2>2. /\ runq_complete' \subseteq Tasks /\ runq_running' \subseteq Tasks
        /\ runq_buildable' \subseteq Tasks /\ sq' \in SqSets
        /\ DOMAIN sq_deferred' \subseteq Setscene
        /\ \A d \in DOMAIN sq_deferred' : sq_deferred'[d] \in Setscene
        /\ sq_before' \subseteq Setscene \X Setscene
        /\ ValidType'
    BY <2>1, CompleteOutrightType DEF TypeOK, RunqType, ValidType
  <2>3. RunqType'
    BY <2>1, <2>2 DEF TaskComplete, TypeOK, RunqType
  <2>4. SceneType' /\ ControlType'
    BY <1>2, <2>1, <2>2 DEF TaskComplete, TypeOK, SceneType, ControlType
  <2> QED BY <1>2, <2>1, <2>2, <2>3, <2>4 DEF TypeOK
<1>6. CASE ReadFail(t)
  <2>1. Exited(t, FALSE) /\ TaskFail(t)
    BY <1>6 DEF ReadFail
  <2>2. RunqType' /\ SceneType' /\ ValidType'
    BY <2>1, TypesKept DEF TaskFail, TypeOK, RunqType
  <2>3. ControlType'
    BY <1>2, <2>1 DEF TaskFail, TypeOK, ControlType
  <2> QED BY <1>2, <2>1, <2>2, <2>3 DEF TypeOK
<1>7. CASE \E h \in Hash : ReadUnihash(t, h)
  <2>1. PICK h \in Hash : ReadUnihash(t, h)
    BY <1>7
  <2>2. Receive([type |-> "unihash", task |-> t, hash |-> h])
    BY <2>1 DEF ReadUnihash
  <2>3. NewsType'
    BY <2>1 DEF ReadUnihash, TypeOK, NewsType
  <2>4. RunqType' /\ BuildType' /\ SceneType' /\ ValidType' /\ ControlType'
    BY <1>1, <2>1, <2>2, TypesKept DEF ReadUnihash, TypeOK, ControlType
  <2> QED BY <1>1, <2>2, <2>3, <2>4 DEF TypeOK
<1> QED BY <1>3, <1>4, <1>5, <1>6, <1>7

-----------------------------------------------------------------------------
(* process_possible_migrations *)

LEMMA RehashType == ASSUME TypeOK, Rehash PROVE TypeOK'
<1> DEFINE taken == {u \in updated_taskhash_queue :
                       u.task \notin runq_running \ runq_complete}
           news == {u \in taken : u.hash # unihash[u.task]}
           hit(t) == {u \in news : \/ u.task = t
                                   \/ t \in DOMAIN sq_deferred
                                        /\ sq_deferred[t] = u.task}
           toprocess == {t \in Tasks : hit(t) # {}}
           reported(old) == [t \in Tasks |-> IF t \in toprocess
                                             THEN (CHOOSE u \in hit(t) : TRUE).hash
                                             ELSE old[t]]
           total == Above(depends, toprocess)
<1>1. ASSUME NEW old \in [Tasks -> Hash]
      PROVE  reported(old) \in [Tasks -> Hash]
  <2>1. ASSUME NEW t \in toprocess
        PROVE  (CHOOSE u \in hit(t) : TRUE).hash \in Hash
    <3>1. (CHOOSE u \in hit(t) : TRUE) \in hit(t)
      BY <2>1
    <3> QED BY <3>1 DEF TypeOK, NewsType
  <2> QED BY <2>1
<1> DEFINE differ(newuni) == {t \in total : newuni[t] # reported(unihash)[t]}
           remapped(newuni) == differ(newuni) \cap Remapped
           moved(newuni) == differ(newuni) \ remapped(newuni)
<1>2. PICK newuni \in [total -> Hash] :
        \E accepted \in SUBSET remapped(newuni) :
          /\ sig' = [t \in Tasks |-> IF t \in accepted THEN reported(unihash)[t]
                                     ELSE IF t \in total THEN newuni[t]
                                     ELSE reported(sig)[t]]
          /\ \A t \in total :
               newuni[t] # reported(sig)[t] => \E d \in depends[t] : sig'[d] # sig[d]
          /\ unihash' = [t \in Tasks |-> IF t \in moved(newuni) THEN newuni[t]
                                         ELSE reported(unihash)[t]]
          /\ changed' = (moved(newuni) # {})
          /\ todo' = pending_migrations \cup (moved(newuni) \cap Setscene)
  BY Zenon DEF Rehash
<1>3. NameType'
  <2>1. /\ unihash \in [Tasks -> Hash] /\ sig \in [Tasks -> Hash]
        /\ reported(unihash) \in [Tasks -> Hash]
        /\ reported(sig) \in [Tasks -> Hash]
    BY <1>1 DEF TypeOK, NameType
  <2>2. moved(newuni) \subseteq total
    OBVIOUS
  <2> HIDE DEF reported, moved, remapped, total
  <2> QED BY <1>2, <2>1, <2>2 DEF NameType
<1>4. MoveType'
  <2> HIDE DEF moved, remapped, reported, total
  <2>1. /\ todo' \subseteq Setscene /\ changed' \in BOOLEAN
    BY <1>2 DEF TypeOK, MoveType
  <2>2. /\ pending_migrations' = todo' /\ update_tasks' = {}
        /\ sq_stamps' = sq_stamps
    BY DEF Rehash
  <2> QED BY <2>1, <2>2 DEF TypeOK, MoveType
<1>5. NewsType' /\ ControlType'
  BY DEF Rehash, TypeOK, NewsType, ControlType
<1>6. RunqType' /\ BuildType' /\ SceneType' /\ ValidType' /\ HoldType'
      /\ DiskType' /\ WorkType'
  BY TypesKept DEF Rehash, TypeOK
<1> QED BY <1>3, <1>4, <1>5, <1>6 DEF TypeOK

LEMMA MigrateType == ASSUME TypeOK, NEW t \in Setscene, Migrate(t) PROVE TypeOK'
<1>1. /\ HoldType' /\ NameType' /\ NewsType' /\ DiskType' /\ WorkType'
  BY TypesKept DEF Migrate, TypeOK
<1>2. CASE MigrateReset(t)
  <2>1. sq' \in SqSets
    BY <1>2, GraphType DEF MigrateReset, TypeOK, SceneType, SqSets
  <2>2. SceneType'
    BY <1>2, <2>1 DEF Migrate, MigrateReset, TypeOK, SceneType
  <2>3. ValidType' /\ BuildType'
    BY <1>2 DEF Migrate, MigrateReset, TypeOK, ValidType, BuildType
  <2>4. RunqType' /\ ControlType'
    BY <1>2 DEF Migrate, MigrateReset, TypeOK, RunqType, ControlType, steadyVars
  <2>5. update_tasks' \subseteq [task : Setscene, harddepfail : BOOLEAN]
    <3> DEFINE fails == \E u \in sq.notcovered : t \in sq_harddeps[u]
    <3>1. update_tasks' = update_tasks \cup {[task |-> t, harddepfail |-> fails]}
      BY <1>2 DEF MigrateReset
    <3>2. fails \in BOOLEAN
      OBVIOUS
    <3> HIDE DEF fails
    <3> QED BY <3>1, <3>2 DEF TypeOK, MoveType
  <2>6. sq_stamps' \in [Setscene -> Hash]
    BY <1>2, SetsceneAssumption DEF MigrateReset, TypeOK, MoveType, NameType
  <2>7. MoveType'
    BY <1>2, <2>5, <2>6 DEF Migrate, MigrateReset, TypeOK, MoveType
  <2> QED BY <1>1, <2>2, <2>3, <2>4, <2>7 DEF TypeOK
<1>3. CASE MigrateAbort(t)
  <2>1. sq' \in SqSets
    BY <1>3 DEF MigrateAbort, TypeOK, SceneType, SqSets
  <2>2. SceneType'
    BY <1>3, <2>1 DEF Migrate, MigrateAbort, TypeOK, SceneType
  <2>3. ValidType' /\ BuildType'
    BY <1>3 DEF Migrate, MigrateAbort, TypeOK, ValidType, BuildType
  <2>4. RunqType'
    BY <1>3, SetsceneAssumption DEF Migrate, MigrateAbort, TypeOK, RunqType
  <2>5. ControlType'
    BY <1>3 DEF Migrate, MigrateAbort, TypeOK, ControlType, steadyVars
  <2>6. MoveType'
    BY <1>3 DEF Migrate, MigrateAbort, TypeOK, MoveType
  <2> QED BY <1>1, <2>2, <2>3, <2>4, <2>5, <2>6 DEF TypeOK
<1> QED BY <1>2, <1>3 DEF Migrate

LEMMA MigrateNotType ==
    ASSUME TypeOK, NEW t \in Setscene, MigrateNot(t) PROVE TypeOK'
<1>1. MoveType' /\ ControlType'
  BY DEF MigrateNot, TypeOK, MoveType, ControlType, steadyVars
<1>2. /\ RunqType' /\ BuildType' /\ SceneType' /\ ValidType' /\ HoldType'
      /\ NameType' /\ NewsType' /\ DiskType' /\ WorkType'
  BY TypesKept DEF MigrateNot, TypeOK
<1> QED BY <1>1, <1>2 DEF TypeOK

LEMMA MigrateEndType == ASSUME TypeOK, MigrateEnd PROVE TypeOK'
<1> DEFINE tids == {u.task : u \in update_tasks}
           follows == {t \in tids : Leaders(t, unihash[t]) \ {t} # {}}
           q == SqSkip(sq, Skipped(tids, sqstamp))
           failing == {u.task : u \in {v \in update_tasks : v.harddepfail}}
<1>1. /\ tids \in SUBSET Setscene /\ failing \in SUBSET Setscene
      /\ Skipped(tids, sqstamp) \in SUBSET Setscene
  <2>1. tids \in SUBSET Setscene /\ failing \in SUBSET Setscene
    BY DEF TypeOK, MoveType
  <2>2. Skipped(tids, sqstamp) \subseteq tids
    BY DEF Skipped
  <2> QED BY <2>1, <2>2
<1>2. sq' \in SqSets
  <2>1. q \in SqSets
    BY <1>1, SqSkipType DEF TypeOK, SceneType
  <2>2. SqFailOutright(q, failing) \in SqSets
    BY <1>1, <2>1, SqFailType
  <2> QED BY <2>2 DEF MigrateEnd
<1>3. /\ DOMAIN sq_deferred' \subseteq Setscene
      /\ \A d \in DOMAIN sq_deferred' : sq_deferred'[d] \in Setscene
      /\ sq_before' \subseteq Setscene \X Setscene
  <2> DEFINE f == [d \in DOMAIN sq_deferred \cup follows |->
                     IF d \in follows THEN Least(Leaders(d, unihash[d]))
                                      ELSE sq_deferred[d]]
  <2>1. \A d \in follows : Least(Leaders(d, unihash[d])) \in Setscene
    BY LeadersType
  <2>2. Defer(f)
    BY DEF MigrateEnd
  <2>3. follows \subseteq Setscene
    BY <1>1
  <2>4. DOMAIN f \subseteq Setscene /\ \A d \in DOMAIN f : f[d] \in Setscene
    <3> HIDE DEF follows
    <3> QED BY <2>1, <2>3 DEF TypeOK, SceneType
  <2> HIDE DEF f
  <2> QED BY <2>2, <2>4, DeferType DEF TypeOK
<1>4. SceneType'
  BY <1>2, <1>3 DEF MigrateEnd, TypeOK, SceneType
<1>5. ValidType'
  <2>1. UpdateScenequeue(q, tids, DOMAIN sq_deferred', sqstamp)
    BY DEF MigrateEnd
  <2>2. outrightfail' \in SUBSET Setscene /\ sqstamp' \in StampTypes
    BY <1>1, <2>1, UpdateScenequeueType DEF TypeOK, ValidType
  <2> QED BY <2>2 DEF MigrateEnd, TypeOK, ValidType, MoveType
<1>6. MoveType' /\ ControlType'
  BY DEF MigrateEnd, TypeOK, MoveType, ControlType, steadyVars
<1>7. /\ RunqType' /\ BuildType' /\ HoldType' /\ NameType' /\ NewsType'
      /\ DiskType' /\ WorkType'
  BY TypesKept DEF MigrateEnd, TypeOK, diskVars
<1> QED BY <1>4, <1>5, <1>6, <1>7 DEF TypeOK

-----------------------------------------------------------------------------
(* execute(): the setscene queue *)

\* A task no longer deferred leaves the others deferred after what they were.
LEMMA UndeferType ==
    ASSUME SceneType, NEW t, Undefer(t)
    PROVE  /\ DOMAIN sq_deferred' \subseteq Setscene
           /\ \A d \in DOMAIN sq_deferred' : sq_deferred'[d] \in Setscene
           /\ sq_before' \subseteq Setscene \X Setscene
<1> DEFINE f == [d \in DOMAIN sq_deferred \ {t} |-> sq_deferred[d]]
<1>1. Defer(f)
  BY DEF Undefer
<1>2. DOMAIN f \subseteq Setscene /\ \A d \in DOMAIN f : f[d] \in Setscene
  BY DEF SceneType
<1> HIDE DEF f
<1> QED BY <1>1, <1>2, DeferType

\* The steps that decide a setscene task without a job.
LEMMA SqDecidedType ==
    ASSUME TypeOK, NEW t \in Setscene,
           SqNotNeeded(t) \/ SqInvalid(t) \/ SqOutright(t) \/ SqStampPresent(t)
    PROVE  TypeOK'
<1>1. /\ UNCHANGED sqStepUnchanged /\ Undefer(t)
      /\ sq' \in {SqSkip(sq, {t}), SqFailOutright(sq, {t})}
      /\ notneeded' \in {notneeded, notneeded \cup {t}}
      /\ holdoff_need_update' = TRUE
      /\ pc' = ReturnIn(state)
  BY DEF SqNotNeeded, SqInvalid, SqOutright, SqStampPresent, SqNext
<1>2. sq' \in SqSets
  BY <1>1, SqSkipType, SqFailType DEF TypeOK, SceneType
<1>3. SceneType'
  BY <1>1, <1>2, UndeferType DEF TypeOK, SceneType, sqStepUnchanged
<1>4. ValidType'
  BY <1>1 DEF TypeOK, ValidType, sqStepUnchanged
<1>5. ControlType'
  BY <1>1, ReturnType DEF TypeOK, ControlType, sqStepUnchanged, steadyVars
<1>6. /\ RunqType' /\ BuildType' /\ HoldType' /\ NameType' /\ NewsType'
      /\ MoveType' /\ DiskType' /\ WorkType'
  BY <1>1, TypesKept DEF TypeOK, sqStepUnchanged
<1> QED BY <1>3, <1>4, <1>5, <1>6 DEF TypeOK

\* The job of a task and its stamp are well formed.
LEMMA SendType ==
    ASSUME TypeOK, NEW t \in Tasks, NEW setscene \in BOOLEAN, Send(t, setscene)
    PROVE  BuildType' /\ WorkType'
<1>1. sig[t] \in Hash
  BY DEF TypeOK, NameType
<1>2. BuildType'
  BY <1>1 DEF Send, TypeOK, BuildType
<1>3. [task |-> t, setscene |-> setscene, hash |-> sig[t], told |-> FALSE] \in Job
  BY <1>1 DEF Job
<1>4. jobs' \subseteq Job /\ pipe' = pipe
  BY <1>3 DEF Send, TypeOK, WorkType
<1> QED BY <1>2, <1>4 DEF TypeOK, WorkType

LEMMA SqStartType == ASSUME TypeOK, NEW t \in Setscene, SqStart(t) PROVE TypeOK'
<1>1. BuildType' /\ WorkType'
  BY SendType, SetsceneAssumption DEF SqStart
<1>2. SceneType'
  BY UndeferType DEF SqStart, SqNext, TypeOK, SceneType, SqSets
<1>3. ControlType'
  BY ReturnType DEF SqStart, TypeOK, ControlType, steadyVars
<1>4. /\ RunqType' /\ ValidType' /\ HoldType' /\ NameType' /\ NewsType'
      /\ MoveType' /\ DiskType'
  BY TypesKept DEF SqStart, TypeOK
<1> QED BY <1>1, <1>2, <1>3, <1>4 DEF TypeOK

LEMMA HoldoffType == ASSUME TypeOK, Holdoff PROVE TypeOK'
<1>1. ASSUME UpdateHoldoffTasks
      PROVE  HoldType' /\ runq_buildable' \subseteq Tasks
  <2>1. NotCovered \subseteq Tasks /\ Covered \subseteq Tasks
    BY DEF NotCovered, Covered, TypeOK, SceneType, SqSets
  <2>2. CoveredBy(Setscene \ Resolved(sq)) \in SUBSET Tasks
    BY CoveredByType
  <2> QED
    BY <1>1, <2>1, <2>2, SetsceneAssumption
       DEF UpdateHoldoffTasks, TypeOK, HoldType, RunqType
<1>2. HoldType' /\ runq_buildable' \subseteq Tasks
  BY <1>1, TypesKept DEF Holdoff, TypeOK, RunqType
<1>3. RunqType'
  BY <1>2 DEF Holdoff, TypeOK, RunqType
<1>4. holdoff_need_update' \in BOOLEAN
  BY DEF Holdoff, UpdateHoldoffTasks, TypeOK, ValidType
<1>5. ValidType'
  BY <1>4 DEF Holdoff, TypeOK, ValidType
<1>6. state' \in {"Running", "CleanUp", "Failed", "Complete"} /\ sqdone' \in BOOLEAN
  BY DEF Holdoff, TypeOK, ControlType, SceneType
<1>7. SceneType'
  BY <1>6 DEF Holdoff, TypeOK, SceneType
<1>8. ControlType'
  BY <1>6 DEF Holdoff, TypeOK, ControlType, steadyVars
<1>9. /\ BuildType' /\ NameType' /\ NewsType' /\ MoveType' /\ DiskType'
      /\ WorkType'
  BY TypesKept DEF Holdoff, TypeOK
<1> QED BY <1>2, <1>3, <1>5, <1>7, <1>8, <1>9 DEF TypeOK

-----------------------------------------------------------------------------
(* execute(): the run queue *)

\* The steps that mark t complete without a job.
LEMMA OutrightType ==
    ASSUME TypeOK, NEW t \in Tasks, SkipTask(t) \/ RunNoexec(t) PROVE TypeOK'
<1>1. /\ UNCHANGED schedUnchanged
      /\ UNCHANGED <<state, failed_tids, stats_active, sq_live, notneeded, sqdone,
                     sq_active>>
      /\ runq_tasksrun' \in {runq_tasksrun, runq_tasksrun \cup {t}}
      /\ pc' = ReturnIn(state)
  BY DEF SkipTask, RunNoexec
<1>2. DiskType'
  <2>1. UNCHANGED diskVars \/ MakeStamp(t, sig[t])
    BY DEF SkipTask, RunNoexec
  <2>2. sig[t] \in Hash
    BY DEF TypeOK, NameType
  <2> QED BY <2>1, <2>2, MakeStampType, TypesKept DEF TypeOK
<1>3. /\ runq_complete' \subseteq Tasks /\ runq_running' \subseteq Tasks
      /\ runq_buildable' \subseteq Tasks /\ sq' \in SqSets
      /\ DOMAIN sq_deferred' \subseteq Setscene
      /\ \A d \in DOMAIN sq_deferred' : sq_deferred'[d] \in Setscene
      /\ sq_before' \subseteq Setscene \X Setscene
      /\ ValidType'
  <2>1. /\ runq_buildable \in SUBSET Tasks
        /\ runq_buildable \cup {t} \in SUBSET Tasks
        /\ runq_running \cup {t} \in SUBSET Tasks
        /\ sqstamp \in StampTypes
        /\ [sqstamp EXCEPT ![Stamp[t]] = None] \in StampTypes
    BY DEF TypeOK, RunqType, ValidType, StampTypes
  <2>2. PICK buildable \in SUBSET Tasks, scene \in StampTypes :
          CompleteOutright(t, buildable, runq_running \cup {t}, scene)
    <3>1. CASE SkipTask(t)
      BY <2>1, <3>1 DEF SkipTask
    <3>2. CASE RunNoexec(t)
      BY <2>1, <3>2 DEF RunNoexec
    <3> QED BY <3>1, <3>2
  <2> QED BY <2>1, <2>2, CompleteOutrightType DEF TypeOK
<1>4. RunqType'
  BY <1>1, <1>3 DEF TypeOK, RunqType
<1>5. SceneType'
  BY <1>1, <1>3 DEF TypeOK, SceneType
<1>6. ControlType'
  BY <1>1, ReturnType DEF TypeOK, ControlType, schedUnchanged, steadyVars
<1>7. /\ BuildType' /\ HoldType' /\ NameType' /\ NewsType' /\ MoveType'
      /\ WorkType'
  BY <1>1, TypesKept DEF TypeOK, schedUnchanged
<1> QED BY <1>2, <1>3, <1>4, <1>5, <1>6, <1>7 DEF TypeOK

LEMMA RefuseType == ASSUME TypeOK, NEW t \in Tasks, Refuse(t) PROVE TypeOK'
<1>1. RunqType'
  BY DEF Refuse, TaskFail, TypeOK, RunqType
<1>2. state' \in {"Running", "CleanUp", "Failed", "Complete"}
  BY DEF Refuse, TaskFail, TypeOK, ControlType
<1>3. ControlType'
  BY <1>2, ReturnType DEF Refuse, TypeOK, ControlType, schedUnchanged, steadyVars
<1>4. /\ BuildType' /\ SceneType' /\ ValidType' /\ HoldType' /\ NameType'
      /\ NewsType' /\ MoveType' /\ DiskType' /\ WorkType'
  BY TypesKept DEF Refuse, TaskFail, TypeOK, schedUnchanged
<1> QED BY <1>1, <1>3, <1>4 DEF TypeOK

LEMMA StartType == ASSUME TypeOK, NEW t \in Tasks, StartTask(t) PROVE TypeOK'
<1>1. BuildType' /\ WorkType'
  BY SendType DEF StartTask
<1>2. RunqType'
  BY DEF StartTask, TypeOK, RunqType
<1>3. ControlType'
  BY ReturnType DEF StartTask, TypeOK, ControlType, steadyVars
<1>4. /\ SceneType' /\ ValidType' /\ HoldType' /\ NameType' /\ NewsType'
      /\ MoveType' /\ DiskType'
  BY TypesKept DEF StartTask, TypeOK
<1> QED BY <1>1, <1>2, <1>3, <1>4 DEF TypeOK

-----------------------------------------------------------------------------
(* The end of a call, and of the build *)

LEMMA SpawnFailType == ASSUME TypeOK, NEW t \in Tasks, SpawnFail(t) PROVE TypeOK'
<1>1. RunqType' /\ ControlType'
  BY DEF SpawnFail, TypeOK, RunqType, ControlType, schedUnchanged, steadyVars
<1>2. /\ BuildType' /\ SceneType' /\ ValidType' /\ HoldType' /\ NameType'
      /\ NewsType' /\ MoveType' /\ DiskType' /\ WorkType'
  BY TypesKept DEF SpawnFail, TypeOK, schedUnchanged
<1> QED BY <1>1, <1>2 DEF TypeOK

\* The steps that only move the call of execute_runqueue() on.
LEMMA MoveOnType ==
    ASSUME TypeOK, EndRead \/ EndWait \/ SqNone \/ SchedNone PROVE TypeOK'
<1>1. /\ UNCHANGED <<state, steadyVars>>
      /\ pc' \in {"rehash", "setscene", "holdoff", "tail", "finish", "read",
                   "teardown"}
  BY ReturnType DEF EndRead, EndWait, SqNone, SchedNone
<1>2. ControlType'
  BY <1>1 DEF TypeOK, ControlType, steadyVars
<1>3. /\ RunqType' /\ BuildType' /\ SceneType' /\ ValidType' /\ HoldType'
      /\ NameType' /\ NewsType' /\ MoveType' /\ DiskType' /\ WorkType'
  BY TypesKept DEF EndRead, EndWait, SqNone, SchedNone, TypeOK
<1> QED BY <1>2, <1>3 DEF TypeOK

LEMMA TailType ==
    ASSUME TypeOK, TailWait \/ TailForce \/ TailEnd PROVE TypeOK'
<1>1. /\ UNCHANGED unlessTail
      /\ pc' \in {"wait", "finish", "read", "teardown"}
      /\ state' \in {"Running", "CleanUp", "Failed", "Complete"}
  BY ReturnType DEF TailWait, TailForce, TailEnd, TypeOK, ControlType
<1>2. /\ sq' \in SqSets /\ holdoff_need_update' \in BOOLEAN
      /\ DOMAIN sq_deferred' \subseteq Setscene
      /\ \A d \in DOMAIN sq_deferred' : sq_deferred'[d] \in Setscene
      /\ sq_before' \subseteq Setscene \X Setscene
  <2>1. CASE TailForce
    <3>1. PICK d \in DOMAIN sq_deferred :
            /\ Undefer(d)
            /\ IF sq_deferred[d] \in runq_complete
               THEN UNCHANGED <<sq, holdoff_need_update>>
               ELSE /\ sq' = SqFailOutright(sq, {sq_deferred[d]})
                    /\ holdoff_need_update' = TRUE
      BY <2>1 DEF TailForce
    <3>2. {sq_deferred[d]} \in SUBSET Setscene
      BY DEF TypeOK, SceneType
    <3>3. sq' \in SqSets /\ holdoff_need_update' \in BOOLEAN
      BY <3>1, <3>2, SqFailType DEF TypeOK, SceneType, ValidType
    <3> QED BY <3>1, <3>3, UndeferType DEF TypeOK
  <2>2. CASE TailWait \/ TailEnd
    BY <2>2 DEF TailWait, TailEnd, TypeOK, SceneType, ValidType
  <2> QED BY <2>1, <2>2
<1>3. SceneType'
  BY <1>1, <1>2 DEF TypeOK, SceneType, unlessTail
<1>4. ValidType' /\ ControlType'
  BY <1>1, <1>2 DEF TypeOK, ValidType, ControlType, unlessTail, steadyVars
<1>5. /\ RunqType' /\ BuildType' /\ HoldType' /\ NameType' /\ NewsType'
      /\ MoveType' /\ DiskType' /\ WorkType'
  BY <1>1, TypesKept DEF TypeOK, unlessTail
<1> QED BY <1>3, <1>4, <1>5 DEF TypeOK

LEMMA FinishType ==
    ASSUME TypeOK,
           \/ Finish \/ Stop \/ ForceStop
           \/ WorkerQuit \/ TornDown \/ FinishGone
    PROVE  TypeOK'
<1>1. /\ UNCHANGED unlessFinish /\ jobs' \in {jobs, {}}
      /\ pc' \in {pc, "finish", "teardown", "gone", "done"}
      /\ state' \in {state, "CleanUp", Verdict(failed_tids)}
  BY DEF Finish, Stop, ForceStop, WorkerQuit, TornDown, FinishGone
<1>2. Verdict(failed_tids) \in {"Failed", "Complete"}
  BY DEF Verdict
<1>3. ControlType'
  BY <1>1, <1>2 DEF TypeOK, ControlType, unlessFinish, steadyVars
<1>4. WorkType'
  BY <1>1 DEF TypeOK, WorkType, unlessFinish
<1>5. /\ RunqType' /\ BuildType' /\ SceneType' /\ ValidType' /\ HoldType'
      /\ NameType' /\ NewsType' /\ MoveType' /\ DiskType'
  BY <1>1, TypesKept DEF TypeOK, unlessFinish
<1> QED BY <1>3, <1>4, <1>5 DEF TypeOK

-----------------------------------------------------------------------------
(* The workers *)

\* What the workers leave alone.
LEMMA UnlessJobType ==
    ASSUME TypeOK, UNCHANGED unlessJob
    PROVE  /\ ControlType' /\ RunqType' /\ BuildType' /\ SceneType' /\ HoldType'
           /\ NameType' /\ NewsType' /\ MoveType'
           /\ outrightfail' = outrightfail
           /\ holdoff_need_update' = holdoff_need_update
<1>1. ControlType'
  BY DEF TypeOK, ControlType, unlessJob, steadyVars
<1>2. /\ RunqType' /\ BuildType' /\ SceneType' /\ HoldType' /\ NameType'
      /\ NewsType' /\ MoveType'
  BY TypesKept DEF TypeOK, unlessJob
<1> QED BY <1>1, <1>2 DEF unlessJob

\* What a worker writes to the pipe is a message.
LEMMA PipeType ==
    ASSUME WorkType, NEW m \in Message
    PROVE  Append(pipe, m) \in Seq(Message)
BY DEF WorkType

LEMMA JobReportType ==
    ASSUME TypeOK, NEW j \in jobs, NEW h \in Hash, JobReport(j, h) PROVE TypeOK'
<1>1. j \in Job /\ j.task \in Tasks
  BY DEF TypeOK, WorkType, Job
<1>2. [j EXCEPT !.hash = h, !.told = TRUE] \in Job
  BY <1>1 DEF Job
<1>3. jobs' \subseteq Job
  BY <1>2 DEF JobReport, TypeOK, WorkType
<1>4. [type |-> "unihash", task |-> j.task, hash |-> h] \in Message
  BY <1>1 DEF Message
<1>5. pipe' \in Seq(Message)
  BY <1>4, PipeType DEF JobReport, TypeOK
<1>6. WorkType'
  BY <1>3, <1>5 DEF WorkType
<1>7. /\ ControlType' /\ RunqType' /\ BuildType' /\ SceneType' /\ HoldType'
      /\ NameType' /\ NewsType' /\ MoveType'
      /\ outrightfail' = outrightfail
      /\ holdoff_need_update' = holdoff_need_update
  BY UnlessJobType DEF JobReport
<1>8. ValidType' /\ DiskType'
  BY <1>7 DEF JobReport, TypeOK, ValidType, DiskType, diskVars
<1> QED BY <1>6, <1>7, <1>8 DEF TypeOK

LEMMA JobExitType ==
    ASSUME TypeOK, NEW j \in jobs, NEW ok \in BOOLEAN, JobExit(j, ok) PROVE TypeOK'
<1>1. j.task \in Tasks /\ j.hash \in Hash
  BY DEF TypeOK, WorkType, Job
<1>2. jobs' \subseteq Job
  BY DEF JobExit, TypeOK, WorkType
<1>3. [type |-> "exit", task |-> j.task, ok |-> ok] \in Message
  BY <1>1 DEF Message
<1>4. pipe' \in Seq(Message)
  BY <1>3, PipeType DEF JobExit, TypeOK
<1>5. WorkType'
  BY <1>2, <1>4 DEF WorkType
<1>6. /\ ControlType' /\ RunqType' /\ BuildType' /\ SceneType' /\ HoldType'
      /\ NameType' /\ NewsType' /\ MoveType'
      /\ outrightfail' = outrightfail
      /\ holdoff_need_update' = holdoff_need_update
  BY UnlessJobType DEF JobExit
<1>7. sqstamp' \in StampTypes
  BY <1>1 DEF JobExit, TypeOK, ValidType, StampTypes
<1>8. ValidType'
  BY <1>6, <1>7 DEF TypeOK, ValidType
<1>9. DiskType'
  <2>1. UNCHANGED diskVars \/ MakeStamp(j.task, j.hash)
    BY DEF JobExit
  <2> QED BY <1>1, <2>1, MakeStampType, TypesKept DEF TypeOK
<1> QED BY <1>5, <1>6, <1>8, <1>9 DEF TypeOK

-----------------------------------------------------------------------------
(* The invariant *)

\* The stamps found on disk carry hashes of tasks.
LEMMA FoundType ==
    ASSUME NEW S \in SUBSET Tasks
    PROVE  Found(S) \in StampTypes
<1>1. ASSUME NEW f \in StampsOf(S)
      PROVE  Unihash0[CHOOSE t \in S : Stamp[t] = f] \in Hash
  <2>1. \E t \in S : Stamp[t] = f
    BY <1>1 DEF StampsOf
  <2>2. (CHOOSE t \in S : Stamp[t] = f) \in S
    BY <2>1
  <2> QED BY <2>2, HashAssumption
<1> QED BY <1>1 DEF Found, StampTypes

LEMMA InitType == Init => TypeOK
<1> SUFFICES ASSUME Init PROVE TypeOK
  OBVIOUS
<1> DEFINE deferred == {t \in Setscene : Leaders(t, Unihash0[t]) # {t}}
           present == {t \in Setscene :
                         \/ sqstamp[Stamp[t]] = Unihash0[t]
                         \/ StampCurrentBelow(t, stamp, sqstamp, {})}
           q == [buildable |-> {t \in Setscene : sq_revdeps[t] = {}},
                 running |-> {}, covered |-> {}, notcovered |-> {},
                 done |-> unskippable \ Setscene]
<1>1. /\ sq_deferred = [t \in deferred |-> Least(Leaders(t, Unihash0[t]))]
      /\ sq_before = {p \in deferred \X deferred : p[1] < p[2]}
      /\ sq = SqSkip(q, present)
      /\ \E valid \in SUBSET (Setscene \ present) :
           outrightfail = Setscene \ (present \cup valid \cup deferred)
  BY Zenon DEF Init
<1>2. sq \in SqSets
  <2>1. q \in SqSets
    BY GraphType DEF SqSets
  <2>2. present \in SUBSET Setscene
    OBVIOUS
  <2> HIDE DEF q, present
  <2> QED BY <1>1, <2>1, <2>2, SqSkipType
<1>3. /\ DOMAIN sq_deferred \subseteq Setscene
      /\ \A d \in DOMAIN sq_deferred : sq_deferred[d] \in Setscene
      /\ sq_before \subseteq Setscene \X Setscene
  <2>1. ASSUME NEW d \in deferred
        PROVE  Least(Leaders(d, Unihash0[d])) \in Setscene
    <3>1. d \in {u \in Setscene : PN[u] = PN[d] /\ Unihash0[u] = Unihash0[d]}
      OBVIOUS
    <3>2. Leaders(d, Unihash0[d]) # {}
      BY <3>1 DEF Leaders
    <3> QED BY <3>2, LeadersType
  <2>2. deferred \subseteq Setscene
    OBVIOUS
  <2> HIDE DEF deferred
  <2> QED BY <1>1, <2>1, <2>2
<1>4. stamp \in StampTypes /\ sqstamp \in StampTypes
  <2>1. PICK S \in OldStamps : stamp = Found(S)
    BY DEF Init
  <2>2. PICK S2 \in OldSqStamps :
          sqstamp = Found(S2 \cup (Setscene \cap Noexec))
    BY DEF Init
  <2>3. S \in SUBSET Tasks /\ S2 \cup (Setscene \cap Noexec) \in SUBSET Tasks
    BY StampsAssumption, SetsceneAssumption
  <2> QED BY <2>1, <2>2, <2>3, FoundType
<1>5. outrightfail \subseteq Setscene
  BY <1>1
<1>6. ControlType /\ BuildType /\ HoldType /\ NewsType /\ WorkType
  BY DEF Init, ControlType, BuildType, HoldType, NewsType, WorkType
<1>7. RunqType
  <2>1. runq_buildable \subseteq leaves
    BY DEF Init
  <2>2. leaves \subseteq Tasks
    BY DEF leaves
  <2> QED BY <2>1, <2>2 DEF Init, RunqType
<1>8. SceneType
  <2>1. sq_live = {} /\ notneeded = {} /\ sqdone \in BOOLEAN /\ sq_active \in Int
    BY DEF Init
  <2> QED BY <1>2, <1>3, <2>1 DEF SceneType
<1>9. ValidType /\ DiskType
  BY <1>4, <1>5 DEF Init, ValidType, DiskType
<1>10. NameType
  BY HashAssumption DEF Init, NameType
<1>11. MoveType
  <2>1. sq_stamps = [t \in Setscene |-> Unihash0[t]]
    BY DEF Init
  <2>2. sq_stamps \in [Setscene -> Hash]
    BY <2>1, HashAssumption, SetsceneAssumption
  <2> QED BY <2>2 DEF Init, MoveType
<1> QED BY <1>6, <1>7, <1>8, <1>9, <1>10, <1>11 DEF TypeOK

LEMMA TypeNext == TypeOK /\ [Next]_vars => TypeOK'
<1> SUFFICES ASSUME TypeOK, [Next]_vars PROVE TypeOK'
  OBVIOUS
<1>1. CASE Read
  BY <1>1, ReadType, MoveOnType DEF Read
<1>2. CASE Migrations
  BY <1>2, RehashType, MigrateType, MigrateNotType, MigrateEndType DEF Migrations
<1>3. CASE SceneStep
  BY <1>3, SqDecidedType, SqStartType, MoveOnType, HoldoffType DEF SceneStep
<1>4. CASE RunStep
  BY <1>4, RefuseType, OutrightType, StartType, SpawnFailType, MoveOnType, TailType DEF RunStep
<1>5. CASE Finish \/ WorkerQuit \/ TornDown \/ FinishGone \/ Stop \/ ForceStop
  BY <1>5, FinishType
<1>6. CASE Worker
  BY <1>6, JobReportType, JobExitType DEF Worker
<1>7. CASE Terminated \/ UNCHANGED vars
  <2>1. UNCHANGED vars
    BY <1>7 DEF Terminated
  <2>2. ControlType'
    BY <2>1 DEF vars, steadyVars, TypeOK, ControlType
  <2>3. /\ RunqType' /\ BuildType' /\ SceneType' /\ ValidType' /\ HoldType'
        /\ NameType' /\ NewsType' /\ MoveType' /\ DiskType' /\ WorkType'
    BY <2>1, TypesKept DEF vars, TypeOK
  <2> QED BY <2>2, <2>3 DEF TypeOK
<1> QED
  BY <1>1, <1>2, <1>3, <1>4, <1>5, <1>6, <1>7 DEF Next, Server

\* In every build, whatever its graph, its hashes and what is asked of it, every
\* variable keeps its type: the setscene queue is only ever given setscene tasks,
\* a task is only ever deferred after a setscene task,
\* and every stamp and every reported hash is one a task may have.
THEOREM TypeCorrect == Spec => []TypeOK
<1>1. Init => TypeOK
  BY InitType
<1>2. TypeOK /\ [Next]_vars => TypeOK'
  BY TypeNext
<1> QED BY <1>1, <1>2, PTL DEF Spec

-----------------------------------------------------------------------------
(* The closure Below, and the order of the tasks *)

\* Below has what From leads to, and what its tasks lead to that are not
\* setscene tasks, and nothing else.
LEMMA BelowOf ==
    ASSUME NEW V, IsFiniteSet(V), NEW dep \in [V -> SUBSET V], NEW SS,
           NEW From \in SUBSET V, NEW below, below = Below(dep, SS, From)
    PROVE  /\ below \subseteq V
           /\ \A u \in From \cup (below \ SS) : dep[u] \subseteq below
           /\ \A c \in below : \E u \in From \cup (below \ SS) : c \in dep[u]
           /\ \A S : (\A u \in From \cup (S \ SS) : dep[u] \subseteq S) => below \subseteq S
<1> DEFINE down == Down(dep, V \ SS, From)
<1>1. below = UNION {dep[t] : t \in From \cup down}
  BY DEF Below
<1>2. /\ down \subseteq V \ SS
      /\ \A u \in From \cup down : dep[u] \cap (V \ SS) \subseteq down
  <2>1. ASSUME NEW W PROVE /\ Down(dep, W, From) \subseteq W \cap V
                            /\ \A u \in From \cup Down(dep, W, From) :
                                 dep[u] \cap W \subseteq Down(dep, W, From)
    BY DownClosed
  <2> QED BY <2>1
<1>3. \A c \in down : \E u \in From \cup down : c \in dep[u]
  BY DownLast
<1>4. \A S : (\A u \in From \cup S : dep[u] \cap (V \ SS) \subseteq S) => down \subseteq S
  BY DownLeast
<1> HIDE DEF down
<1>5. down = below \ SS
  BY <1>1, <1>2, <1>3
<1>6. ASSUME NEW S, \A u \in From \cup (S \ SS) : dep[u] \subseteq S
      PROVE  below \subseteq S
  <2>1. \A u \in From \cup (S \ SS) : dep[u] \cap (V \ SS) \subseteq S \ SS
    BY <1>6
  <2>2. down \subseteq S \ SS
    BY <1>4, <2>1
  <2> QED BY <1>1, <1>6, <2>2
<1>7. below \subseteq V
  BY <1>1, <1>2
<1> QED BY <1>1, <1>5, <1>6, <1>7

LEMMA BelowFacts ==
    ASSUME NEW SS, NEW From \in SUBSET Tasks, NEW below, below = Below(depends, SS, From)
    PROVE  /\ \A u \in From \cup (below \ SS) : depends[u] \subseteq below
           /\ \A c \in below : \E u \in From \cup (below \ SS) : c \in depends[u]
           /\ \A S : (\A u \in From \cup (S \ SS) : depends[u] \subseteq S) => below \subseteq S
<1>1. depends \in [Tasks -> SUBSET Tasks] /\ IsFiniteSet(Tasks)
  BY DependsAssumption, TasksAssumption
<1>2. /\ below \subseteq Tasks
      /\ \A u \in From \cup (below \ SS) : depends[u] \subseteq below
      /\ \A c \in below : \E u \in From \cup (below \ SS) : c \in depends[u]
      /\ \A S : (\A u \in From \cup (S \ SS) : depends[u] \subseteq S) => below \subseteq S
  BY <1>1, BelowOf
<1> QED BY <1>2

\* In a graph without circles less is below a task than below one that depends
\* on it.
LEMMA LessBelow ==
    ASSUME NEW V, IsFiniteSet(V), NEW dep \in [V -> SUBSET V], Acyclic(dep),
           NEW t \in V, NEW d \in dep[t],
           NEW above, above = Below(dep, {}, {t}), NEW below, below = Below(dep, {}, {d})
    PROVE  /\ Cardinality(above) \in Nat /\ Cardinality(below) \in Nat
           /\ Cardinality(below) < Cardinality(above)
<1>1. d \in V
  OBVIOUS
<1>2. above \subseteq V /\ \A u \in {t} \cup above : dep[u] \subseteq above
  <2>1. /\ above \subseteq V
        /\ \A u \in {t} \cup (above \ {}) : dep[u] \subseteq above
    BY BelowOf
  <2> QED BY <2>1
<1>3. \A S : (\A u \in {d} \cup (S \ {}) : dep[u] \subseteq S) => below \subseteq S
  BY <1>1, BelowOf
<1>4. d \notin below
  BY <1>1 DEF Acyclic
<1>5. below \subseteq above /\ d \in above
  BY <1>2, <1>3
<1>6. IsFiniteSet(above)
  BY <1>2, FS_Subset
<1>7. /\ IsFiniteSet(below) /\ Cardinality(below) <= Cardinality(above)
      /\ Cardinality(above) # Cardinality(below)
  BY <1>4, <1>5, <1>6, FS_Subset
<1>8. Cardinality(above) \in Nat /\ Cardinality(below) \in Nat
  BY <1>6, <1>7, FS_CardinalityType
<1> QED BY <1>7, <1>8

\* So among some of its tasks there is one that depends on none of them.
LEMMA LowestOf ==
    ASSUME NEW V, IsFiniteSet(V), NEW dep \in [V -> SUBSET V], Acyclic(dep),
           NEW S \in SUBSET V, S # {}
    PROVE  \E t \in S : dep[t] \cap S = {}
<1> DEFINE D(t) == Cardinality(Below(dep, {}, {t}))
           depths == {D(t) : t \in S}
<1>1. \A t \in V : \A d \in dep[t] : D(t) \in Nat /\ D(d) \in Nat /\ D(d) < D(t)
  BY LessBelow
<1>2. \A t \in V : D(t) \in Nat
  <2> TAKE t \in V
  <2>1. Below(dep, {}, {t}) \subseteq V
    BY BelowOf
  <2> QED BY <2>1, FS_Subset, FS_CardinalityType
<1> HIDE DEF D
<1>3. depths \in SUBSET Nat /\ depths # {}
  BY <1>2
<1>4. PICK n \in depths : \A m \in depths : n <= m
  <2> HIDE DEF depths
  <2> QED BY <1>3, LeastNat
<1>5. PICK t \in S : n = D(t)
  BY <1>4
<1>6. ASSUME NEW d \in dep[t] \cap S PROVE FALSE
  <2>1. D(t) \in Nat /\ D(d) \in Nat /\ D(d) < D(t)
    BY <1>1
  <2>2. D(t) <= D(d)
    BY <1>4, <1>5, <1>6
  <2> QED BY <2>1, <2>2
<1> QED BY <1>5, <1>6

\* How many tasks lie below t.
Depth(t) == Cardinality(Below(depends, {}, {t}))

LEMMA DepthLess ==
    ASSUME NEW t \in Tasks, NEW d \in depends[t]
    PROVE  Depth(t) \in Nat /\ Depth(d) \in Nat /\ Depth(d) < Depth(t)
BY LessBelow, DependsAssumption, TasksAssumption, AcyclicAssumption DEF Depth

LEMMA DepthType == \A t \in Tasks : Depth(t) \in Nat /\ Depth(t) <= Cardinality(Tasks)
<1> TAKE t \in Tasks
<1>1. Below(depends, {}, {t}) \in SUBSET Tasks /\ IsFiniteSet(Tasks)
  BY BelowType, DependsAssumption, TasksAssumption
<1> QED BY <1>1, FS_Subset, FS_CardinalityType DEF Depth

LEMMA Lowest ==
    ASSUME NEW S \in SUBSET Tasks, S # {}
    PROVE  \E t \in S : depends[t] \cap S = {}
<1>1. depends \in [Tasks -> SUBSET Tasks] /\ IsFiniteSet(Tasks)
  BY DependsAssumption, TasksAssumption
<1> QED BY <1>1, LowestOf, AcyclicAssumption

\* Among some tasks there is one on which none of them depends.
LEMMA Highest ==
    ASSUME NEW S \in SUBSET Tasks, S # {}
    PROVE  \E t \in S : revdeps[t] \cap S = {}
<1> DEFINE N == Cardinality(Tasks)
           heights == {N - Depth(t) : t \in S}
<1>1. N \in Nat
  BY TasksAssumption, FS_CardinalityType
<1>2. heights \in SUBSET Nat /\ heights # {}
  BY <1>1, DepthType
<1>3. PICK n \in heights : \A m \in heights : n <= m
  <2> HIDE DEF heights
  <2> QED BY <1>2, LeastNat
<1>4. PICK t \in S : n = N - Depth(t)
  BY <1>3
<1>5. ASSUME NEW u \in revdeps[t] \cap S PROVE FALSE
  <2>1. t \in depends[u] /\ u \in Tasks /\ t \in Tasks
    BY DependsAssumption DEF revdeps, RevDeps
  <2>2. Depth(t) < Depth(u)
    BY <2>1, DepthLess
  <2>3. N - Depth(t) <= N - Depth(u)
    BY <1>3, <1>4, <1>5
  <2> QED BY <1>1, <2>1, <2>2, <2>3, DepthType
<1> QED BY <1>4, <1>5

\* t is one of the tasks that depend on u when it depends on u.
LEMMA RevDepends ==
    ASSUME NEW t \in Tasks, NEW u
    PROVE  /\ u \in revdeps[t] <=> u \in Tasks /\ t \in depends[u]
BY DependsAssumption DEF revdeps, RevDeps

\* What sq_covered_tasks has: tasks met from the setscene task, each by one that
\* is met and no setscene task.
LEMMA CoveredFacts ==
    ASSUME NEW s \in Setscene
    PROVE  /\ \A u \in {s} \cup sq_covered_tasks[s] :
                depends[u] \subseteq Setscene \cup sq_covered_tasks[s]
           /\ \A c \in sq_covered_tasks[s] :
                \E u \in {s} \cup sq_covered_tasks[s] : c \in depends[u]
           /\ sq_covered_tasks[s] \cap Setscene = {}
<1>1. s \in Tasks /\ sq_covered_tasks[s] = Below(depends, Setscene, {s}) \ Setscene
  BY SetsceneAssumption DEF sq_covered_tasks, CoveredTasks
<1> DEFINE below == Below(depends, Setscene, {s})
<1>2. /\ \A u \in {s} \cup (below \ Setscene) : depends[u] \subseteq below
      /\ \A c \in below : \E u \in {s} \cup (below \ Setscene) : c \in depends[u]
  BY <1>1, BelowFacts
<1> HIDE DEF below
<1> QED BY <1>1, <1>2 DEF below

\* What no setscene task stands in front of has to be built: the end points, and
\* what those of it lead to that are not setscene tasks.
LEMMA UnskippableFacts ==
    /\ \A t \in Tasks : revdeps[t] = {} => t \in unskippable
    /\ \A u \in unskippable \ Setscene : depends[u] \subseteq unskippable
    /\ cantskip \subseteq unskippable
<1> DEFINE tops == {t \in DOMAIN depends : RevDeps(depends)[t] = {}}
                     \cup CantSkip(depends, Setscene, Targets)
           below == Below(depends, Setscene, tops \ Setscene)
<1>1. tops \ Setscene \in SUBSET Tasks
  BY DependsAssumption DEF CantSkip
<1>2. \A u \in (tops \ Setscene) \cup (below \ Setscene) : depends[u] \subseteq below
  <2> HIDE DEF tops
  <2> QED BY <1>1, BelowFacts
<1>3. unskippable = tops \cup below
  BY DEF unskippable, Unskippable
<1>4. /\ \A t \in Tasks : revdeps[t] = {} => t \in tops
      /\ cantskip \subseteq tops
  BY DependsAssumption DEF revdeps, cantskip
<1> HIDE DEF tops, below
<1> QED BY <1>2, <1>3, <1>4

\* Every task is a setscene task, or is covered by one, or cannot be skipped.
LEMMA EveryTask == Tasks \subseteq CoveredBy(Setscene) \cup unskippable
<1> DEFINE S == Tasks \ (CoveredBy(Setscene) \cup unskippable)
<1> SUFFICES ASSUME S # {} PROVE FALSE
  OBVIOUS
<1>1. PICK t \in S : revdeps[t] \cap S = {}
  <2>1. S \in SUBSET Tasks
    OBVIOUS
  <2> HIDE DEF S
  <2> QED BY <2>1, Highest
<1>2. t \in Tasks /\ t \notin CoveredBy(Setscene) \cup unskippable
  OBVIOUS
<1>3. PICK u : u \in revdeps[t]
  BY <1>2, UnskippableFacts
<1>4. u \in Tasks /\ t \in depends[u] /\ u \notin S
  BY <1>1, <1>2, <1>3, RevDepends
<1>5. u \in CoveredBy(Setscene) \cup unskippable
  BY <1>4
<1>6. CASE u \in Setscene
  BY <1>2, <1>4, <1>6, CoveredFacts DEF CoveredBy
<1>7. CASE u \in CoveredBy(Setscene) \ Setscene
  <2>1. PICK s \in Setscene : u \in sq_covered_tasks[s]
    BY <1>7 DEF CoveredBy
  <2>2. t \in Setscene \cup sq_covered_tasks[s]
    BY <1>4, <2>1, CoveredFacts
  <2> QED BY <1>2, <2>2 DEF CoveredBy
<1>8. CASE u \in unskippable \ Setscene
  BY <1>2, <1>4, <1>8, UnskippableFacts
<1> QED BY <1>5, <1>6, <1>7, <1>8

-----------------------------------------------------------------------------
(* Order: no task is started before those it depends on are complete. *)

\* DepsFirst is not inductive alone: a task starts because runq_buildable holds
\* it, and that was decided in an earlier call, from another end of a task or by
\* update_holdofftasks.  What is buildable stays so.
BuildableReady ==
    \A t \in runq_buildable \cup runq_running : depends[t] \subseteq runq_complete

\* The variables of BuildableReady.
readyVars == <<runq_buildable, runq_running, runq_complete>>

LEMMA ReadyInit == Init => BuildableReady
BY DEF Init, BuildableReady, leaves

LEMMA ReadyStutter == BuildableReady /\ UNCHANGED readyVars => BuildableReady'
BY DEF BuildableReady, readyVars

\* task_completeoutright makes buildable only what is ready.
LEMMA ReadyComplete ==
    ASSUME NEW t \in Tasks, NEW buildable, NEW running, NEW scene,
           \A u \in buildable \cup running : depends[u] \subseteq runq_complete,
           CompleteOutright(t, buildable, running, scene)
    PROVE  BuildableReady'
<1>1. runq_complete' = runq_complete \cup {t}
  BY DEF CompleteOutright
<1>2. runq_running' = running
  BY DEF CompleteOutright
<1>3. \A u \in runq_buildable' : \/ u \in buildable
                                  \/ depends[u] \subseteq runq_complete \cup {t}
  BY DEF CompleteOutright
<1> QED BY <1>1, <1>2, <1>3 DEF BuildableReady

\* A task the scheduler picks is ready.
LEMMA ReadyPicked ==
    ASSUME NEW t \in Tasks, BuildableReady, Picked(t)
    PROVE  depends[t] \subseteq runq_complete
BY DEF BuildableReady, Picked, Eligible

\* Every step but the end of a task, a start and the update of the held off
\* tasks leaves the three sets alone.
QuietStep ==
    \/ \E t \in Tasks : \/ ReadSqComplete(t) \/ ReadSqFail(t) \/ ReadFail(t)
                        \/ \E h \in Hash : ReadUnihash(t, h)
                        \/ Refuse(t) \/ SpawnFail(t)
    \/ EndRead \/ EndWait \/ Migrations \/ SqNone
    \/ \E t \in Setscene : \/ SqNotNeeded(t) \/ SqInvalid(t) \/ SqOutright(t)
                           \/ SqStampPresent(t) \/ SqStart(t)
    \/ SchedNone \/ TailWait \/ TailForce \/ TailEnd
    \/ Finish \/ WorkerQuit \/ TornDown \/ FinishGone
    \/ Worker \/ Stop \/ ForceStop \/ Terminated

LEMMA QuietRead ==
    ASSUME NEW t \in Tasks,
           \/ ReadSqComplete(t) \/ ReadSqFail(t) \/ ReadFail(t)
           \/ \E h \in Hash : ReadUnihash(t, h)
           \/ Refuse(t) \/ SpawnFail(t)
    PROVE  UNCHANGED readyVars
<1>1. CASE ReadSqComplete(t)
  BY <1>1 DEF ReadSqComplete, SqTaskComplete, runqVars, readyVars
<1>2. CASE ReadSqFail(t)
  BY <1>2 DEF ReadSqFail, SqTaskFail, runqVars, readyVars
<1>3. CASE ReadFail(t)
  BY <1>3 DEF ReadFail, TaskFail, readyVars
<1>4. CASE \E h \in Hash : ReadUnihash(t, h)
  BY <1>4 DEF ReadUnihash, runqVars, readyVars
<1>5. CASE Refuse(t)
  BY <1>5 DEF Refuse, TaskFail, readyVars
<1>6. CASE SpawnFail(t)
  BY <1>6 DEF SpawnFail, readyVars
<1> QED BY <1>1, <1>2, <1>3, <1>4, <1>5, <1>6

LEMMA QuietScene ==
    ASSUME NEW t \in Setscene,
           \/ SqNotNeeded(t) \/ SqInvalid(t) \/ SqOutright(t)
           \/ SqStampPresent(t) \/ SqStart(t)
    PROVE  UNCHANGED readyVars
<1>1. CASE SqNotNeeded(t)
  BY <1>1 DEF SqNotNeeded, sqStepUnchanged, runqVars, readyVars
<1>2. CASE SqInvalid(t)
  BY <1>2 DEF SqInvalid, sqStepUnchanged, runqVars, readyVars
<1>3. CASE SqOutright(t)
  BY <1>3 DEF SqOutright, sqStepUnchanged, runqVars, readyVars
<1>4. CASE SqStampPresent(t)
  BY <1>4 DEF SqStampPresent, sqStepUnchanged, runqVars, readyVars
<1>5. CASE SqStart(t)
  BY <1>5 DEF SqStart, runqVars, readyVars
<1> QED BY <1>1, <1>2, <1>3, <1>4, <1>5

LEMMA QuietMigration == Migrations => UNCHANGED readyVars
<1>1. Rehash => UNCHANGED readyVars
  BY DEF Rehash, runqVars, readyVars
<1>2. MigrateEnd => UNCHANGED readyVars
  BY DEF MigrateEnd, runqVars, readyVars
<1>3. ASSUME NEW t \in Setscene, MigrateNot(t) PROVE UNCHANGED readyVars
  BY <1>3 DEF MigrateNot, runqVars, readyVars
<1>4. ASSUME NEW t \in Setscene, Migrate(t) PROVE UNCHANGED readyVars
  BY <1>4 DEF Migrate, readyVars
<1> QED BY <1>1, <1>2, <1>3, <1>4 DEF Migrations

LEMMA Quiet == QuietStep => UNCHANGED readyVars
<1> SUFFICES ASSUME QuietStep PROVE UNCHANGED readyVars
  OBVIOUS
<1>1. CASE EndRead \/ EndWait \/ SqNone
  BY <1>1 DEF EndRead, EndWait, SqNone, runqVars, readyVars
<1>2. CASE SchedNone \/ TailWait \/ TailForce \/ TailEnd
  BY <1>2 DEF SchedNone, TailWait, TailForce, TailEnd, unlessTail, runqVars,
              readyVars
<1>3. CASE Finish \/ WorkerQuit \/ TornDown \/ FinishGone \/ Stop \/ ForceStop
  BY <1>3 DEF Finish, WorkerQuit, TornDown, FinishGone, Stop, ForceStop,
              unlessFinish, runqVars, readyVars
<1>4. CASE Worker
  <2>1. ASSUME NEW j \in jobs, NEW h \in Hash, JobReport(j, h)
        PROVE  UNCHANGED readyVars
    BY <2>1 DEF JobReport, unlessJob, runqVars, readyVars
  <2>2. ASSUME NEW j \in jobs, NEW ok \in BOOLEAN, JobExit(j, ok)
        PROVE  UNCHANGED readyVars
    BY <2>2 DEF JobExit, unlessJob, runqVars, readyVars
  <2> QED BY <1>4, <2>1, <2>2 DEF Worker
<1>5. CASE Terminated
  BY <1>5 DEF Terminated, vars, runqVars, readyVars
<1> QED
  BY <1>1, <1>2, <1>3, <1>4, <1>5, QuietRead, QuietScene, QuietMigration
     DEF QuietStep

LEMMA ReadyNext == BuildableReady /\ [Next]_vars => BuildableReady'
<1> SUFFICES ASSUME BuildableReady, [Next]_vars PROVE BuildableReady'
  OBVIOUS
<1>1. CASE QuietStep \/ UNCHANGED vars
  <2>1. UNCHANGED readyVars
    BY <1>1, Quiet DEF vars, runqVars, readyVars
  <2> QED BY <2>1, ReadyStutter
<1>2. ASSUME NEW t \in Tasks, ReadComplete(t) PROVE BuildableReady'
  BY <1>2, ReadyComplete DEF ReadComplete, TaskComplete, BuildableReady
<1>3. ASSUME NEW t \in Tasks, SkipTask(t) PROVE BuildableReady'
  <2>1. depends[t] \subseteq runq_complete
    BY <1>3, ReadyPicked DEF SkipTask
  <2> QED BY <1>3, <2>1, ReadyComplete DEF SkipTask, BuildableReady
<1>4. ASSUME NEW t \in Tasks, RunNoexec(t) PROVE BuildableReady'
  <2>1. depends[t] \subseteq runq_complete
    BY <1>4, ReadyPicked DEF RunNoexec, Ready
  <2>2. PICK scene : CompleteOutright(t, runq_buildable, runq_running \cup {t}, scene)
    BY <1>4 DEF RunNoexec
  <2> QED BY <2>1, <2>2, ReadyComplete DEF BuildableReady
<1>5. ASSUME NEW t \in Tasks, StartTask(t) PROVE BuildableReady'
  <2>1. depends[t] \subseteq runq_complete
    BY <1>5, ReadyPicked DEF StartTask, Ready
  <2>2. /\ runq_running' = runq_running \cup {t}
        /\ UNCHANGED <<runq_buildable, runq_complete>>
    BY <1>5 DEF StartTask
  <2> QED BY <2>1, <2>2 DEF BuildableReady
<1>6. CASE Holdoff
  <2>1. UNCHANGED <<runq_running, runq_complete>>
    BY <1>6 DEF Holdoff
  <2>2. \A u \in runq_buildable' : \/ u \in runq_buildable
                                    \/ depends[u] \subseteq runq_complete
    BY <1>6 DEF Holdoff, UpdateHoldoffTasks
  <2> QED BY <2>1, <2>2 DEF BuildableReady
<1>7. \/ QuietStep \/ UNCHANGED vars \/ Holdoff
      \/ \E t \in Tasks : ReadComplete(t) \/ SkipTask(t) \/ RunNoexec(t)
                            \/ StartTask(t)
  BY DEF Next, Server, Read, SceneStep, RunStep, QuietStep
<1> QED BY <1>1, <1>2, <1>3, <1>4, <1>5, <1>6, <1>7

\* In every build, no task is started or skipped before all the tasks it
\* depends on are complete.
THEOREM DependenciesFirst == Spec => []DepsFirst
<1>1. BuildableReady => DepsFirst
  BY DEF BuildableReady, DepsFirst
<1> QED BY <1>1, ReadyInit, ReadyNext, PTL DEF Spec

-----------------------------------------------------------------------------
(* The setscene queue *)

\* The setscene tasks that have t_setscene as a hard dependency.
Needing(t) == {u \in Setscene : t \in sq_harddeps[u]}

\* The sets of the setscene queue q agree with each other when the jobs of live
\* run, and the tasks of late are still to be failed: what has been dispatched is
\* decided or live; a hard dependency of a task that came to nothing is not worth
\* fetching; and what waits to be dispatched or is live has all its hard parents
\* from the cache.
SceneOK(q, live, late) ==
    /\ q.running = Resolved(q) \cup live
    /\ live \cap Resolved(q) = {}
    /\ q.running \subseteq q.buildable
    /\ \A u \in q.notcovered : sq_harddeps[u] \subseteq Resolved(q) \cup late
    /\ \A c \in ((q.buildable \ q.running) \cup live) \ late :
         Needing(c) \subseteq q.covered \ q.notcovered

LEMMA FiniteTasks ==
    /\ IsFiniteSet(Tasks) /\ IsFiniteSet(Setscene)
    /\ \A S \in SUBSET Tasks : IsFiniteSet(S)
BY TasksAssumption, SetsceneAssumption, FS_Subset

\* scenequeue_updatecounters(task, True) fails what it is given and the
\* undecided hard dependencies below it, each because of one above.
LEMMA HardFacts ==
    ASSUME NEW q, NEW bad \in SUBSET Setscene
    PROVE  /\ bad \subseteq HardFailures(q, bad)
           /\ HardFailures(q, bad) \subseteq Setscene
           /\ (HardFailures(q, bad) \ bad) \cap Resolved(q) = {}
           /\ \A u \in HardFailures(q, bad) :
                sq_harddeps[u] \subseteq HardFailures(q, bad) \cup Resolved(q)
           /\ \A c \in HardFailures(q, bad) \ bad :
                \E u \in HardFailures(q, bad) : c \in sq_harddeps[u]
           /\ bad = {} => HardFailures(q, bad) = {}
<1> DEFINE open == Setscene \ Resolved(q)
           down == Down(sq_harddeps, open, bad)
<1>1. sq_harddeps \in [Setscene -> SUBSET Setscene] /\ IsFiniteSet(Setscene)
  BY SetsceneAssumption, FiniteTasks
<1>2. /\ down \subseteq open
      /\ \A u \in bad \cup down : sq_harddeps[u] \cap open \subseteq down
  <2> HIDE DEF open
  <2> QED BY <1>1, DownClosed
<1>3. \A c \in down : \E u \in bad \cup down : c \in sq_harddeps[u]
  <2> HIDE DEF open
  <2> QED BY <1>1, DownLast
<1>4. bad = {} => down = {}
  <2> HIDE DEF open
  <2> QED BY <1>1, DownOfNone
<1>5. HardFailures(q, bad) = bad \cup down
  BY DEF HardFailures
<1>6. \A u \in bad \cup down : u \in Setscene /\ sq_harddeps[u] \subseteq Setscene
  BY <1>1, <1>2
<1> HIDE DEF down
<1> QED BY <1>2, <1>3, <1>4, <1>5, <1>6

\* What sq_task_skip does to the sets of the queue.
LEMMA SkipFacts ==
    ASSUME NEW q \in SqSets, NEW tids \in SUBSET Setscene, NEW p,
           p = SqSkip(q, tids)
    PROVE  /\ p \in SqSets
           /\ p.covered = q.covered \cup tids /\ p.notcovered = q.notcovered
           /\ Resolved(p) = Resolved(q) \cup tids
           /\ p.running = q.running \cup tids
           /\ q.buildable \cup tids \subseteq p.buildable
           /\ \A c \in p.buildable \ (q.buildable \cup tids) :
                sq_revdeps[c] \subseteq Resolved(p)
           /\ p.done = DoneBelow(q.done, tids)
<1> DEFINE d == Dispatched(q, tids)
<1>1. /\ d.covered = q.covered /\ d.notcovered = q.notcovered /\ d.done = q.done
      /\ d.running = q.running \cup tids /\ d.buildable = q.buildable \cup tids
  BY DEF Dispatched, SqSets
<1>2. HardFailures(d, {}) = {}
  BY HardFacts
<1>3. p = Settle(d, tids, {})
  BY DEF SqSkip
<1> HIDE DEF d
<1>4. /\ p.covered = q.covered \cup tids /\ p.notcovered = q.notcovered
      /\ p.running = q.running \cup tids /\ p.done = DoneBelow(q.done, tids)
      /\ q.buildable \cup tids \subseteq p.buildable
      /\ \A c \in p.buildable \ (q.buildable \cup tids) :
           sq_revdeps[c] \subseteq Resolved(q) \cup tids
  <2>1. /\ Resolved(d) = Resolved(q)
        /\ \A S : S \cup {} = S /\ S \cup ({} \ {}) = S
    BY <1>1 DEF Resolved
  <2>2. /\ p.covered = d.covered \cup tids /\ p.notcovered = d.notcovered
        /\ p.running = d.running /\ p.done = DoneBelow(d.done, tids)
    <3>1. PICK none : none = {}
      OBVIOUS
    <3>2. p = Settle(d, tids, none) /\ HardFailures(d, none) = none
      BY <1>2, <1>3, <3>1
    <3>3. /\ p.covered = d.covered \cup tids /\ p.notcovered = d.notcovered \cup none
          /\ p.running = d.running \cup (none \ none)
          /\ p.done = DoneBelow(d.done, tids \cup none)
      BY <3>2 DEF Settle
    <3>4. tids \cup none = tids
      BY <3>1
    <3> QED BY <3>1, <3>3, <3>4
  <2>3. /\ d.buildable \subseteq p.buildable
        /\ \A c \in p.buildable \ d.buildable : sq_revdeps[c] \subseteq Resolved(q) \cup tids
    BY <1>2, <1>3, <2>1 DEF Settle
  <2> QED BY <1>1, <2>2, <2>3
<1>5. p \in SqSets
  BY SqSkipType
<1> QED BY <1>4, <1>5 DEF Resolved

\* What sq_task_failoutright does.
LEMMA FailFacts ==
    ASSUME NEW q \in SqSets, NEW tids \in SUBSET Setscene, NEW p,
           p = SqFailOutright(q, tids), NEW fails, fails = HardFailures(q, tids)
    PROVE  /\ p \in SqSets
           /\ p.covered = q.covered /\ p.notcovered = q.notcovered \cup fails
           /\ Resolved(p) = Resolved(q) \cup fails
           /\ p.running = q.running \cup fails
           /\ q.buildable \cup fails \subseteq p.buildable
           /\ \A c \in p.buildable \ (q.buildable \cup fails) :
                sq_revdeps[c] \subseteq Resolved(p)
           /\ p.done = DoneBelow(q.done, fails)
<1> DEFINE d == Dispatched(q, tids)
<1>1. /\ d.covered = q.covered /\ d.notcovered = q.notcovered /\ d.done = q.done
      /\ d.running = q.running \cup tids /\ d.buildable = q.buildable \cup tids
  BY DEF Dispatched, SqSets
<1>2. HardFailures(d, tids) = fails /\ tids \subseteq fails
  BY <1>1, HardFacts DEF HardFailures, Resolved
<1>3. p = Settle(d, {}, tids)
  BY DEF SqFailOutright
<1> HIDE DEF d
<1>4. /\ p.covered = q.covered /\ p.notcovered = q.notcovered \cup fails
      /\ p.running = q.running \cup fails /\ p.done = DoneBelow(q.done, fails)
      /\ q.buildable \cup fails \subseteq p.buildable
      /\ \A c \in p.buildable \ (q.buildable \cup fails) :
           sq_revdeps[c] \subseteq Resolved(q) \cup fails
  <2>1. {} \cup fails = fails /\ Resolved(d) = Resolved(q)
    BY <1>1 DEF Resolved
  <2> QED BY <1>1, <1>2, <1>3, <2>1 DEF Settle
<1>5. p \in SqSets
  BY SqFailType
<1> QED BY <1>4, <1>5 DEF Resolved

\* A setscene task waits for those that have it as a hard dependency.
LEMMA NeedingWaits ==
    ASSUME NEW c \in Setscene
    PROVE  Needing(c) \subseteq sq_revdeps[c]
BY DEF Needing, sq_revdeps, SqRevDeps

\* A task that is skipped, or that comes from the cache, keeps the queue in order.
LEMMA SkipOK ==
    ASSUME NEW q \in SqSets, NEW live \in SUBSET Setscene, NEW late, SceneOK(q, live, late),
           NEW tids \in SUBSET Setscene
    PROVE  SceneOK(SqSkip(q, tids), live \ tids, late)
<1> DEFINE p == SqSkip(q, tids)
<1>1. /\ p.covered = q.covered \cup tids /\ p.notcovered = q.notcovered
      /\ Resolved(p) = Resolved(q) \cup tids
      /\ p.running = q.running \cup tids
      /\ q.buildable \cup tids \subseteq p.buildable
      /\ \A c \in p.buildable \ (q.buildable \cup tids) :
           sq_revdeps[c] \subseteq Resolved(p)
      /\ p \in SqSets
  BY SkipFacts
<1> HIDE DEF p
<1>2. ASSUME NEW c \in ((p.buildable \ p.running) \cup (live \ tids)) \ late,
             NEW u \in Needing(c)
      PROVE  u \in p.covered \ p.notcovered
  <2>1. c \in Setscene
    BY <1>1 DEF SqSets
  <2>2. CASE c \in (q.buildable \ q.running) \cup live
    BY <1>1, <2>2 DEF SceneOK
  <2>3. CASE c \notin (q.buildable \ q.running) \cup live
    <3>1. c \in p.buildable \ (q.buildable \cup tids)
      BY <1>1, <2>3
    <3>2. u \in Resolved(p)
      BY <1>1, <2>1, <3>1, NeedingWaits
    <3>3. u \notin p.notcovered
      <4>1. c \in sq_harddeps[u] /\ c \notin Resolved(q) \cup late
        BY <1>1, <1>2, <3>1 DEF Needing, SceneOK
      <4> QED BY <1>1, <4>1 DEF SceneOK
    <3> QED BY <3>2, <3>3 DEF Resolved
  <2> QED BY <2>2, <2>3
<1> QED BY <1>1, <1>2 DEF SceneOK, p

\* So does a task that fails, unless one that is live has it for a hard parent.
LEMMA FailOK ==
    ASSUME NEW q \in SqSets, NEW live \in SUBSET Setscene, NEW late, SceneOK(q, live, late),
           NEW tids \in SUBSET Setscene, live \cap late = {},
           \A c \in live : Needing(c) \cap tids = {}
    PROVE  /\ SceneOK(SqFailOutright(q, tids), live \ tids, late \ tids)
           /\ HardFailures(q, tids) \cap live \subseteq tids
<1> DEFINE p == SqFailOutright(q, tids)
           fails == HardFailures(q, tids)
<1>1. /\ p.covered = q.covered /\ p.notcovered = q.notcovered \cup fails
      /\ Resolved(p) = Resolved(q) \cup fails
      /\ p.running = q.running \cup fails
      /\ q.buildable \cup fails \subseteq p.buildable
      /\ \A c \in p.buildable \ (q.buildable \cup fails) :
           sq_revdeps[c] \subseteq Resolved(p)
      /\ p \in SqSets
  BY FailFacts
<1>2. /\ tids \subseteq fails /\ fails \subseteq Setscene
      /\ (fails \ tids) \cap Resolved(q) = {}
      /\ \A u \in fails : sq_harddeps[u] \subseteq fails \cup Resolved(q)
      /\ \A c \in fails \ tids : \E u \in fails : c \in sq_harddeps[u]
  BY HardFacts
<1> HIDE DEF p, fails
<1>3. fails \cap live \subseteq tids
  <2> SUFFICES ASSUME NEW c \in fails \ tids, c \in live PROVE FALSE
    OBVIOUS
  <2>1. PICK u \in fails : c \in sq_harddeps[u]
    BY <1>2
  <2>2. u \in Needing(c)
    BY <1>2, <2>1 DEF Needing
  <2>3. u \in q.covered \ tids
    BY <2>2 DEF SceneOK
  <2> QED BY <1>2, <2>3 DEF Resolved
<1>4. \A u \in p.notcovered : sq_harddeps[u] \subseteq Resolved(p) \cup (late \ tids)
  BY <1>1, <1>2 DEF SceneOK
<1>5. ASSUME NEW c \in ((p.buildable \ p.running) \cup (live \ tids)) \ (late \ tids),
             NEW u \in Needing(c)
      PROVE  u \in p.covered \ p.notcovered
  <2>1. c \in Setscene /\ u \in Setscene /\ c \in sq_harddeps[u]
    BY <1>1 DEF SqSets, Needing
  <2>2. c \notin Resolved(p)
    BY <1>1, <1>2, <1>3 DEF SceneOK
  <2>3. c \notin late
    BY <1>1, <1>2, <1>5, <2>2
  <2>4. u \notin p.notcovered
    BY <1>4, <2>1, <2>2, <2>3
  <2>5. CASE c \in (q.buildable \ q.running) \cup live
    BY <1>1, <2>3, <2>4, <2>5 DEF SceneOK
  <2>6. CASE c \notin (q.buildable \ q.running) \cup live
    <3>1. c \in p.buildable \ (q.buildable \cup fails)
      BY <1>1, <2>6
    <3>2. u \in Resolved(p)
      BY <1>1, <2>1, <3>1, NeedingWaits
    <3> QED BY <2>4, <3>2 DEF Resolved
  <2> QED BY <2>5, <2>6
<1>6. /\ p.running = Resolved(p) \cup (live \ tids)
      /\ (live \ tids) \cap Resolved(p) = {}
      /\ p.running \subseteq p.buildable
  BY <1>1, <1>2, <1>3 DEF SceneOK
<1> QED BY <1>3, <1>4, <1>5, <1>6 DEF SceneOK, p, fails

\* A live task is dispatched already.
LEMMA DispatchedLive ==
    ASSUME NEW q \in SqSets, NEW live, NEW late, SceneOK(q, live, late), NEW t \in live
    PROVE  /\ Settle(q, {t}, {}) = SqSkip(q, {t})
           /\ Settle(q, {}, {t}) = SqFailOutright(q, {t})
<1>1. q.buildable \cup {t} = q.buildable /\ q.running \cup {t} = q.running
  BY DEF SceneOK
<1>2. Dispatched(q, {t}) = q
  BY <1>1 DEF Dispatched, SqSets
<1> QED BY <1>2 DEF SqSkip, SqFailOutright

-----------------------------------------------------------------------------
(* The invariant *)

\* The tasks that update_scenequeue_data has still to fail.
Late == {u.task : u \in {v \in update_tasks : v.harddepfail}}

\* The setscene queue is in order, its counter is right, no job of it is a
\* deferred task's, and hashes move only while process_possible_migrations runs.
SceneInv ==
    /\ SceneOK(sq, sq_live, Late)
    /\ DOMAIN sq_deferred \cap sq_live = {}
    /\ sq_active = Cardinality(sq_live)
    /\ \A u \in update_tasks : u.task \notin sq.running
    /\ update_tasks # {} => changed
    /\ pc # "migrate" => update_tasks = {} /\ todo = {}

\* A task that has come from the cache never gets another chance, one that waits
\* for it has been decided, and a task is skipped as covered only by tasks
\* that have come from the cache: so none of it has ever to be run again.
MoveInv ==
    /\ (sq.covered \ sq.notcovered) \cap (todo \cup pending_migrations) = {}
    /\ pending_migrations \ todo \subseteq Resolved(sq)
    /\ \A u \in Setscene :
         sq_covered_tasks[u] \cap (runq_complete \ runq_tasksrun) # {}
           => u \in sq.covered \ (todo \cup pending_migrations)

\* It is decided whether x, a task that runs, or that is done, has to run.
IsDecided(x, q, done) ==
    /\ x \in Setscene => x \in Resolved(q)
    /\ x \notin done =>
         \A u \in Setscene : x \in sq_covered_tasks[u] => u \in Resolved(q)

\* What is undecided, and the tasks below it that are not complete.
Undecided(q, done) ==
    LET open == Setscene \ Resolved(q)
    IN  open \cup (CoveredBy(open) \ done)

\* holdoff_tasks and tasks_covered are up to date, unless the next call is told
\* to renew them.
UpToDate ==
    ~holdoff_need_update /\ ~changed =>
        /\ Undecided(sq, runq_complete) \subseteq holdoff_tasks
        /\ tasks_covered \cap CoveredBy(sq.notcovered) = {}

HoldInv ==
    /\ UpToDate
    /\ \A x \in runq_running : IsDecided(x, sq, runq_complete)
    /\ runq_complete \subseteq runq_running
    /\ pc = "sched" => ~holdoff_need_update
    /\ changed => pc = "migrate"

\* A job is that of a live setscene task or of an executing one, and no other
\* job or exit is of that task.
JobInv ==
    /\ \A j \in jobs : j.task \in (IF j.setscene THEN sq_live ELSE Executing)
    /\ \A j, k \in jobs : j.task = k.task => j = k
    /\ \A i \in Exits : /\ pipe[i].task \in sq_live \cup Executing
                        /\ \A j \in jobs : j.task # pipe[i].task
    /\ \A i, k \in Exits : pipe[i].task = pipe[k].task => i = k

\* The fakeroot worker could not be started: stats.active is one too low.
Spoilt == "nofakeworker" \in request /\ pc \in {"teardown", "gone", "done"}

\* Only BB_SETSCENE_ENFORCE fails a task that did not run, and it does not run
\* later; until it does, or the build is spoilt, stats.active counts the tasks
\* that execute.
FailInv ==
    /\ \A t \in failed_tids \ runq_running :
         "enforce" \in request /\ t \notin Noexec \cup Whitelisted
    /\ "enforce" \notin request \/ failed_tids = {} =>
         Spoilt \/ stats_active = Cardinality(Executing)

SchedInv == SceneInv /\ MoveInv /\ HoldInv /\ JobInv /\ FailInv
QueueInv == TypeOK /\ SchedInv

-----------------------------------------------------------------------------
(* What leaves a part of the invariant true *)

LEMMA SceneKept ==
    ASSUME SceneInv, UNCHANGED <<sq, sq_live, sq_active, update_tasks, changed, todo>>,
           DOMAIN sq_deferred' \subseteq DOMAIN sq_deferred,
           pc = "migrate" => pc' = "migrate" \/ (update_tasks = {} /\ todo = {})
    PROVE  SceneInv'
<1>1. Late' = Late
  BY DEF Late
<1>2. SceneOK(sq, sq_live, Late)'
  BY <1>1 DEF SceneInv
<1> QED BY <1>2 DEF SceneInv

\* The queue only settles more, outside process_possible_migrations.
LEMMA MoveKept ==
    ASSUME MoveInv, UNCHANGED <<todo, pending_migrations>>, todo = {},
           sq.covered \subseteq sq'.covered, sq.notcovered \subseteq sq'.notcovered,
           runq_complete' \ runq_tasksrun' \subseteq runq_complete \ runq_tasksrun
    PROVE  MoveInv'
BY DEF MoveInv, Resolved

LEMMA MoveSame ==
    ASSUME MoveInv, UNCHANGED <<sq, todo, pending_migrations, runq_complete, runq_tasksrun>>
    PROVE  MoveInv'
BY DEF MoveInv

\* Less is held off when more is decided or complete.
LEMMA UndecidedShrinks ==
    ASSUME NEW q, NEW p, NEW done, NEW more, Resolved(q) \subseteq Resolved(p), done \subseteq more
    PROVE  Undecided(p, more) \subseteq Undecided(q, done)
BY DEF Undecided, CoveredBy

LEMMA HoldKept ==
    ASSUME HoldInv, UNCHANGED <<holdoff_tasks, tasks_covered>>,
           Resolved(sq) \subseteq Resolved(sq'), runq_complete \subseteq runq_complete',
           holdoff_need_update \/ changed => holdoff_need_update' \/ changed',
           holdoff_need_update' \/ changed' \/ sq'.notcovered = sq.notcovered,
           \A x \in runq_running' \ runq_running : IsDecided(x, sq', runq_complete'),
           runq_running \subseteq runq_running',
           runq_complete' \ runq_complete \subseteq runq_running',
           pc' # "sched", changed' => pc' = "migrate"
    PROVE  HoldInv'
<1>1. Undecided(sq', runq_complete') \subseteq Undecided(sq, runq_complete)
  BY UndecidedShrinks
<1>2. UpToDate'
  BY <1>1 DEF HoldInv, UpToDate
<1>3. \A x \in runq_running : IsDecided(x, sq', runq_complete')
  BY DEF HoldInv, IsDecided
<1> QED BY <1>2, <1>3 DEF HoldInv

LEMMA HoldSame ==
    ASSUME HoldInv, UNCHANGED <<holdoff_tasks, tasks_covered, sq, runq_complete, runq_running,
                                holdoff_need_update, changed>>,
           pc' = "sched" => pc = "sched",
           changed => pc' = "migrate"
    PROVE  HoldInv'
<1>1. UpToDate'
  BY DEF HoldInv, UpToDate
<1> QED BY <1>1 DEF HoldInv

LEMMA JobKept ==
    ASSUME JobInv, UNCHANGED <<jobs, pipe>>, sq_live \subseteq sq_live',
           Executing \subseteq Executing'
    PROVE  JobInv'
<1>1. Exits' = Exits
  BY DEF Exits
<1> QED BY <1>1 DEF JobInv

LEMMA FailKept ==
    ASSUME FailInv, UNCHANGED <<request, stats_active>>, Executing' = Executing,
           failed_tids' \ runq_running' \subseteq failed_tids \ runq_running,
           failed_tids \subseteq failed_tids', Spoilt => Spoilt'
    PROVE  FailInv'
BY DEF FailInv

-----------------------------------------------------------------------------
(* Parts of steps *)

\* task_completeoutright settles the setscene queue further.
LEMMA OutrightFacts ==
    ASSUME TypeOK, SceneInv, pc # "migrate", pc' # "migrate",
           NEW t \in Tasks, NEW buildable, NEW running, NEW scene,
           CompleteOutright(t, buildable, running, scene),
           UNCHANGED <<sq_live, sq_active, update_tasks, changed, todo>>
    PROVE  /\ SceneInv'
           /\ sq.covered \subseteq sq'.covered /\ sq'.notcovered = sq.notcovered
           /\ Resolved(sq) \subseteq Resolved(sq')
           /\ runq_complete' = runq_complete \cup {t} /\ runq_running' = running
           /\ holdoff_need_update => holdoff_need_update'
<1> DEFINE waiting == {d \in DOMAIN sq_deferred : sq_deferred[d] = t}
           found == IF waiting = {} THEN {} ELSE {Least(waiting)}
           tids == Skipped(found, scene)
<1>1. found \subseteq DOMAIN sq_deferred
  <2>1. waiting \in SUBSET Tasks
    BY SetsceneAssumption DEF TypeOK, SceneType
  <2> QED BY <2>1, LeastIn
<1>2. tids \subseteq found
  BY DEF Skipped
<1>3. tids \in SUBSET Setscene /\ sq_live \ tids = sq_live
  BY <1>1, <1>2 DEF TypeOK, SceneType, SceneInv
<1>4. sq' = SqSkip(sq, tids)
  BY DEF CompleteOutright
<1>5. DOMAIN sq_deferred' \subseteq DOMAIN sq_deferred
  BY DEF CompleteOutright, Defer
<1>6. /\ runq_complete' = runq_complete \cup {t} /\ runq_running' = running
      /\ holdoff_need_update => holdoff_need_update'
  BY DEF CompleteOutright
<1> HIDE DEF tids
<1>7. sq \in SqSets /\ sq_live \in SUBSET Setscene
  BY DEF TypeOK, SceneType
<1>8. SceneOK(sq', sq_live, Late)
  BY <1>3, <1>4, <1>7, SkipOK DEF SceneInv
<1>9. Late' = Late /\ update_tasks = {}
  BY DEF Late, SceneInv
<1>10. SceneInv'
  BY <1>5, <1>8, <1>9 DEF SceneInv
<1>11. /\ sq'.covered = sq.covered \cup tids /\ sq'.notcovered = sq.notcovered
       /\ Resolved(sq') = Resolved(sq) \cup tids
  BY <1>3, <1>4, <1>7, SkipFacts
<1> QED BY <1>6, <1>10, <1>11

\* A task the scheduler picks is decided, has no job, and if it counts as covered
\* all that cover it have come from the cache.
LEMMA PickedFacts ==
    ASSUME QueueInv, NEW t \in Tasks, Picked(t)
    PROVE  /\ pc = "sched" /\ ~holdoff_need_update /\ ~changed
           /\ update_tasks = {} /\ todo = {}
           /\ t \notin runq_running \cup runq_complete \cup sq_live
           /\ IsDecided(t, sq, runq_complete)
           /\ t \in tasks_covered =>
                \A u \in Setscene : t \in sq_covered_tasks[u] =>
                    u \in sq.covered \ (todo \cup pending_migrations)
<1>1. /\ pc = "sched" /\ ~holdoff_need_update /\ ~changed
      /\ update_tasks = {} /\ todo = {}
  BY DEF QueueInv, SchedInv, SceneInv, HoldInv, Picked
<1>2. t \notin runq_running \cup runq_complete \cup holdoff_tasks
  BY DEF Picked, Eligible, QueueInv, SchedInv, HoldInv
<1>3. t \notin Undecided(sq, runq_complete)
  BY <1>1, <1>2 DEF QueueInv, SchedInv, HoldInv, UpToDate
<1>4. IsDecided(t, sq, runq_complete)
  BY <1>2, <1>3 DEF Undecided, CoveredBy, IsDecided
<1>5. t \notin sq_live
  BY <1>4 DEF IsDecided, QueueInv, SchedInv, SceneInv, SceneOK, TypeOK, SceneType
<1>6. ASSUME t \in tasks_covered, NEW u \in Setscene, t \in sq_covered_tasks[u]
      PROVE  u \in sq.covered \ (todo \cup pending_migrations)
  <2>1. u \in Resolved(sq)
    BY <1>2, <1>4, <1>6 DEF IsDecided
  <2>2. u \notin sq.notcovered
    BY <1>1, <1>6 DEF QueueInv, SchedInv, HoldInv, UpToDate, CoveredBy
  <2> QED BY <2>1, <2>2 DEF Resolved, QueueInv, SchedInv, MoveInv
<1> QED BY <1>1, <1>2, <1>4, <1>5, <1>6


-----------------------------------------------------------------------------
(* The jobs and the pipe *)

\* When the first message has been read, the others have moved up.
LEMMA TailExits ==
    ASSUME WorkType, pipe # <<>>, pipe' = Tail(pipe), NEW i \in Exits'
    PROVE  /\ i + 1 \in Exits /\ i + 1 # 1
           /\ pipe'[i] = pipe[i + 1]
BY DEF WorkType, Exits

\* The exit that is read is that of a live or executing task, which has no job
\* any more, and whose exit it is alone.
LEMMA ExitRead ==
    ASSUME TypeOK, JobInv, NEW t \in Tasks, NEW ok \in BOOLEAN, Exited(t, ok)
    PROVE  /\ t \in sq_live \cup Executing
           /\ sq_live \ {t} \subseteq sq_live' /\ Executing \ {t} \subseteq Executing'
                => JobInv'
<1>1. pipe # <<>> /\ pipe' = Tail(pipe) /\ jobs' = jobs /\ Head(pipe) = [type |-> "exit", task |-> t, ok |-> ok]
  BY DEF Exited, Receive
<1>2. 1 \in Exits /\ pipe[1].task = t
  BY <1>1 DEF Exits, TypeOK, WorkType
<1>3. t \in sq_live \cup Executing /\ \A j \in jobs : j.task # t
  BY <1>2 DEF JobInv
<1>4. \A i \in Exits' : /\ i + 1 \in Exits /\ i + 1 # 1 /\ pipe'[i] = pipe[i + 1]
  BY <1>1, TailExits DEF TypeOK
<1>5. ASSUME sq_live \ {t} \subseteq sq_live', Executing \ {t} \subseteq Executing'
      PROVE  JobInv'
  <2>1. \A j \in jobs' : j.task \in (IF j.setscene THEN sq_live' ELSE Executing')
    BY <1>1, <1>3, <1>5 DEF JobInv
  <2>2. \A j, k \in jobs' : j.task = k.task => j = k
    BY <1>1 DEF JobInv
  <2>3. ASSUME NEW i \in Exits'
        PROVE  /\ pipe'[i].task \in sq_live' \cup Executing'
               /\ \A j \in jobs' : j.task # pipe'[i].task
    <3>1. pipe[i + 1].task # t
      BY <1>2, <1>4 DEF JobInv
    <3>2. /\ pipe[i + 1].task \in sq_live \cup Executing
          /\ \A j \in jobs : j.task # pipe[i + 1].task
      BY <1>4 DEF JobInv
    <3> QED BY <1>1, <1>4, <1>5, <3>1, <3>2
  <2>4. \A i, k \in Exits' : pipe'[i].task = pipe'[k].task => i = k
    <3> SUFFICES ASSUME NEW i \in Exits', NEW k \in Exits', pipe'[i].task = pipe'[k].task
                 PROVE  i = k
      OBVIOUS
    <3>1. i + 1 = k + 1
      BY <1>4 DEF JobInv
    <3>2. i \in Int /\ k \in Int
      BY DEF Exits
    <3> QED BY <3>1, <3>2
  <2> QED BY <2>1, <2>2, <2>3, <2>4 DEF JobInv
<1> QED BY <1>3, <1>5

\* Reading a hash concerns no job.
LEMMA HashRead ==
    ASSUME TypeOK, JobInv, NEW t \in Tasks, NEW h \in Hash, ReadUnihash(t, h)
    PROVE  JobInv'
<1>1. /\ pipe # <<>> /\ pipe' = Tail(pipe) /\ jobs' = jobs
      /\ sq_live' = sq_live /\ Executing' = Executing
  BY DEF ReadUnihash, Receive, runqVars, sceneVars, Executing
<1>2. \A i \in Exits' : /\ i + 1 \in Exits /\ pipe'[i] = pipe[i + 1]
  BY <1>1, TailExits DEF TypeOK
<1>3. \A i, k \in Exits' : pipe'[i].task = pipe'[k].task => i = k
  <2> SUFFICES ASSUME NEW i \in Exits', NEW k \in Exits', pipe'[i].task = pipe'[k].task
               PROVE  i = k
    OBVIOUS
  <2>1. i + 1 = k + 1
    BY <1>2 DEF JobInv
  <2>2. i \in Int /\ k \in Int
    BY DEF Exits
  <2> QED BY <2>1, <2>2
<1>4. ASSUME NEW i \in Exits'
      PROVE  /\ pipe'[i].task \in sq_live' \cup Executing'
             /\ \A j \in jobs' : j.task # pipe'[i].task
  <2>1. /\ pipe[i + 1].task \in sq_live \cup Executing
        /\ \A j \in jobs : j.task # pipe[i + 1].task
    BY <1>2 DEF JobInv
  <2> QED BY <1>1, <1>2, <2>1
<1>5. \A j \in jobs' : j.task \in (IF j.setscene THEN sq_live' ELSE Executing')
  BY <1>1 DEF JobInv
<1>6. \A j, k \in jobs' : j.task = k.task => j = k
  BY <1>1 DEF JobInv
<1> QED BY <1>3, <1>4, <1>5, <1>6 DEF JobInv

\* A new job is that of a task that had neither job nor exit.
LEMMA JobSent ==
    ASSUME TypeOK, JobInv, NEW t \in Tasks, NEW setscene \in BOOLEAN, Send(t, setscene),
           t \notin sq_live \cup Executing, sq_live \subseteq sq_live', Executing \subseteq Executing',
           t \in IF setscene THEN sq_live' ELSE Executing'
    PROVE  JobInv'
<1>1. \A j \in jobs : j.task \in sq_live \cup Executing
  BY DEF JobInv
<1> DEFINE new == [task |-> t, setscene |-> setscene, hash |-> sig[t], told |-> FALSE]
<1>2. jobs' = jobs \cup {new} /\ pipe' = pipe
  BY DEF Send
<1>3. new.task = t /\ new.setscene = setscene
  OBVIOUS
<1> HIDE DEF new
<1>4. Exits' = Exits
  BY <1>2 DEF Exits
<1> QED BY <1>1, <1>2, <1>3, <1>4 DEF JobInv

-----------------------------------------------------------------------------
(* Steps: read_workers *)

LEMMA QueueSqRead ==
    ASSUME QueueInv, NEW t \in Tasks, ReadSqComplete(t) \/ ReadSqFail(t)
    PROVE  SchedInv'
<1>1. PICK ok \in BOOLEAN : Exited(t, ok)
  BY DEF ReadSqComplete, ReadSqFail
<1>2. /\ UNCHANGED <<pc, request, runq_running, runq_complete, runq_tasksrun, failed_tids,
                     stats_active, sq_deferred, update_tasks, todo, changed,
                     pending_migrations, holdoff_tasks, tasks_covered>>
      /\ t \in sq_live /\ sq_live' = sq_live \ {t} /\ sq_active' = sq_active - 1
      /\ holdoff_need_update' = TRUE
      /\ sq' = Settle(sq, {t}, {}) \/ sq' = Settle(sq, {}, {t})
  BY DEF ReadSqComplete, ReadSqFail, Exited, Receive, SqTaskComplete, SqTaskFail, runqVars,
         moveVars, holdVars, steadyVars
<1>3. Executing' = Executing
  BY <1>2 DEF Executing
<1>4. /\ sq \in SqSets /\ sq_live \in SUBSET Setscene /\ {t} \in SUBSET Setscene
      /\ SceneOK(sq, sq_live, Late) /\ pc \notin {"migrate", "sched"}
  BY <1>1, <1>2 DEF QueueInv, SchedInv, SceneInv, TypeOK, SceneType, Exited, Receive, Reading
<1>5. Late = {} /\ Late' = {} /\ update_tasks = {} /\ todo = {}
  BY <1>2, <1>4 DEF Late, QueueInv, SchedInv, SceneInv
<1>6. /\ SceneOK(sq', sq_live', {})
      /\ sq.covered \subseteq sq'.covered /\ sq.notcovered \subseteq sq'.notcovered
      /\ Resolved(sq) \subseteq Resolved(sq')
  <2>1. CASE sq' = SqSkip(sq, {t})
    BY <1>2, <1>4, <1>5, <2>1, SkipOK, SkipFacts
  <2>2. CASE sq' = SqFailOutright(sq, {t})
    <3>1. \A c \in sq_live : Needing(c) \cap {t} = {}
      BY <1>2, <1>4, <1>5 DEF SceneOK, Resolved
    <3>2. SceneOK(sq', sq_live \ {t}, Late \ {t})
      BY <1>4, <1>5, <2>2, <3>1, FailOK
    <3>3. {} \ {t} = {}
      OBVIOUS
    <3> QED BY <1>2, <1>4, <1>5, <2>2, <3>2, <3>3, FailFacts
  <2> QED BY <1>2, <1>4, <2>1, <2>2, DispatchedLive
<1>7. SceneInv'
  <2>1. sq_active' = Cardinality(sq_live')
    BY <1>2, <1>4, FiniteTasks, FS_Subset, FS_RemoveElement, FS_CardinalityType DEF QueueInv, SchedInv, SceneInv
  <2> QED BY <1>2, <1>4, <1>5, <1>6, <2>1 DEF QueueInv, SchedInv, SceneInv
<1>8. MoveInv'
  BY <1>2, <1>5, <1>6, MoveKept DEF QueueInv, SchedInv
<1>9. HoldInv'
  BY <1>2, <1>4, <1>6, HoldKept DEF QueueInv, SchedInv, HoldInv
<1>10. JobInv'
  BY <1>1, <1>2, <1>3, ExitRead DEF QueueInv, SchedInv
<1>11. FailInv'
  BY <1>2, <1>3, FailKept DEF QueueInv, SchedInv, Spoilt
<1> QED BY <1>7, <1>8, <1>9, <1>10, <1>11 DEF SchedInv

\* One of the tasks that execute has ended.
LEMMA ExecutingLess ==
    ASSUME TypeOK, FailInv, NEW t \in Executing, Executing' = Executing \ {t},
           UNCHANGED <<request, runq_running>>, stats_active' = stats_active - 1,
           failed_tids' = failed_tids \/ failed_tids' = failed_tids \cup {t},
           Spoilt => Spoilt'
    PROVE  FailInv'
<1>1. IsFiniteSet(Executing)
  BY FiniteTasks DEF TypeOK, RunqType, Executing
<1>2. Cardinality(Executing') = Cardinality(Executing) - 1
  BY <1>1, FS_RemoveElement
<1>3. t \in runq_running
  BY DEF Executing
<1> QED BY <1>2, <1>3 DEF FailInv

LEMMA QueueComplete ==
    ASSUME QueueInv, NEW t \in Tasks, ReadComplete(t)
    PROVE  SchedInv'
<1>1. Exited(t, TRUE) /\ t \in Executing
  <2>1. Exited(t, TRUE) /\ t \notin sq_live
    BY DEF ReadComplete
  <2> QED BY <2>1, ExitRead DEF QueueInv, SchedInv
<1>2. /\ UNCHANGED <<pc, request, failed_tids, sq_live, sq_active, update_tasks, todo, changed,
                     pending_migrations, holdoff_tasks, tasks_covered>>
      /\ CompleteOutright(t, runq_buildable, runq_running, sqstamp)
      /\ stats_active' = stats_active - 1 /\ runq_tasksrun' = runq_tasksrun \cup {t}
      /\ pc \notin {"migrate", "sched"}
  BY DEF ReadComplete, Exited, Receive, Reading, TaskComplete, moveVars, holdVars, steadyVars
<1>3. /\ SceneInv'
      /\ sq.covered \subseteq sq'.covered /\ sq'.notcovered = sq.notcovered
      /\ Resolved(sq) \subseteq Resolved(sq')
      /\ runq_complete' = runq_complete \cup {t} /\ runq_running' = runq_running
      /\ holdoff_need_update => holdoff_need_update'
  BY <1>2, OutrightFacts DEF QueueInv, SchedInv
<1>4. Executing' = Executing \ {t} /\ t \in runq_running
  BY <1>1, <1>2, <1>3 DEF Executing
<1>5. MoveInv'
  <2>1. todo = {}
    BY <1>2 DEF QueueInv, SchedInv, SceneInv
  <2> QED BY <1>2, <1>3, <2>1, MoveKept DEF QueueInv, SchedInv
<1>6. HoldInv'
  BY <1>2, <1>3, <1>4, HoldKept DEF QueueInv, SchedInv, HoldInv
<1>7. JobInv'
  BY <1>1, <1>2, <1>4, ExitRead DEF QueueInv, SchedInv
<1>8. FailInv'
  BY <1>1, <1>2, <1>3, <1>4, ExecutingLess DEF QueueInv, SchedInv, Spoilt
<1> QED BY <1>3, <1>5, <1>6, <1>7, <1>8 DEF SchedInv

LEMMA QueueFail ==
    ASSUME QueueInv, NEW t \in Tasks, ReadFail(t)
    PROVE  SchedInv'
<1>1. Exited(t, FALSE) /\ t \in Executing
  <2>1. Exited(t, FALSE) /\ t \notin sq_live
    BY DEF ReadFail
  <2> QED BY <2>1, ExitRead DEF QueueInv, SchedInv
<1>2. /\ UNCHANGED <<pc, request, sq, sq_live, sq_active, sq_deferred, update_tasks, todo, changed,
                     pending_migrations, holdoff_tasks, tasks_covered, holdoff_need_update,
                     runq_running, runq_complete, runq_tasksrun>>
      /\ stats_active' = stats_active - 1 /\ failed_tids' = failed_tids \cup {t}
  BY DEF ReadFail, Exited, Receive, TaskFail, moveVars, holdVars, steadyVars, sceneVars, validVars
<1>3. Executing' = Executing \ {t}
  BY <1>2 DEF Executing
<1>4. SceneInv'
  BY <1>2, SceneKept DEF QueueInv, SchedInv
<1>5. MoveInv'
  BY <1>2, MoveSame DEF QueueInv, SchedInv
<1>6. HoldInv'
  BY <1>2, HoldSame DEF QueueInv, SchedInv, HoldInv
<1>7. JobInv'
  BY <1>1, <1>2, <1>3, ExitRead DEF QueueInv, SchedInv
<1>8. FailInv'
  BY <1>1, <1>2, <1>3, ExecutingLess DEF QueueInv, SchedInv, Spoilt
<1> QED BY <1>4, <1>5, <1>6, <1>7, <1>8 DEF SchedInv

\* The steps that move the call on, or read a hash.
LEMMA QueueMoveOn ==
    ASSUME QueueInv,
           \/ EndRead \/ EndWait \/ SqNone \/ SchedNone \/ TailWait \/ TailEnd
           \/ \E t \in Tasks, h \in Hash : ReadUnihash(t, h)
    PROVE  SchedInv'
<1>1. /\ UNCHANGED <<request, runq_running, runq_complete, runq_tasksrun, failed_tids,
                     stats_active, sq, sq_live, sq_active, sq_deferred, update_tasks, todo,
                     changed, pending_migrations, holdoff_tasks, tasks_covered,
                     holdoff_need_update>>
      /\ pc # "migrate" /\ pc' # "sched" /\ (Spoilt => Spoilt')
  <2>1. CASE EndRead \/ EndWait \/ SqNone \/ SchedNone
    BY <2>1, ReturnType DEF EndRead, EndWait, SqNone, SchedNone, runqVars, sceneVars, validVars,
                holdVars, steadyVars, moveVars, Spoilt
  <2>2. CASE TailWait \/ TailEnd
    BY <2>2 DEF TailWait, TailEnd, unlessTail, runqVars, holdVars, steadyVars, moveVars, Spoilt
  <2>3. CASE \E t \in Tasks, h \in Hash : ReadUnihash(t, h)
    BY <2>3 DEF ReadUnihash, Receive, Reading, runqVars, sceneVars, validVars, holdVars, steadyVars,
                moveVars, Spoilt
  <2> QED BY <2>1, <2>2, <2>3
<1>2. Executing' = Executing
  BY <1>1 DEF Executing
<1>3. SceneInv' /\ MoveInv' /\ FailInv'
  BY <1>1, <1>2, SceneKept, MoveSame, FailKept DEF QueueInv, SchedInv, Spoilt
<1>4. HoldInv'
  BY <1>1, HoldSame DEF QueueInv, SchedInv, HoldInv
<1>5. JobInv'
  <2>1. CASE EndRead \/ EndWait \/ SqNone \/ SchedNone \/ TailWait \/ TailEnd
    <3>1. UNCHANGED <<jobs, pipe>>
      BY <2>1 DEF EndRead, EndWait, SqNone, SchedNone, TailWait, TailEnd, unlessTail, workVars
    <3> QED BY <1>1, <1>2, <3>1, JobKept DEF QueueInv, SchedInv
  <2>2. CASE \E t \in Tasks, h \in Hash : ReadUnihash(t, h)
    BY <2>2, HashRead DEF QueueInv, SchedInv
  <2> QED BY <2>1, <2>2
<1> QED BY <1>3, <1>4, <1>5 DEF SchedInv

-----------------------------------------------------------------------------
(* Steps: process_possible_migrations *)

\* The tasks that migrate have not come from the cache.
LEMMA RehashMoves ==
    ASSUME Rehash
    PROVE  \E moved : /\ moved \cap sq.covered = {}
                      /\ changed' = (moved # {})
                      /\ todo' = pending_migrations \cup (moved \cap Setscene)
<1> DEFINE taken == {u \in updated_taskhash_queue :
                       u.task \notin runq_running \ runq_complete}
           news == {u \in taken : u.hash # unihash[u.task]}
           hit(t) == {u \in news : \/ u.task = t
                                   \/ t \in DOMAIN sq_deferred
                                        /\ sq_deferred[t] = u.task}
           toprocess == {t \in Tasks : hit(t) # {}}
           reported(old) == [t \in Tasks |-> IF t \in toprocess
                                             THEN (CHOOSE u \in hit(t) : TRUE).hash
                                             ELSE old[t]]
           total == Above(depends, toprocess)
           differ(newuni) == {t \in total : newuni[t] # reported(unihash)[t]}
           remapped(newuni) == differ(newuni) \cap Remapped
           moved(newuni) == differ(newuni) \ remapped(newuni)
<1>1. PICK newuni \in [total -> Hash] :
        \E accepted \in SUBSET remapped(newuni) :
          /\ sig' = [t \in Tasks |-> IF t \in accepted THEN reported(unihash)[t]
                                     ELSE IF t \in total THEN newuni[t]
                                     ELSE reported(sig)[t]]
          /\ \A t \in total :
               newuni[t] # reported(sig)[t] => \E d \in depends[t] : sig'[d] # sig[d]
          /\ unihash' = [t \in Tasks |-> IF t \in moved(newuni) THEN newuni[t]
                                         ELSE reported(unihash)[t]]
          /\ changed' = (moved(newuni) # {})
          /\ todo' = pending_migrations \cup (moved(newuni) \cap Setscene)
  BY Zenon DEF Rehash
<1>2. moved(newuni) \cap sq.covered = {}
  <2> HIDE DEF differ
  <2> QED BY DEF Remapped
<1> HIDE DEF moved
<1> QED BY <1>1, <1>2

LEMMA QueueRehash == ASSUME QueueInv, Rehash PROVE SchedInv'
<1>1. /\ UNCHANGED <<request, runq_running, runq_complete, runq_tasksrun, failed_tids,
                     stats_active, sq, sq_live, sq_active, sq_deferred, holdoff_tasks,
                     tasks_covered, holdoff_need_update, jobs, pipe>>
      /\ pc = "rehash" /\ pc' = "migrate" /\ update_tasks' = {} /\ pending_migrations' = todo'
  BY DEF Rehash, runqVars, sceneVars, validVars, holdVars, workVars
<1>2. update_tasks = {} /\ todo = {} /\ ~changed
  BY <1>1 DEF QueueInv, SchedInv, SceneInv, HoldInv
<1>3. PICK moved : /\ moved \cap sq.covered = {}
                   /\ changed' = (moved # {})
                   /\ todo' = pending_migrations \cup (moved \cap Setscene)
  BY RehashMoves
<1>4. Executing' = Executing /\ Late = {} /\ Late' = {}
  BY <1>1, <1>2 DEF Executing, Late
<1>5. SceneInv'
  BY <1>1, <1>2, <1>4 DEF QueueInv, SchedInv, SceneInv
<1>6. MoveInv'
  BY <1>1, <1>2, <1>3 DEF QueueInv, SchedInv, MoveInv
<1>7. HoldInv'
  <2>1. UpToDate'
    BY <1>1, <1>2 DEF QueueInv, SchedInv, HoldInv, UpToDate
  <2> QED BY <1>1, <2>1 DEF QueueInv, SchedInv, HoldInv
<1>8. JobInv' /\ FailInv'
  BY <1>1, <1>4, JobKept, FailKept DEF QueueInv, SchedInv, Spoilt
<1> QED BY <1>5, <1>6, <1>7, <1>8 DEF SchedInv

\* No task has to be run again that was skipped because it was covered, and
\* process_possible_migrations never aborts the build.
NoRerun == pc = "migrate" => \A t \in todo : ~MustRerun(t)

LEMMA NoRerunHolds == QueueInv => NoRerun
BY DEF QueueInv, SchedInv, MoveInv, NoRerun, MustRerun, TypeOK, MoveType

LEMMA QueueMigrate ==
    ASSUME QueueInv, NEW t \in Setscene, Migrate(t)
    PROVE  SchedInv'
<1>1. /\ UNCHANGED <<pc, request, runq_running, runq_complete, runq_tasksrun, failed_tids,
                     stats_active, sq_live, sq_active, sq_deferred, holdoff_tasks,
                     tasks_covered, holdoff_need_update, jobs, pipe>>
      /\ pc = "migrate" /\ t \in todo /\ t \notin runq_running \cup sq_live
      /\ sq_covered_tasks[t] \cap (runq_running \ runq_complete) = {}
      /\ todo' = todo \ {t} /\ pending_migrations' = pending_migrations \ {t} /\ changed' = TRUE
      /\ MigrateReset(t)
  BY NoRerunHolds DEF NoRerun, Migrate, Migratable, MigrateReset, runqVars, holdVars, workVars,
                      steadyVars
<1> DEFINE harddepfail == \E u \in sq.notcovered : t \in sq_harddeps[u]
           ready == \/ ~harddepfail /\ sq_revdeps[t] \subseteq Resolved(sq)
                    \/ sq_revdeps[t] = {}
<1>2. /\ sq'.buildable = (sq.buildable \ {t}) \cup (IF ready THEN {t} ELSE {})
      /\ sq'.running = sq.running \ {t}
      /\ sq'.covered = sq.covered \ {t} /\ sq'.notcovered = sq.notcovered \ {t}
      /\ update_tasks' = update_tasks \cup {[task |-> t, harddepfail |-> harddepfail]}
  BY <1>1 DEF MigrateReset
<1>3. Late' = Late \cup (IF harddepfail THEN {t} ELSE {})
  <2> DEFINE new == [task |-> t, harddepfail |-> harddepfail]
  <2>1. new.task = t /\ (new.harddepfail <=> harddepfail)
    OBVIOUS
  <2>2. update_tasks' = update_tasks \cup {new}
    BY <1>2
  <2> HIDE DEF new, harddepfail
  <2> QED BY <2>1, <2>2 DEF Late
<1>4. ready => Needing(t) \subseteq sq.covered \ (sq.notcovered \cup {t})
  <2>1. Needing(t) \subseteq sq_revdeps[t]
    BY NeedingWaits
  <2>2. t \notin sq.covered \ sq.notcovered
    BY <1>1 DEF QueueInv, SchedInv, MoveInv
  <2>3. ASSUME ready, NEW u \in Needing(t)
        PROVE  u \in sq.covered \ (sq.notcovered \cup {t})
    <3>1. ~harddepfail /\ u \in Resolved(sq)
      BY <2>1, <2>3
    <3>2. u \notin sq.notcovered
      BY <3>1 DEF Needing
    <3> QED BY <2>2, <3>1, <3>2 DEF Resolved
  <2> QED BY <2>3
<1>6. ASSUME NEW c \in ((sq'.buildable \ sq'.running) \cup sq_live) \ Late'
      PROVE  Needing(c) \subseteq sq'.covered \ sq'.notcovered
  <2>1. CASE c = t
    <3>1. ready
      BY <1>1, <1>2, <1>6, <2>1
    <3> QED BY <1>2, <1>4, <2>1, <3>1
  <2>2. CASE c # t
    <3>1. Needing(c) \subseteq sq.covered \ sq.notcovered
      BY <1>2, <1>3, <1>6, <2>2 DEF QueueInv, SchedInv, SceneInv, SceneOK
    <3>2. t \notin Needing(c)
      BY <1>1, <3>1 DEF QueueInv, SchedInv, MoveInv
    <3> QED BY <1>2, <3>1, <3>2
  <2> QED BY <2>1, <2>2
<1>7. Resolved(sq') = Resolved(sq) \ {t}
  BY <1>2 DEF Resolved
<1>8. ASSUME NEW u \in sq'.notcovered
      PROVE  sq_harddeps[u] \subseteq Resolved(sq') \cup Late'
  <2>1. sq_harddeps[u] \subseteq Resolved(sq) \cup Late
    BY <1>2 DEF QueueInv, SchedInv, SceneInv, SceneOK
  <2>2. t \in sq_harddeps[u] => harddepfail
    BY <1>2
  <2> HIDE DEF harddepfail
  <2> QED BY <1>3, <1>7, <2>1, <2>2
<1>9. SceneOK(sq', sq_live, Late')
  <2>1. sq'.running = Resolved(sq') \cup sq_live /\ sq_live \cap Resolved(sq') = {}
    BY <1>1, <1>2, <1>7 DEF QueueInv, SchedInv, SceneInv, SceneOK
  <2>2. sq'.running \subseteq sq'.buildable
    BY <1>2 DEF QueueInv, SchedInv, SceneInv, SceneOK
  <2> QED BY <1>6, <1>8, <2>1, <2>2 DEF SceneOK
<1> HIDE DEF harddepfail, ready
<1>10. SceneInv'
  <2>1. \A u \in update_tasks' : u.task \notin sq'.running
    BY <1>2 DEF QueueInv, SchedInv, SceneInv
  <2> QED BY <1>1, <1>9, <2>1 DEF QueueInv, SchedInv, SceneInv
<1>11. MoveInv'
  BY <1>1, <1>2, <1>7 DEF QueueInv, SchedInv, MoveInv
<1>12. HoldInv'
  <2>1. ASSUME NEW x \in runq_running
        PROVE  IsDecided(x, sq', runq_complete)
    <3>1. IsDecided(x, sq, runq_complete)
      BY DEF QueueInv, SchedInv, HoldInv
    <3> QED BY <1>1, <1>7, <3>1 DEF IsDecided
  <2> QED BY <1>1, <2>1 DEF QueueInv, SchedInv, HoldInv, UpToDate
<1>13. JobInv' /\ FailInv'
  <2>1. Executing' = Executing
    BY <1>1 DEF Executing
  <2> QED BY <1>1, <2>1, JobKept, FailKept DEF QueueInv, SchedInv, Spoilt
<1> QED BY <1>10, <1>11, <1>12, <1>13 DEF SchedInv

LEMMA QueueMigrateNot ==
    ASSUME QueueInv, NEW t \in Setscene, MigrateNot(t)
    PROVE  SchedInv'
<1>1. /\ UNCHANGED <<pc, request, runq_running, runq_complete, runq_tasksrun, failed_tids,
                     stats_active, sq, sq_live, sq_active, sq_deferred, holdoff_tasks,
                     tasks_covered, holdoff_need_update, changed, update_tasks, jobs, pipe>>
      /\ pc = "migrate" /\ t \in todo /\ todo' = todo \ {t}
      /\ pending_migrations' = pending_migrations \ ({t} \cap (runq_running \cup sq_live))
      /\ ~Migratable(t)
  BY DEF MigrateNot, runqVars, sceneVars, validVars, holdVars, steadyVars, workVars
<1>2. SceneInv'
  <2>1. Late' = Late
    BY <1>1 DEF Late
  <2> QED BY <1>1, <2>1 DEF QueueInv, SchedInv, SceneInv
<1>3. MoveInv'
  <2>1. t \in pending_migrations' => t \in Resolved(sq)
    <3>1. t \notin runq_running \cup sq_live =>
            sq_covered_tasks[t] \cap (runq_running \ runq_complete) # {}
      BY <1>1 DEF Migratable
    <3> QED BY <1>1, <3>1 DEF QueueInv, SchedInv, HoldInv, IsDecided
  <2> QED BY <1>1, <2>1 DEF QueueInv, SchedInv, MoveInv
<1>4. HoldInv'
  BY <1>1, HoldSame DEF QueueInv, SchedInv, HoldInv
<1>5. JobInv' /\ FailInv'
  <2>1. Executing' = Executing
    BY <1>1 DEF Executing
  <2> QED BY <1>1, <2>1, JobKept, FailKept DEF QueueInv, SchedInv, Spoilt
<1> QED BY <1>2, <1>3, <1>4, <1>5 DEF SchedInv

LEMMA QueueMigrateEnd == ASSUME QueueInv, MigrateEnd PROVE SchedInv'
<1> DEFINE tids == {u.task : u \in update_tasks}
           skips == Skipped(tids, sqstamp)
           follows == {t \in tids : Leaders(t, unihash[t]) \ {t} # {}}
           q == SqSkip(sq, skips)
<1>1. /\ UNCHANGED <<request, runq_running, runq_complete, runq_tasksrun, failed_tids,
                     stats_active, sq_live, sq_active, holdoff_tasks, tasks_covered,
                     pending_migrations, todo, jobs, pipe>>
      /\ pc = "migrate" /\ pc' = "setscene" /\ todo = {} /\ update_tasks' = {}
      /\ changed' = FALSE /\ holdoff_need_update' = (holdoff_need_update \/ changed)
      /\ DOMAIN sq_deferred' = DOMAIN sq_deferred \cup follows
      /\ sq' = SqFailOutright(q, Late)
  BY DEF MigrateEnd, Defer, Late, runqVars, holdVars, steadyVars, workVars
<1>2. /\ sq \in SqSets /\ sq_live \in SUBSET Setscene /\ Late \in SUBSET tids
      /\ tids \in SUBSET Setscene /\ skips \in SUBSET tids
      /\ SceneOK(sq, sq_live, Late)
  BY DEF QueueInv, SchedInv, SceneInv, TypeOK, SceneType, MoveType, Late, Skipped
<1>3. tids \cap sq.running = {}
  BY DEF QueueInv, SchedInv, SceneInv
<1>4. tids \cap sq_live = {} /\ tids \cap Resolved(sq) = {}
  BY <1>2, <1>3 DEF SceneOK
<1> HIDE DEF skips, tids
<1>5. /\ SceneOK(q, sq_live, Late) /\ q \in SqSets
      /\ q.covered = sq.covered \cup skips /\ q.notcovered = sq.notcovered
      /\ Resolved(q) = Resolved(sq) \cup skips
  <2>1. sq_live \ skips = sq_live /\ skips \in SUBSET Setscene
    BY <1>2, <1>4
  <2> QED BY <1>2, <2>1, SkipOK, SkipFacts
<1> HIDE DEF q
<1>6. /\ SceneOK(sq', sq_live, {})
      /\ sq'.covered = q.covered /\ q.notcovered \subseteq sq'.notcovered
      /\ Resolved(q) \subseteq Resolved(sq')
      /\ Late = {} => sq'.notcovered = q.notcovered
  <2>1. ASSUME NEW c \in sq_live PROVE Needing(c) \cap Late = {}
    <3>1. Needing(c) \subseteq Resolved(sq)
      BY <1>2, <1>4 DEF SceneOK, Resolved
    <3> QED BY <1>2, <1>4, <3>1
  <2>2. Late \in SUBSET Setscene /\ sq_live \cap Late = {} /\ sq_live \ Late = sq_live
    BY <1>2, <1>4
  <2>3. Late \ Late = {}
    OBVIOUS
  <2>4. SceneOK(sq', sq_live, {})
    BY <1>1, <1>2, <1>5, <2>1, <2>2, <2>3, FailOK
  <2>5. /\ sq'.covered = q.covered /\ sq'.notcovered = q.notcovered \cup HardFailures(q, Late)
        /\ Resolved(sq') = Resolved(q) \cup HardFailures(q, Late)
    BY <1>1, <1>5, <2>2, FailFacts
  <2>6. Late = {} => HardFailures(q, Late) = {}
    BY <2>2, HardFacts
  <2> QED BY <2>4, <2>5, <2>6
<1>7. Late' = {}
  BY <1>1 DEF Late
<1>8. SceneInv'
  <2>1. DOMAIN sq_deferred' \cap sq_live = {}
    BY <1>1, <1>4 DEF QueueInv, SchedInv, SceneInv
  <2> QED BY <1>1, <1>6, <1>7, <2>1 DEF QueueInv, SchedInv, SceneInv
<1>9. MoveInv'
  BY <1>1, <1>5, <1>6, MoveKept DEF QueueInv, SchedInv
<1>10. HoldInv'
  <2>1. changed \/ Late = {}
    BY DEF QueueInv, SchedInv, SceneInv, Late
  <2> QED BY <1>1, <1>5, <1>6, <2>1, HoldKept DEF QueueInv, SchedInv
<1>11. JobInv' /\ FailInv'
  <2>1. Executing' = Executing
    BY <1>1 DEF Executing
  <2> QED BY <1>1, <2>1, JobKept, FailKept DEF QueueInv, SchedInv, Spoilt
<1> QED BY <1>8, <1>9, <1>10, <1>11 DEF SchedInv

-----------------------------------------------------------------------------
(* Steps: the setscene queue *)

LEMMA QueueSqDecided ==
    ASSUME QueueInv, NEW t \in Setscene,
           SqNotNeeded(t) \/ SqInvalid(t) \/ SqOutright(t) \/ SqStampPresent(t)
    PROVE  SchedInv'
<1>1. /\ UNCHANGED <<request, runq_running, runq_complete, runq_tasksrun, failed_tids,
                     stats_active, sq_live, sq_active, update_tasks, changed, todo,
                     holdoff_tasks, tasks_covered, pending_migrations, jobs, pipe>>
      /\ pc = "setscene" /\ pc' = ReturnIn(state) /\ holdoff_need_update' = TRUE
      /\ DOMAIN sq_deferred' \subseteq DOMAIN sq_deferred
      /\ t \in sq.buildable \ sq.running
      /\ sq' = SqSkip(sq, {t}) \/ sq' = SqFailOutright(sq, {t})
  BY DEF SqNotNeeded, SqInvalid, SqOutright, SqStampPresent, SqNext, SqReaches, SqCandidate,
         Undefer, Defer, sqStepUnchanged, runqVars, moveVars, holdVars, steadyVars, workVars
<1>2. /\ sq \in SqSets /\ sq_live \in SUBSET Setscene /\ {t} \in SUBSET Setscene
      /\ SceneOK(sq, sq_live, Late) /\ sq_live \ {t} = sq_live
  BY <1>1 DEF QueueInv, SchedInv, SceneInv, SceneOK, TypeOK, SceneType
<1>3. Late = {} /\ Late' = {} /\ update_tasks = {} /\ todo = {}
  BY <1>1 DEF Late, QueueInv, SchedInv, SceneInv
<1>4. /\ SceneOK(sq', sq_live, {})
      /\ sq.covered \subseteq sq'.covered /\ sq.notcovered \subseteq sq'.notcovered
      /\ Resolved(sq) \subseteq Resolved(sq')
  <2>1. CASE sq' = SqSkip(sq, {t})
    <3>1. SceneOK(sq', sq_live, {})
      BY <1>2, <1>3, <2>1, SkipOK
    <3> QED BY <1>2, <2>1, <3>1, SkipFacts
  <2>2. CASE sq' = SqFailOutright(sq, {t})
    <3>1. \A c \in sq_live : Needing(c) \cap {t} = {}
      BY <1>1, <1>2, <1>3 DEF SceneOK, Resolved
    <3>2. SceneOK(sq', sq_live, {} \ {t})
      BY <1>2, <1>3, <2>2, <3>1, FailOK
    <3>3. {} \ {t} = {}
      OBVIOUS
    <3> QED BY <1>2, <2>2, <3>2, <3>3, FailFacts
  <2> QED BY <1>1, <2>1, <2>2
<1>5. ReturnIn(state) \notin {"sched", "migrate"}
  BY ReturnType
<1>6. SceneInv'
  BY <1>1, <1>3, <1>4 DEF QueueInv, SchedInv, SceneInv
<1>7. MoveInv'
  BY <1>1, <1>3, <1>4, MoveKept DEF QueueInv, SchedInv
<1>8. HoldInv'
  BY <1>1, <1>4, <1>5, HoldKept DEF QueueInv, SchedInv, HoldInv
<1>9. JobInv' /\ FailInv'
  <2>1. Executing' = Executing
    BY <1>1 DEF Executing
  <2> QED BY <1>1, <2>1, JobKept, FailKept DEF QueueInv, SchedInv, Spoilt
<1> QED BY <1>6, <1>7, <1>8, <1>9 DEF SchedInv

LEMMA QueueSqStart ==
    ASSUME QueueInv, NEW t \in Setscene, SqStart(t)
    PROVE  SchedInv' /\ t \notin sq_live \cup runq_running
<1>1. /\ UNCHANGED <<request, runq_running, runq_complete, runq_tasksrun, failed_tids,
                     stats_active, update_tasks, changed, todo, holdoff_need_update,
                     holdoff_tasks, tasks_covered, pending_migrations>>
      /\ pc = "setscene" /\ pc' \in {ReturnIn(state), "holdoff"}
      /\ DOMAIN sq_deferred' = DOMAIN sq_deferred \ {t}
      /\ t \in sq.buildable \ sq.running
      /\ sq' = [sq EXCEPT !.running = @ \cup {t}]
      /\ sq_live' = sq_live \cup {t} /\ sq_active' = sq_active + 1
      /\ Send(t, TRUE)
  BY DEF SqStart, SqNext, SqReaches, SqCandidate, Undefer, Defer, runqVars, validVars, moveVars,
         holdVars, steadyVars
<1>2. /\ sq \in SqSets /\ sq_live \in SUBSET Setscene
      /\ SceneOK(sq, sq_live, Late) /\ t \in Tasks
  BY SetsceneAssumption DEF QueueInv, SchedInv, SceneInv, TypeOK, SceneType
<1>3. Late = {} /\ Late' = {} /\ update_tasks = {} /\ todo = {}
  BY <1>1 DEF Late, QueueInv, SchedInv, SceneInv
<1>4. /\ sq'.covered = sq.covered /\ sq'.notcovered = sq.notcovered
      /\ sq'.buildable = sq.buildable /\ sq'.running = sq.running \cup {t}
      /\ Resolved(sq') = Resolved(sq)
  BY <1>1, <1>2 DEF SqSets, Resolved
<1>5. t \notin Resolved(sq) \cup sq_live \cup runq_running
  <2>1. t \notin Resolved(sq) \cup sq_live
    BY <1>1, <1>2 DEF SceneOK
  <2> QED BY <2>1 DEF QueueInv, SchedInv, HoldInv, IsDecided
<1>6. SceneOK(sq', sq_live', {})
  <2>1. SceneOK(sq, sq_live, {}) /\ sq_live' = sq_live \cup {t} /\ t \in sq.buildable
    BY <1>1, <1>2, <1>3
  <2>2. /\ sq'.running = Resolved(sq') \cup sq_live' /\ sq_live' \cap Resolved(sq') = {}
        /\ sq'.running \subseteq sq'.buildable
    BY <1>4, <1>5, <2>1 DEF SceneOK
  <2>3. (sq'.buildable \ sq'.running) \cup sq_live' \subseteq (sq.buildable \ sq.running) \cup sq_live
    BY <1>1, <1>4, <2>1
  <2> QED BY <1>4, <2>1, <2>2, <2>3 DEF SceneOK
<1>7. SceneInv'
  <2>1. sq_active' = Cardinality(sq_live')
    BY <1>1, <1>2, <1>5, FiniteTasks, FS_Subset, FS_AddElement DEF QueueInv, SchedInv, SceneInv
  <2> QED BY <1>1, <1>3, <1>4, <1>5, <1>6, <2>1, ReturnType DEF QueueInv, SchedInv, SceneInv
<1>8. MoveInv'
  BY <1>1, <1>3, <1>4, MoveKept DEF QueueInv, SchedInv
<1>9. HoldInv'
  <2>1. pc' # "sched" /\ ~changed
    BY <1>1, ReturnType DEF QueueInv, SchedInv, HoldInv
  <2> QED BY <1>1, <1>4, <2>1, HoldKept DEF QueueInv, SchedInv, HoldInv
<1>10. Executing' = Executing
  BY <1>1 DEF Executing
<1>11. JobInv'
  <2>1. t \notin sq_live \cup Executing /\ t \in sq_live'
    BY <1>1, <1>5 DEF Executing
  <2>2. TypeOK /\ JobInv /\ sq_live \subseteq sq_live' /\ Executing \subseteq Executing'
    BY <1>1, <1>10 DEF QueueInv, SchedInv
  <2> QED BY <1>1, <1>2, <2>1, <2>2, JobSent
<1>12. FailInv'
  BY <1>1, <1>10, FailKept DEF QueueInv, SchedInv, Spoilt
<1> QED BY <1>5, <1>7, <1>8, <1>9, <1>11, <1>12 DEF SchedInv

LEMMA QueueHoldoff == ASSUME QueueInv, Holdoff PROVE SchedInv'
<1>1. /\ UNCHANGED <<request, runq_running, runq_complete, runq_tasksrun, failed_tids,
                     stats_active, sq, sq_live, sq_active, sq_deferred, update_tasks, changed,
                     todo, pending_migrations, jobs, pipe>>
      /\ pc = "holdoff" /\ pc' \in {"sched", "teardown"}
  BY DEF Holdoff, steadyVars, moveVars, workVars
<1>2. Executing' = Executing
  BY <1>1 DEF Executing
<1>3. SceneInv' /\ MoveInv' /\ JobInv' /\ FailInv'
  BY <1>1, <1>2, SceneKept, MoveSame, JobKept, FailKept DEF QueueInv, SchedInv, Spoilt
<1>4. HoldInv'
  <2>1. CASE holdoff_need_update
    <3>1. /\ holdoff_need_update' = FALSE
          /\ holdoff_tasks' = Undecided(sq, runq_complete)
          /\ tasks_covered' = Covered
      BY <1>1, <2>1 DEF Holdoff, UpdateHoldoffTasks, Undecided
    <3>2. Covered \cap CoveredBy(sq.notcovered) = {}
      BY DEF Covered, NotCovered
    <3>3. UpToDate'
      BY <1>1, <3>1, <3>2 DEF UpToDate
    <3> QED BY <1>1, <3>1, <3>3 DEF QueueInv, SchedInv, HoldInv
  <2>2. CASE ~holdoff_need_update
    <3>1. UNCHANGED <<holdVars, holdoff_need_update>>
      BY <2>2 DEF Holdoff
    <3> QED BY <1>1, <2>2, <3>1 DEF QueueInv, SchedInv, HoldInv, UpToDate, holdVars
  <2> QED BY <2>1, <2>2
<1> QED BY <1>3, <1>4 DEF SchedInv

-----------------------------------------------------------------------------
(* Steps: the run queue *)

LEMMA QueueOutright ==
    ASSUME QueueInv, NEW t \in Tasks, SkipTask(t) \/ RunNoexec(t)
    PROVE  SchedInv' /\ Executing' = Executing
<1>1. /\ UNCHANGED <<request, failed_tids, stats_active, sq_live, sq_active, update_tasks,
                     changed, todo, pending_migrations, holdoff_tasks, tasks_covered, jobs, pipe>>
      /\ Picked(t) /\ pc' = ReturnIn(state)
      /\ \/ runq_tasksrun' = runq_tasksrun \cup {t}
         \/ runq_tasksrun' = runq_tasksrun /\ t \in tasks_covered
  BY DEF SkipTask, RunNoexec, Ready, schedUnchanged, moveVars, holdVars, workVars, steadyVars
<1>2. /\ pc = "sched" /\ ~holdoff_need_update /\ ~changed
      /\ update_tasks = {} /\ todo = {}
      /\ t \notin runq_running \cup runq_complete \cup sq_live
      /\ IsDecided(t, sq, runq_complete)
      /\ t \in tasks_covered =>
           \A u \in Setscene : t \in sq_covered_tasks[u] =>
               u \in sq.covered \ (todo \cup pending_migrations)
  BY <1>1, PickedFacts
<1>3. pc' \notin {"sched", "migrate"}
  BY <1>1, ReturnType
<1>4. PICK buildable, scene : CompleteOutright(t, buildable, runq_running \cup {t}, scene)
  BY DEF SkipTask, RunNoexec
<1>5. /\ SceneInv'
      /\ sq.covered \subseteq sq'.covered /\ sq'.notcovered = sq.notcovered
      /\ Resolved(sq) \subseteq Resolved(sq')
      /\ runq_complete' = runq_complete \cup {t} /\ runq_running' = runq_running \cup {t}
  BY <1>1, <1>2, <1>3, <1>4, OutrightFacts DEF QueueInv, SchedInv
<1>6. MoveInv'
  <2>1. \A u \in Setscene :
          sq_covered_tasks[u] \cap (runq_complete' \ runq_tasksrun') # {}
            => u \in sq.covered \ (todo \cup pending_migrations)
    BY <1>1, <1>2, <1>5 DEF QueueInv, SchedInv, MoveInv
  <2> QED BY <1>1, <1>2, <1>5, <2>1 DEF QueueInv, SchedInv, MoveInv, Resolved
<1>7. HoldInv'
  <2>1. IsDecided(t, sq', runq_complete')
    BY <1>2, <1>5 DEF IsDecided
  <2> QED BY <1>1, <1>2, <1>3, <1>5, <2>1, HoldKept DEF QueueInv, SchedInv
<1>8. Executing' = Executing
  BY <1>1, <1>2, <1>5 DEF Executing
<1>9. JobInv' /\ FailInv'
  BY <1>1, <1>2, <1>5, <1>8, JobKept, FailKept DEF QueueInv, SchedInv, Spoilt
<1> QED BY <1>5, <1>6, <1>7, <1>8, <1>9 DEF SchedInv

LEMMA QueueRefuse ==
    ASSUME QueueInv, NEW t \in Tasks, Refuse(t)
    PROVE  SchedInv'
<1>1. /\ UNCHANGED <<request, runq_running, runq_complete, runq_tasksrun, sq, sq_live, sq_active,
                     sq_deferred, update_tasks, changed, todo, pending_migrations,
                     holdoff_tasks, tasks_covered, holdoff_need_update, jobs, pipe>>
      /\ Picked(t) /\ pc' = ReturnIn(state') /\ failed_tids' = failed_tids \cup {t}
      /\ "enforce" \in request /\ t \notin Noexec \cup Whitelisted
  BY DEF Refuse, TaskFail, NotAllowed, schedUnchanged, moveVars, holdVars, workVars, steadyVars,
         sceneVars, validVars
<1>2. pc = "sched" /\ ~changed /\ t \notin runq_running
  BY <1>1, PickedFacts
<1>3. Executing' = Executing
  BY <1>1, <1>2 DEF Executing
<1>4. SceneInv' /\ MoveInv' /\ JobInv'
  BY <1>1, <1>2, <1>3, SceneKept, MoveSame, JobKept DEF QueueInv, SchedInv
<1>5. HoldInv'
  BY <1>1, <1>2, HoldSame, ReturnType DEF QueueInv, SchedInv
<1>6. FailInv'
  BY <1>1, <1>3 DEF QueueInv, SchedInv, FailInv
<1> QED BY <1>4, <1>5, <1>6 DEF SchedInv

LEMMA QueueStart ==
    ASSUME QueueInv, NEW t \in Tasks, StartTask(t)
    PROVE  /\ SchedInv'
           /\ t \notin Executing \cup runq_complete \cup failed_tids
           /\ Executing' = Executing \cup {t}
<1>1. /\ UNCHANGED <<request, runq_complete, runq_tasksrun, failed_tids, sq, sq_live, sq_active,
                     sq_deferred, update_tasks, changed, todo, pending_migrations,
                     holdoff_tasks, tasks_covered, holdoff_need_update>>
      /\ Ready(t) /\ Picked(t) /\ pc' \in {ReturnIn(state), "tail"}
      /\ runq_running' = runq_running \cup {t} /\ stats_active' = stats_active + 1
      /\ t \notin Noexec /\ Send(t, FALSE)
  BY DEF StartTask, Ready, moveVars, holdVars, steadyVars, sceneVars, validVars
<1>2. /\ pc = "sched" /\ ~changed
      /\ t \notin runq_running \cup runq_complete \cup sq_live
      /\ IsDecided(t, sq, runq_complete)
  BY <1>1, PickedFacts
<1>3. t \notin failed_tids
  <2>1. "enforce" \notin request \/ t \in Noexec \cup Whitelisted
    BY <1>1 DEF Ready, NotAllowed
  <2> QED BY <1>2, <2>1 DEF QueueInv, SchedInv, FailInv
<1>4. Executing' = Executing \cup {t} /\ t \notin Executing
  BY <1>1, <1>2, <1>3 DEF Executing
<1>5. SceneInv' /\ MoveInv'
  BY <1>1, <1>2, SceneKept, MoveSame DEF QueueInv, SchedInv
<1>6. HoldInv'
  <2>1. pc' # "sched"
    BY <1>1, ReturnType
  <2>2. runq_running \subseteq runq_running' /\ runq_running' \ runq_running \subseteq {t}
    BY <1>1
  <2> QED BY <1>1, <1>2, <2>1, <2>2, HoldKept DEF QueueInv, SchedInv
<1>7. JobInv'
  <2>1. /\ TypeOK /\ JobInv /\ t \notin sq_live \cup Executing
        /\ sq_live \subseteq sq_live' /\ Executing \subseteq Executing' /\ t \in Executing'
    BY <1>1, <1>2, <1>4 DEF QueueInv, SchedInv
  <2> QED BY <1>1, <2>1, JobSent
<1>8. FailInv'
  <2>1. IsFiniteSet(Executing)
    BY FiniteTasks DEF QueueInv, TypeOK, RunqType, Executing
  <2>2. Cardinality(Executing') = Cardinality(Executing) + 1
    BY <1>4, <2>1, FS_AddElement
  <2> QED BY <1>1, <1>2, <2>2 DEF QueueInv, SchedInv, FailInv, Spoilt
<1> QED BY <1>2, <1>3, <1>4, <1>5, <1>6, <1>7, <1>8 DEF SchedInv

LEMMA QueueSpawnFail ==
    ASSUME QueueInv, NEW t \in Tasks, SpawnFail(t) PROVE SchedInv'
<1>1. /\ UNCHANGED <<request, runq_running, runq_complete, runq_tasksrun, failed_tids, sq, sq_live,
                     sq_active, sq_deferred, update_tasks, changed, todo, pending_migrations,
                     holdoff_tasks, tasks_covered, holdoff_need_update, jobs, pipe>>
      /\ pc = "sched" /\ pc' = "teardown" /\ "nofakeworker" \in request
  BY DEF SpawnFail, NoFakeworker, Ready, Picked, schedUnchanged, moveVars, holdVars, workVars,
         steadyVars, sceneVars, validVars
<1>2. Executing' = Executing
  BY <1>1 DEF Executing
<1>3. SceneInv' /\ MoveInv' /\ JobInv'
  BY <1>1, <1>2, SceneKept, MoveSame, JobKept DEF QueueInv, SchedInv
<1>4. HoldInv'
  BY <1>1, HoldSame DEF QueueInv, SchedInv, HoldInv
<1>5. FailInv'
  BY <1>1 DEF QueueInv, SchedInv, FailInv, Spoilt
<1> QED BY <1>3, <1>4, <1>5 DEF SchedInv

LEMMA QueueTailForce == ASSUME QueueInv, TailForce PROVE SchedInv'
<1>1. PICK d \in DOMAIN sq_deferred :
        \/ UNCHANGED <<sq, holdoff_need_update>>
        \/ sq' = SqFailOutright(sq, {sq_deferred[d]}) /\ holdoff_need_update' = TRUE
  BY DEF TailForce
<1>2. /\ UNCHANGED <<request, runq_running, runq_complete, runq_tasksrun, failed_tids,
                     stats_active, sq_live, sq_active, update_tasks, changed, todo,
                     holdoff_tasks, tasks_covered, pending_migrations, jobs, pipe>>
      /\ pc = "tail" /\ pc' = ReturnIn(state) /\ ~(sq_active > 0)
      /\ DOMAIN sq_deferred' \subseteq DOMAIN sq_deferred
  BY DEF TailForce, Undefer, Defer, unlessTail, runqVars, moveVars, holdVars, steadyVars, workVars
<1>3. Executing' = Executing /\ pc' \notin {"sched", "migrate"}
  BY <1>2, ReturnType DEF Executing
<1>4. /\ sq \in SqSets /\ {sq_deferred[d]} \in SUBSET Setscene
      /\ SceneOK(sq, sq_live, Late) /\ sq_live \in SUBSET Setscene
      /\ Late = {} /\ Late' = {} /\ update_tasks = {} /\ todo = {}
  BY <1>2 DEF QueueInv, SchedInv, SceneInv, TypeOK, SceneType, Late
<1>5. sq_live = {}
  BY <1>2, <1>4, FiniteTasks, FS_Subset, FS_EmptySet, FS_CardinalityType
     DEF QueueInv, SchedInv, SceneInv
<1>6. CASE UNCHANGED <<sq, holdoff_need_update>>
  <2>1. SceneInv' /\ MoveInv' /\ JobInv' /\ FailInv'
    BY <1>2, <1>3, <1>6, SceneKept, MoveSame, JobKept, FailKept DEF QueueInv, SchedInv, Spoilt
  <2>2. HoldInv'
    BY <1>2, <1>3, <1>6, HoldSame DEF QueueInv, SchedInv, HoldInv
  <2> QED BY <2>1, <2>2 DEF SchedInv
<1>7. CASE sq' = SqFailOutright(sq, {sq_deferred[d]}) /\ holdoff_need_update' = TRUE
  <2> DEFINE x == sq_deferred[d]
  <2>1. /\ SceneOK(sq', {}, {})
        /\ sq.covered \subseteq sq'.covered /\ sq.notcovered \subseteq sq'.notcovered
        /\ Resolved(sq) \subseteq Resolved(sq')
    <3>1. {} \ {x} = {}
      OBVIOUS
    <3>2. SceneOK(sq', {} \ {x}, {} \ {x})
      <4> HIDE DEF x
      <4> QED BY <1>4, <1>5, <1>7, FailOK DEF x
    <3> QED BY <1>4, <1>7, <3>1, <3>2, FailFacts
  <2>2. SceneInv'
    BY <1>2, <1>3, <1>4, <1>5, <2>1 DEF QueueInv, SchedInv, SceneInv
  <2>3. MoveInv'
    BY <1>2, <1>4, <2>1, MoveKept DEF QueueInv, SchedInv
  <2>4. HoldInv'
    BY <1>2, <1>3, <1>7, <2>1, HoldKept DEF QueueInv, SchedInv, HoldInv
  <2>5. JobInv' /\ FailInv'
    BY <1>2, <1>3, JobKept, FailKept DEF QueueInv, SchedInv, Spoilt
  <2> QED BY <2>2, <2>3, <2>4, <2>5 DEF SchedInv
<1> QED BY <1>1, <1>6, <1>7

-----------------------------------------------------------------------------
(* Steps: the end of the build, and the workers *)

LEMMA QueueFinish ==
    ASSUME QueueInv, \/ Finish \/ WorkerQuit \/ TornDown \/ FinishGone \/ Stop \/ ForceStop
                     \/ Terminated \/ UNCHANGED vars
    PROVE  SchedInv'
<1>1. /\ UNCHANGED <<request, runq_running, runq_complete, runq_tasksrun, failed_tids,
                     stats_active, sq, sq_live, sq_active, sq_deferred, update_tasks, changed,
                     todo, pending_migrations, holdoff_tasks, tasks_covered,
                     holdoff_need_update, pipe>>
      /\ jobs' = jobs \/ jobs' = {}
      /\ pc' = pc \/ (pc # "migrate" /\ pc' # "sched")
      /\ Spoilt => Spoilt'
  <2>1. CASE Finish \/ WorkerQuit \/ TornDown \/ FinishGone \/ Stop \/ ForceStop
    <3>1. UNCHANGED unlessFinish /\ (jobs' = jobs \/ jobs' = {})
      BY <2>1 DEF Finish, WorkerQuit, TornDown, FinishGone, Stop, ForceStop
    <3>2. /\ pc' = pc \/ (pc # "migrate" /\ pc' # "sched")
          /\ pc \in {"teardown", "gone", "done"} => pc' \in {"teardown", "gone", "done"}
      BY <2>1 DEF Finish, WorkerQuit, TornDown, FinishGone, Stop, ForceStop
    <3> QED BY <3>1, <3>2 DEF unlessFinish, runqVars, sceneVars, validVars, holdVars, steadyVars,
                              moveVars, Spoilt
  <2>2. CASE Terminated \/ UNCHANGED vars
    BY <2>2 DEF Terminated, vars, runqVars, sceneVars, validVars, holdVars, steadyVars, moveVars,
                workVars, Spoilt
  <2> QED BY <2>1, <2>2
<1>2. Executing' = Executing
  BY <1>1 DEF Executing
<1>3. SceneInv' /\ MoveInv' /\ FailInv'
  BY <1>1, <1>2, SceneKept, MoveSame, FailKept DEF QueueInv, SchedInv, SceneInv, Spoilt
<1>4. HoldInv'
  BY <1>1, HoldSame DEF QueueInv, SchedInv, HoldInv
<1>5. JobInv'
  <2>1. CASE jobs' = jobs
    BY <1>1, <1>2, <2>1, JobKept DEF QueueInv, SchedInv
  <2>2. CASE jobs' = {}
    <3>1. Exits' = Exits
      BY <1>1 DEF Exits
    <3> QED BY <1>1, <1>2, <2>2, <3>1 DEF QueueInv, SchedInv, JobInv
  <2> QED BY <1>1, <2>1, <2>2
<1> QED BY <1>3, <1>4, <1>5 DEF SchedInv

\* A worker only moves its jobs to the pipe.
LEMMA QueueWorker == ASSUME QueueInv, Worker PROVE SchedInv'
<1>1. UNCHANGED unlessJob
  BY DEF Worker, JobReport, JobExit
<1>2. UNCHANGED <<request, runq_running, runq_complete, runq_tasksrun, failed_tids,
                  stats_active, sq, sq_live, sq_active, sq_deferred, update_tasks, changed,
                  todo, pending_migrations, holdoff_tasks, tasks_covered,
                  holdoff_need_update, pc>>
  BY <1>1 DEF unlessJob, runqVars, sceneVars, holdVars, steadyVars, moveVars
<1>3. Executing' = Executing
  BY <1>2 DEF Executing
<1>4. SceneInv' /\ MoveInv' /\ FailInv'
  BY <1>2, <1>3, SceneKept, MoveSame, FailKept DEF QueueInv, SchedInv, SceneInv, Spoilt
<1>5. HoldInv'
  BY <1>2, HoldSame DEF QueueInv, SchedInv, HoldInv
<1>6. pipe \in Seq(Message) /\ jobs \subseteq Job
  BY DEF QueueInv, TypeOK, WorkType
<1>7. ASSUME NEW j \in jobs, NEW h \in Hash, JobReport(j, h) PROVE JobInv'
  <2> DEFINE new == [j EXCEPT !.hash = h, !.told = TRUE]
             m == [type |-> "unihash", task |-> j.task, hash |-> h]
  <2>1. new.task = j.task /\ new.setscene = j.setscene
    BY <1>6 DEF Job
  <2>2. jobs' = (jobs \ {j}) \cup {new} /\ pipe' = Append(pipe, m)
    BY <1>7 DEF JobReport
  <2>3. Exits' = Exits /\ \A i \in Exits : pipe'[i] = pipe[i]
    BY <1>6, <2>2 DEF Exits
  <2> HIDE DEF new, m
  <2>4. JobInv
    BY DEF QueueInv, SchedInv
  <2>5. \A k \in jobs' : k.task \in (IF k.setscene THEN sq_live' ELSE Executing')
    BY <1>2, <1>3, <2>1, <2>2, <2>4 DEF JobInv
  <2>6. \A k, l \in jobs' : k.task = l.task => k = l
    BY <2>1, <2>2, <2>4 DEF JobInv
  <2>7. ASSUME NEW i \in Exits'
        PROVE  /\ pipe'[i].task \in sq_live' \cup Executing'
               /\ \A k \in jobs' : k.task # pipe'[i].task
    <3>1. i \in Exits /\ pipe'[i] = pipe[i]
      BY <2>3
    <3>2. /\ pipe[i].task \in sq_live \cup Executing
          /\ \A k \in jobs : k.task # pipe[i].task
      BY <2>4, <3>1 DEF JobInv
    <3>3. \A k \in jobs' : k.task # pipe[i].task
      BY <2>1, <2>2, <3>2
    <3> QED BY <1>2, <1>3, <3>1, <3>2, <3>3
  <2>8. \A i, k \in Exits' : pipe'[i].task = pipe'[k].task => i = k
    BY <2>3, <2>4 DEF JobInv
  <2> QED BY <2>5, <2>6, <2>7, <2>8 DEF JobInv
<1>8. ASSUME NEW j \in jobs, NEW ok \in BOOLEAN, JobExit(j, ok) PROVE JobInv'
  <2> DEFINE m == [type |-> "exit", task |-> j.task, ok |-> ok]
             n == Len(pipe) + 1
  <2>1. jobs' = jobs \ {j} /\ pipe' = Append(pipe, m)
    BY <1>8 DEF JobExit
  <2>2. /\ Exits' = Exits \cup {n} /\ pipe'[n] = m /\ n \notin Exits
        /\ \A i \in Exits : pipe'[i] = pipe[i]
    BY <1>6, <2>1 DEF Exits
  <2>3. m.task = j.task
    OBVIOUS
  <2> HIDE DEF m, n
  <2>4. j.task \in sq_live \cup Executing /\ \A i \in Exits : pipe[i].task # j.task
    BY DEF QueueInv, SchedInv, JobInv
  <2>5. \A k \in jobs' : k.task # j.task
    BY <2>1 DEF QueueInv, SchedInv, JobInv
  <2>6. JobInv
    BY DEF QueueInv, SchedInv
  <2>7. \A k \in jobs' : k.task \in (IF k.setscene THEN sq_live' ELSE Executing')
    BY <1>2, <1>3, <2>1, <2>6 DEF JobInv
  <2>8. \A k, l \in jobs' : k.task = l.task => k = l
    BY <2>1, <2>6 DEF JobInv
  <2>9. ASSUME NEW i \in Exits'
        PROVE  /\ pipe'[i].task \in sq_live' \cup Executing'
               /\ \A k \in jobs' : k.task # pipe'[i].task
    <3>1. CASE i = n
      BY <1>2, <1>3, <2>2, <2>3, <2>4, <2>5, <3>1
    <3>2. CASE i # n
      <4>1. i \in Exits /\ pipe'[i] = pipe[i]
        BY <2>2, <3>2
      <4> QED BY <1>2, <1>3, <2>1, <2>6, <4>1 DEF JobInv
    <3> QED BY <3>1, <3>2
  <2>10. ASSUME NEW i \in Exits', NEW k \in Exits', pipe'[i].task = pipe'[k].task
         PROVE  i = k
    <3>1. CASE i \in Exits /\ k \in Exits
      BY <2>2, <2>6, <2>10, <3>1 DEF JobInv
    <3>2. CASE i \notin Exits \/ k \notin Exits
      BY <2>2, <2>3, <2>4, <2>10, <3>2
    <3> QED BY <3>1, <3>2
  <2> QED BY <2>7, <2>8, <2>9, <2>10 DEF JobInv
<1>9. JobInv'
  BY <1>7, <1>8 DEF Worker
<1> QED BY <1>4, <1>5, <1>9 DEF SchedInv

-----------------------------------------------------------------------------
(* The invariant holds *)

LEMMA QueueInit == Init => QueueInv
<1> SUFFICES ASSUME Init PROVE QueueInv
  OBVIOUS
<1>1. TypeOK
  BY InitType
<1>2. PICK present \in SUBSET Setscene, q \in SqSets :
        /\ sq = SqSkip(q, present)
        /\ q.running = {} /\ q.covered = {} /\ q.notcovered = {}
        /\ q.buildable = {t \in Setscene : sq_revdeps[t] = {}}
  <2> DEFINE present == {t \in Setscene :
                           \/ sqstamp[Stamp[t]] = Unihash0[t]
                           \/ StampCurrentBelow(t, stamp, sqstamp, {})}
             q == [buildable |-> {t \in Setscene : sq_revdeps[t] = {}},
                   running |-> {}, covered |-> {}, notcovered |-> {},
                   done |-> unskippable \ Setscene]
  <2>1. sq = SqSkip(q, present)
    BY Zenon DEF Init
  <2>2. q \in SqSets
    BY GraphType DEF SqSets
  <2>3. present \in SUBSET Setscene
    OBVIOUS
  <2>4. /\ q.running = {} /\ q.covered = {} /\ q.notcovered = {}
        /\ q.buildable = {t \in Setscene : sq_revdeps[t] = {}}
    OBVIOUS
  <2> HIDE DEF q, present
  <2> QED BY <2>1, <2>2, <2>3, <2>4
<1>3. /\ sq_live = {} /\ update_tasks = {} /\ todo = {} /\ pending_migrations = {} /\ ~changed
      /\ runq_running = {} /\ runq_complete = {} /\ failed_tids = {} /\ stats_active = 0
      /\ sq_active = 0 /\ jobs = {} /\ pipe = <<>> /\ holdoff_need_update = TRUE /\ pc = "read"
  BY DEF Init
<1>4. SceneOK(q, {}, {})
  <2>1. ASSUME NEW c \in q.buildable PROVE Needing(c) = {}
    BY <1>2, NeedingWaits
  <2> QED BY <1>2, <2>1 DEF SceneOK, Resolved, SqSets
<1>5. SceneOK(sq, {}, {})
  <2>1. {} \ present = {}
    OBVIOUS
  <2>2. SceneOK(sq, {} \ present, {})
    BY <1>2, <1>4, SkipOK
  <2> QED BY <2>1, <2>2
<1>6. SceneInv
  BY <1>3, <1>5, FS_EmptySet DEF SceneInv, Late
<1>7. MoveInv /\ HoldInv
  BY <1>3 DEF MoveInv, HoldInv, UpToDate
<1>8. JobInv
  BY <1>3 DEF JobInv, Exits
<1>9. FailInv
  <2>1. Executing = {}
    BY <1>3 DEF Executing
  <2> QED BY <1>3, <2>1, FS_EmptySet DEF FailInv
<1> QED BY <1>1, <1>6, <1>7, <1>8, <1>9 DEF QueueInv, SchedInv

LEMMA QueueNext == QueueInv /\ [Next]_vars => QueueInv'
<1> SUFFICES ASSUME QueueInv, [Next]_vars PROVE QueueInv'
  OBVIOUS
<1>1. TypeOK'
  BY TypeNext DEF QueueInv
<1>2. ASSUME Read PROVE SchedInv'
  BY <1>2, QueueSqRead, QueueComplete, QueueFail, QueueMoveOn DEF Read
<1>3. ASSUME Migrations PROVE SchedInv'
  BY <1>3, QueueRehash, QueueMigrate, QueueMigrateNot, QueueMigrateEnd DEF Migrations
<1>4. ASSUME SceneStep PROVE SchedInv'
  BY <1>4, QueueSqDecided, QueueSqStart, QueueMoveOn, QueueHoldoff DEF SceneStep
<1>5. ASSUME RunStep PROVE SchedInv'
  BY <1>5, QueueRefuse, QueueOutright, QueueStart, QueueSpawnFail, QueueMoveOn, QueueTailForce
     DEF RunStep
<1>6. ASSUME \/ Finish \/ WorkerQuit \/ TornDown \/ FinishGone \/ Stop \/ ForceStop
             \/ Terminated \/ UNCHANGED vars
      PROVE  SchedInv'
  BY <1>6, QueueFinish
<1>7. ASSUME Worker PROVE SchedInv'
  BY <1>7, QueueWorker
<1>8. SchedInv'
  BY <1>2, <1>3, <1>4, <1>5, <1>6, <1>7 DEF Next, Server
<1> QED BY <1>1, <1>8 DEF QueueInv

LEMMA QueueAlways == Spec => []QueueInv
BY QueueInit, QueueNext, PTL DEF Spec

-----------------------------------------------------------------------------
(* What follows from the invariant *)

\* In every build, a task executes only when its own setscene task, and every
\* one that would make it unnecessary, has been decided.
THEOREM NothingTooEarly == Spec => []DecidedFirst
<1>1. QueueInv => DecidedFirst
  <2> SUFFICES ASSUME QueueInv, NEW t \in Executing, NEW u \in Setscene,
                      t \in sq_covered_tasks[u] \cup {u}
               PROVE  u \in Resolved(sq)
    BY DEF DecidedFirst
  <2>1. t \in runq_running \ runq_complete
    BY DEF Executing
  <2>2. IsDecided(t, sq, runq_complete)
    BY <2>1 DEF QueueInv, SchedInv, HoldInv
  <2> QED BY <2>1, <2>2 DEF IsDecided
<1> QED BY <1>1, QueueAlways, PTL

\* There is never a second job of a task while one lives, or before its exit
\* was read: the exit that is read can be told to be t's or t_setscene's.
THEOREM ExitsTold == Spec => []ExitUnambiguous
<1>1. QueueInv => ExitUnambiguous
  BY DEF QueueInv, SchedInv, JobInv, ExitUnambiguous, Ordinary, FromCache
<1> QED BY <1>1, QueueAlways, PTL

\* "Task %s marked as completed but now needing to rerun? Aborting build." is
\* never said: a task skipped as covered is covered by setscene tasks that came
\* from the cache, and those never migrate again.
THEOREM RerunNeverNeeded == Spec => []NoRerun
BY NoRerunHolds, QueueAlways, PTL
=============================================================================
