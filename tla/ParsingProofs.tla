---------------------------- MODULE ParsingProofs ----------------------------
(***************************************************************************)
(* No file of extras is lost: theorem ExtrasSafe.  A parser that writes    *)
(* its file is alone with its name, and no file has that name.             *)
(* And nothing is missing when a parsing completes: theorem NothingMissing. *)
(***************************************************************************)
EXTENDS ParsingProps, SequenceTheorems, FiniteSetTheorems, TLAPS

Contents == {"whole", "empty", "cut"}
Files == [name : Nat, of : Parsers \cup {Old}, content : Contents]

Types == /\ pc \in [Parsers -> {"loop", "parse", "close", "name", "write", "exited", "killed"}]
         /\ name \in [Parsers -> Nat]
         /\ extras \subseteq Files

\* What save_extras establishes by the lock of the name and a look at the disk.
Alone == \A p \in Parsers : pc[p] = "write" =>
            /\ \A f \in extras : f.name # name[p]
            /\ \A q \in Parsers : q # p /\ pc[q] = "write" => name[q] # name[p]

IInv == Types /\ Alone /\ ExtrasKept

\* What the steps change that matters here.
seen == <<pc, name, extras, memory>>

\* Steps of the cooker and of the threads that touch neither files nor memory.
LEMMA Unseen == ASSUME IInv, UNCHANGED seen PROVE IInv'
  BY DEF IInv, Types, Alone, ExtrasKept, seen

LEMMA InitInv == Init => IInv
<1> SUFFICES ASSUME Init PROVE IInv
  OBVIOUS
<1>1. Types
  BY NamesAssumption DEF Init, Types, Files, File, Contents
<1>2. Alone
  BY DEF Init, Alone
<1>3. ExtrasKept
  <2> SUFFICES ASSUME NEW x \in Parsers \cup {Old},
                      IF x = Old THEN OldFiles # {} ELSE pc[x] = "exited"
               PROVE  \E f \in extras : f.of = x /\ f.content = "whole"
    BY DEF ExtrasKept
  <2>1. x = Old
    BY DEF Init
  <2>2. PICK n \in OldFiles : TRUE
    BY <2>1
  <2>3. File(n, Old, "whole") \in extras
    BY DEF Init
  <2> QED BY <2>1, <2>3 DEF File
<1> QED BY <1>1, <1>2, <1>3 DEF IInv

\* A parser that goes on, and neither begins nor ends its file.
LEMMA GotoInv ==
  ASSUME IInv, NEW p \in Parsers,
         NEW l \in {"loop", "parse", "close", "name"}, Goto(p, l),
         UNCHANGED <<name, extras, memory>>
  PROVE  IInv'
<1>1. \A q \in Parsers : pc'[q] = IF q = p THEN l ELSE pc[q]
  BY DEF IInv, Types, Goto
<1>2. Types'
  BY DEF IInv, Types, Goto
<1>3. Alone'
  BY <1>1 DEF IInv, Alone
<1>4. ExtrasKept'
  BY <1>1 DEF IInv, ExtrasKept
<1> QED BY <1>2, <1>3, <1>4 DEF IInv

LEMMA TryNameInv == ASSUME IInv, NEW p \in Parsers, TryName(p) PROVE IInv'
<1>0. UNCHANGED <<extras, memory>>
  BY DEF TryName, cooker
<1>1. CASE Free(p)
  <2>1. \A q \in Parsers : pc'[q] = IF q = p THEN "write" ELSE pc[q]
    BY <1>1 DEF TryName, Goto, IInv, Types
  <2>2. Types'
    BY <1>0, <1>1 DEF TryName, Goto, IInv, Types
  <2>3. Alone'
    BY <1>0, <1>1, <2>1 DEF TryName, Free, Locked, At, IInv, Alone
  <2>4. ExtrasKept'
    BY <1>0, <2>1 DEF IInv, ExtrasKept
  <2> QED BY <2>2, <2>3, <2>4 DEF IInv
<1>2. CASE ~Free(p)
  <2>1. /\ pc' = pc /\ pc[p] = "name"
        /\ \A q \in Parsers : name'[q] = IF q = p THEN name[p] + 1 ELSE name[q]
    BY <1>2 DEF TryName, At, IInv, Types
  <2>2. Types'
    BY <1>0, <1>2 DEF TryName, IInv, Types
  <2>3. Alone'
    BY <1>0, <2>1 DEF IInv, Alone
  <2>4. ExtrasKept'
    BY <1>0, <2>1 DEF IInv, ExtrasKept
  <2> QED BY <2>2, <2>3, <2>4 DEF IInv
<1> QED BY <1>1, <1>2

\* The file is written, whole or not, by a parser that ends: no other is lost.
LEMMA WriteInv ==
  ASSUME IInv, NEW p \in Parsers, At(p, "write"), NEW c \in Contents,
         extras' = Written(p, c), UNCHANGED <<name, memory>>,
         NEW l \in {"exited", "killed"}, Goto(p, l), l = "exited" => c = "whole"
  PROVE  IInv'
<1>1. \A q \in Parsers : pc'[q] = IF q = p THEN l ELSE pc[q]
  BY DEF IInv, Types, Goto
<1>2. extras' = extras \cup {File(name[p], p, c)}
  <2>1. \A f \in extras : f.name # name[p]
    BY DEF At, IInv, Alone
  <2>2. {f \in extras : f.name # name[p]} = extras
    BY <2>1
  <2> QED BY <2>2 DEF Written
<1>3. Types'
  BY <1>2 DEF IInv, Types, Files, File, Goto
<1>4. Alone'
  <2> SUFFICES ASSUME NEW q \in Parsers, pc'[q] = "write"
               PROVE  /\ \A f \in extras' : f.name # name[q]
                      /\ \A r \in Parsers : r # q /\ pc'[r] = "write" => name[r] # name[q]
    BY DEF Alone
  <2>1. q # p /\ pc[q] = "write" /\ pc[p] = "write"
    BY <1>1 DEF At
  <2>2. name[p] # name[q]
    BY <2>1 DEF IInv, Alone
  <2> QED BY <1>1, <1>2, <2>1, <2>2 DEF IInv, Alone, File
<1>5. ExtrasKept'
  <2> SUFFICES ASSUME NEW x \in Parsers \cup {Old},
                      IF x = Old THEN OldFiles # {} ELSE pc'[x] = "exited"
               PROVE  x \in memory' \/ \E f \in extras' : f.of = x /\ f.content = "whole"
    BY DEF ExtrasKept
  <2>1. CASE x = p /\ x # Old
    <3>1. c = "whole"
      BY <1>1, <2>1
    <3>2. File(name[p], p, c) \in extras'
      BY <1>2
    <3>3. File(name[p], p, c).of = x /\ File(name[p], p, c).content = "whole"
      BY <2>1, <3>1 DEF File
    <3> QED BY <3>2, <3>3
  <2>2. CASE x # p \/ x = Old
    <3>1. IF x = Old THEN OldFiles # {} ELSE pc[x] = "exited"
      BY <1>1, <2>2
    <3>2. x \in memory \/ \E f \in extras : f.of = x /\ f.content = "whole"
      BY <3>1 DEF IInv, ExtrasKept
    <3> QED BY <1>2, <3>2
  <2> QED BY <2>1, <2>2
<1> QED BY <1>3, <1>4, <1>5 DEF IInv

LEMMA KilledInv == ASSUME IInv, NEW p \in Parsers, Killed(p) PROVE IInv'
<1>0. Goto(p, "killed") /\ UNCHANGED <<name, memory>> /\ pc[p] # "exited"
  BY DEF Killed, cooker, Ended
<1>1. CASE UNCHANGED extras
  <2>1. \A q \in Parsers : pc'[q] = IF q = p THEN "killed" ELSE pc[q]
    BY <1>0 DEF IInv, Types, Goto
  <2>2. Types'
    BY <1>0, <1>1 DEF IInv, Types, Goto
  <2>3. Alone'
    BY <1>0, <1>1, <2>1 DEF IInv, Alone
  <2>4. ExtrasKept'
    BY <1>0, <1>1, <2>1 DEF IInv, ExtrasKept
  <2> QED BY <2>2, <2>3, <2>4 DEF IInv
<1>2. CASE At(p, "write") /\ \E c \in {"empty", "cut"} : extras' = Written(p, c)
  BY <1>0, <1>2, WriteInv DEF Contents
<1> QED BY <1>1, <1>2 DEF Killed

\* What save_merge removes it has in memory, or it was not whole.
LEMMA SaveMergeInv == ASSUME IInv, SaveMerge PROVE IInv'
<1>1. PICK read \in SUBSET extras :
        /\ memory' = memory \cup {f.of : f \in {g \in read : g.content = "whole"}}
        /\ extras' = extras \ read
  BY DEF SaveMerge
<1>2. UNCHANGED <<pc, name>> /\ extras' \subseteq extras
  BY <1>1 DEF SaveMerge, parser
<1>3. Types' /\ Alone'
  BY <1>2 DEF IInv, Types, Alone
<1>4. ExtrasKept'
  <2> SUFFICES ASSUME NEW x \in Parsers \cup {Old},
                      IF x = Old THEN OldFiles # {} ELSE pc[x] = "exited"
               PROVE  x \in memory' \/ \E f \in extras' : f.of = x /\ f.content = "whole"
    BY <1>2 DEF ExtrasKept
  <2>1. x \in memory \/ \E f \in extras : f.of = x /\ f.content = "whole"
    BY DEF IInv, ExtrasKept
  <2> QED BY <1>1, <2>1
<1> QED BY <1>3, <1>4 DEF IInv

LEMMA StepInv == ASSUME IInv, NEW p \in Parsers, Step(p) PROVE IInv'
<1>1. CASE Quit(p) \/ PopJob(p) \/ Parse(p) \/ Close(p)
  <2>1. UNCHANGED <<name, extras, memory>>
    BY <1>1 DEF Quit, PopJob, Parse, Close, cooker
  <2>2. \E l \in {"loop", "parse", "close", "name"} : Goto(p, l)
    BY <1>1 DEF Quit, PopJob, Parse, Close
  <2> QED BY <2>1, <2>2, GotoInv
<1>2. CASE TryName(p)
  BY <1>2, TryNameInv
<1>3. CASE SaveExtras(p)
  BY <1>3, WriteInv DEF SaveExtras, Contents, cooker
<1> QED BY <1>1, <1>2, <1>3 DEF Step

LEMMA NextInv == IInv /\ [Next]_vars => IInv'
<1> SUFFICES ASSUME IInv, [Next]_vars PROVE IInv'
  OBVIOUS
<1>1. CASE SaveMerge
  BY <1>1, SaveMergeInv
<1>2. CASE UpdateCache \/ EnterParseNext \/ ParseCompleted \/ ParseNext
  BY <1>2, Unseen DEF UpdateCache, EnterParseNext, ParseCompleted, ParseNext, Shutdown,
                      parser, seen
<1>3. CASE Drain \/ Join \/ StateShutdown \/ Abandon \/ Sigterm \/ FeedQuit
  BY <1>3, Unseen DEF Drain, Join, StateShutdown, Shutdown, Abandon, Sigterm, FeedQuit,
                      parser, cooker, seen
<1>4. ASSUME NEW p \in Parsers, Step(p) \/ Feed(p) \/ Killed(p) PROVE IInv'
  <2>1. CASE Feed(p)
    BY <2>1, Unseen DEF Feed, parser, cooker, seen
  <2> QED BY <1>4, <2>1, StepInv, KilledInv
<1>5. CASE UNCHANGED vars
  BY <1>5, Unseen DEF vars, parser, cooker, seen
<1> QED BY <1>1, <1>2, <1>3, <1>4, <1>5 DEF Next, Cooker

\* For any number of parsers and recipes, any pipe, any process ids and any
\* files left behind: what a parser has saved with save_extras, and what was
\* there before, stays in a file or is in the memory of the cooker, although
\* parsers are killed and process ids are used again.
THEOREM ExtrasSafe == Spec => []ExtrasKept
<1>1. Init => IInv
  BY InitInv
<1>2. IInv /\ [Next]_vars => IInv'
  BY NextInv
<1>3. IInv => ExtrasKept
  BY DEF IInv
<1> QED BY <1>1, <1>2, <1>3, PTL DEF Spec

-----------------------------------------------------------------------------
(* What a parsing that completes has *)

Sent == [recipe : Recipes, failed : BOOLEAN, late : BOOLEAN]
RecipesOf(s) == {s[i].recipe : i \in 1..Len(s)}
Distinct(s) == \A i, j \in 1..Len(s) : s[i].recipe = s[j].recipe => i = j

\* The recipes of p that it has not put into the pipe yet.
Before(p) == jobs[p] \cup (IF pc[p] = "parse" THEN {job[p]} ELSE {}) \cup RecipesOf(buffer[p])

CountTypes ==
    /\ pc = [p \in Parsers |-> pc[p]] /\ jobs \in [Parsers -> SUBSET Recipes]
    /\ job = [p \in Parsers |-> job[p]]
    /\ buffer \in [Parsers -> Seq(Sent)] /\ results \in Seq(Sent)

\* A recipe is in one place: to be parsed, parsed, under way, or counted.
PlaceInv ==
    /\ \A p \in Parsers :
         /\ Before(p) \subseteq Chunk[p] /\ jobs[p] \cap RecipesOf(buffer[p]) = {}
         /\ pc[p] = "parse" => job[p] \notin jobs[p] \cup RecipesOf(buffer[p])
         /\ Distinct(buffer[p])
         /\ Before(p) \cap (RecipesOf(results) \cup added) = {}
    /\ Distinct(results) /\ RecipesOf(results) \cap added = {}

CountInv == CountTypes /\ PlaceInv /\ added \subseteq Recipes /\ parsed = Cardinality(added)

LEMMA RecipesAppend ==
    ASSUME NEW S, NEW s \in Seq(S), NEW x \in S
    PROVE  /\ RecipesOf(Append(s, x)) = RecipesOf(s) \cup {x.recipe}
           /\ Distinct(s) /\ x.recipe \notin RecipesOf(s) => Distinct(Append(s, x))
<1>1. /\ Len(s) \in Nat /\ Len(Append(s, x)) = Len(s) + 1
      /\ \A i \in 1..Len(s) : Append(s, x)[i] = s[i]
      /\ Append(s, x)[Len(s) + 1] = x
  OBVIOUS
<1>2. 1..Len(Append(s, x)) = 1..Len(s) \cup {Len(s) + 1}
  BY <1>1
<1>3. RecipesOf(Append(s, x)) = RecipesOf(s) \cup {x.recipe}
  BY <1>1, <1>2 DEF RecipesOf
<1>4. ASSUME Distinct(s), x.recipe \notin RecipesOf(s) PROVE Distinct(Append(s, x))
  BY <1>1, <1>2, <1>4 DEF RecipesOf, Distinct
<1> QED BY <1>3, <1>4

LEMMA RecipesTail ==
    ASSUME NEW S, NEW s \in Seq(S), s # <<>>
    PROVE  /\ RecipesOf(s) = {Head(s).recipe} \cup RecipesOf(Tail(s))
           /\ Tail(s) \in Seq(S) /\ Head(s) \in S
           /\ Distinct(s) => Distinct(Tail(s)) /\ Head(s).recipe \notin RecipesOf(Tail(s))
<1>1. /\ Len(s) \in Nat /\ Len(s) > 0 /\ Len(Tail(s)) = Len(s) - 1 /\ Head(s) = s[1]
      /\ \A i \in 1..Len(s) - 1 : Tail(s)[i] = s[i + 1]
      /\ Tail(s) \in Seq(S) /\ Head(s) \in S
  OBVIOUS
<1>2. \A i \in 1..Len(s) - 1 : i + 1 \in 1..Len(s) /\ i + 1 # 1
  BY <1>1
<1>3. 1 \in 1..Len(s)
  BY <1>1
<1>4. \A i \in 1..Len(s) : i = 1 \/ (i - 1 \in 1..Len(s) - 1 /\ (i - 1) + 1 = i)
  BY <1>1
<1>5. RecipesOf(s) = {Head(s).recipe} \cup RecipesOf(Tail(s))
  <2>1. RecipesOf(s) \subseteq {Head(s).recipe} \cup RecipesOf(Tail(s))
    <3> SUFFICES ASSUME NEW i \in 1..Len(s)
                 PROVE  s[i].recipe \in {Head(s).recipe} \cup RecipesOf(Tail(s))
      BY DEF RecipesOf
    <3>1. CASE i = 1
      BY <1>1, <3>1
    <3>2. CASE i # 1
      <4>1. i - 1 \in 1..Len(Tail(s)) /\ Tail(s)[i - 1] = s[i]
        BY <1>1, <1>4, <3>2
      <4> QED BY <4>1 DEF RecipesOf
    <3> QED BY <3>1, <3>2
  <2>2. {Head(s).recipe} \cup RecipesOf(Tail(s)) \subseteq RecipesOf(s)
    BY <1>1, <1>2, <1>3 DEF RecipesOf
  <2> QED BY <2>1, <2>2
<1>6. ASSUME Distinct(s) PROVE Distinct(Tail(s)) /\ Head(s).recipe \notin RecipesOf(Tail(s))
  <2>1. Head(s).recipe \notin RecipesOf(Tail(s))
    BY <1>1, <1>2, <1>3, <1>6 DEF RecipesOf, Distinct
  <2>2. ASSUME NEW i \in 1..Len(s) - 1, NEW j \in 1..Len(s) - 1,
               Tail(s)[i].recipe = Tail(s)[j].recipe
        PROVE  i = j
    <3>1. i + 1 = j + 1
      BY <1>1, <1>2, <1>6, <2>2 DEF Distinct
    <3> QED BY <3>1
  <2> QED BY <1>1, <2>1, <2>2 DEF Distinct
<1> QED BY <1>1, <1>5, <1>6

LEMMA InitCount == Init => CountInv
<1> SUFFICES ASSUME Init PROVE CountInv
  OBVIOUS
<1>1. RecipesOf(<<>>) = {} /\ Distinct(<<>>)
  BY DEF RecipesOf, Distinct
<1>2. \A p \in Parsers : Before(p) = Chunk[p] /\ Chunk[p] \subseteq Recipes
  BY <1>1, ChunkAssumption DEF Init, Before
<1>3. CountTypes
  BY ChunkAssumption DEF Init, CountTypes
<1>4. PlaceInv
  BY <1>1, <1>2 DEF Init, PlaceInv
<1> QED BY <1>3, <1>4, FS_EmptySet DEF Init, CountInv

\* Steps that move no recipe.
LEMMA CountGoes ==
    ASSUME CountInv, UNCHANGED <<jobs, job, buffer, results, added, parsed>>,
           pc' = [p \in Parsers |-> pc'[p]], \A p \in Parsers : pc'[p] = "parse" => pc[p] = "parse"
    PROVE  CountInv'
<1>1. \A p \in Parsers : Before(p)' \subseteq Before(p)
  BY DEF Before
<1>2. PlaceInv'
  BY <1>1 DEF CountInv, PlaceInv
<1> QED BY <1>2 DEF CountInv, CountTypes

LEMMA PopJobCount == ASSUME CountInv, NEW p \in Parsers, PopJob(p) PROVE CountInv'
<1>0. UNCHANGED <<buffer, results, added, parsed>>
  BY DEF PopJob, cooker
<1>1. CASE jobs[p] = {}
  BY <1>0, <1>1, CountGoes DEF PopJob, Goto, CountInv, CountTypes
<1>2. CASE jobs[p] # {}
  <2>1. PICK r \in jobs[p] : /\ jobs' = [jobs EXCEPT ![p] = @ \ {r}]
                             /\ job' = [job EXCEPT ![p] = r] /\ Goto(p, "parse")
    BY <1>2 DEF PopJob
  <2>2. /\ pc'[p] = "parse" /\ job'[p] = r /\ jobs'[p] = jobs[p] \ {r}
        /\ \A q \in Parsers : q # p => pc'[q] = pc[q] /\ job'[q] = job[q] /\ jobs'[q] = jobs[q]
    BY <2>1 DEF Goto, CountInv, CountTypes
  <2>3. CountTypes'
    BY <1>0, <2>1 DEF Goto, CountInv, CountTypes
  <2>4. \A q \in Parsers : Before(q)' \subseteq Before(q)
    BY <1>0, <2>2 DEF Before
  <2>5. PlaceInv'
    BY <1>0, <2>2, <2>4 DEF CountInv, PlaceInv
  <2> QED BY <1>0, <2>3, <2>5 DEF CountInv
<1> QED BY <1>1, <1>2

LEMMA ParseCount == ASSUME CountInv, NEW p \in Parsers, Parse(p) PROVE CountInv'
<1>1. PICK f \in BOOLEAN : buffer' = [buffer EXCEPT ![p] = Append(@, Result(job[p], f))]
  BY DEF Parse
<1> DEFINE x == Result(job[p], f)
<1>2. x \in Sent /\ x.recipe = job[p]
  <2>1. job[p] \in Recipes
    BY ChunkAssumption DEF Parse, At, CountInv, PlaceInv, Before
  <2> QED BY <2>1 DEF Result, Sent
<1>3. UNCHANGED <<jobs, results, added, parsed>> /\ pc[p] = "parse"
  BY DEF Parse, At, cooker
<1> HIDE DEF x
<1>4. /\ pc'[p] = "loop" /\ buffer'[p] = Append(buffer[p], x)
      /\ \A q \in Parsers : q # p => pc'[q] = pc[q] /\ job'[q] = job[q] /\ buffer'[q] = buffer[q]
  BY <1>1 DEF Parse, Goto, CountInv, CountTypes, x
<1>5. /\ RecipesOf(buffer'[p]) = RecipesOf(buffer[p]) \cup {job[p]}
      /\ Distinct(buffer'[p])
  <2>1. buffer[p] \in Seq(Sent)
    BY DEF CountInv, CountTypes
  <2>2. Distinct(buffer[p]) /\ job[p] \notin RecipesOf(buffer[p])
    BY <1>3 DEF CountInv, PlaceInv
  <2> QED BY <1>2, <1>4, <2>1, <2>2, RecipesAppend
<1>6. CountTypes'
  <2>1. buffer' \in [Parsers -> Seq(Sent)]
    <3>1. Append(buffer[p], x) \in Seq(Sent)
      BY <1>2 DEF CountInv, CountTypes
    <3> QED BY <1>1, <3>1 DEF CountInv, CountTypes, x
  <2> QED BY <1>3, <2>1 DEF Parse, Goto, CountInv, CountTypes
<1>7. \A q \in Parsers : Before(q)' = Before(q)
  BY <1>3, <1>4, <1>5 DEF Before
<1>8. PlaceInv'
  BY <1>3, <1>4, <1>5, <1>7 DEF CountInv, PlaceInv
<1> QED BY <1>3, <1>6, <1>8 DEF CountInv

\* A result goes from the buffer of p into the pipe.
LEMMA FeedCount == ASSUME CountInv, NEW p \in Parsers, Feed(p) PROVE CountInv'
<1> DEFINE x == [Head(buffer[p]) EXCEPT !.late = main = "join"]
<1>0. buffer[p] \in Seq(Sent) /\ buffer[p] # <<>> /\ results \in Seq(Sent)
  BY DEF Feed, CountInv, CountTypes
<1>1. /\ RecipesOf(buffer[p]) = {Head(buffer[p]).recipe} \cup RecipesOf(Tail(buffer[p]))
      /\ Tail(buffer[p]) \in Seq(Sent) /\ Head(buffer[p]) \in Sent
      /\ Distinct(buffer[p]) => /\ Distinct(Tail(buffer[p]))
                                /\ Head(buffer[p]).recipe \notin RecipesOf(Tail(buffer[p]))
  BY <1>0, RecipesTail
<1>2. x \in Sent /\ x.recipe = Head(buffer[p]).recipe
  BY <1>1 DEF Sent
<1>3. /\ results' = Append(results, x)
      /\ buffer' = [buffer EXCEPT ![p] = Tail(@)]
      /\ UNCHANGED <<pc, jobs, job, added, parsed>>
  BY DEF Feed, cooker, parser
<1> HIDE DEF x
<1>4. buffer'[p] = Tail(buffer[p]) /\ \A q \in Parsers : q # p => buffer'[q] = buffer[q]
  BY <1>3 DEF CountInv, CountTypes
<1>5. CountTypes'
  <2>1. results' \in Seq(Sent)
    BY <1>0, <1>2, <1>3
  <2>2. buffer' \in [Parsers -> Seq(Sent)]
    BY <1>1, <1>3 DEF CountInv, CountTypes
  <2> QED BY <1>3, <2>1, <2>2 DEF CountInv, CountTypes
<1>6. /\ Distinct(buffer[p]) /\ x.recipe \in Before(p)
      /\ x.recipe \notin RecipesOf(results) \cup added
  <2>1. x.recipe \in Before(p)
    BY <1>1, <1>2 DEF Before
  <2> QED BY <2>1 DEF CountInv, PlaceInv
<1>7. RecipesOf(results') = RecipesOf(results) \cup {x.recipe} /\ Distinct(results')
  BY <1>0, <1>2, <1>3, <1>6, RecipesAppend DEF CountInv, PlaceInv
<1>8. \A q \in Parsers : q # p => Before(q)' = Before(q)
  BY <1>3, <1>4 DEF Before
<1>9. Before(p)' \subseteq Before(p) \ {x.recipe}
  <2>1. x.recipe \notin jobs[p] /\ (pc[p] = "parse" => job[p] # x.recipe)
    BY <1>1, <1>2 DEF CountInv, PlaceInv
  <2> QED BY <1>1, <1>2, <1>3, <1>4, <1>6, <2>1 DEF Before
<1>10. \A q \in Parsers : q # p => x.recipe \notin Before(q)
  BY <1>6, ChunkAssumption DEF CountInv, PlaceInv
<1>11. PlaceInv'
  <2>1. ASSUME NEW q \in Parsers
        PROVE  /\ Before(q)' \subseteq Chunk[q] /\ jobs'[q] \cap RecipesOf(buffer'[q]) = {}
               /\ pc'[q] = "parse" => job'[q] \notin jobs'[q] \cup RecipesOf(buffer'[q])
               /\ Distinct(buffer'[q])
               /\ Before(q)' \cap (RecipesOf(results') \cup added') = {}
    <3>1. CASE q = p
      BY <1>1, <1>3, <1>4, <1>6, <1>7, <1>9, <3>1 DEF CountInv, PlaceInv
    <3>2. CASE q # p
      BY <1>3, <1>4, <1>7, <1>8, <1>10, <3>2 DEF CountInv, PlaceInv
    <3> QED BY <3>1, <3>2
  <2> QED BY <1>3, <1>6, <1>7, <2>1 DEF CountInv, PlaceInv
<1> QED BY <1>3, <1>5, <1>11 DEF CountInv

\* The cooker takes a result, and counts it or not.
LEMMA TakeCount ==
    ASSUME CountInv, results # <<>>, results' = Tail(results), UNCHANGED parser, UNCHANGED buffer,
           \/ UNCHANGED <<parsed, added>>
           \/ parsed' = parsed + 1 /\ added' = added \cup {Head(results).recipe}
    PROVE  CountInv'
<1> DEFINE r == Head(results).recipe
<1>1. /\ RecipesOf(results) = {r} \cup RecipesOf(results') /\ results' \in Seq(Sent)
      /\ Head(results) \in Sent /\ Distinct(results') /\ r \notin RecipesOf(results')
  BY RecipesTail DEF CountInv, CountTypes, PlaceInv
<1>2. r \in Recipes
  BY <1>1 DEF Sent
<1> HIDE DEF r
<1>3. CountTypes'
  BY <1>1 DEF CountInv, CountTypes, parser
<1>4. \A p \in Parsers : Before(p)' = Before(p)
  BY DEF Before, parser
<1>5. PlaceInv'
  <2>1. /\ RecipesOf(results') \cup added' \subseteq RecipesOf(results) \cup added
        /\ RecipesOf(results') \cap added' = {}
    BY <1>1 DEF CountInv, PlaceInv, r
  <2> QED BY <1>1, <1>4, <2>1 DEF CountInv, PlaceInv, parser
<1>6. added' \subseteq Recipes /\ parsed' = Cardinality(added')
  <2>1. CASE UNCHANGED <<parsed, added>>
    BY <2>1 DEF CountInv
  <2>2. CASE parsed' = parsed + 1 /\ added' = added \cup {r}
    <3>1. IsFiniteSet(added) /\ r \notin added
      BY <1>1, FinitePool, FS_Subset DEF CountInv, PlaceInv
    <3>2. Cardinality(added') = Cardinality(added) + 1
      BY <2>2, <3>1, FS_AddElement
    <3> QED BY <1>2, <2>2, <3>2 DEF CountInv
  <2> QED BY <2>1, <2>2 DEF r
<1> QED BY <1>3, <1>5, <1>6 DEF CountInv

LEMMA NextCount == CountInv /\ [Next]_vars => CountInv'
<1> SUFFICES ASSUME CountInv, [Next]_vars PROVE CountInv'
  OBVIOUS
<1>1. ASSUME UNCHANGED <<parser, buffer, results, added, parsed>> PROVE CountInv'
  <2>1. pc' = pc /\ pc' = [p \in Parsers |-> pc'[p]] /\ UNCHANGED <<jobs, job>>
    BY <1>1 DEF parser, CountInv, CountTypes
  <2> QED BY <1>1, <2>1, CountGoes
<1>2. CASE \/ UpdateCache \/ EnterParseNext \/ ParseCompleted \/ Join \/ SaveMerge \/ StateShutdown
           \/ Abandon \/ Sigterm \/ FeedQuit \/ UNCHANGED vars
  BY <1>1, <1>2 DEF UpdateCache, EnterParseNext, ParseCompleted, Join, SaveMerge, StateShutdown,
                    Abandon, Sigterm, FeedQuit, Shutdown, vars, cooker
<1>3. CASE ParseNext
  BY <1>3, TakeCount DEF ParseNext
<1>4. CASE Drain
  <2>1. UNCHANGED <<parser, buffer, parsed, added>>
    BY <1>4 DEF Drain
  <2> QED BY <1>1, <1>4, <2>1, TakeCount DEF Drain
<1>5. ASSUME NEW p \in Parsers, Step(p) \/ Feed(p) \/ Killed(p) PROVE CountInv'
  <2>1. CASE Quit(p) \/ Close(p) \/ TryName(p) \/ SaveExtras(p) \/ Killed(p)
    <3>1. UNCHANGED <<jobs, job, buffer, results, added, parsed>>
      BY <2>1 DEF Quit, Close, TryName, SaveExtras, Killed, cooker
    <3>2. pc' = pc \/ \E l : l # "parse" /\ Goto(p, l)
      BY <2>1 DEF Quit, Close, TryName, SaveExtras, Killed
    <3> QED BY <3>1, <3>2, CountGoes DEF Goto, CountInv, CountTypes
  <2> QED BY <1>5, <2>1, PopJobCount, ParseCount, FeedCount DEF Step
<1> QED BY <1>2, <1>3, <1>4, <1>5 DEF Next, Cooker

\* As long as results are read nothing has been shut down.  Shut down because
\* all is parsed, the cooker waits for all parsers before it merges what they
\* have left, and files that are cut are left by those that were killed only.
OverInv ==
    /\ main \in {"idle", "update", "get"} => how = None
    /\ how = "complete" => added = Recipes
    /\ how = "complete" /\ main \in {"merge", "over"} => \A p \in Parsers : Ended(p)
    /\ \A f \in extras : f.content = "cut" => f.of \in Parsers /\ pc[f.of] = "killed"
    /\ main = "over" /\ how = "complete" /\ (\A p \in Parsers : pc[p] # "killed") =>
           \A x \in Parsers \cup {Old} : (x = Old => OldFiles # {}) => x \in disk

LEMMA InitOver == Init => OverInv
BY NoneAssumption DEF Init, OverInv, File

\* What has ended stays so.
LEMMA EndedStays ==
    ASSUME IInv, NEW p \in Parsers, Step(p) \/ Feed(p) \/ Killed(p)
    PROVE  /\ \A q \in Parsers : Ended(q) => pc'[q] = pc[q]
           /\ \A q \in Parsers : q # p => pc'[q] = pc[q]
           /\ UNCHANGED cooker
BY DEF Step, Quit, PopJob, Parse, Close, TryName, SaveExtras, Feed, Killed, Ended, At, Goto,
       IInv, Types, parser

LEMMA ParserOver ==
    ASSUME IInv, OverInv, NEW p \in Parsers, Step(p) \/ Feed(p) \/ Killed(p) PROVE OverInv'
<1>1. /\ \A q \in Parsers : Ended(q) => pc'[q] = pc[q]
      /\ UNCHANGED cooker
  BY EndedStays
<1>2. \A q \in Parsers : Ended(q) => Ended(q)'
  BY <1>1 DEF Ended
<1>3. \A q \in Parsers : pc[q] = "killed" => pc'[q] = "killed"
  BY <1>1 DEF Ended
<1>4. ASSUME NEW f \in extras', f.content = "cut"
      PROVE  f.of \in Parsers /\ pc'[f.of] = "killed"
  <2>1. CASE f \in extras
    BY <1>3, <1>4, <2>1 DEF OverInv
  <2>2. CASE f \notin extras
    <3>1. PICK c : /\ extras' = Written(p, c)
                   /\ (SaveExtras(p) /\ c = "whole") \/ Killed(p)
      BY <2>2 DEF Step, Quit, PopJob, Parse, Close, TryName, SaveExtras, Feed, Killed
    <3>2. f.of = p /\ f.content = c
      BY <2>2, <3>1 DEF Written, File
    <3>3. Killed(p)
      BY <1>4, <3>1, <3>2
    <3>4. pc'[p] = "killed"
      BY <3>3 DEF Killed, Goto, IInv, Types
    <3> QED BY <3>2, <3>4
  <2> QED BY <2>1, <2>2
<1>5. (\A q \in Parsers : pc'[q] # "killed") => \A q \in Parsers : pc[q] # "killed"
  BY <1>3
<1> QED BY <1>1, <1>2, <1>4, <1>5 DEF OverInv, cooker

LEMMA MergeOver == ASSUME IInv, OverInv, SaveMerge PROVE OverInv'
<1>1. UNCHANGED <<how, added, pc>> /\ main = "merge" /\ main' = "over" /\ extras' \subseteq extras
  BY DEF SaveMerge, parser
<1>2. ASSUME how = "complete", \A p \in Parsers : pc[p] # "killed",
             NEW x \in Parsers \cup {Old}, x = Old => OldFiles # {}
      PROVE  x \in disk'
  <2>1. \A f \in extras : f.content # "cut"
    BY <1>2 DEF OverInv
  <2>2. /\ disk' = memory'
        /\ memory' = memory \cup {f.of : f \in {g \in extras : g.content = "whole"}}
    BY <2>1 DEF SaveMerge
  <2>3. x # Old => pc[x] = "exited"
    BY <1>1, <1>2 DEF OverInv, Ended
  <2>4. x \in memory \/ \E f \in extras : f.of = x /\ f.content = "whole"
    BY <1>2, <2>3 DEF IInv, ExtrasKept
  <2> QED BY <2>2, <2>4
<1>3. \A p \in Parsers : Ended(p)' = Ended(p)
  BY <1>1 DEF Ended
<1> QED BY <1>1, <1>2, <1>3 DEF OverInv

LEMMA NextOver == CountInv /\ IInv /\ OverInv /\ [Next]_vars => OverInv'
<1> SUFFICES ASSUME CountInv, IInv, OverInv, [Next]_vars PROVE OverInv'
  OBVIOUS
<1>1. ASSUME UNCHANGED <<pc, extras, disk>>,
             main' \in {"idle", "update", "get"} => how' = None,
             how' = "complete" => added' = Recipes,
             how' = "complete" /\ main' \in {"merge", "over"} =>
                 \/ how = "complete" /\ (main' = "over" => main = "over")
                       /\ main \in {"merge", "over"}
                 \/ main' = "merge" /\ \A p \in Parsers : Ended(p)
      PROVE  OverInv'
  BY <1>1 DEF OverInv, Ended
<1>2. CASE UpdateCache \/ StateShutdown \/ EnterParseNext \/ Abandon \/ ParseNext
  BY <1>1, <1>2, NoneAssumption DEF UpdateCache, StateShutdown, EnterParseNext, Abandon, ParseNext, Shutdown,
                    OverInv, parser
<1>3. CASE ParseCompleted
  <2>1. added = Recipes
    <3>1. added \subseteq Recipes /\ parsed = Cardinality(added) /\ parsed >= Cardinality(Recipes)
      BY <1>3 DEF ParseCompleted, CountInv, ToParse
    <3>2. IsFiniteSet(Recipes)
      BY FinitePool
    <3>3. /\ Cardinality(added) <= Cardinality(Recipes)
          /\ Cardinality(Recipes) = Cardinality(added) => Recipes = added
      BY <3>1, <3>2, FS_Subset
    <3>4. Cardinality(added) \in Nat /\ Cardinality(Recipes) \in Nat
      BY <3>1, <3>2, FS_Subset, FS_CardinalityType
    <3> QED BY <3>1, <3>3, <3>4
  <2> QED BY <1>1, <1>3, <2>1 DEF ParseCompleted, Shutdown, parser
<1>4. CASE Drain \/ Sigterm \/ FeedQuit \/ UNCHANGED vars
  BY <1>1, <1>4 DEF Drain, Sigterm, FeedQuit, OverInv, vars, cooker, parser
<1>5. CASE Join
  BY <1>1, <1>5 DEF Join, OverInv, parser
<1>6. CASE SaveMerge
  BY <1>6, MergeOver
<1>7. ASSUME NEW p \in Parsers, Step(p) \/ Feed(p) \/ Killed(p) PROVE OverInv'
  BY <1>7, ParserOver
<1> QED BY <1>2, <1>3, <1>4, <1>5, <1>6, <1>7 DEF Next, Cooker

\* A parsing that completes has every recipe, and none is counted twice,
\* however the parsers share the pipe and whatever is cut off by a kill; and if
\* none was killed the cache on disk has what all of them have learnt.
THEOREM NothingMissing == Spec => []Complete
<1>1. Init => CountInv /\ IInv /\ OverInv
  BY InitCount, InitInv, InitOver
<1>2. CountInv /\ IInv /\ OverInv /\ [Next]_vars => (CountInv /\ IInv /\ OverInv)'
  BY NextCount, NextInv, NextOver
<1>3. OverInv => Complete
  <2> SUFFICES ASSUME OverInv, main = "over", how = "complete", \A p \in Parsers : pc[p] # "killed"
               PROVE  Parsers \cup {f.of : f \in {File(n, Old, "whole") : n \in OldFiles}}
                          \subseteq disk
    BY DEF OverInv, Complete
  <2>1. \A n \in OldFiles : File(n, Old, "whole").of = Old
    BY DEF File
  <2>2. \A x \in Parsers : x # Old
    BY NamesAssumption
  <2> QED BY <2>1, <2>2 DEF OverInv
<1> QED BY <1>1, <1>2, <1>3, PTL DEF Spec
=============================================================================
