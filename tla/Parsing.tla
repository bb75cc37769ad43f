------------------------------- MODULE Parsing -------------------------------
(***************************************************************************)
(* CookerParser and its pool of parsers.  Each parser has its share of the *)
(* recipes; the results come back through one queue, from a buffer in each *)
(* parser through a pipe that has a limit.  What a parser has learnt of    *)
(* the code in the recipes it saves in a file when it exits, and the       *)
(* cooker merges these files into the cache of the code parser.            *)
(*                                                                         *)
(* The recipes are those that have to be parsed; those found in the recipe *)
(* cache are loaded before.  Of the two multi-process caches one is        *)
(* modelled.  A parser is not killed while half a result is in the pipe.   *)
(***************************************************************************)
EXTENDS Naturals, FiniteSets, Sequences

CONSTANTS
  Parsers, Recipes,
  Chunk,     \* the recipes of each parser
  Capacity,  \* how many results the pipe holds
  Pid,       \* the process id of each parser
  OldFiles,  \* the names of extras an earlier bitbake has left
  Old,       \* stands for what they hold
  None,
  MaxKills   \* bound: parsers killed

ASSUME ChunkAssumption ==
    /\ Chunk \in [Parsers -> SUBSET Recipes] /\ UNION {Chunk[p] : p \in Parsers} = Recipes
    /\ \A p, q \in Parsers : p # q => Chunk[p] \cap Chunk[q] = {} /\ Pid[p] # Pid[q]
ASSUME NamesAssumption == Pid \in [Parsers -> Nat] /\ OldFiles \subseteq Nat /\ Old \notin Parsers
ASSUME NoneAssumption == None \notin {"complete", "clean", "force", "abandoned"}
ASSUME CapacityAssumption == {Capacity, MaxKills} \subseteq Nat /\ Capacity > 0
ASSUME FinitePool == IsFiniteSet(Recipes) /\ IsFiniteSet(Parsers)

VARIABLES
  state,   \* of the cooker: "parsing" or "forceshutdown"
  main,    \* where the cooker is
  how,     \* what shutdown was called for, or None
  parsed,  \* results counted
  added,   \* recipes in the recipe caches
  memory, disk, \* whose extras are in cachedata, and in the cache file
  quitting, quit, \* tokens in the buffer of parser_quit, and in its pipe
  results, \* the pipe of result_queue
  pc, jobs, job, \* each parser, its jobs left, and the one it is at
  buffer,  \* results it has put and its feeder thread has not written
  name,    \* the number it tries for its file of extras
  extras   \* the files of extras: [name, of, content]

cooker == <<state, main, how, parsed, added, memory, disk>>
parser == <<pc, jobs, job, name>>
vars == <<cooker, quitting, quit, results, parser, buffer, extras>>

ToParse == Cardinality(Recipes)
File(n, p, c) == [name |-> n, of |-> p, content |-> c]
\* late is history: it was written when the queue had been cleaned up.
Result(r, f) == [recipe |-> r, failed |-> f, late |-> FALSE]

Init ==
    /\ state = "parsing" /\ main = "idle" /\ how = None
    /\ parsed = 0 /\ added = {} /\ memory = {} /\ disk = {}
    /\ quitting = 0 /\ quit = 0 /\ results = <<>>
    /\ pc = [p \in Parsers |-> "loop"] /\ jobs = Chunk
    /\ job = [p \in Parsers |-> None] /\ buffer = [p \in Parsers |-> <<>>]
    /\ name = Pid
    /\ extras = {File(n, Old, "whole") : n \in OldFiles}

-----------------------------------------------------------------------------
(* The cooker *)

Ended(p) == pc[p] \in {"exited", "killed"}

\* CookerParser.shutdown, to where it cleans up the queue.
Shutdown(h) ==
    /\ how' = h /\ main' = "drain" /\ quitting' = Cardinality(Parsers)

\* updateCache, its first half: a stop is noticed.
UpdateCache ==
    /\ main = "idle"
    /\ IF state = "forceshutdown" THEN Shutdown("force")
       ELSE main' = "update" /\ UNCHANGED <<how, quitting>>
    /\ UNCHANGED <<state, parsed, added, memory, disk, quit, results, parser, buffer, extras>>

\* Its second half, up to parse_next: a SIGTERM in between is forgotten.
EnterParseNext ==
    /\ main = "update" /\ main' = "get" /\ state' = "parsing"
    /\ UNCHANGED <<how, parsed, added, memory, disk, quitting, quit, results, parser,
                   buffer, extras>>

\* Mutant: one result is not waited for.
ParseCompletedEarly ==
    /\ main = "get" /\ parsed + 1 >= ToParse /\ Shutdown("complete")
    /\ UNCHANGED <<state, parsed, added, memory, disk, quit, results, parser, buffer, extras>>
\* parse_next, when parse_generator ends.
ParseCompleted ==
    /\ main = "get" /\ parsed >= ToParse /\ Shutdown("complete")
    /\ UNCHANGED <<state, parsed, added, memory, disk, quit, results, parser, buffer, extras>>

\* parse_next, with a result; without one parse_generator tries again.
ParseNext ==
    /\ main = "get" /\ parsed < ToParse /\ results # <<>>
    /\ results' = Tail(results)
    /\ IF Head(results).failed
       THEN Shutdown("force") /\ UNCHANGED <<parsed, added>>
       ELSE /\ main' = "idle" /\ parsed' = parsed + 1
            /\ added' = added \cup {Head(results).recipe}
            /\ UNCHANGED <<how, quitting>>
    /\ UNCHANGED <<state, memory, disk, quit, parser, buffer, extras>>

\* BBCooker.shutdown, by a command between two calls of updateCache.
StateShutdown ==
    /\ main = "idle" /\ \E h \in {"clean", "force"} : Shutdown(h)
    /\ UNCHANGED <<state, parsed, added, memory, disk, quit, results, parser, buffer, extras>>

\* clientComplete: the client has left, and nobody reads the results.
Abandon ==
    /\ main = "idle" /\ main' = "over" /\ how' = "abandoned"
    /\ UNCHANGED <<state, parsed, added, memory, disk, quitting, quit, results, parser,
                   buffer, extras>>

\* sigterm_exception
Sigterm ==
    /\ state' = "forceshutdown" /\ state # state'
    /\ UNCHANGED <<main, how, parsed, added, memory, disk, quitting, quit, results, parser,
                   buffer, extras>>

\* Mutant: the queue is not cleaned up.
DrainNot ==
    /\ main = "drain" /\ main' = "join"
    /\ UNCHANGED <<state, how, parsed, added, memory, disk, quitting, quit, results, parser,
                   buffer, extras>>
\* "Cleanup the queue", until nothing has come for a while
Drain ==
    /\ main = "drain"
    /\ IF results # <<>> THEN results' = Tail(results) /\ UNCHANGED main
       ELSE main' = "join" /\ UNCHANGED results
    /\ UNCHANGED <<state, how, parsed, added, memory, disk, quitting, quit, parser,
                   buffer, extras>>

\* Mutant: nobody is waited for.
JoinNot ==
    /\ main = "join" /\ main' = "merge"
    /\ UNCHANGED <<state, how, parsed, added, memory, disk, quitting, quit, results, parser,
                   buffer, extras>>
\* The processes are joined; when forced, for 0.1 s each: terminate() does not
\* end them, for the parsers have the cooker's handler of SIGTERM.
Join ==
    /\ main = "join" /\ main' = "merge"
    /\ how = "force" \/ \A p \in Parsers : Ended(p)
    /\ UNCHANGED <<state, how, parsed, added, memory, disk, quitting, quit, results, parser,
                   buffer, extras>>

\* save_merge, under the lock: a file that is cut is not expected, and ends it
\* with an exception before the cache is written.
SaveMerge ==
    /\ main = "merge" /\ main' = "over"
    /\ \A p \in Parsers : pc[p] \notin {"name", "write"}
    /\ \E read \in SUBSET extras :
         /\ memory' = memory \cup {f.of : f \in {g \in read : g.content = "whole"}}
         /\ IF \E f \in extras : f.content = "cut"
            THEN (\A f \in read : f.content # "cut") /\ UNCHANGED disk
            ELSE read = extras /\ disk' = memory'
         /\ extras' = extras \ read
    /\ UNCHANGED <<state, how, parsed, added, quitting, quit, results, parser, buffer>>

\* The feeder threads of the two queues
FeedQuit ==
    /\ quitting > 0 /\ quitting' = quitting - 1 /\ quit' = quit + 1
    /\ UNCHANGED <<cooker, results, parser, buffer, extras>>

Feed(p) ==
    /\ buffer[p] # <<>> /\ ~Ended(p) /\ Len(results) < Capacity
    /\ results' = Append(results, [Head(buffer[p]) EXCEPT !.late = main = "join"])
    /\ buffer' = [buffer EXCEPT ![p] = Tail(@)]
    /\ UNCHANGED <<cooker, quitting, quit, parser, extras>>

-----------------------------------------------------------------------------
(* A parser *)

At(p, l) == pc[p] = l
Goto(p, l) == pc' = [pc EXCEPT ![p] = l]

\* realrun: self.quit
Quit(p) ==
    /\ At(p, "loop") /\ quit > 0 /\ quit' = quit - 1 /\ Goto(p, "close")
    /\ UNCHANGED <<cooker, quitting, results, jobs, job, name, buffer, extras>>

\* realrun: self.jobs.  A token is missed while another parser looks for one.
PopJob(p) ==
    /\ At(p, "loop") /\ (quit = 0 \/ \E q \in Parsers \ {p} : At(q, "loop"))
    /\ IF jobs[p] = {} THEN Goto(p, "close") /\ UNCHANGED <<jobs, job>>
       ELSE \E r \in jobs[p] : /\ jobs' = [jobs EXCEPT ![p] = @ \ {r}]
                               /\ job' = [job EXCEPT ![p] = r]
                               /\ Goto(p, "parse")
    /\ UNCHANGED <<cooker, quitting, quit, results, name, buffer, extras>>

\* parse, and the result or the exception is put into the queue, which has no
\* limit but that of its pipe.
Parse(p) ==
    /\ At(p, "parse") /\ Goto(p, "loop") /\ job' = [job EXCEPT ![p] = None]
    /\ \E f \in BOOLEAN :
         buffer' = [buffer EXCEPT ![p] = Append(@, Result(job[p], f))]
    /\ UNCHANGED <<cooker, quitting, quit, results, jobs, name, extras>>

\* results.close and join_thread; save_extras, to where it has the shared lock.
Close(p) ==
    /\ At(p, "close") /\ buffer[p] = <<>> /\ Goto(p, "name")
    /\ UNCHANGED <<cooker, quitting, quit, results, jobs, job, name, buffer, extras>>

Locked(p) == \E q \in Parsers : At(q, "write") /\ name[q] = name[p]
\* Mutant: a file that exists is written again.
FreeName(p) == ~Locked(p)
\* The lock of the name is free, and there is no file of that name.
Free(p) == ~Locked(p) /\ \A f \in extras : f.name # name[p]

\* save_extras: the loop
TryName(p) ==
    /\ At(p, "name")
    /\ IF Free(p) THEN Goto(p, "write") /\ UNCHANGED name
       ELSE name' = [name EXCEPT ![p] = @ + 1] /\ UNCHANGED pc
    /\ UNCHANGED <<cooker, quitting, quit, results, jobs, job, buffer, extras>>

Written(p, c) == {f \in extras : f.name # name[p]} \cup {File(name[p], p, c)}
SaveExtras(p) ==
    /\ At(p, "write") /\ Goto(p, "exited") /\ extras' = Written(p, "whole")
    /\ UNCHANGED <<cooker, quitting, quit, results, jobs, job, name, buffer>>

\* Out of memory, say: what was put is lost, a file may be empty or cut.
Killed(p) ==
    /\ ~Ended(p) /\ Cardinality({q \in Parsers : At(q, "killed")}) < MaxKills
    /\ Goto(p, "killed")
    /\ \/ UNCHANGED extras
       \/ At(p, "write") /\ \E c \in {"empty", "cut"} : extras' = Written(p, c)
    /\ UNCHANGED <<cooker, quitting, quit, results, jobs, job, name, buffer>>

-----------------------------------------------------------------------------
Cooker == \/ UpdateCache \/ EnterParseNext \/ ParseCompleted \/ ParseNext
          \/ Drain \/ Join \/ SaveMerge

Step(p) == \/ Quit(p) \/ PopJob(p) \/ Parse(p) \/ Close(p) \/ TryName(p)
           \/ SaveExtras(p)

Next == \/ Cooker \/ StateShutdown \/ Abandon \/ Sigterm \/ FeedQuit
        \/ \E p \in Parsers : Step(p) \/ Feed(p) \/ Killed(p)

Spec == Init /\ [][Next]_vars

\* Processes and threads are scheduled, and every recipe is parsed in the end.
FairSpec ==
    /\ Spec /\ WF_vars(Cooker) /\ WF_vars(FeedQuit)
    /\ \A p \in Parsers : WF_vars(Step(p)) /\ WF_vars(Feed(p))
=============================================================================
