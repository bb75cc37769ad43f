------------------------------- MODULE Publish -------------------------------
(***************************************************************************)
(* Builders that publish packages of one recipe.  Each looks up the        *)
(* unihash of its do_package, does the task or takes it from the shared    *)
(* state cache, reports what it made, and asks the PR server for the       *)
(* number of the package, with the unihash as the checksum.                *)
(*                                                                         *)
(* The client of the hash server tries again when a connection breaks:     *)
(* the server may have served the request, may serve it later, or never.   *)
(***************************************************************************)
EXTENDS HashServ, PRServ

CONSTANTS
  Builders,
  Package,     \* the version and architecture that is built
  Retries,     \* how often a client connects anew; 3 in the code
  MaxBuilds, MaxFaults  \* bounds: builds; lost connections, steps back of the clock,
                        \* and ends of the PR server

ASSUME PublishAssumption ==
    /\ Checksums = Hashes /\ Package \in Packages /\ Askers = Builders
    /\ {Retries, MaxBuilds, MaxFaults} \subseteq Nat

VARIABLES
  phase,       \* where each builder is
  hash,        \* taskhash of its do_package
  unihash,     \* and the unihash of the build
  cached,      \* the entry of do_package in unitaskhashes
  out,         \* the outhash it has reported, or None
  wire,        \* "idle", "sent", "answered" or "failed": its connection
  message, answer, count,  \* what was sent, what came back, and _send_wrapper's count
  strays,      \* requests in connections nobody listens to any more
  sstate,      \* the unihashes that are in the shared state cache
  bounds       \* what is left of the bounds

siggen == <<hash, unihash, cached, out>>
wires == <<wire, message, answer, count>>
vars == <<rows, steady, prserv, phase, siggen, wires, strays, sstate, bounds>>

NoEntry == [taskhash |-> None, unihash |-> None]
NoMessage == [op |-> "none"]

Init ==
    /\ rows = <<>> /\ steady = TRUE /\ PRInit
    /\ phase = [b \in Builders |-> "idle"]
    /\ hash = [b \in Builders |-> None] /\ unihash = [b \in Builders |-> None]
    /\ cached = [b \in Builders |-> NoEntry] /\ out = [b \in Builders |-> None]
    /\ wire = [b \in Builders |-> "idle"] /\ answer = [b \in Builders |-> None]
    /\ message = [b \in Builders |-> NoMessage] /\ count = [b \in Builders |-> 0]
    /\ strays = {} /\ sstate = {}
    /\ bounds = [builds |-> MaxBuilds, faults |-> MaxFaults]

Goto(b, p) == phase' = [phase EXCEPT ![b] = p]
NoHashServ == UNCHANGED <<rows, steady, strays>>

-----------------------------------------------------------------------------
(* The connections of hashserv.client *)

Send(b, m) ==
    /\ wire' = [wire EXCEPT ![b] = "sent"]
    /\ message' = [message EXCEPT ![b] = m]
    /\ count' = [count EXCEPT ![b] = 0]
    /\ UNCHANGED answer
Received(b) ==
    /\ wire' = [wire EXCEPT ![b] = "idle"]
    /\ message' = [message EXCEPT ![b] = NoMessage]
    /\ answer' = [answer EXCEPT ![b] = None] /\ count' = [count EXCEPT ![b] = 0]

\* The first step back of the clock is a fault.
ClockStep ==
    IF steady /\ ~steady'
    THEN bounds.faults > 0 /\ bounds' = [bounds EXCEPT !.faults = @ - 1]
    ELSE UNCHANGED bounds

Serve(b) ==
    /\ wire[b] = "sent"
    /\ \E a \in Hashes \cup {None} : /\ Dispatch(message[b], a) /\ ClockStep
                                     /\ answer' = [answer EXCEPT ![b] = a]
    /\ wire' = [wire EXCEPT ![b] = "answered"]
    /\ UNCHANGED <<prserv, phase, siggen, message, count, strays, sstate>>

\* The server meets a request whose connection has been given up.
ServeStray(m) ==
    /\ strays' = strays \ {m}
    /\ \E a \in Hashes \cup {None} : Dispatch(m, a)
    /\ ClockStep
    /\ UNCHANGED <<prserv, phase, siggen, wires, sstate>>

\* _send_wrapper: the connection breaks before the request is served, or the
\* answer is lost; connect and send again, or HashConnectionError.
Break(b) ==
    /\ wire[b] \in {"sent", "answered"} /\ bounds.faults > 0
    /\ bounds' = [bounds EXCEPT !.faults = @ - 1]
    /\ \/ UNCHANGED strays
       \/ wire[b] = "sent" /\ strays' = strays \cup {message[b]}
    /\ wire' = [wire EXCEPT ![b] = IF count[b] < Retries THEN "sent" ELSE "failed"]
    /\ count' = [count EXCEPT ![b] = @ + 1]
    /\ answer' = [answer EXCEPT ![b] = None]
    /\ UNCHANGED <<rows, steady, prserv, phase, siggen, message, sstate>>

Answered(b) == wire[b] \in {"answered", "failed"}

-----------------------------------------------------------------------------
(* siggen: SignatureGeneratorUniHashMixIn *)

AskUnihash(b, t) ==
    Send(b, [op |-> "get", taskhash |-> t])
SetUnihash(b, t, u) ==
    cached' = [cached EXCEPT ![b] = [taskhash |-> t, unihash |-> u]]
\* Mutant: an empty answer is taken.
UnihashAnswer(b, t) == answer[b]
\* get_unihash: without an answer the task hash.
Unihash(b, t) == IF answer[b] = None THEN t ELSE answer[b]

\* get_unihash, when the task graph is made
Parse(b) ==
    /\ phase[b] = "idle" /\ bounds.builds > 0
    /\ bounds' = [bounds EXCEPT !.builds = @ - 1]
    /\ \E t \in Hashes :
         /\ hash' = [hash EXCEPT ![b] = t]
         /\ out' = [out EXCEPT ![b] = None]
         /\ IF cached[b].taskhash = t
            THEN /\ unihash' = [unihash EXCEPT ![b] = cached[b].unihash]
                 /\ Goto(b, "build") /\ UNCHANGED wires
            ELSE /\ AskUnihash(b, t) /\ Goto(b, "get")
                 /\ UNCHANGED unihash
    /\ UNCHANGED <<cached, sstate, prserv>> /\ NoHashServ

GotUnihash(b) ==
    /\ phase[b] = "get" /\ Answered(b)
    /\ unihash' = [unihash EXCEPT ![b] = Unihash(b, hash[b])]
    /\ SetUnihash(b, hash[b], Unihash(b, hash[b]))
    /\ Received(b) /\ Goto(b, "build")
    /\ UNCHANGED <<hash, out, sstate, bounds, prserv>> /\ NoHashServ

\* The task is in the shared state cache.
Restore(b) ==
    /\ phase[b] = "build" /\ unihash[b] \in sstate
    /\ Goto(b, "built")
    /\ UNCHANGED <<siggen, wires, sstate, bounds, prserv>> /\ NoHashServ

\* The task is done; sstate_report_unihash reports what it made.
ReportUnihash(b) ==
    /\ phase[b] = "build" /\ Goto(b, "report")
    /\ \E o \in Outhashes :
         /\ out' = [out EXCEPT ![b] = o]
         /\ Send(b, [op |-> "report", taskhash |-> hash[b], outhash |-> o,
                     unihash |-> unihash[b]])
    /\ UNCHANGED <<hash, unihash, cached, sstate, bounds, prserv>> /\ NoHashServ

\* Mutant: the answer is not taken over.
ReportedOwn(b) ==
    /\ phase[b] = "report" /\ Answered(b)
    /\ out' = [out EXCEPT ![b] = IF wire[b] = "failed" THEN None ELSE @]
    /\ sstate' = sstate \cup {unihash[b]}
    /\ Received(b) /\ Goto(b, "built")
    /\ UNCHANGED <<hash, bounds, prserv, unihash, cached>> /\ NoHashServ
\* The server's unihash replaces the own one, and names the object in the
\* shared state cache, which is written afterwards.
Reported(b) ==
    /\ phase[b] = "report" /\ Answered(b)
    /\ IF wire[b] = "failed"
       THEN /\ out' = [out EXCEPT ![b] = None]
            /\ UNCHANGED <<unihash, cached>>
       ELSE /\ unihash' = [unihash EXCEPT ![b] = answer[b]]
            /\ IF answer[b] = unihash[b] THEN UNCHANGED cached
               ELSE SetUnihash(b, hash[b], answer[b])
            /\ UNCHANGED out
    /\ sstate' = sstate \cup {unihash'[b]}
    /\ Received(b) /\ Goto(b, "built")
    /\ UNCHANGED <<hash, bounds, prserv>> /\ NoHashServ

\* process_possible_migrations: the unihash of something below has changed,
\* and so does the task hash of the task that has run; the cache has the old.
Rehash(b) ==
    /\ phase[b] = "built"
    /\ \E t \in Hashes \ {hash[b]} :
         /\ hash' = [hash EXCEPT ![b] = t]
         /\ AskUnihash(b, t)
    /\ Goto(b, "rehashed")
    /\ UNCHANGED <<unihash, cached, out, sstate, bounds, prserv>> /\ NoHashServ

\* The new task hash is to have the unihash of what was built; the server may
\* not want that.
ReportEquiv(b) ==
    /\ phase[b] = "rehashed" /\ Answered(b)
    /\ SetUnihash(b, hash[b], Unihash(b, hash[b]))
    /\ IF Unihash(b, hash[b]) = unihash[b]
       THEN Received(b) /\ Goto(b, "remapped")
       ELSE /\ Send(b, [op |-> "report-equiv", taskhash |-> hash[b],
                        unihash |-> unihash[b]])
            /\ Goto(b, "equiv")
    /\ UNCHANGED <<hash, unihash, out, sstate, bounds, prserv>> /\ NoHashServ

\* The wish is granted, or nothing changes.
EquivReported(b) ==
    /\ phase[b] = "equiv" /\ Answered(b)
    /\ IF wire[b] = "answered" /\ answer[b] = unihash[b]
       THEN SetUnihash(b, hash[b], unihash[b])
       ELSE UNCHANGED cached
    /\ Received(b) /\ Goto(b, "remapped")
    /\ UNCHANGED <<hash, unihash, out, sstate, bounds, prserv>> /\ NoHashServ

-----------------------------------------------------------------------------
(* package_get_auto_pr *)

\* A builder ends; unitaskhashes is kept for the next build.
Over(B) ==
    LET gone(f) == [b \in Builders |-> IF b \in B THEN None ELSE f[b]] IN
    /\ phase' = [b \in Builders |-> IF b \in B THEN "idle" ELSE phase[b]]
    /\ hash' = gone(hash) /\ unihash' = gone(unihash) /\ out' = gone(out)
    /\ UNCHANGED cached

AskPR(b) ==
    /\ phase[b] \in {"built", "remapped"} /\ Goto(b, "pr")
    /\ Accept([from |-> b, op |-> "getPR", package |-> Package, checksum |-> unihash[b]])
    /\ UNCHANGED <<siggen, wires, sstate, bounds>> /\ NoHashServ

\* The PR server cannot be reached: bb.fatal.
PRFailed(b) ==
    /\ phase[b] \in {"built", "remapped"} /\ prmain \in {"off", "dead"}
    /\ Over({b})
    /\ UNCHANGED <<wires, sstate, bounds, prserv>> /\ NoHashServ

PRAnswers ==
    /\ HandlerGets
    /\ LET q == Head(requestqueue) IN
       /\ q.op = "getPR"
       /\ \E v \in 0..Cardinality(table) + MaxBuilds : GetPR(q, v)
       /\ Over({q.from})
    /\ UNCHANGED <<wires, sstate, bounds>> /\ NoHashServ

\* Whoever waits for an answer when the server ends gets an error.
PREnd == /\ \/ Join /\ UNCHANGED bounds
            \/ /\ bounds.faults > 0 /\ Killed
               /\ bounds' = [bounds EXCEPT !.faults = @ - 1]
         /\ Over({b \in Builders : phase[b] = "pr"})
         /\ UNCHANGED <<wires, sstate>> /\ NoHashServ

\* stop_daemon: the request to quit, or SIGTERM.
PRStop == /\ bounds.faults > 0 /\ bounds' = [bounds EXCEPT !.faults = @ - 1]
          /\ Accept([op |-> "quit"]) \/ Sigterm
          /\ UNCHANGED <<phase, siggen, wires, sstate>> /\ NoHashServ

PRThreads ==
    /\ \/ Start \/ SyncIfDirty \/ HandlerEnds \/ SigtermQuits
       \/ HandlerGets /\ Head(requestqueue).op = "quit" /\ Quit(Head(requestqueue))
    /\ UNCHANGED <<phase, siggen, wires, sstate, bounds>> /\ NoHashServ

Next ==
    \/ \E b \in Builders :
         \/ Serve(b) \/ Break(b) \/ Parse(b) \/ GotUnihash(b) \/ Restore(b)
         \/ ReportUnihash(b) \/ Reported(b) \/ Rehash(b) \/ ReportEquiv(b)
         \/ EquivReported(b) \/ AskPR(b) \/ PRFailed(b)
    \/ \E m \in strays : ServeStray(m)
    \/ PRAnswers \/ PREnd \/ PRStop \/ PRThreads

Spec == Init /\ [][Next]_vars
=============================================================================
