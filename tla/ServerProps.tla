----------------------------- MODULE ServerProps -----------------------------
(***************************************************************************)
(* What the server promises to its clients, and they to each other.        *)
(***************************************************************************)
EXTENDS Server

Elements(s) == {s[i] : i \in 1..Len(s)}

-----------------------------------------------------------------------------
(* Invariants *)

\* Nobody starts a server while there is one, and while a server listens the
\* socket on disk is there for others to find.
OneServer == /\ \A c \in Clients : pc[c] = "startServer" => main = "off"
             /\ Listening /\ main # "off" => sockfile

\* A client that the server has let in and that is still there has its turn,
\* or is in a list of those that will have it.
NobodyForgotten ==
    \A k \in Conns : conn[k].up /\ conn[k].open =>
        k \in Elements(backlog) \cup Elements(newconnections) \cup {controllersock}

\* The outcomes of the command of k in a queue.
OutcomesIn(s, k) == {i \in 1..Len(s) : s[i].of = k}

\* The outcome of a command is fired once at most: it is kept for a UI, or one
\* has been told, if the client itself was no longer there somebody else.
ToldOnce ==
    \A k \in Conns :
        /\ Cardinality({l \in Conns : OutcomesIn(inbox[l], k) # {}})
             + Cardinality(OutcomesIn(ui_queue, k)) <= 1
        /\ \A l \in Conns : Cardinality(OutcomesIn(inbox[l], k)) <= 1

-----------------------------------------------------------------------------
(* Steps *)

\* The server has dealt with a stop or an abort from c.
Stopped(c) == halts[c] > 0 /\ conn[Current(c)].cmd = None

\* A build the user has stopped does not begin, and begins no more tasks.
StopHonoured ==
    [][rq' # rq /\ rq'.mode = "run" =>
         \A c \in Clients : command = Current(c) => ~Stopped(c)]_vars

-----------------------------------------------------------------------------
(* Liveness *)

Gone(c) == pc[c] = "gone"

\* Every client comes to an end, unless the server is killed: it is served, it
\* is told that the server ends, or it has used up its retries.
ClientsEnd == (\A c \in Clients : <>Gone(c)) \/ <>(signals.kill < Kills)

\* Without clients, and without being told to stay, a server ends.
ServerEnds == timeout # "never" =>
                  []((\A c \in Clients : Gone(c)) => <>(main = "off"))

\* bitbake --kill-server: when it reports that the server is terminated, the
\* server it spoke to ends.
KillEnds == \A c \in Clients :
    pc[c] = "terminate" ~> main = "off"
=============================================================================
