------------------------------- MODULE Server -------------------------------
(***************************************************************************)
(* The bitbake processes of one build directory.  Each of them takes the   *)
(* lock bitbake.lock and starts a server, or connects to the one that has  *)
(* the lock.  The server has one client at a time, keeps the others in a   *)
(* list, and ends when it has none and no reason to stay.                  *)
(*                                                                         *)
(* A client is the UI knotty with one command, or bitbake --kill-server.   *)
(* A connection <<c, n>> is the n-th of client c, which tries Retries      *)
(* times.  Clients may die anywhere; the server may be killed or get a     *)
(* SIGTERM.  The XML-RPC interface is left out.                            *)
(***************************************************************************)
EXTENDS Cooker, FiniteSets

CONSTANTS
  Clients,   \* bitbake processes
  Retries,   \* retries of setup_bitbake; 8 in the code
  Backlog,   \* the queue of the socket, listen(Backlog); 1 in the code
  Kinds,     \* what clients are: "knotty" or "kill"
  Timeouts,  \* server_timeout or BB_SERVER_TIMEOUT: "none", "some", "never" (-1)
  Kills, Terms  \* bounds: how often the server is killed, or gets a SIGTERM

ASSUME ClientsAssumption == "server" \notin Clients /\ None \notin Clients \cup {"server"}
ASSUME RetriesAssumption == Retries \in Nat \ {0}
ASSUME BacklogAssumption == Backlog \in Nat
ASSUME PairsAssumption == Conns = Clients \X (1..Retries)

VARIABLES
  main,           \* where the server is in main; "off" when there is none
  ready,          \* what select returned: [sock, control, command]
  controllersock, \* the connection in control, or None
  command_channel,\* the connection commands are read from, or None
  newconnections, \* connections that were accepted and wait
  backlog,        \* connections that were not accepted yet
  hadanyui, quit, timeout,
  lock,           \* who has bitbake.lock: a client, "server" or None
  sockfile,       \* bitbake.sock is on disk
  signals,        \* [kill, term]: signals left to come
  pc,             \* where each client is in setup_bitbake and in its UI
  tries,          \* the attempt it is at
  kind,           \* what it is
  halts,          \* main.shutdown of knotty
  conn            \* both ends of each connection

loop == <<ready, controllersock, command_channel, newconnections, backlog, hadanyui, quit>>
life == <<timeout, lock, sockfile, signals>>
client == <<pc, tries, kind, halts>>
vars == <<cooker, events, main, loop, life, client, conn>>

\* sent: descriptors wait in the socket; cmd and answer: what is in the pipes;
\* open and up: the client's end of the socket, and the server's, are open; pipe:
\* the client's end of the pipe for commands is.
NoConn == [sent |-> FALSE, cmd |-> None, answer |-> None,
           open |-> FALSE, up |-> FALSE, pipe |-> FALSE]
NotReady == [sock |-> FALSE, control |-> None, command |-> None]

\* The server has its socket open.
Listening == main \notin {"off", "closed", "served"}
Current(c) == <<c, tries[c]>>

Init ==
    /\ CookerInit
    /\ main = "off" /\ ready = NotReady
    /\ controllersock = None /\ command_channel = None
    /\ newconnections = <<>> /\ backlog = <<>>
    /\ hadanyui = FALSE /\ quit = FALSE
    /\ timeout \in Timeouts /\ lock = None /\ sockfile = FALSE
    /\ signals = [kill |-> Kills, term |-> Terms]
    /\ pc = [c \in Clients |-> "lockBitbake"]
    /\ tries = [c \in Clients |-> 1]
    /\ kind \in [Clients -> Kinds]
    /\ halts = [c \in Clients |-> 0]
    /\ conn = [k \in Conns |-> NoConn]

-----------------------------------------------------------------------------
(* The loop of ProcessServer.main *)

ToMain(l) == main' = l
TopOfLoop == ToMain(IF quit' THEN "exit" ELSE "accept")
\* A step of the server that the clients do not see.
Servers == UNCHANGED <<life, client>>

ControlReadable(k) == k # None /\ (conn[k].sent \/ ~conn[k].open)
CommandReadable(k) == k # None /\ (conn[k].cmd # None \/ ~conn[k].pipe)

\* self.sock in ready: the first is in control if nobody is.
Accept ==
    /\ main = "accept" /\ ToMain("control")
    /\ IF ready.sock /\ backlog # <<>>
       THEN /\ backlog' = <<>>
            /\ IF controllersock = None
               THEN /\ controllersock' = Head(backlog)
                    /\ newconnections' = newconnections \o Tail(backlog)
               ELSE /\ newconnections' = newconnections \o backlog
                    /\ UNCHANGED controllersock
       ELSE UNCHANGED <<backlog, controllersock, newconnections>>
    /\ UNCHANGED <<ready, command_channel, hadanyui, quit, conn, cooker, events>>
    /\ Servers

\* Mutant: the clients that wait are forgotten.
DisconnectForgets ==
    /\ IF command_channel # None
       THEN /\ ClientComplete /\ uiready' = None /\ UNCHANGED <<ui_queue, inbox>>
       ELSE UNCHANGED <<cooker, events>>
    /\ controllersock' = None /\ newconnections' = <<>> /\ command_channel' = None
    /\ quit' = (quit \/ (timeout = "none" /\ backlog = <<>>))
    /\ conn' = [conn EXCEPT ![controllersock].up = FALSE]
    /\ UNCHANGED <<backlog, hadanyui>>
\* disconnect_client: the last that came is next.
DisconnectClient ==
    /\ IF command_channel # None
       THEN /\ ClientComplete /\ uiready' = None /\ UNCHANGED <<ui_queue, inbox>>
       ELSE UNCHANGED <<cooker, events>>
    /\ command_channel' = None
    /\ IF newconnections # <<>>
       THEN /\ controllersock' = newconnections[Len(newconnections)]
            /\ newconnections' = SubSeq(newconnections, 1, Len(newconnections) - 1)
            /\ UNCHANGED quit
       ELSE /\ controllersock' = None
            /\ quit' = (quit \/ (timeout = "none" /\ backlog = <<>>))
            /\ UNCHANGED newconnections
    /\ conn' = [conn EXCEPT ![controllersock].up = FALSE]
    /\ UNCHANGED <<backlog, hadanyui>>

\* self.controllersock in ready: recvfds, or EOFError.
Control ==
    /\ main = "control" /\ ToMain("command")
    /\ LET k == controllersock IN
       IF k = None \/ ready.control # k
       THEN UNCHANGED <<loop, conn, cooker, events>>
       ELSE \/ /\ conn[k].sent
               /\ conn' = [conn EXCEPT ![k].sent = FALSE]
               /\ command_channel' = k /\ uiready' = k /\ hadanyui' = TRUE
               /\ UNCHANGED <<ready, controllersock, newconnections, backlog, quit,
                              ui_queue, inbox, cooker>>
            \/ /\ ~conn[k].sent
               /\ DisconnectClient /\ UNCHANGED ready
    /\ Servers

\* Mutant: without maxuiwait.
IdlingNever == command_channel = None /\ timeout = "some"
Idling == command_channel = None
          /\ (timeout = "some" \/ (timeout = "none" /\ ~hadanyui))
\* The timeout or maxuiwait is over.  With nobody in control nothing happens
\* between this test, before a command is read, and the next select.
TimersOver ==
    /\ main = "select" /\ Idling /\ ~quit
    /\ quit' = TRUE
    /\ UNCHANGED <<main, ready, controllersock, command_channel, newconnections,
                   backlog, hadanyui, conn, cooker, events>>
    /\ Servers

\* ready is not looked at any more before the next select.
ReadyUsed ==
    /\ ready' = NotReady
    /\ UNCHANGED <<controllersock, command_channel, newconnections, backlog, hadanyui,
                   quit>>

\* self.command_channel in ready
NoCommand ==
    /\ main = "command" /\ ToMain("idle")
    /\ command_channel = None \/ ready.command # command_channel
    /\ ReadyUsed /\ UNCHANGED <<conn, cooker, events>>
    /\ Servers

Command ==
    /\ main = "command"
    /\ LET k == command_channel
           c == conn[k].cmd IN
       /\ k # None /\ ready.command = k /\ c \notin {None, "terminateServer"}
       /\ \E reply \in {"ok", "error"} :
            /\ RunCommand(c, k, reply)
            /\ conn' = [conn EXCEPT ![k].cmd = None, ![k].answer = reply]
    /\ ToMain("idle") /\ ReadyUsed
    /\ Servers

TerminateServer ==
    /\ main = "command"
    /\ LET k == command_channel IN
       /\ k # None /\ ready.command = k /\ conn[k].cmd = "terminateServer"
       /\ conn' = [conn EXCEPT ![k].cmd = None]
    /\ quit' = TRUE /\ ToMain("exit")
    /\ ready' = NotReady
    /\ UNCHANGED <<controllersock, command_channel, newconnections, backlog,
                   hadanyui, cooker, events>>
    /\ Servers

\* EOFError: the rest of the loop is left out.
CommandEof ==
    /\ main = "command"
    /\ LET k == command_channel IN
       k # None /\ ready.command = k /\ conn[k].cmd = None
    /\ ready' = NotReady
    /\ DisconnectClient /\ TopOfLoop
    /\ Servers

-----------------------------------------------------------------------------
(* idle_commands *)

IdleStep(l) == ToMain(l) /\ UNCHANGED <<loop, conn>> /\ Servers

RunCommands ==
    /\ main = "idle" /\ "runCommands" \in idlefuns
    /\ \/ (CommandHalted \/ CommandRuns) /\ IdleStep("select")
       \/ PrepareParser /\ IdleStep("updateCache")

Parsing ==
    \/ main = "updateCache" /\ SetParsing /\ IdleStep("parse_next")
    \/ /\ main = "parse_next"
       /\ ParseMore \/ ParseFails \/ ParseEnds
       /\ IdleStep("select")

\* Jobs run, and none of them ends in this call.
BuildWaits ==
    /\ main = "idle" /\ "runCommands" \notin idlefuns
    /\ ExecuteRunqueue /\ rq'.left = rq.left /\ ~BuildEnded'
    /\ IdleStep("select")

BuildGoesOn ==
    /\ main = "idle" /\ "runCommands" \notin idlefuns
    /\ ExecuteRunqueue /\ (rq'.left # rq.left \/ BuildEnded')
    /\ IdleStep("executed")

BuildTargetsIdle ==
    /\ main = "executed"
    /\ \/ ~BuildEnded /\ UNCHANGED <<cooker, events>>
       \/ BuildEnded /\ FinishBuild
    /\ IdleStep("select")

\* An event handler raises an exception for BuildCompleted.
IdleRaises ==
    /\ main = "executed" /\ BuildEnded /\ FinishBuild
    /\ quit' = TRUE /\ ToMain("select")
    /\ UNCHANGED <<ready, controllersock, command_channel, newconnections, backlog,
                   hadanyui, conn>>
    /\ Servers

IdleNothing ==
    /\ main = "idle" /\ idlefuns = {}
    /\ IdleStep("select") /\ UNCHANGED <<cooker, events>>

\* A heartbeat event is due.
Heartbeat ==
    /\ main = "select" /\ uiready # None /\ ui_queue # <<>>
    /\ Fire(<<>>)
    /\ UNCHANGED <<main, loop, conn, cooker>>
    /\ Servers

\* select; a round that finds nothing to do is not told apart from waiting.
Select ==
    /\ main = "select"
    /\ ready' = [sock    |-> backlog # <<>>,
                 control |-> IF ControlReadable(controllersock)
                             THEN controllersock ELSE None,
                 command |-> IF CommandReadable(command_channel)
                             THEN command_channel ELSE None]
    /\ ready' # NotReady \/ idlefuns # {} \/ quit
    /\ ToMain(IF quit THEN "exit" ELSE "accept")
    /\ UNCHANGED <<controllersock, command_channel, newconnections, backlog,
                   hadanyui, quit, conn, cooker, events>>
    /\ Servers

-----------------------------------------------------------------------------
(* The end of the server *)

Dropped(ks) == [k \in Conns |-> IF k \in ks THEN [conn[k] EXCEPT !.up = FALSE] ELSE conn[k]]

\* Mutant: the lock is released with the socket.
CloseReleases ==
    /\ main = "exit" /\ ToMain("closed")
    /\ sockfile' = FALSE /\ lock' = None
    /\ conn' = Dropped({backlog[i] : i \in 1..Len(backlog)})
    /\ backlog' = <<>>
    /\ UNCHANGED <<ready, controllersock, command_channel, newconnections, hadanyui,
                   quit, timeout, signals, client, cooker, events>>
\* The socket goes first, so that nobody connects any more.
CloseSocket ==
    /\ main = "exit" /\ ToMain("closed")
    /\ sockfile' = FALSE
    /\ conn' = Dropped({backlog[i] : i \in 1..Len(backlog)})
    /\ backlog' = <<>>
    /\ UNCHANGED <<ready, controllersock, command_channel, newconnections, hadanyui,
                   quit, timeout, lock, signals, client, cooker, events>>

Served ==
    /\ main = "closed" /\ ToMain("served")
    /\ PostServe
    /\ UNCHANGED <<loop, life, client, conn>>

Off == /\ main' = "off" /\ ready' = NotReady
       /\ controllersock' = None /\ command_channel' = None
       /\ newconnections' = <<>> /\ backlog' = <<>>
       /\ hadanyui' = FALSE /\ quit' = FALSE
       /\ FreshCooker /\ uiready' = None /\ ui_queue' = <<>>
       /\ conn' = Dropped(Conns)
       /\ lock' = None

\* lock.close(); what is then done to delete the file is in Lockfile.
ReleaseLock ==
    /\ main = "served" /\ Off
    /\ UNCHANGED <<timeout, sockfile, signals, client, inbox>>

Killed ==
    /\ main # "off" /\ signals.kill > 0
    /\ signals' = [signals EXCEPT !.kill = @ - 1]
    /\ Off
    /\ pc' = [c \in Clients |-> IF pc[c] = "booting" THEN "gone" ELSE pc[c]]
    /\ UNCHANGED <<timeout, sockfile, tries, kind, halts, inbox>>

Signalled ==
    /\ main \notin {"off", "boot"} /\ signals.term > 0
    /\ signals' = [signals EXCEPT !.term = @ - 1]
    /\ Sigterm
    /\ UNCHANGED <<main, loop, timeout, lock, sockfile, client, conn>>

\* _startServer: the cooker is made, or that fails.
Boot ==
    /\ main = "boot"
    /\ \/ /\ ToMain("accept")
          /\ pc' = [c \in Clients |-> IF pc[c] = "booting" THEN "connect" ELSE pc[c]]
          /\ UNCHANGED <<loop, cooker, events, conn, lock>>
       \/ /\ Off /\ UNCHANGED inbox
          /\ pc' = [c \in Clients |-> IF pc[c] = "booting" THEN "gone" ELSE pc[c]]
    /\ UNCHANGED <<timeout, sockfile, signals, tries, kind, halts>>

-----------------------------------------------------------------------------
(* A client: setup_bitbake, connectProcessServer, and the UI *)

NoServer == UNCHANGED <<main, loop, cooker>>
Goto(c, l) == pc' = [pc EXCEPT ![c] = l]
Step(c, from, to) == pc[c] = from /\ Goto(c, to) /\ UNCHANGED <<tries, kind, halts>>
Closed(c) == conn' = [conn EXCEPT ![Current(c)].open = FALSE, ![Current(c)].pipe = FALSE]
\* The client is through; its descriptors are closed.
Leave(c) == /\ Goto(c, "gone") /\ Closed(c)
            /\ UNCHANGED <<tries, kind, halts>>

\* lockBitbake(), which does not wait
LockBitbake(c) ==
    /\ \/ /\ lock = None
          /\ Step(c, "lockBitbake", IF kind[c] = "kill" THEN "notRunning" ELSE "startServer")
          /\ lock' = c
       \/ /\ lock # None
          /\ Step(c, "lockBitbake", "reconnect") /\ UNCHANGED lock
    /\ UNCHANGED <<timeout, sockfile, signals, conn, events>> /\ NoServer

Reconnect(c) ==
    /\ Step(c, "reconnect", IF sockfile THEN "connect" ELSE "waitLock")
    /\ UNCHANGED <<life, conn, events>> /\ NoServer

\* "Previous bitbake instance shutting down": the lock is tried for 5 s.
WaitLock(c) ==
    /\ \/ lock = None /\ Step(c, "waitLock", "unlock") /\ lock' = c
       \/ lock # None /\ Step(c, "waitLock", "retry") /\ UNCHANGED lock
    /\ UNCHANGED <<timeout, sockfile, signals, conn, events>> /\ NoServer

\* The lock is given back by a client that has taken it to no purpose.
Unlock(c) ==
    /\ Step(c, "unlock", "retry") \/ Step(c, "notRunning", "gone")
    /\ lock' = None
    /\ UNCHANGED <<timeout, sockfile, signals, conn, events>> /\ NoServer

\* BitBakeServer: a socket that was left behind is replaced.
StartServer(c) ==
    /\ Step(c, "startServer", "booting")
    /\ ToMain("boot") /\ lock' = "server" /\ sockfile' = TRUE
    /\ UNCHANGED <<timeout, signals, loop, conn, cooker, events>>

\* An exception: once more, until the retries are used up.
Retry(c) ==
    /\ pc[c] = "retry"
    /\ IF tries[c] < Retries
       THEN /\ Goto(c, "lockBitbake")
            /\ tries' = [tries EXCEPT ![c] = @ + 1]
       ELSE Goto(c, "gone") /\ UNCHANGED tries
    /\ UNCHANGED <<kind, halts, life, conn, events>> /\ NoServer

\* A socket that nobody listens at refuses the client, and so does one whose
\* queue is full, as the client's socket has a time-out.
Refused == ~(Listening /\ sockfile) \/ Len(backlog) > Backlog
Connect(c) ==
    /\ \/ /\ ~Refused
          /\ Step(c, "connect", "sendfds")
          /\ conn' = [conn EXCEPT ![Current(c)].open = TRUE, ![Current(c)].up = TRUE]
          /\ backlog' = Append(backlog, Current(c))
       \/ /\ Refused
          /\ Step(c, "connect", "retry") /\ UNCHANGED <<conn, backlog>>
    /\ UNCHANGED <<main, ready, controllersock, command_channel, newconnections,
                   hadanyui, quit, cooker, events, life>>

Send(c, cmd) == conn' = [conn EXCEPT ![Current(c)].cmd = cmd]

\* sendfds, and the command setFeatures
SendFds(c) ==
    /\ Step(c, "sendfds", "setFeatures")
    /\ conn' = [conn EXCEPT ![Current(c)].sent = TRUE, ![Current(c)].pipe = TRUE,
                            ![Current(c)].cmd = "setFeatures"]
    /\ UNCHANGED <<life, events>> /\ NoServer

Answer(c) == conn[Current(c)].answer
\* The server has gone, and the pipe for the answers with it.
Eof(c) == Answer(c) = None /\ ~conn[Current(c)].up

\* The answer to setFeatures; none within 60 s, or none at all: ProcessTimeout
\* or EOFError.
Featured(c) ==
    /\ pc[c] = "setFeatures"
    /\ \/ /\ Answer(c) = "ok"
          /\ Goto(c, IF kind[c] = "kill" THEN "terminate" ELSE "getVariable")
          /\ conn' = [conn EXCEPT ![Current(c)].answer = None,
                        ![Current(c)].cmd = IF kind[c] = "kill" THEN "terminateServer"
                                            ELSE "getVariable"]
       \/ Answer(c) = "error" /\ Goto(c, "gone") /\ Closed(c)
       \/ /\ Answer(c) = None /\ Goto(c, "hangup")
          /\ conn' = [conn EXCEPT ![Current(c)].pipe = FALSE]
    /\ UNCHANGED <<tries, kind, halts, life, events>> /\ NoServer

\* The socket goes after the pipe: the server may see the end of either first.
HangUp(c) ==
    /\ Step(c, "hangup", "retry") /\ Closed(c)
    /\ UNCHANGED <<life, events>> /\ NoServer

\* connection.terminate() of a client that has asked the server to end
Terminated(c) ==
    /\ pc[c] = "terminate" /\ Leave(c)
    /\ UNCHANGED <<life, events>> /\ NoServer

\* The UI sends its action; afterwards it waits for events.
Action(c) ==
    /\ pc[c] \in {"getVariable", "action"}
    /\ IF Answer(c) = "ok"
       THEN /\ Goto(c, IF pc[c] = "action" THEN "events" ELSE "action")
            /\ conn' = [conn EXCEPT ![Current(c)].answer = None,
                          ![Current(c)].cmd = IF pc[c] = "action" THEN None
                                              ELSE "buildTargets"]
            /\ UNCHANGED <<tries, kind, halts>>
       ELSE (Answer(c) = "error" \/ Eof(c)) /\ Leave(c)
    /\ UNCHANGED <<life, events>> /\ NoServer

\* KeyboardInterrupt: stop, then abort, then leave.
Interrupt(c) ==
    /\ pc[c] = "events" /\ halts[c] < 2
    /\ Goto(c, "halting")
    /\ halts' = [halts EXCEPT ![c] = @ + 1]
    /\ Send(c, IF halts[c] = 0 THEN "stateShutdown" ELSE "stateForceShutdown")
    /\ UNCHANGED <<tries, kind, life, events>> /\ NoServer

Interrupted(c) ==
    /\ pc[c] = "halting"
    /\ \/ /\ Answer(c) # None
          /\ conn' = [conn EXCEPT ![Current(c)].answer = None]
          /\ Goto(c, "events") /\ UNCHANGED <<tries, kind, halts>>
       \/ Eof(c) /\ Leave(c)
    /\ UNCHANGED <<life, events>> /\ NoServer

\* An outcome comes; after the second Control-C knotty does not wait for it.
ReadEvent(c) ==
    /\ pc[c] = "events"
    /\ inbox[Current(c)] # <<>> \/ halts[c] = 2
    /\ Leave(c)
    /\ UNCHANGED <<life, events>> /\ NoServer

\* The client is killed, or a wait of 60 s ends it.
Die(c) ==
    /\ pc[c] \notin {"gone", "lockBitbake", "reconnect", "waitLock", "retry"}
    /\ Leave(c)
    /\ lock' = IF lock = c THEN None ELSE lock
    /\ UNCHANGED <<timeout, sockfile, signals, events>> /\ NoServer

Client(c) ==
    \/ LockBitbake(c) \/ Reconnect(c) \/ WaitLock(c) \/ Unlock(c)
    \/ StartServer(c) \/ Retry(c) \/ Connect(c) \/ SendFds(c)
    \/ Featured(c) \/ HangUp(c) \/ Terminated(c) \/ Action(c) \/ Interrupted(c)
    \/ ReadEvent(c)

Loop == \/ Accept \/ Control \/ NoCommand \/ Command \/ TerminateServer
        \/ CommandEof \/ RunCommands \/ Parsing
        \/ BuildWaits \/ BuildGoesOn \/ BuildTargetsIdle \/ IdleNothing
        \/ Select \/ CloseSocket \/ Served \/ ReleaseLock \/ Boot

Next == \/ Loop \/ TimersOver \/ Heartbeat \/ IdleRaises \/ Killed \/ Signalled
        \/ \E c \in Clients : Client(c) \/ Interrupt(c) \/ Die(c)

Spec == Init /\ [][Next]_vars

(***************************************************************************)
(* Processes go on, time passes, and jobs end.  Nobody has to press Control-C, to    *)
(* die, or to raise an exception.                                          *)
(***************************************************************************)
FairSpec == /\ Spec
            /\ WF_vars(Loop)
            /\ SF_vars(TimersOver)
            /\ SF_vars(BuildGoesOn)
            /\ \A c \in Clients : WF_vars(Client(c))
=============================================================================
