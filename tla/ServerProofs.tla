----------------------------- MODULE ServerProofs -----------------------------
(***************************************************************************)
(* For any number of bitbake processes: one server at a time.  The lock    *)
(* goes from the client that takes it to the server it starts, and is      *)
(* given back by the server when its socket is gone, or by the kernel.     *)
(* No client that was let in is lost among those that wait.  A build that  *)
(* its client has stopped does not go on, and of the end of a command      *)
(* somebody is told once.                                                  *)
(***************************************************************************)
EXTENDS ServerProps, SequenceTheorems, FiniteSetTheorems, TLAPS

\* Who has the lock: the server as long as it lives, before that the client
\* that is about to start it; and for a moment one that does not want it.
Holding == {"startServer", "unlock", "notRunning"}
LockInv ==
    /\ lock = "server" <=> main # "off"
    /\ \A c \in Clients : pc[c] \in Holding => lock = c
    /\ pc = [c \in Clients |-> pc[c]]
    /\ Listening /\ main # "off" => sockfile

LEMMA InitLock == Init => LockInv
BY ClientsAssumption DEF Init, LockInv, Holding, Listening

\* Steps of the loop, from one place to another, leave the lock alone.
LEMMA InnerLock ==
    ASSUME LockInv, UNCHANGED <<lock, sockfile, pc>>, main # "off",
           main' \notin {"off", "closed", "served"}, main \notin {"closed", "served"}
    PROVE  LockInv'
BY DEF LockInv, Holding, Listening

LEMMA RoundLock ==
    ASSUME LockInv,
           \/ Accept \/ Control \/ NoCommand \/ Command \/ TerminateServer \/ CommandEof
           \/ RunCommands \/ Parsing \/ BuildWaits \/ BuildGoesOn \/ BuildTargetsIdle
           \/ IdleNothing \/ Select \/ TimersOver \/ Heartbeat \/ IdleRaises
    PROVE  LockInv'
<1>1. UNCHANGED <<lock, sockfile, pc>>
  BY DEF Accept, Control, NoCommand, Command, TerminateServer, CommandEof, RunCommands,
         Parsing, BuildWaits, BuildGoesOn, BuildTargetsIdle, IdleNothing, Select,
         TimersOver, Heartbeat, IdleRaises, IdleStep, Servers, life, client
<1>2. main \notin {"off", "closed", "served"}
  BY DEF Accept, Control, NoCommand, Command, TerminateServer, CommandEof, RunCommands,
         Parsing, BuildWaits, BuildGoesOn, BuildTargetsIdle, IdleNothing, Select,
         TimersOver, Heartbeat, IdleRaises
<1>3. main' \notin {"off", "closed", "served"}
  BY DEF Accept, Control, NoCommand, Command, TerminateServer, CommandEof, RunCommands,
         Parsing, BuildWaits, BuildGoesOn, BuildTargetsIdle, IdleNothing, Select,
         TimersOver, Heartbeat, IdleRaises, IdleStep, ToMain, TopOfLoop
<1> QED BY <1>1, <1>2, <1>3, InnerLock

LEMMA EndLock ==
    ASSUME LockInv, CloseSocket \/ Served \/ ReleaseLock \/ Killed \/ Signalled \/ Boot
    PROVE  LockInv'
<1>1. CASE CloseSocket
  BY <1>1 DEF CloseSocket, ToMain, LockInv, Holding, Listening, client
<1>2. CASE Served
  BY <1>2 DEF Served, ToMain, LockInv, Holding, Listening, client, life
<1>3. CASE ReleaseLock
  BY <1>3, ClientsAssumption DEF ReleaseLock, Off, LockInv, Holding, Listening, client
<1>4. CASE Killed
  BY <1>4, ClientsAssumption DEF Killed, Off, LockInv, Holding, Listening
<1>5. CASE Signalled
  BY <1>5 DEF Signalled, LockInv, Holding, Listening, client
<1>6. CASE Boot
  BY <1>6, ClientsAssumption DEF Boot, Off, ToMain, LockInv, Holding, Listening
<1> QED BY <1>1, <1>2, <1>3, <1>4, <1>5, <1>6

\* A step of a client that leaves the lock alone.
LEMMA OtherLock ==
    ASSUME LockInv, NEW c \in Clients, UNCHANGED <<main, lock, sockfile>>,
           NEW l, l \notin Holding, Goto(c, l)
    PROVE  LockInv'
BY DEF LockInv, Holding, Listening, Goto

LEMMA ClientLock ==
    ASSUME LockInv, NEW c \in Clients, Client(c) \/ Interrupt(c) \/ Die(c)
    PROVE  LockInv'
<1>1. CASE LockBitbake(c) \/ WaitLock(c)
  <2>1. main' = main /\ sockfile' = sockfile
    BY <1>1 DEF LockBitbake, WaitLock, NoServer
  <2>2. CASE lock = None
    BY <1>1, <2>1, <2>2, ClientsAssumption
       DEF LockBitbake, WaitLock, Step, Goto, LockInv, Holding, Listening
  <2>3. CASE lock # None
    <3>1. Goto(c, "reconnect") \/ Goto(c, "retry")
      BY <1>1, <2>3 DEF LockBitbake, WaitLock, Step
    <3>2. lock' = lock
      BY <1>1, <2>3 DEF LockBitbake, WaitLock
    <3> QED BY <2>1, <3>1, <3>2, OtherLock DEF Holding
  <2> QED BY <2>2, <2>3
<1>12. CASE Reconnect(c)
  BY <1>12, OtherLock DEF Reconnect, Step, NoServer, life, Holding
<1>13. CASE Unlock(c)
  BY <1>13, ClientsAssumption DEF Unlock, Step, Goto, NoServer, LockInv, Holding, Listening
<1>2. CASE StartServer(c)
  BY <1>2, ClientsAssumption DEF StartServer, Step, Goto, ToMain, LockInv, Holding, Listening
<1>3. CASE Retry(c)
  BY <1>3, OtherLock DEF Retry, Holding, NoServer, life
<1>4. CASE Connect(c)
  BY <1>4, OtherLock DEF Connect, Holding, Step, life
<1>5. CASE SendFds(c)
  BY <1>5, OtherLock DEF SendFds, Holding, Step, NoServer, life
<1>6. CASE Featured(c)
  BY <1>6, OtherLock DEF Featured, Holding, NoServer, life
<1>7. CASE HangUp(c)
  BY <1>7, OtherLock DEF HangUp, Holding, Step, NoServer, life
<1>8. CASE Terminated(c) \/ Interrupted(c) \/ ReadEvent(c)
  BY <1>8, OtherLock DEF Terminated, Holding, Interrupted, ReadEvent, Leave, NoServer, life
<1>9. CASE Action(c)
  BY <1>9, OtherLock DEF Action, Holding, Leave, NoServer, life
<1>10. CASE Interrupt(c)
  BY <1>10, OtherLock DEF Interrupt, Holding, NoServer, life
<1>11. CASE Die(c)
  BY <1>11, ClientsAssumption DEF Die, Leave, Goto, NoServer, LockInv, Holding, Listening
<1> QED BY <1>1, <1>2, <1>3, <1>4, <1>5, <1>6, <1>7, <1>8, <1>9, <1>10, <1>11,
          <1>12, <1>13
       DEF Client

LEMMA NextLock == LockInv /\ [Next]_vars => LockInv'
<1> SUFFICES ASSUME LockInv, [Next]_vars PROVE LockInv'
  OBVIOUS
<1>1. CASE UNCHANGED vars
  BY <1>1 DEF vars, LockInv, Holding, Listening, life, client
<1>2. CASE Loop
  BY <1>2, RoundLock, EndLock DEF Loop
<1>3. CASE TimersOver \/ Heartbeat \/ IdleRaises \/ Killed \/ Signalled
  BY <1>3, RoundLock, EndLock
<1>4. CASE \E c \in Clients : Client(c) \/ Interrupt(c) \/ Die(c)
  BY <1>4, ClientLock
<1> QED BY <1>1, <1>2, <1>3, <1>4 DEF Next

\* Of any number of bitbake processes in a build directory only one starts a
\* server, and only when there is none; while a server listens, the others
\* find its socket.
THEOREM SingleServer == Spec => []OneServer
<1>1. LockInv => OneServer
  BY ClientsAssumption DEF LockInv, Holding, OneServer
<1> QED BY <1>1, InitLock, NextLock, PTL DEF Spec

\* What a client does about the lock before it starts a server or connects.
Locking(c) == LockBitbake(c) \/ Reconnect(c) \/ WaitLock(c) \/ Unlock(c)

-----------------------------------------------------------------------------
(* The clients that wait *)

Words == {None, "setFeatures", "getVariable", "buildTargets", "terminateServer",
          "stateShutdown", "stateForceShutdown", "ok", "error"}
ConnEnds == [sent : BOOLEAN, cmd : Words, answer : Words,
         open : BOOLEAN, up : BOOLEAN, pipe : BOOLEAN]

ConnType ==
    /\ conn \in [Conns -> ConnEnds] /\ tries \in [Clients -> 1..Retries]
    /\ backlog \in Seq(Conns) /\ newconnections \in Seq(Conns)

TurnInv == ConnType /\ NobodyForgotten

\* What is in a list when it grows or shrinks at an end.
LEMMA ElementsConcat ==
    ASSUME NEW S, NEW s \in Seq(S), NEW t \in Seq(S)
    PROVE  Elements(s) \cup Elements(t) \subseteq Elements(s \o t)
<1>1. /\ Len(s) \in Nat /\ Len(t) \in Nat /\ Len(s \o t) = Len(s) + Len(t)
      /\ \A i \in 1..Len(s) : (s \o t)[i] = s[i]
      /\ \A i \in 1..Len(t) : (s \o t)[Len(s) + i] = t[i]
  OBVIOUS
<1>2. \A i \in 1..Len(s) : i \in 1..Len(s \o t)
  BY <1>1
<1>3. \A i \in 1..Len(t) : Len(s) + i \in 1..Len(s \o t)
  BY <1>1
<1> HIDE DEF Elements
<1>4. Elements(s) \subseteq Elements(s \o t)
  BY <1>1, <1>2 DEF Elements
<1>5. Elements(t) \subseteq Elements(s \o t)
  <2> SUFFICES ASSUME NEW i \in 1..Len(t) PROVE t[i] \in Elements(s \o t)
    BY DEF Elements
  <2> QED BY <1>1, <1>3 DEF Elements
<1> QED BY <1>4, <1>5

LEMMA ElementsAppend ==
    ASSUME NEW S, NEW s \in Seq(S), NEW x \in S
    PROVE  Elements(s) \cup {x} \subseteq Elements(Append(s, x))
<1>1. /\ Len(s) \in Nat /\ Len(Append(s, x)) = Len(s) + 1
      /\ \A i \in 1..Len(s) : Append(s, x)[i] = s[i]
      /\ Append(s, x)[Len(s) + 1] = x
  OBVIOUS
<1>2. Len(s) + 1 \in 1..Len(Append(s, x)) /\ \A i \in 1..Len(s) : i \in 1..Len(Append(s, x))
  BY <1>1
<1> QED BY <1>1, <1>2 DEF Elements

LEMMA ElementsTail ==
    ASSUME NEW S, NEW s \in Seq(S), s # <<>>
    PROVE  Elements(s) \subseteq {Head(s)} \cup Elements(Tail(s))
<1>1. /\ Len(s) \in Nat /\ Len(Tail(s)) = Len(s) - 1 /\ Head(s) = s[1]
      /\ \A i \in 1..Len(s) - 1 : Tail(s)[i] = s[i + 1]
  OBVIOUS
<1>2. ASSUME NEW i \in 1..Len(s), i # 1
      PROVE  i - 1 \in 1..Len(Tail(s)) /\ Tail(s)[i - 1] = s[i]
  BY <1>1, <1>2
<1>3. ASSUME NEW i \in 1..Len(s)
      PROVE  s[i] = Head(s) \/ \E j \in 1..Len(Tail(s)) : Tail(s)[j] = s[i]
  BY <1>1, <1>2
<1> QED BY <1>3 DEF Elements

LEMMA ElementsFront ==
    ASSUME NEW S, NEW s \in Seq(S), s # <<>>
    PROVE  /\ Elements(s) \subseteq {s[Len(s)]} \cup Elements(SubSeq(s, 1, Len(s) - 1))
           /\ SubSeq(s, 1, Len(s) - 1) \in Seq(S)
<1>1. /\ Len(s) \in Nat /\ Len(s) > 0
      /\ SubSeq(s, 1, Len(s) - 1) \in Seq(S)
      /\ Len(SubSeq(s, 1, Len(s) - 1)) = Len(s) - 1
      /\ \A i \in 1..Len(s) - 1 : SubSeq(s, 1, Len(s) - 1)[i] = s[i]
  <2>1. Len(s) \in Nat /\ Len(s) > 0
    OBVIOUS
  <2>2. \A i \in 1..Len(s) - 1 : s[i] \in S
    BY <2>1
  <2>3. /\ SubSeq(s, 1, Len(s) - 1) \in Seq(S)
        /\ Len(SubSeq(s, 1, Len(s) - 1)) = IF 1 <= Len(s) - 1 THEN Len(s) - 1 - 1 + 1 ELSE 0
        /\ \A i \in 1..Len(s) - 1 - 1 + 1 : SubSeq(s, 1, Len(s) - 1)[i] = s[1 + i - 1]
    BY <2>1, <2>2, SubSeqProperties
  <2>4. Len(s) - 1 - 1 + 1 = Len(s) - 1 /\ \A i \in 1..Len(s) - 1 : 1 + i - 1 = i
    BY <2>1
  <2>5. Len(SubSeq(s, 1, Len(s) - 1)) = Len(s) - 1
    <3>1. CASE Len(s) = 1
      BY <2>3, <3>1
    <3>2. CASE Len(s) # 1
      <4>1. \A n \in Nat : n > 0 /\ n # 1 => 1 <= n - 1
        OBVIOUS
      <4>2. 1 <= Len(s) - 1
        BY <2>1, <3>2, <4>1, Zenon
      <4> QED BY <2>3, <2>4, <4>2
    <3> QED BY <3>1, <3>2
  <2>6. \A i \in 1..Len(s) - 1 : SubSeq(s, 1, Len(s) - 1)[i] = s[i]
    BY <2>3, <2>4
  <2> QED BY <2>1, <2>3, <2>5, <2>6
<1>2. \A i \in 1..Len(s) : i = Len(s) \/ i \in 1..Len(s) - 1
  BY <1>1
<1> QED BY <1>1, <1>2 DEF Elements

\* The steps that only write to the pipes, or close the end of a client.
SameEnds ==
    /\ conn' \in [Conns -> ConnEnds]
    /\ \A k \in Conns : (conn'[k].up => conn[k].up) /\ (conn'[k].open => conn[k].open)
LEMMA Written ==
    ASSUME conn \in [Conns -> ConnEnds], NEW k \in Conns, NEW x \in Words,
           NEW y \in Words,
           \/ conn' = [conn EXCEPT ![k].answer = y]
           \/ conn' = [conn EXCEPT ![k].cmd = x]
           \/ conn' = [conn EXCEPT ![k].answer = y, ![k].cmd = x]
           \/ conn' = [conn EXCEPT ![k].cmd = x, ![k].answer = y]
           \/ conn' = [conn EXCEPT ![k].sent = TRUE, ![k].pipe = TRUE, ![k].cmd = x]
           \/ conn' = [conn EXCEPT ![k].pipe = FALSE]
           \/ conn' = [conn EXCEPT ![k].open = FALSE, ![k].pipe = FALSE]
    PROVE  SameEnds
<1>1. conn[k] \in ConnEnds
  OBVIOUS
<1>2. ASSUME NEW e \in ConnEnds, conn' = [conn EXCEPT ![k] = e],
             e.up = conn[k].up, e.open => conn[k].open
      PROVE  SameEnds
  BY <1>2 DEF SameEnds
<1>3. CASE conn' = [conn EXCEPT ![k].answer = y]
  <2> DEFINE e == [conn[k] EXCEPT !.answer = y]
  <2>1. e \in ConnEnds /\ e.up = conn[k].up /\ (e.open => conn[k].open)
    BY <1>1 DEF ConnEnds
  <2>2. conn' = [conn EXCEPT ![k] = e]
    BY <1>1, <1>3 DEF ConnEnds
  <2> HIDE DEF e
  <2> QED BY <1>2, <2>1, <2>2
<1>4. CASE conn' = [conn EXCEPT ![k].cmd = x]
  <2> DEFINE e == [conn[k] EXCEPT !.cmd = x]
  <2>1. e \in ConnEnds /\ e.up = conn[k].up /\ (e.open => conn[k].open)
    BY <1>1 DEF ConnEnds
  <2>2. conn' = [conn EXCEPT ![k] = e]
    BY <1>1, <1>4 DEF ConnEnds
  <2> HIDE DEF e
  <2> QED BY <1>2, <2>1, <2>2
<1>5. CASE conn' = [conn EXCEPT ![k].answer = y, ![k].cmd = x]
  <2> DEFINE e == [conn[k] EXCEPT !.answer = y, !.cmd = x]
  <2>1. e \in ConnEnds /\ e.up = conn[k].up /\ (e.open => conn[k].open)
    BY <1>1 DEF ConnEnds
  <2>2. conn' = [conn EXCEPT ![k] = e]
    BY <1>1, <1>5 DEF ConnEnds
  <2> HIDE DEF e
  <2> QED BY <1>2, <2>1, <2>2
<1>6. CASE conn' = [conn EXCEPT ![k].cmd = x, ![k].answer = y]
  <2> DEFINE e == [conn[k] EXCEPT !.cmd = x, !.answer = y]
  <2>1. e \in ConnEnds /\ e.up = conn[k].up /\ (e.open => conn[k].open)
    BY <1>1 DEF ConnEnds
  <2>2. conn' = [conn EXCEPT ![k] = e]
    BY <1>1, <1>6 DEF ConnEnds
  <2> HIDE DEF e
  <2> QED BY <1>2, <2>1, <2>2
<1>7. CASE conn' = [conn EXCEPT ![k].sent = TRUE, ![k].pipe = TRUE, ![k].cmd = x]
  <2> DEFINE e == [conn[k] EXCEPT !.sent = TRUE, !.pipe = TRUE, !.cmd = x]
  <2>1. e \in ConnEnds /\ e.up = conn[k].up /\ (e.open => conn[k].open)
    BY <1>1 DEF ConnEnds
  <2>2. conn' = [conn EXCEPT ![k] = e]
    BY <1>1, <1>7 DEF ConnEnds
  <2> HIDE DEF e
  <2> QED BY <1>2, <2>1, <2>2
<1>8. CASE conn' = [conn EXCEPT ![k].pipe = FALSE]
  <2> DEFINE e == [conn[k] EXCEPT !.pipe = FALSE]
  <2>1. e \in ConnEnds /\ e.up = conn[k].up /\ (e.open => conn[k].open)
    BY <1>1 DEF ConnEnds
  <2>2. conn' = [conn EXCEPT ![k] = e]
    BY <1>1, <1>8 DEF ConnEnds
  <2> HIDE DEF e
  <2> QED BY <1>2, <2>1, <2>2
<1>9. CASE conn' = [conn EXCEPT ![k].open = FALSE, ![k].pipe = FALSE]
  <2> DEFINE e == [conn[k] EXCEPT !.open = FALSE, !.pipe = FALSE]
  <2>1. e \in ConnEnds /\ e.up = conn[k].up /\ (e.open => conn[k].open)
    BY <1>1 DEF ConnEnds
  <2>2. conn' = [conn EXCEPT ![k] = e]
    BY <1>1, <1>9 DEF ConnEnds
  <2> HIDE DEF e
  <2> QED BY <1>2, <2>1, <2>2
<1> QED BY <1>3, <1>4, <1>5, <1>6, <1>7, <1>8, <1>9

LEMMA NoneSaid == None \in Words
BY DEF Words

LEMMA Answered ==
    ASSUME conn \in [Conns -> ConnEnds], NEW k \in Conns, NEW x \in Words,
           conn' = [conn EXCEPT ![k].answer = None, ![k].cmd = x]
    PROVE  SameEnds
BY NoneSaid, Written

LEMMA TurnKept ==
    ASSUME TurnInv, SameEnds, tries' \in [Clients -> 1..Retries],
           UNCHANGED <<backlog, newconnections, controllersock>>
    PROVE  TurnInv'
BY DEF SameEnds, TurnInv, ConnType, NobodyForgotten

LEMMA TurnUnchanged ==
    ASSUME TurnInv, UNCHANGED <<conn, tries, backlog, newconnections, controllersock>>
    PROVE  TurnInv'
BY DEF TurnInv, ConnType, NobodyForgotten

LEMMA AcceptTurn == ASSUME TurnInv, Accept PROVE TurnInv'
<1> USE DEF TurnInv, ConnType
<1>1. CASE UNCHANGED <<backlog, controllersock, newconnections>>
  BY <1>1, TurnUnchanged DEF Accept, Servers, client
<1>2. CASE ready.sock /\ backlog # <<>>
  <2>1. UNCHANGED <<conn, tries>> /\ backlog' = <<>>
    BY <1>2 DEF Accept, Servers, client
  <2>2. CASE controllersock = None
    <3>1. controllersock' = Head(backlog) /\ newconnections' = newconnections \o Tail(backlog)
      BY <1>2, <2>2 DEF Accept
    <3>2. Tail(backlog) \in Seq(Conns) /\ newconnections' \in Seq(Conns) /\ None \notin Conns
      <4>1. Tail(backlog) \in Seq(Conns)
        BY <1>2
      <4>2. None \notin Conns
        BY ConnsAssumption
      <4> QED BY <3>1, <4>1, <4>2
    <3>3. Elements(newconnections) \cup Elements(Tail(backlog)) \subseteq Elements(newconnections')
      BY <3>1, <3>2, ElementsConcat
    <3>4. Elements(backlog) \subseteq {Head(backlog)} \cup Elements(Tail(backlog))
      BY <1>2, ElementsTail
    <3> QED BY <2>1, <2>2, <3>1, <3>2, <3>3, <3>4 DEF NobodyForgotten
  <2>3. CASE controllersock # None
    <3>1. UNCHANGED controllersock /\ newconnections' = newconnections \o backlog
      BY <1>2, <2>3 DEF Accept
    <3>2. newconnections' \in Seq(Conns)
      BY <3>1
    <3>3. Elements(newconnections) \cup Elements(backlog) \subseteq Elements(newconnections')
      BY <3>1, ElementsConcat
    <3> QED BY <2>1, <3>1, <3>2, <3>3 DEF NobodyForgotten
  <2> QED BY <2>2, <2>3
<1> QED BY <1>1, <1>2 DEF Accept

LEMMA DisconnectTurn ==
    ASSUME TurnInv, DisconnectClient, UNCHANGED tries PROVE TurnInv'
<1> USE DEF TurnInv, ConnType
<1>1. /\ conn' \in [Conns -> ConnEnds] /\ backlog' = backlog
      /\ \A k \in Conns : /\ conn'[k].open = conn[k].open
                          /\ conn'[k].up => conn[k].up /\ k # controllersock
  BY DEF DisconnectClient, ConnEnds
<1>2. CASE newconnections # <<>>
  <2>1. /\ controllersock' = newconnections[Len(newconnections)]
        /\ newconnections' = SubSeq(newconnections, 1, Len(newconnections) - 1)
    BY <1>2 DEF DisconnectClient
  <2>2. /\ Elements(newconnections) \subseteq {controllersock'} \cup Elements(newconnections')
        /\ newconnections' \in Seq(Conns)
    BY <1>2, <2>1, ElementsFront
  <2> QED BY <1>1, <2>2 DEF NobodyForgotten
<1>3. CASE newconnections = <<>>
  <2>1. newconnections' = newconnections
    BY <1>3 DEF DisconnectClient
  <2>2. Elements(newconnections) = {}
    BY <1>3 DEF Elements
  <2> QED BY <1>1, <2>1, <2>2 DEF NobodyForgotten
<1> QED BY <1>2, <1>3

LEMMA OffTurn == ASSUME TurnInv, Off, UNCHANGED tries PROVE TurnInv'
<1>1. conn' \in [Conns -> ConnEnds] /\ \A k \in Conns : ~conn'[k].up
  BY DEF TurnInv, ConnType, Off, Dropped, ConnEnds
<1> QED BY <1>1 DEF TurnInv, ConnType, Off, NobodyForgotten

LEMMA ServerTurn ==
    ASSUME TurnInv, Loop \/ TimersOver \/ Heartbeat \/ IdleRaises \/ Killed \/ Signalled
    PROVE  TurnInv'
<1> USE DEF TurnInv, ConnType
<1>1. CASE Accept
  BY <1>1, AcceptTurn
<1>2. CASE Control
  <2>1. UNCHANGED tries
    BY <1>2 DEF Control, Servers, client
  <2>2. CASE UNCHANGED <<conn, loop>>
    BY <2>1, <2>2, TurnUnchanged DEF loop
  <2>3. CASE /\ conn' = [conn EXCEPT ![controllersock].sent = FALSE]
             /\ UNCHANGED <<controllersock, newconnections, backlog>>
    <3>1. SameEnds
      BY <2>3 DEF SameEnds, ConnEnds
    <3> QED BY <2>1, <2>3, <3>1, TurnKept
  <2>4. CASE DisconnectClient
    BY <2>1, <2>4, DisconnectTurn
  <2> QED BY <1>2, <2>2, <2>3, <2>4 DEF Control
<1>3. CASE CommandEof
  BY <1>3, DisconnectTurn DEF CommandEof, Servers, client
<1>4. CASE Command \/ TerminateServer
  <2>1. ASSUME NEW k, NEW r \in {"ok", "error"},
               conn' = [conn EXCEPT ![k].cmd = None, ![k].answer = r]
        PROVE  SameEnds
    <3>1. CASE k \in Conns
      <4>1. None \in Words /\ r \in Words
        BY DEF Words
      <4>2. conn' = [conn EXCEPT ![k].cmd = None, ![k].answer = r]
        BY <2>1
      <4> QED BY <3>1, <4>1, <4>2, NoneSaid, Written
    <3>2. CASE k \notin Conns
      <4>1. conn' = conn
        BY <2>1, <3>2
      <4> QED BY <4>1 DEF SameEnds
    <3> QED BY <3>1, <3>2
  <2>2. ASSUME NEW k, conn' = [conn EXCEPT ![k].cmd = None] PROVE SameEnds
    <3>1. CASE k \in Conns
      BY <2>2, <3>1, NoneSaid, Written
    <3>2. CASE k \notin Conns
      <4>1. conn' = conn
        BY <2>2, <3>2
      <4> QED BY <4>1 DEF SameEnds
    <3> QED BY <3>1, <3>2
  <2>3. SameEnds
    BY <1>4, <2>1, <2>2 DEF Command, TerminateServer
  <2> QED BY <1>4, <2>3, TurnKept DEF Command, TerminateServer, ReadyUsed, Servers, client
<1>5. CASE NoCommand \/ RunCommands \/ Parsing \/ BuildWaits \/ BuildGoesOn \/ BuildTargetsIdle
           \/ IdleNothing \/ Select \/ TimersOver \/ Heartbeat \/ IdleRaises \/ Served
           \/ Signalled
  BY <1>5, TurnUnchanged
     DEF NoCommand, ReadyUsed, RunCommands, Parsing, BuildWaits, BuildGoesOn,
         BuildTargetsIdle, IdleNothing, Select, TimersOver, Heartbeat, IdleRaises, Served,
         Signalled, IdleStep, Servers, loop, client
<1>6. CASE CloseSocket
  <2>1. /\ conn' \in [Conns -> ConnEnds]
        /\ \A k \in Conns : /\ conn'[k].open = conn[k].open
                            /\ conn'[k].up => conn[k].up /\ k \notin Elements(backlog)
    BY <1>6 DEF CloseSocket, Dropped, ConnEnds, Elements
  <2> QED BY <1>6, <2>1 DEF CloseSocket, NobodyForgotten, client
<1>7. CASE ReleaseLock \/ Killed
  BY <1>7, OffTurn DEF ReleaseLock, Killed, client
<1>8. CASE Boot
  BY <1>8, OffTurn, TurnUnchanged DEF Boot, loop
<1> QED BY <1>1, <1>2, <1>3, <1>4, <1>5, <1>6, <1>7, <1>8 DEF Loop

LEMMA ClientTurn ==
    ASSUME TurnInv, NEW c \in Clients, Client(c) \/ Interrupt(c) \/ Die(c)
    PROVE  TurnInv'
<1> USE DEF TurnInv, ConnType
<1>0. Current(c) \in Conns
  BY PairsAssumption DEF Current
<1>1. CASE Locking(c) \/ StartServer(c)
  BY <1>1, TurnUnchanged DEF Locking, LockBitbake, Reconnect, WaitLock, Unlock,
          StartServer, Step, NoServer, loop
<1>6. UNCHANGED conn => SameEnds
  BY DEF SameEnds
<1>2. CASE Retry(c)
  <2>1. tries' \in [Clients -> 1..Retries]
    BY <1>2, RetriesAssumption DEF Retry
  <2> QED BY <1>2, <1>6, <2>1, TurnKept DEF Retry, NoServer, loop
<1>3. CASE Connect(c)
  <2>1. CASE ~Refused
    <3>1. /\ conn' = [conn EXCEPT ![Current(c)].open = TRUE, ![Current(c)].up = TRUE]
          /\ backlog' = Append(backlog, Current(c))
      BY <1>3, <2>1 DEF Connect
    <3>2. /\ conn' \in [Conns -> ConnEnds]
          /\ \A k \in Conns : k # Current(c) => conn'[k] = conn[k]
      BY <1>0, <3>1 DEF ConnEnds
    <3>3. Elements(backlog) \cup {Current(c)} \subseteq Elements(backlog')
      BY <1>0, <3>1, ElementsAppend
    <3>4. backlog' \in Seq(Conns)
      BY <1>0, <3>1
    <3> QED BY <1>3, <3>2, <3>3, <3>4 DEF Connect, Step, NobodyForgotten
  <2>2. CASE Refused
    BY <1>3, <2>2, TurnUnchanged DEF Connect, Step
  <2> QED BY <2>1, <2>2
<1>4. ASSUME SameEnds, NoServer, UNCHANGED tries PROVE TurnInv'
  BY <1>4, TurnKept DEF NoServer, loop
<1>5. CASE SendFds(c)
  <2>1. SameEnds
    <3>1. conn' = [conn EXCEPT ![Current(c)].sent = TRUE, ![Current(c)].pipe = TRUE,
                               ![Current(c)].cmd = "setFeatures"]
      BY <1>5 DEF SendFds
    <3>2. "setFeatures" \in Words
      BY DEF Words
    <3> QED BY <1>0, <3>1, <3>2, NoneSaid, Written
  <2> QED BY <1>4, <1>5, <2>1 DEF SendFds, Step
<1>7. Closed(c) => SameEnds
  BY <1>0, NoneSaid, Written DEF Closed
<1>8. CASE Terminated(c) \/ ReadEvent(c) \/ HangUp(c) \/ Die(c)
  BY <1>4, <1>7, <1>8 DEF Terminated, ReadEvent, HangUp, Die, Leave, Step
<1>9. CASE Featured(c)
  <2>1. conn' = [conn EXCEPT ![Current(c)].pipe = FALSE] => SameEnds
    BY <1>0, NoneSaid, Written
  <2>2. ASSUME kind[c] = "kill",
               conn' = [conn EXCEPT ![Current(c)].answer = None,
                                     ![Current(c)].cmd = "terminateServer"]
        PROVE  SameEnds
    <3>1. "terminateServer" \in Words
      BY DEF Words
    <3> QED BY <1>0, <2>2, <3>1, Answered
  <2>3. ASSUME kind[c] # "kill",
               conn' = [conn EXCEPT ![Current(c)].answer = None,
                                     ![Current(c)].cmd = "getVariable"]
        PROVE  SameEnds
    <3>1. "getVariable" \in Words
      BY DEF Words
    <3> QED BY <1>0, <2>3, <3>1, Answered
  <2>4. SameEnds
    BY <1>7, <1>9, <2>1, <2>2, <2>3 DEF Featured
  <2> QED BY <1>4, <1>9, <2>4 DEF Featured
<1>10. CASE Action(c)
  <2>1. ASSUME pc[c] = "action",
               conn' = [conn EXCEPT ![Current(c)].answer = None,
                                     ![Current(c)].cmd = None]
        PROVE  SameEnds
    BY <1>0, <2>1, NoneSaid, Answered
  <2>2. ASSUME pc[c] # "action",
               conn' = [conn EXCEPT ![Current(c)].answer = None,
                                     ![Current(c)].cmd = "buildTargets"]
        PROVE  SameEnds
    <3>1. "buildTargets" \in Words
      BY DEF Words
    <3> QED BY <1>0, <2>2, <3>1, Answered
  <2>3. SameEnds
    BY <1>7, <1>10, <2>1, <2>2 DEF Action, Leave
  <2> QED BY <1>4, <1>10, <2>3 DEF Action, Leave
<1>11. CASE Interrupted(c)
  <2>1. conn' = [conn EXCEPT ![Current(c)].answer = None] => SameEnds
    BY <1>0, NoneSaid, Written
  <2> QED BY <1>4, <1>7, <1>11, <2>1 DEF Interrupted, Leave
<1>12. CASE Interrupt(c)
  <2>1. ASSUME NEW x \in Words, Send(c, x) PROVE SameEnds
    BY <1>0, <2>1, NoneSaid, Written DEF Send
  <2>2. (IF halts[c] = 0 THEN "stateShutdown" ELSE "stateForceShutdown") \in Words
    BY DEF Words
  <2>3. SameEnds
    BY <1>12, <2>1, <2>2 DEF Interrupt
  <2> QED BY <1>4, <1>12, <2>3 DEF Interrupt
<1> QED BY <1>1, <1>2, <1>3, <1>5, <1>8, <1>9, <1>10, <1>11, <1>12 DEF Client, Locking

LEMMA InitTurn == Init => TurnInv
BY RetriesAssumption DEF Init, TurnInv, ConnType, NoConn, ConnEnds, Words, NobodyForgotten

\* No client that the server has accepted is lost: it has its turn, or is in
\* a list of those that will, whoever else comes, leaves, hangs up or dies.
THEOREM EveryoneServed == Spec => []NobodyForgotten
<1>1. Init => TurnInv
  BY InitTurn
<1>2. ASSUME TurnInv, UNCHANGED vars PROVE TurnInv'
  BY <1>2, TurnUnchanged DEF vars, loop, client
<1>3. ASSUME TurnInv, [Next]_vars PROVE TurnInv'
  BY <1>2, <1>3, ServerTurn, ClientTurn DEF Next
<1> QED BY <1>1, <1>3, PTL DEF Spec, TurnInv

-----------------------------------------------------------------------------
(* The command that is carried out, and a build that is stopped *)

\* There is a command exactly as long as an idle function carries it out, and
\* a run queue as long as this is buildTargetsIdle.
CookInv ==
    /\ idlefuns \in {{}, {"runCommands"}, {"buildTargetsIdle"}}
    /\ command = None <=> idlefuns = {}
    /\ rq.mode \in {None, "run", "finish", "abort"} /\ rq.msg \in BOOLEAN
    /\ rq.mode = None <=> idlefuns # {"buildTargetsIdle"}
    /\ main \in {"updateCache", "parse_next"} => idlefuns = {"runCommands"}
    /\ main = "executed" => idlefuns = {"buildTargetsIdle"}

LEMMA InitCook == Init => CookInv
BY DEF Init, CookerInit, CookInv, NoBuild

LEMMA CookKept ==
    ASSUME CookInv, UNCHANGED <<idlefuns, command, rq>>,
           main' \in {"updateCache", "parse_next", "executed"} => main' = main
    PROVE  CookInv'
BY DEF CookInv

\* A command ends together with its idle function.
LEMMA CookEnds ==
    ASSUME CookInv, command' = None, idlefuns' = {}, rq' = NoBuild,
           main' \notin {"updateCache", "parse_next", "executed"}
    PROVE  CookInv'
BY DEF CookInv, NoBuild

LEMMA CookUnset ==
    ASSUME CookInv, command' = None, idlefuns' = {}, rq' = rq, idlefuns # {"buildTargetsIdle"},
           main' \notin {"updateCache", "parse_next", "executed"}
    PROVE  CookInv'
BY DEF CookInv

LEMMA CommandCook == ASSUME CookInv, ConnType, Command, command_channel \in Conns PROVE CookInv'
<1>1. PICK reply \in {"ok", "error"} :
          RunCommand(conn[command_channel].cmd, command_channel, reply)
  BY DEF Command
<1>2. main' = "idle"
  BY DEF Command, ToMain
<1>3. CASE UNCHANGED <<idlefuns, command, rq>>
  BY <1>2, <1>3, CookKept
<1>4. CASE /\ command = None /\ command' = command_channel
           /\ idlefuns' = idlefuns \cup {"runCommands"} /\ rq' = rq
  BY <1>2, <1>4, ConnsAssumption DEF CookInv
<1> QED BY <1>1, <1>3, <1>4
        DEF RunCommand, SetFeatures, GetVariable, Shutdown, BuildTargets, cooker

LEMMA IdleCook ==
    ASSUME CookInv,
           RunCommands \/ Parsing \/ BuildWaits \/ BuildGoesOn \/ BuildTargetsIdle \/ IdleRaises
    PROVE  CookInv'
<1>1. CASE RunCommands
  <2>0. idlefuns = {"runCommands"} /\ rq.mode = None
    BY <1>1 DEF RunCommands, CookInv
  <2>1. CASE CommandHalted /\ IdleStep("select")
    BY <2>0, <2>1, CookUnset DEF CommandHalted, FinishAsyncCommand, IdleStep, ToMain
  <2>2. CASE CommandRuns /\ IdleStep("select")
    <3>1. CASE /\ rq' = [mode |-> "run", left |-> Tasks, msg |-> FALSE]
               /\ idlefuns' = (idlefuns \ {"runCommands"}) \cup {"buildTargetsIdle"}
               /\ UNCHANGED command
      <4>1. idlefuns' = {"buildTargetsIdle"} /\ rq'.mode = "run" /\ rq'.msg = FALSE
        BY <2>0, <3>1
      <4> QED BY <2>0, <2>2, <3>1, <4>1, WordsAssumption DEF IdleStep, ToMain, CookInv
    <3>2. CASE FinishAsyncCommand(TRUE) /\ idlefuns' = idlefuns \ {"runCommands"} /\ UNCHANGED rq
      BY <2>0, <2>2, <3>2, CookUnset DEF FinishAsyncCommand, IdleStep, ToMain
    <3> QED BY <2>2, <3>1, <3>2 DEF CommandRuns
  <2>3. CASE PrepareParser /\ IdleStep("updateCache")
    BY <2>0, <2>3 DEF PrepareParser, IdleStep, ToMain, CookInv
  <2> QED BY <1>1, <2>1, <2>2, <2>3 DEF RunCommands
<1>2. CASE Parsing
  <2>0. idlefuns = {"runCommands"} /\ rq.mode = None
    BY <1>2 DEF Parsing, CookInv
  <2>1. CASE SetParsing /\ IdleStep("parse_next")
    BY <2>0, <2>1 DEF SetParsing, IdleStep, ToMain, CookInv
  <2>2. CASE ParseFails /\ IdleStep("select")
    BY <2>0, <2>2, CookUnset DEF ParseFails, FinishAsyncCommand, IdleStep, ToMain
  <2>3. CASE (ParseMore \/ ParseEnds) /\ IdleStep("select")
    BY <2>3, CookKept DEF ParseMore, ParseEnds, IdleStep, ToMain
  <2> QED BY <1>2, <2>1, <2>2, <2>3 DEF Parsing
<1>3. CASE BuildWaits \/ BuildGoesOn
  <2>1. idlefuns = {"buildTargetsIdle"} /\ rq.mode \in {"run", "finish", "abort"}
    BY <1>3 DEF BuildWaits, BuildGoesOn, ExecuteRunqueue, CookInv
  <2>5. ExecuteRunqueue
    BY <1>3 DEF BuildWaits, BuildGoesOn
  <2>6. PICK left \in {rq.left, rq.left - 1} \cap Nat :
            rq' = [mode |-> Halted, left |-> left, msg |-> state \in Halting]
    BY <2>5 DEF ExecuteRunqueue
  <2>2. rq'.mode = Halted /\ rq'.msg \in BOOLEAN /\ UNCHANGED <<command, idlefuns>>
    BY <2>5, <2>6 DEF ExecuteRunqueue
  <2>3. rq'.mode \in {"run", "finish", "abort"}
    BY <2>1, <2>2 DEF Halted
  <2>4. main' \in {"select", "executed"}
    BY <1>3 DEF BuildWaits, BuildGoesOn, IdleStep, ToMain
  <2> QED BY <2>1, <2>2, <2>3, <2>4, WordsAssumption DEF CookInv
<1>4. CASE BuildTargetsIdle \/ IdleRaises
  <2>1. idlefuns = {"buildTargetsIdle"} /\ main' = "select"
    BY <1>4 DEF BuildTargetsIdle, IdleRaises, IdleStep, ToMain, CookInv
  <2>2. CASE FinishBuild
    BY <2>1, <2>2, CookEnds DEF FinishBuild, FinishAsyncCommand
  <2>3. CASE UNCHANGED cooker
    BY <2>1, <2>3, CookKept DEF cooker
  <2> QED BY <1>4, <2>2, <2>3 DEF BuildTargetsIdle, IdleRaises
<1> QED BY <1>1, <1>2, <1>3, <1>4

LEMMA OffCook == ASSUME Off PROVE CookInv'
BY DEF Off, FreshCooker, NoBuild, CookInv

LEMMA CookServer ==
    ASSUME CookInv, ConnType, command_channel \in Conns \cup {None},
           Loop \/ TimersOver \/ Heartbeat \/ IdleRaises \/ Killed \/ Signalled
    PROVE  CookInv'
<1>1. CASE Accept \/ NoCommand \/ TerminateServer \/ IdleNothing \/ Select \/ TimersOver
           \/ Heartbeat \/ CloseSocket \/ Served \/ Signalled
  <2>1. UNCHANGED <<idlefuns, command, rq>>
    BY <1>1 DEF Accept, NoCommand, TerminateServer, IdleNothing, Select, TimersOver, Heartbeat,
                CloseSocket, Served, PostServe, Signalled, Sigterm, cooker
  <2>2. main' \in {"updateCache", "parse_next", "executed"} => main' = main
    BY <1>1 DEF Accept, NoCommand, TerminateServer, IdleNothing, Select, TimersOver, Heartbeat,
                CloseSocket, Served, Signalled, IdleStep, ToMain
  <2> QED BY <2>1, <2>2, CookKept
<1>2. CASE Control \/ CommandEof
  <2>1. UNCHANGED <<idlefuns, command, rq>>
    BY <1>2 DEF Control, CommandEof, DisconnectClient, ClientComplete, cooker
  <2>2. main' \in {"command", "exit", "accept"}
    BY <1>2 DEF Control, CommandEof, ToMain, TopOfLoop
  <2> QED BY <2>1, <2>2, CookKept
<1>3. CASE Command
  <2>1. command_channel \in Conns
    BY <1>3 DEF Command
  <2> QED BY <1>3, <2>1, CommandCook
<1>4. CASE ReleaseLock \/ Killed
  BY <1>4, OffCook DEF ReleaseLock, Killed
<1>5. CASE Boot
  <2>1. CASE Off
    BY <2>1, OffCook
  <2>2. CASE UNCHANGED cooker /\ ToMain("accept")
    BY <2>2, CookKept DEF cooker, ToMain
  <2> QED BY <1>5, <2>1, <2>2 DEF Boot
<1> QED BY <1>1, <1>2, <1>3, <1>4, <1>5, IdleCook DEF Loop

\* A client leaves the cooker alone, and the server unless it starts it.
LEMMA ClientCooker ==
    ASSUME NEW c \in Clients, Client(c) \/ Interrupt(c) \/ Die(c)
    PROVE  /\ UNCHANGED <<cooker, events, controllersock, command_channel>>
           /\ main' = main \/ main' = "boot"
BY DEF Client, Locking, LockBitbake, Reconnect, WaitLock, Unlock, StartServer, Retry,
       Connect, SendFds, Featured, HangUp, Terminated, Action, Interrupted, ReadEvent,
       Interrupt, Die, NoServer, ToMain, loop

\* The connections the server has to do with.
WhoInv == /\ controllersock \in Conns \cup {None} /\ command_channel \in Conns \cup {None}
          /\ uiready \in Conns \cup {None} /\ command \in Conns \cup {None}

LEMMA FireWho ==
    ASSUME NEW new, Fire(new) PROVE uiready' = uiready
BY DEF Fire

LEMMA WhoKept ==
    ASSUME WhoInv, UNCHANGED <<controllersock, command_channel, uiready>>,
           command' \in {command, None}
    PROVE  WhoInv'
BY DEF WhoInv

LEMMA DisconnectWho == ASSUME WhoInv, ConnType, DisconnectClient PROVE WhoInv'
<1>1. command_channel' = None /\ command' = command /\ uiready' \in {uiready, None}
  BY DEF DisconnectClient, ClientComplete, cooker, events
<1>2. controllersock' \in Conns \cup {None}
  <2>1. newconnections # <<>> => newconnections[Len(newconnections)] \in Conns
    BY DEF ConnType
  <2> QED BY <2>1 DEF DisconnectClient
<1> QED BY <1>1, <1>2 DEF WhoInv

LEMMA OffWho == ASSUME Off PROVE WhoInv'
BY DEF Off, FreshCooker, WhoInv

LEMMA WhoServer ==
    ASSUME WhoInv, ConnType,
           Loop \/ TimersOver \/ Heartbeat \/ IdleRaises \/ Killed \/ Signalled
    PROVE  WhoInv'
<1>1. CASE Accept
  <2>1. UNCHANGED <<command_channel, uiready, command>>
    BY <1>1 DEF Accept, cooker, events
  <2>2. backlog # <<>> => Head(backlog) \in Conns
    BY DEF ConnType
  <2>3. controllersock' \in Conns \cup {None}
    BY <1>1, <2>2 DEF Accept, WhoInv
  <2> QED BY <2>1, <2>3 DEF WhoInv
<1>2. CASE Control
  <2>1. CASE UNCHANGED <<loop, cooker, events>>
    BY <2>1 DEF WhoInv, loop, cooker, events
  <2>2. CASE /\ controllersock # None /\ command_channel' = controllersock
             /\ uiready' = controllersock /\ UNCHANGED <<controllersock, cooker>>
    BY <2>2 DEF WhoInv, cooker
  <2> QED BY <1>2, <2>1, <2>2, DisconnectWho DEF Control
<1>3. CASE CommandEof
  BY <1>3, DisconnectWho DEF CommandEof
<1>4. CASE Command
  <2>1. UNCHANGED <<controllersock, command_channel>> /\ command_channel # None
    BY <1>4 DEF Command, ReadyUsed
  <2>2. uiready' = uiready /\ command' \in {command, command_channel}
    BY <1>4 DEF Command, RunCommand, SetFeatures, GetVariable, Shutdown, BuildTargets, cooker,
                events
  <2> QED BY <2>1, <2>2 DEF WhoInv
<1>5. CASE NoCommand \/ TerminateServer \/ RunCommands \/ Parsing \/ BuildWaits \/ BuildGoesOn
           \/ BuildTargetsIdle \/ IdleRaises \/ IdleNothing \/ Select \/ TimersOver \/ Heartbeat
           \/ CloseSocket \/ Served \/ Signalled
  <2>1. UNCHANGED <<controllersock, command_channel>>
    BY <1>5 DEF NoCommand, ReadyUsed, TerminateServer, RunCommands, Parsing, BuildWaits,
                BuildGoesOn, BuildTargetsIdle, IdleRaises, IdleNothing, Select, TimersOver,
                Heartbeat, CloseSocket, Served, Signalled, IdleStep, loop
  <2>2. uiready' = uiready
    BY <1>5, FireWho
       DEF NoCommand, TerminateServer, RunCommands, Parsing, BuildWaits, BuildGoesOn,
           BuildTargetsIdle, IdleRaises, IdleNothing, Select, TimersOver, Heartbeat, CloseSocket,
           Served, Signalled, CommandHalted, CommandRuns, PrepareParser, SetParsing, ParseMore,
           ParseFails, ParseEnds, ExecuteRunqueue, FinishBuild, FinishAsyncCommand, Sigterm,
           PostServe, events
  <2>3. command' \in {command, None}
    BY <1>5
       DEF NoCommand, TerminateServer, RunCommands, Parsing, BuildWaits, BuildGoesOn,
           BuildTargetsIdle, IdleRaises, IdleNothing, Select, TimersOver, Heartbeat, CloseSocket,
           Served, Signalled, CommandHalted, CommandRuns, PrepareParser, SetParsing, ParseMore,
           ParseFails, ParseEnds, ExecuteRunqueue, FinishBuild, FinishAsyncCommand, Sigterm,
           PostServe, cooker
  <2> QED BY <2>1, <2>2, <2>3, WhoKept
<1>6. CASE ReleaseLock \/ Killed
  BY <1>6, OffWho DEF ReleaseLock, Killed
<1>7. CASE Boot
  <2>1. CASE Off
    BY <2>1, OffWho
  <2>2. CASE UNCHANGED <<loop, cooker, events>>
    BY <2>2 DEF WhoInv, loop, cooker, events
  <2> QED BY <1>7, <2>1, <2>2 DEF Boot
<1> QED BY <1>1, <1>2, <1>3, <1>4, <1>5, <1>6, <1>7 DEF Loop

\* What holds of the server in every reachable state.
ServerInv == TurnInv /\ CookInv /\ WhoInv

LEMMA InitServer == Init => ServerInv
<1>1. Init => WhoInv
  BY DEF Init, CookerInit, WhoInv
<1> QED BY <1>1, InitTurn, InitCook DEF ServerInv

LEMMA NextServer == ServerInv /\ [Next]_vars => ServerInv'
<1> SUFFICES ASSUME ServerInv, [Next]_vars PROVE ServerInv'
  OBVIOUS
<1>0. TurnInv /\ ConnType /\ CookInv /\ WhoInv /\ command_channel \in Conns \cup {None}
  BY DEF ServerInv, TurnInv, WhoInv
<1>1. CASE UNCHANGED vars
  <2>1. TurnInv'
    BY <1>0, <1>1, TurnUnchanged DEF vars, loop, client
  <2>2. CookInv'
    BY <1>0, <1>1, CookKept DEF vars, cooker
  <2>3. WhoInv'
    BY <1>0, <1>1, WhoKept DEF vars, cooker, loop, events
  <2> QED BY <2>1, <2>2, <2>3 DEF ServerInv
<1>2. CASE Loop \/ TimersOver \/ Heartbeat \/ IdleRaises \/ Killed \/ Signalled
  BY <1>0, <1>2, ServerTurn, CookServer, WhoServer DEF ServerInv
<1>3. ASSUME NEW c \in Clients, Client(c) \/ Interrupt(c) \/ Die(c) PROVE ServerInv'
  <2>1. /\ UNCHANGED <<cooker, events, controllersock, command_channel>>
        /\ main' = main \/ main' = "boot"
    BY <1>3, ClientCooker
  <2>2. CookInv'
    BY <1>0, <2>1, CookKept DEF cooker
  <2>3. WhoInv'
    BY <1>0, <2>1, WhoKept DEF cooker, events
  <2> QED BY <1>0, <1>3, <2>2, <2>3, ClientTurn DEF ServerInv
<1> QED BY <1>1, <1>2, <1>3 DEF Next

\* Who has pressed Control-C waits for events, or for an answer, or has gone,
\* and nothing else than this is on its way to the server.
HaltInv ==
    /\ pc = [c \in Clients |-> pc[c]] /\ halts \in [Clients -> Nat]
    /\ \A c \in Clients : halts[c] > 0 =>
           /\ pc[c] \in {"events", "halting", "gone"}
           /\ conn[Current(c)].cmd \in {None, "stateShutdown", "stateForceShutdown"}

\* The build of a client that has stopped it finishes or is aborted, or else
\* the cooker has been told, and comes to it before anything else does.
StopInv ==
    \A c \in Clients : command = Current(c) /\ Stopped(c) =>
        \/ rq.mode \in {"finish", "abort"}
        \/ main = "idle" /\ state \in Halting

LEMMA CurrentConn ==
    ASSUME ConnType
    PROVE  /\ \A c \in Clients : Current(c) \in Conns
           /\ \A c, d \in Clients : Current(c) = Current(d) => c = d
BY PairsAssumption DEF ConnType, Current

\* What the server does with the commands in the pipes: it takes them.
LEMMA ServerTakes ==
    ASSUME ServerInv, Loop \/ TimersOver \/ Heartbeat \/ IdleRaises \/ Killed \/ Signalled
    PROVE  /\ \A k \in Conns : conn'[k].cmd \in {conn[k].cmd, None}
           /\ UNCHANGED <<tries, halts>>
           /\ \/ UNCHANGED pc
              \/ \E l \in {"gone", "connect"} :
                     pc' = [c \in Clients |-> IF pc[c] = "booting" THEN l ELSE pc[c]]
<1>0. conn \in [Conns -> ConnEnds]
  BY DEF ServerInv, TurnInv, ConnType
<1>1. UNCHANGED <<tries, halts>>
  BY DEF Loop, Accept, Control, NoCommand, Command, TerminateServer, CommandEof, RunCommands,
         Parsing, BuildWaits, BuildGoesOn, BuildTargetsIdle, IdleNothing, Select, CloseSocket,
         Served, ReleaseLock, Boot, TimersOver, Heartbeat, IdleRaises, Killed, Signalled,
         IdleStep, Servers, client
<1>2. \/ UNCHANGED pc
      \/ \E l \in {"gone", "connect"} :
             pc' = [c \in Clients |-> IF pc[c] = "booting" THEN l ELSE pc[c]]
  BY DEF Loop, Accept, Control, NoCommand, Command, TerminateServer, CommandEof, RunCommands,
         Parsing, BuildWaits, BuildGoesOn, BuildTargetsIdle, IdleNothing, Select, CloseSocket,
         Served, ReleaseLock, Boot, TimersOver, Heartbeat, IdleRaises, Killed, Signalled,
         IdleStep, Servers, client
<1>3. (Off \/ CloseSocket) => \A k \in Conns : conn'[k].cmd = conn[k].cmd
  BY <1>0 DEF Off, CloseSocket, Dropped, ConnEnds
<1>4. DisconnectClient => \A k \in Conns : conn'[k].cmd = conn[k].cmd
  BY <1>0 DEF DisconnectClient, ConnEnds
<1>5. Control => \A k \in Conns : conn'[k].cmd = conn[k].cmd
  <2>1. ASSUME conn' = [conn EXCEPT ![controllersock].sent = FALSE]
        PROVE  \A k \in Conns : conn'[k].cmd = conn[k].cmd
    BY <1>0, <2>1 DEF ConnEnds
  <2> QED BY <1>4, <2>1 DEF Control
<1>6. Command \/ TerminateServer => \A k \in Conns : conn'[k].cmd \in {conn[k].cmd, None}
  <2>1. ASSUME NEW j, conn' = [conn EXCEPT ![j].cmd = None]
        PROVE  \A k \in Conns : conn'[k].cmd \in {conn[k].cmd, None}
    BY <1>0, <2>1 DEF ConnEnds
  <2>2. ASSUME NEW j, NEW r, conn' = [conn EXCEPT ![j].cmd = None, ![j].answer = r]
        PROVE  \A k \in Conns : conn'[k].cmd \in {conn[k].cmd, None}
    BY <1>0, <2>2 DEF ConnEnds
  <2> QED BY <2>1, <2>2 DEF Command, TerminateServer
<1>7. CASE Accept \/ NoCommand \/ RunCommands \/ Parsing \/ BuildWaits \/ BuildGoesOn
           \/ BuildTargetsIdle \/ IdleNothing \/ Select \/ Served \/ TimersOver \/ Heartbeat
           \/ IdleRaises \/ Signalled
  <2>1. conn' = conn
    BY <1>7 DEF Accept, NoCommand, RunCommands, Parsing, BuildWaits, BuildGoesOn,
                BuildTargetsIdle, IdleNothing, Select, Served, TimersOver, Heartbeat, IdleRaises,
                Signalled, IdleStep
  <2> QED BY <1>1, <1>2, <2>1
<1>8. CASE Control \/ Command \/ TerminateServer
  BY <1>1, <1>2, <1>5, <1>6, <1>8
<1>9. CASE CommandEof \/ CloseSocket \/ ReleaseLock \/ Killed
  <2>1. \A k \in Conns : conn'[k].cmd = conn[k].cmd
    BY <1>3, <1>4, <1>9 DEF CommandEof, ReleaseLock, Killed
  <2> QED BY <1>1, <1>2, <2>1
<1>10. CASE Boot
  <2>1. Off \/ conn' = conn
    BY <1>10 DEF Boot
  <2> QED BY <1>1, <1>2, <1>3, <2>1
<1> QED BY <1>7, <1>8, <1>9, <1>10 DEF Loop

LEMMA HaltServer ==
    ASSUME ServerInv, HaltInv,
           Loop \/ TimersOver \/ Heartbeat \/ IdleRaises \/ Killed \/ Signalled
    PROVE  HaltInv'
<1>1. \A c \in Clients : Current(c) \in Conns /\ Current(c)' = Current(c)
  BY ServerTakes, CurrentConn DEF ServerInv, TurnInv, Current
<1>2. /\ \A k \in Conns : conn'[k].cmd \in {conn[k].cmd, None}
      /\ UNCHANGED halts
  BY ServerTakes
<1>3. /\ pc' = [c \in Clients |-> pc'[c]]
      /\ \A c \in Clients : pc'[c] = pc[c] \/ pc[c] = "booting"
  BY ServerTakes DEF HaltInv
<1> QED BY <1>1, <1>2, <1>3 DEF HaltInv

\* What a client does with its end of the pipe, and where it goes.
LEMMA ClientSends ==
    ASSUME ServerInv, HaltInv, NEW c \in Clients, Client(c) \/ Interrupt(c) \/ Die(c)
    PROVE  /\ \A k \in Conns : k # Current(c) => conn'[k].cmd = conn[k].cmd
           /\ \A d \in Clients : d # c => pc'[d] = pc[d] /\ tries'[d] = tries[d]
           /\ pc' = [d \in Clients |-> pc'[d]]
<1>0. conn \in [Conns -> ConnEnds] /\ Current(c) \in Conns
  BY CurrentConn DEF ServerInv, TurnInv, ConnType
<1>1. \A d \in Clients : d # c => pc'[d] = pc[d] /\ tries'[d] = tries[d]
  BY DEF Client, Locking, LockBitbake, Reconnect, WaitLock, Unlock, StartServer, Retry,
         Connect, SendFds, Featured, HangUp, Terminated, Action, Interrupted, ReadEvent,
         Interrupt, Die, Step, Leave, Goto, HaltInv, ServerInv, TurnInv, ConnType
<1>2. pc' = [d \in Clients |-> pc'[d]]
  <2>1. \E l : Goto(c, l)
    BY DEF Client, Locking, LockBitbake, Reconnect, WaitLock, Unlock, StartServer, Retry,
          Connect, SendFds, Featured, HangUp, Terminated, Action, Interrupted, ReadEvent,
          Interrupt, Die, Step, Leave
  <2> QED BY <2>1 DEF Goto, HaltInv
<1>3. \A k \in Conns : k # Current(c) => conn'[k] = conn[k]
  BY <1>0 DEF Client, Locking, LockBitbake, Reconnect, WaitLock, Unlock, StartServer,
          Retry, Connect, SendFds, Featured, HangUp, Terminated, Action, Interrupted,
          ReadEvent, Interrupt, Die, Step, Leave, Closed, Send
<1> QED BY <1>1, <1>2, <1>3

LEMMA HaltClient ==
    ASSUME ServerInv, HaltInv, NEW c \in Clients, Client(c) \/ Interrupt(c) \/ Die(c)
    PROVE  HaltInv'
<1>0. /\ conn \in [Conns -> ConnEnds] /\ Current(c) \in Conns /\ tries \in [Clients -> 1..Retries]
      /\ \A d \in Clients : d # c => Current(d) # Current(c) /\ Current(d) \in Conns
  BY CurrentConn DEF ServerInv, TurnInv, ConnType
<1>1. ASSUME halts' \in [Clients -> Nat], \A d \in Clients : d # c => halts'[d] = halts[d],
             halts'[c] > 0 =>
                 /\ pc'[c] \in {"events", "halting", "gone"}
                 /\ conn'[Current(c)'].cmd \in {None, "stateShutdown", "stateForceShutdown"}
      PROVE  HaltInv'
  <2>1. /\ \A k \in Conns : k # Current(c) => conn'[k].cmd = conn[k].cmd
        /\ \A d \in Clients : d # c => pc'[d] = pc[d] /\ tries'[d] = tries[d]
        /\ pc' = [d \in Clients |-> pc'[d]]
    BY ClientSends
  <2>2. ASSUME NEW d \in Clients, d # c, halts'[d] > 0
        PROVE  /\ pc'[d] \in {"events", "halting", "gone"}
               /\ conn'[Current(d)'].cmd \in {None, "stateShutdown", "stateForceShutdown"}
    <3>1. Current(d)' = Current(d)
      BY <2>1, <2>2 DEF Current
    <3> QED BY <1>0, <1>1, <2>1, <2>2, <3>1 DEF HaltInv
  <2> QED BY <1>1, <2>1, <2>2 DEF HaltInv
<1>2. CASE Locking(c) \/ StartServer(c) \/ Retry(c) \/ Connect(c) \/ SendFds(c)
           \/ Featured(c) \/ HangUp(c) \/ Terminated(c) \/ Action(c)
  <2>1. pc[c] \notin {"events", "halting", "gone"} /\ halts' = halts
    BY <1>2 DEF Locking, LockBitbake, Reconnect, WaitLock, Unlock, StartServer, Retry,
          Connect, SendFds, Featured, HangUp, Terminated, Action, Step, Leave
  <2> QED BY <1>1, <2>1 DEF HaltInv
<1>3. CASE Interrupted(c) \/ ReadEvent(c) \/ Die(c)
  <2>1. halts' = halts /\ tries' = tries /\ \E l \in {"events", "gone"} : Goto(c, l)
    BY <1>3 DEF Interrupted, ReadEvent, Die, Leave
  <2>2. pc'[c] \in {"events", "gone"}
    BY <2>1 DEF Goto, HaltInv
  <2>3. conn'[Current(c)].cmd = conn[Current(c)].cmd
    <3>1. ASSUME Closed(c) PROVE conn'[Current(c)].cmd = conn[Current(c)].cmd
      BY <1>0, <3>1 DEF Closed, ConnEnds
    <3>2. ASSUME conn' = [conn EXCEPT ![Current(c)].answer = None]
          PROVE  conn'[Current(c)].cmd = conn[Current(c)].cmd
      BY <1>0, <3>2 DEF ConnEnds
    <3> QED BY <1>3, <3>1, <3>2 DEF Interrupted, ReadEvent, Die, Leave
  <2>4. Current(c)' = Current(c)
    BY <2>1 DEF Current
  <2> QED BY <1>1, <2>1, <2>2, <2>3, <2>4 DEF HaltInv
<1>4. CASE Interrupt(c)
  <2>1. /\ halts' = [halts EXCEPT ![c] = @ + 1] /\ Goto(c, "halting") /\ tries' = tries
        /\ \E x \in {"stateShutdown", "stateForceShutdown"} : Send(c, x)
    BY <1>4 DEF Interrupt
  <2>2. conn'[Current(c)].cmd \in {"stateShutdown", "stateForceShutdown"}
    BY <1>0, <2>1 DEF Send, ConnEnds
  <2>3. pc'[c] = "halting" /\ Current(c)' = Current(c)
    BY <2>1 DEF Goto, HaltInv, Current
  <2>4. halts' \in [Clients -> Nat] /\ \A d \in Clients : d # c => halts'[d] = halts[d]
    BY <2>1 DEF HaltInv
  <2> QED BY <1>1, <2>2, <2>3, <2>4
<1> QED BY <1>2, <1>3, <1>4 DEF Client, Locking

\* A build that its client has stopped does not get further.
LEMMA StoppedRuns ==
    ASSUME ServerInv, StopInv, NEW c \in Clients, command = Current(c), Stopped(c),
           RunCommands \/ BuildWaits \/ BuildGoesOn
    PROVE  \/ command' = None /\ rq' = rq
           \/ command' = command /\ rq'.mode \in {"finish", "abort"}
<1>1. rq.mode \in {"finish", "abort"} \/ state \in Halting
  BY DEF StopInv
<1>2. CASE RunCommands
  <2>1. rq.mode = None
    BY <1>2 DEF RunCommands, ServerInv, CookInv
  <2>2. state \in Halting
    BY <1>1, <2>1, WordsAssumption
  <2>3. CommandHalted
    BY <1>2, <2>2 DEF RunCommands, CommandRuns, PrepareParser, Halting
  <2> QED BY <2>3 DEF CommandHalted, FinishAsyncCommand
<1>3. CASE BuildWaits \/ BuildGoesOn
  <2>1. ExecuteRunqueue
    BY <1>3 DEF BuildWaits, BuildGoesOn
  <2>2. PICK left \in {rq.left, rq.left - 1} \cap Nat :
            rq' = [mode |-> Halted, left |-> left, msg |-> state \in Halting]
    BY <2>1 DEF ExecuteRunqueue
  <2>3. rq.mode \in {"run", "finish", "abort"}
    BY <2>1 DEF ExecuteRunqueue, ServerInv, CookInv
  <2>4. Halted \in {"finish", "abort"}
    BY <1>1, <2>3 DEF Halted, Halting
  <2> QED BY <2>1, <2>2, <2>4 DEF ExecuteRunqueue
<1> QED BY <1>2, <1>3

\* The command of a client that has pressed Control-C, or of another.
LEMMA CommandStops ==
    ASSUME ServerInv, HaltInv, StopInv, Command PROVE StopInv'
<1> DEFINE k == command_channel
<1>1. /\ k \in Conns /\ main = "command" /\ main' = "idle" /\ conn[k].cmd # None
      /\ UNCHANGED <<tries, halts>>
  BY DEF Command, ToMain, Servers, client, ServerInv, WhoInv
<1>2. PICK reply \in {"ok", "error"} :
          /\ RunCommand(conn[k].cmd, k, reply)
          /\ conn' = [conn EXCEPT ![k].cmd = None, ![k].answer = reply]
  BY DEF Command
<1>3. rq' = rq /\ command' \in {command, k}
  BY <1>2 DEF RunCommand, SetFeatures, GetVariable, Shutdown, BuildTargets, cooker
<1> SUFFICES ASSUME NEW c \in Clients, command' = Current(c)', Stopped(c)'
             PROVE  rq'.mode \in {"finish", "abort"} \/ (main' = "idle" /\ state' \in Halting)
  BY DEF StopInv
<1>4. Current(c)' = Current(c) /\ Current(c) \in Conns /\ halts[c] > 0
  BY <1>1, CurrentConn DEF ServerInv, TurnInv, Current, Stopped
<1>5. CASE k = Current(c)
  <2>1. conn[k].cmd \in {"stateShutdown", "stateForceShutdown"}
    BY <1>1, <1>4, <1>5 DEF HaltInv
  <2>2. state' \in Halting
    BY <1>2, <2>1 DEF RunCommand, Shutdown, Halting
  <2> QED BY <1>1, <2>2
<1>6. CASE k # Current(c)
  <2>1. conn'[Current(c)] = conn[Current(c)]
    BY <1>2, <1>4, <1>6 DEF ServerInv, TurnInv, ConnType
  <2>2. Stopped(c) /\ command = Current(c)
    BY <1>3, <1>4, <1>6, <2>1 DEF Stopped
  <2> QED BY <1>1, <1>3, <2>2 DEF StopInv
<1> QED BY <1>5, <1>6

LEMMA StopServer ==
    ASSUME ServerInv, HaltInv, StopInv,
           Loop \/ TimersOver \/ Heartbeat \/ IdleRaises \/ Killed \/ Signalled
    PROVE  StopInv'
<1>0. None \notin Conns /\ \A c \in Clients : Current(c) \in Conns
  BY ConnsAssumption, CurrentConn DEF ServerInv, TurnInv
<1>1. \A c \in Clients : Current(c)' = Current(c) /\ halts'[c] = halts[c]
  BY ServerTakes DEF Current
<1>2. CASE command' = None
  BY <1>0, <1>1, <1>2 DEF StopInv
<1>3. CASE UNCHANGED conn /\ (RunCommands \/ BuildWaits \/ BuildGoesOn)
  <2> SUFFICES ASSUME NEW c \in Clients, command' = Current(c)', Stopped(c)'
               PROVE  rq'.mode \in {"finish", "abort"}
    BY DEF StopInv
  <2>1. Stopped(c)
    BY <1>1, <1>3 DEF Stopped
  <2>2. command' \in {command, None}
    BY <1>3 DEF RunCommands, BuildWaits, BuildGoesOn, CommandHalted, CommandRuns, PrepareParser,
                ExecuteRunqueue, FinishAsyncCommand
  <2>3. command' = command
    BY <1>0, <1>1, <2>2
  <2>4. command' # None /\ command = Current(c)
    BY <1>0, <1>1, <2>3
  <2> QED BY <1>3, <2>1, <2>4, StoppedRuns
<1>4. CASE /\ UNCHANGED <<command, rq>> /\ main # "idle"
           /\ \A k \in Conns : conn'[k].cmd = conn[k].cmd
  BY <1>0, <1>1, <1>4 DEF StopInv, Stopped
<1>5. CASE Accept \/ NoCommand \/ Select \/ TimersOver \/ Heartbeat \/ Served
  <2>1. main # "idle" /\ UNCHANGED <<command, rq, conn>>
    BY <1>5 DEF Accept, NoCommand, Select, TimersOver, Heartbeat, Served, PostServe, cooker
  <2> QED BY <1>4, <2>1
<1>6. CASE Control \/ CommandEof \/ CloseSocket
  <2>1. main # "idle" /\ UNCHANGED <<command, rq>>
    BY <1>6 DEF Control, CommandEof, CloseSocket, DisconnectClient, ClientComplete, cooker
  <2>2. conn \in [Conns -> ConnEnds]
    BY DEF ServerInv, TurnInv, ConnType
  <2>3. DisconnectClient => \A k \in Conns : conn'[k].cmd = conn[k].cmd
    BY <2>2 DEF DisconnectClient, ConnEnds
  <2>4. CloseSocket => \A k \in Conns : conn'[k].cmd = conn[k].cmd
    BY <2>2 DEF CloseSocket, Dropped, ConnEnds
  <2>5. conn' = [conn EXCEPT ![controllersock].sent = FALSE]
            => \A k \in Conns : conn'[k].cmd = conn[k].cmd
    BY <2>2 DEF ConnEnds
  <2>6. \A k \in Conns : conn'[k].cmd = conn[k].cmd
    BY <1>6, <2>3, <2>4, <2>5 DEF Control, CommandEof
  <2> QED BY <1>4, <2>1, <2>6
<1>7. CASE Command
  BY <1>7, CommandStops
<1>8. CASE TerminateServer
  <2>1. /\ conn[command_channel].cmd = "terminateServer" /\ command_channel \in Conns
        /\ conn' = [conn EXCEPT ![command_channel].cmd = None]
        /\ main = "command" /\ UNCHANGED <<command, rq>>
    BY <1>8 DEF TerminateServer, ServerInv, WhoInv, cooker
  <2>2. ASSUME NEW c \in Clients, halts[c] > 0 PROVE conn'[Current(c)] = conn[Current(c)]
    <3>1. Current(c) # command_channel
      BY <2>1, <2>2, WordsAssumption DEF HaltInv
    <3> QED BY <1>0, <2>1, <3>1 DEF ServerInv, TurnInv, ConnType
  <2> QED BY <1>1, <2>1, <2>2 DEF StopInv, Stopped
<1>9. CASE RunCommands \/ BuildWaits \/ BuildGoesOn
  BY <1>3, <1>9 DEF RunCommands, BuildWaits, BuildGoesOn, IdleStep
<1>10. CASE Parsing
  <2>1. rq' = rq /\ command' \in {command, None} /\ conn' = conn /\ main # "idle"
    BY <1>10 DEF Parsing, SetParsing, ParseMore, ParseFails, ParseEnds, FinishAsyncCommand,
                 IdleStep
  <2> QED BY <1>2, <1>4, <2>1
<1>11. CASE BuildTargetsIdle \/ IdleRaises
  <2>1. main # "idle" /\ conn' = conn /\ (FinishBuild \/ UNCHANGED cooker)
    BY <1>11 DEF BuildTargetsIdle, IdleRaises, IdleStep
  <2> QED BY <1>2, <1>4, <2>1 DEF FinishBuild, FinishAsyncCommand, cooker
<1>12. CASE IdleNothing
  <2>1. command = None /\ UNCHANGED command
    BY <1>12 DEF IdleNothing, ServerInv, CookInv, cooker
  <2> QED BY <1>2, <2>1
<1>13. CASE ReleaseLock \/ Killed
  BY <1>2, <1>13 DEF ReleaseLock, Killed, Off, FreshCooker
<1>14. CASE Signalled
  <2>1. state' = "forceshutdown" /\ UNCHANGED <<command, rq, conn, main>>
    BY <1>14 DEF Signalled, Sigterm
  <2> QED BY <1>0, <1>1, <2>1 DEF StopInv, Stopped, Halting
<1>15. CASE Boot
  <2>1. CASE Off
    BY <1>2, <2>1 DEF Off, FreshCooker
  <2>2. CASE UNCHANGED <<cooker, conn>> /\ main # "idle"
    BY <1>4, <2>2 DEF cooker
  <2> QED BY <1>15, <2>1, <2>2 DEF Boot
<1> QED BY <1>5, <1>6, <1>7, <1>8, <1>9, <1>10, <1>11, <1>12, <1>13, <1>14, <1>15 DEF Loop

\* A client that presses Control-C sends a command; no other step of a client
\* has to do with it.
LEMMA StopClient ==
    ASSUME ServerInv, LockInv, HaltInv, StopInv, NEW c \in Clients,
           Client(c) \/ Interrupt(c) \/ Die(c)
    PROVE  StopInv'
<1>0. /\ conn \in [Conns -> ConnEnds] /\ Current(c) \in Conns
      /\ \A d \in Clients : d # c => Current(d) # Current(c) /\ Current(d) \in Conns
  BY CurrentConn DEF ServerInv, TurnInv, ConnType
<1>1. UNCHANGED <<state, command, rq>> /\ (main' = main \/ main = "off")
  <2>1. UNCHANGED <<state, command, rq>>
    BY ClientCooker DEF cooker
  <2>2. StartServer(c) => main = "off"
    BY ClientsAssumption DEF StartServer, Step, LockInv, Holding
  <2>3. ~StartServer(c) => main' = main
    BY DEF Client, Locking, LockBitbake, Reconnect, WaitLock, Unlock, Retry, Connect,
          SendFds, Featured, HangUp, Terminated, Action, Interrupted, ReadEvent, Interrupt,
          Die, NoServer
  <2> QED BY <2>1, <2>2, <2>3
<1>2. ASSUME NEW d \in Clients, d # c, Stopped(d)' PROVE Stopped(d) /\ Current(d)' = Current(d)
  <2>1. Current(d)' = Current(d) /\ conn'[Current(d)].cmd = conn[Current(d)].cmd
    BY <1>0, <1>2, ClientSends DEF Current
  <2>2. halts'[d] = halts[d]
    BY <1>2 DEF HaltInv, Client, Locking, LockBitbake, Reconnect, WaitLock, Unlock,
          StartServer, Retry, Connect, SendFds, Featured, HangUp, Terminated, Action,
          Interrupted, ReadEvent, Interrupt, Die, Step, Leave
  <2> QED BY <1>2, <2>1, <2>2 DEF Stopped
<1>3. ASSUME Stopped(c)' PROVE Stopped(c) /\ Current(c)' = Current(c)
  <2>1. CASE Locking(c) \/ StartServer(c) \/ Retry(c) \/ Connect(c) \/ SendFds(c)
             \/ Featured(c) \/ HangUp(c) \/ Terminated(c) \/ Action(c)
    <3>1. pc[c] \notin {"events", "halting", "gone"} /\ halts' = halts
      BY <2>1 DEF Locking, LockBitbake, Reconnect, WaitLock, Unlock, StartServer, Retry,
          Connect, SendFds, Featured, HangUp, Terminated, Action, Step, Leave
    <3> QED BY <1>3, <3>1 DEF HaltInv, Stopped
  <2>2. CASE Interrupted(c) \/ ReadEvent(c) \/ Die(c)
    <3>1. halts' = halts /\ tries' = tries
      BY <2>2 DEF Interrupted, ReadEvent, Die, Leave
    <3>2. conn'[Current(c)].cmd = conn[Current(c)].cmd
      <4>1. ASSUME Closed(c) PROVE conn'[Current(c)].cmd = conn[Current(c)].cmd
        BY <1>0, <4>1 DEF Closed, ConnEnds
      <4>2. ASSUME conn' = [conn EXCEPT ![Current(c)].answer = None]
            PROVE  conn'[Current(c)].cmd = conn[Current(c)].cmd
        BY <1>0, <4>2 DEF ConnEnds
      <4> QED BY <2>2, <4>1, <4>2 DEF Interrupted, ReadEvent, Die, Leave
    <3>3. Current(c)' = Current(c)
      BY <3>1 DEF Current
    <3> QED BY <1>3, <3>1, <3>2, <3>3 DEF Stopped
  <2>3. CASE Interrupt(c)
    <3>1. tries' = tries /\ \E x \in {"stateShutdown", "stateForceShutdown"} : Send(c, x)
      BY <2>3 DEF Interrupt
    <3>2. conn'[Current(c)].cmd \in {"stateShutdown", "stateForceShutdown"}
      BY <1>0, <3>1 DEF Send, ConnEnds
    <3>3. Current(c)' = Current(c)
      BY <3>1 DEF Current
    <3> QED BY <1>3, <3>2, <3>3, WordsAssumption DEF Stopped
  <2> QED BY <2>1, <2>2, <2>3 DEF Client, Locking
<1>4. ASSUME NEW d \in Clients, Stopped(d)' PROVE Stopped(d) /\ Current(d)' = Current(d)
  BY <1>2, <1>3, <1>4
<1> QED BY <1>1, <1>4 DEF StopInv

LEMMA InitStop == Init => HaltInv /\ StopInv
BY ConnsAssumption DEF Init, HaltInv, StopInv, Stopped

LEMMA NextStop ==
    ASSUME ServerInv, LockInv, HaltInv, StopInv, [Next]_vars
    PROVE  HaltInv' /\ StopInv'
<1>1. CASE UNCHANGED vars
  BY <1>1 DEF vars, cooker, client, HaltInv, StopInv, Stopped, Current
<1>2. CASE Loop \/ TimersOver \/ Heartbeat \/ IdleRaises \/ Killed \/ Signalled
  BY <1>2, HaltServer, StopServer
<1>3. ASSUME NEW c \in Clients, Client(c) \/ Interrupt(c) \/ Die(c) PROVE HaltInv' /\ StopInv'
  BY <1>3, HaltClient, StopClient
<1> QED BY <1>1, <1>2, <1>3 DEF Next

\* A build whose client has pressed Control-C, and has been heard, never begins
\* and never begins another task: whatever the cooker did when it was told,
\* parsing, about to make a run queue, or between two tasks, and whoever else
\* connects, leaves or dies meanwhile.
THEOREM ControlCWorks == Spec => StopHonoured
<1>1. ServerInv /\ StopInv /\ [Next]_vars =>
          [rq' # rq /\ rq'.mode = "run" =>
             \A c \in Clients : command = Current(c) => ~Stopped(c)]_vars
  <2> SUFFICES ASSUME ServerInv, StopInv, [Next]_vars, rq' # rq, rq'.mode = "run",
                      NEW c \in Clients, command = Current(c), Stopped(c)
               PROVE  FALSE
    OBVIOUS
  <2>1. CASE UNCHANGED vars \/ \E d \in Clients : Client(d) \/ Interrupt(d) \/ Die(d)
    BY <2>1, ClientCooker DEF vars, cooker
  <2>2. CASE RunCommands \/ BuildWaits \/ BuildGoesOn
    BY <2>2, StoppedRuns
  <2>3. CASE FinishBuild \/ Off
    BY <2>3, WordsAssumption DEF FinishBuild, Off, FreshCooker, NoBuild
  <2>4. CASE Accept \/ Control \/ NoCommand \/ TerminateServer \/ CommandEof \/ Parsing
             \/ IdleNothing \/ Select \/ CloseSocket \/ Served
    BY <2>4 DEF Accept, Control, NoCommand, TerminateServer, CommandEof, Parsing, IdleNothing,
                Select, CloseSocket, Served, DisconnectClient, ClientComplete, SetParsing,
                ParseMore, ParseFails, ParseEnds, PostServe, cooker
  <2>5. CASE Command
    BY <2>5 DEF Command, RunCommand, SetFeatures, GetVariable, Shutdown, BuildTargets, cooker
  <2>6. CASE BuildTargetsIdle \/ IdleRaises \/ ReleaseLock \/ Boot \/ Killed
    BY <2>3, <2>6 DEF BuildTargetsIdle, IdleRaises, ReleaseLock, Boot, Killed, cooker
  <2>7. CASE TimersOver \/ Heartbeat \/ Signalled
    BY <2>7 DEF TimersOver, Heartbeat, Signalled, Sigterm, cooker
  <2> QED BY <2>1, <2>2, <2>4, <2>5, <2>6, <2>7 DEF Next, Loop
<1>2. Init => ServerInv /\ LockInv /\ HaltInv /\ StopInv
  BY InitServer, InitLock, InitStop
<1>3. ServerInv /\ LockInv /\ HaltInv /\ StopInv /\ [Next]_vars
          => (ServerInv /\ LockInv /\ HaltInv /\ StopInv)'
  BY NextServer, NextLock, NextStop
<1> QED BY <1>1, <1>2, <1>3, PTL DEF Spec, StopHonoured

-----------------------------------------------------------------------------
(* What the clients are told *)

Sayings == [of : Conns \cup {None}, failed : BOOLEAN]
BoxInv == ui_queue \in Seq(Sayings) /\ inbox \in [Conns -> Seq(Sayings)]

\* At most one outcome of the command of k in a queue; one at most anywhere;
\* and none at all.
Once(s, k) == \A i, j \in OutcomesIn(s, k) : i = j
SaidOnce(k) ==
    /\ Once(ui_queue, k) /\ \A l \in Conns : Once(inbox[l], k)
    /\ \A l, m \in Conns :
           OutcomesIn(inbox[l], k) # {} /\ OutcomesIn(inbox[m], k) # {} => l = m
    /\ \A l \in Conns : OutcomesIn(inbox[l], k) # {} => OutcomesIn(ui_queue, k) = {}
Unsaid(k) ==
    OutcomesIn(ui_queue, k) = {} /\ \A l \in Conns : OutcomesIn(inbox[l], k) = {}

\* The client has not sent its action over k yet.
Fresh(k) ==
    \/ k[2] > tries[k[1]]
    \/ k[2] = tries[k[1]] /\ pc[k[1]] \notin {"action", "events", "halting", "gone"}

\* As long as the command of k is to be sent, is on its way, or is carried out,
\* nothing has been said of it; and it is only one of these.
TellInv ==
    \A k \in Conns :
        /\ SaidOnce(k)
        /\ Fresh(k) \/ conn[k].cmd = "buildTargets" \/ command = k => Unsaid(k)
        /\ Fresh(k) => conn[k].cmd # "buildTargets"
        /\ Fresh(k) \/ conn[k].cmd = "buildTargets" => command # k

\* The outcomes in two queues, one behind the other.
LEMMA OutcomesConcat ==
    ASSUME NEW S, NEW s \in Seq(S), NEW t \in Seq(S), NEW k
    PROVE  /\ OutcomesIn(s \o t, k) = {} <=> OutcomesIn(s, k) = {} /\ OutcomesIn(t, k) = {}
           /\ Once(s, k) /\ Once(t, k) /\ (OutcomesIn(s, k) = {} \/ OutcomesIn(t, k) = {})
                => Once(s \o t, k)
<1>1. /\ Len(s) \in Nat /\ Len(t) \in Nat /\ Len(s \o t) = Len(s) + Len(t)
      /\ \A i \in 1..Len(s) : (s \o t)[i] = s[i]
      /\ \A i \in 1..Len(t) : (s \o t)[Len(s) + i] = t[i]
  OBVIOUS
<1>2. \A i \in 1..Len(s) : i \in 1..Len(s \o t)
  BY <1>1
<1>3. \A i \in 1..Len(t) : Len(s) + i \in 1..Len(s \o t)
  BY <1>1
<1>4. ASSUME NEW i \in 1..Len(s \o t), i \notin 1..Len(s)
      PROVE  i - Len(s) \in 1..Len(t) /\ Len(s) + (i - Len(s)) = i
  BY <1>1, <1>4
<1>5. \A i \in OutcomesIn(s, k) : i \in OutcomesIn(s \o t, k)
  BY <1>1, <1>2 DEF OutcomesIn
<1>6. \A i \in OutcomesIn(t, k) : Len(s) + i \in OutcomesIn(s \o t, k)
  BY <1>1, <1>3 DEF OutcomesIn
<1>7. \A i \in OutcomesIn(s \o t, k) :
          \/ i \in OutcomesIn(s, k)
          \/ i - Len(s) \in OutcomesIn(t, k) /\ i \in Nat
  BY <1>1, <1>4 DEF OutcomesIn
<1>8. OutcomesIn(s \o t, k) = {} <=> OutcomesIn(s, k) = {} /\ OutcomesIn(t, k) = {}
  BY <1>5, <1>6, <1>7
<1>9. ASSUME Once(s, k), Once(t, k), OutcomesIn(s, k) = {} \/ OutcomesIn(t, k) = {}
      PROVE  Once(s \o t, k)
  <2>1. CASE OutcomesIn(t, k) = {}
    BY <1>7, <1>9, <2>1 DEF Once
  <2>2. CASE OutcomesIn(s, k) = {}
    <3>1. \A i, j \in OutcomesIn(s \o t, k) : i - Len(s) = j - Len(s) /\ i \in Nat /\ j \in Nat
      BY <1>7, <1>9, <2>2 DEF Once
    <3> QED BY <1>1, <3>1 DEF Once
  <2> QED BY <1>9, <2>1, <2>2
<1> QED BY <1>8, <1>9

LEMMA FireBox ==
    ASSUME BoxInv, uiready \in Conns \cup {None}, NEW new \in Seq(Sayings), Fire(new)
    PROVE  BoxInv'
<1>1. CASE uiready = None
  BY <1>1 DEF Fire, BoxInv
<1>2. CASE uiready \in Conns
  <2>1. inbox[uiready] \in Seq(Sayings) /\ uiready # None
    BY <1>2, ConnsAssumption DEF BoxInv
  <2>2. inbox[uiready] \o ui_queue \o new \in Seq(Sayings)
    BY <2>1 DEF BoxInv
  <2>3. inbox' = [inbox EXCEPT ![uiready] = inbox[uiready] \o ui_queue \o new] /\ ui_queue' = <<>>
    BY <2>1 DEF Fire
  <2>4. <<>> \in Seq(Sayings)
    OBVIOUS
  <2> HIDE DEF Sayings
  <2>5. inbox' \in [Conns -> Seq(Sayings)]
    BY <2>2, <2>3 DEF BoxInv
  <2> QED BY <2>3, <2>4, <2>5 DEF BoxInv
<1> QED BY <1>1, <1>2

\* fire moves what was kept, and says each thing once.
LEMMA FireTells ==
    ASSUME BoxInv, uiready \in Conns \cup {None}, NEW new \in Seq(Sayings), Fire(new),
           NEW k, SaidOnce(k), Once(new, k), OutcomesIn(new, k) = {} \/ Unsaid(k)
    PROVE  /\ SaidOnce(k)'
           /\ OutcomesIn(new, k) = {} /\ Unsaid(k) => Unsaid(k)'
<1>1. CASE uiready = None
  <2>1. inbox' = inbox /\ ui_queue' = ui_queue \o new /\ ui_queue \in Seq(Sayings)
    BY <1>1 DEF Fire, BoxInv
  <2>2. /\ OutcomesIn(ui_queue', k) = {}
             <=> OutcomesIn(ui_queue, k) = {} /\ OutcomesIn(new, k) = {}
        /\ Once(ui_queue', k)
    <3>1. Once(ui_queue, k) /\ (OutcomesIn(ui_queue, k) = {} \/ OutcomesIn(new, k) = {})
      BY DEF SaidOnce, Unsaid
    <3> QED BY <2>1, <3>1, OutcomesConcat
  <2> QED BY <2>1, <2>2 DEF SaidOnce, Unsaid
<1>2. CASE uiready \in Conns
  <2> DEFINE u == uiready
             kept == inbox[u] \o ui_queue
             said == kept \o new
  <2>1. inbox[u] \in Seq(Sayings) /\ u # None /\ ui_queue \in Seq(Sayings)
    BY <1>2, ConnsAssumption DEF BoxInv
  <2>2. kept \in Seq(Sayings)
    BY <2>1
  <2>3. /\ inbox' = [inbox EXCEPT ![u] = said] /\ ui_queue' = <<>>
        /\ inbox \in [Conns -> Seq(Sayings)]
    BY <2>1 DEF Fire, BoxInv
  <2>4. inbox'[u] = said /\ \A l \in Conns : l # u => inbox'[l] = inbox[l]
    BY <1>2, <2>3
  <2>5. OutcomesIn(ui_queue', k) = {}
    BY <2>3 DEF OutcomesIn
  <2> HIDE DEF kept
  <2>6. /\ OutcomesIn(kept, k) = {}
             <=> OutcomesIn(inbox[u], k) = {} /\ OutcomesIn(ui_queue, k) = {}
        /\ Once(kept, k)
    <3>1. /\ Once(inbox[u], k) /\ Once(ui_queue, k)
          /\ OutcomesIn(inbox[u], k) = {} \/ OutcomesIn(ui_queue, k) = {}
      BY <1>2 DEF SaidOnce
    <3> QED BY <2>1, <3>1, OutcomesConcat DEF kept
  <2>7. /\ OutcomesIn(said, k) = {} <=> OutcomesIn(kept, k) = {} /\ OutcomesIn(new, k) = {}
        /\ Once(said, k)
    <3>1. Once(kept, k) /\ (OutcomesIn(kept, k) = {} \/ OutcomesIn(new, k) = {})
      BY <1>2, <2>6 DEF Unsaid
    <3> QED BY <2>2, <3>1, OutcomesConcat
  <2> HIDE DEF said, u
  <2>8. OutcomesIn(new, k) = {} /\ Unsaid(k) => Unsaid(k)'
    BY <1>2, <2>4, <2>5, <2>6, <2>7 DEF Unsaid, u
  <2>9. \A l \in Conns : Once(inbox'[l], k)
    BY <2>4, <2>7 DEF SaidOnce
  <2>10. ASSUME NEW l \in Conns, l # u, OutcomesIn(inbox'[l], k) # {}
         PROVE  OutcomesIn(said, k) = {}
    <3>1. OutcomesIn(inbox[l], k) # {} /\ ~Unsaid(k)
      BY <2>4, <2>10 DEF Unsaid
    <3> QED BY <1>2, <2>6, <2>7, <2>10, <3>1 DEF SaidOnce, u
  <2>11. ASSUME NEW l \in Conns, NEW m \in Conns,
                OutcomesIn(inbox'[l], k) # {}, OutcomesIn(inbox'[m], k) # {}
         PROVE  l = m
    <3>1. CASE l # u /\ m # u
      BY <2>4, <2>11, <3>1 DEF SaidOnce
    <3>2. CASE l = u \/ m = u
      BY <2>4, <2>10, <2>11, <3>2
    <3> QED BY <3>1, <3>2
  <2>12. Once(ui_queue', k)
    BY <2>5 DEF Once
  <2>13. SaidOnce(k)'
    BY <2>5, <2>9, <2>11, <2>12 DEF SaidOnce
  <2> QED BY <2>8, <2>13
<1> QED BY <1>1, <1>2

\* What a step of the server tells, and what becomes of the command.
Quiet == UNCHANGED <<ui_queue, inbox>> \/ Fire(<<>>) \/ (ui_queue' = <<>> /\ inbox' = inbox)
Ends == \E failed \in BOOLEAN : Fire(<<Outcome(command, failed)>>)
LEMMA ServerTells ==
    ASSUME ServerInv, Loop \/ TimersOver \/ Heartbeat \/ IdleRaises \/ Killed \/ Signalled
    PROVE  \/ Quiet /\ command' \in {command, None}
           \/ Ends /\ command' = None
           \/ Fire(<<Outcome(None, FALSE)>>) /\ command' = command
           \/ /\ command' = command_channel /\ command_channel \in Conns
              /\ conn[command_channel].cmd = "buildTargets"
              /\ conn' = [conn EXCEPT ![command_channel].cmd = None,
                                      ![command_channel].answer = "ok"]
              /\ UNCHANGED <<ui_queue, inbox>>
<1> USE DEF Quiet
<1>0. \A failed \in BOOLEAN : FinishAsyncCommand(failed) => Ends /\ command' = None
  BY DEF FinishAsyncCommand, Ends
<1>1. CASE Accept \/ NoCommand \/ TerminateServer \/ IdleNothing \/ Select \/ TimersOver
           \/ CloseSocket \/ Signalled
  BY <1>1 DEF Accept, NoCommand, TerminateServer, IdleNothing, Select, TimersOver, CloseSocket,
              Signalled, Sigterm, cooker, events
<1>2. CASE Control \/ CommandEof
  BY <1>2 DEF Control, CommandEof, DisconnectClient, ClientComplete, cooker, events
<1>3. CASE Command
  <2>1. PICK reply \in {"ok", "error"} :
            /\ RunCommand(conn[command_channel].cmd, command_channel, reply)
            /\ conn' = [conn EXCEPT ![command_channel].cmd = None,
                                    ![command_channel].answer = reply]
    BY <1>3 DEF Command
  <2>2. command_channel \in Conns
    BY <1>3 DEF Command, ServerInv, WhoInv
  <2>3. UNCHANGED <<ui_queue, inbox>>
    BY <2>1 DEF RunCommand, SetFeatures, GetVariable, Shutdown, BuildTargets, events
  <2>4. \/ command' = command
        \/ /\ conn[command_channel].cmd = "buildTargets" /\ command' = command_channel
           /\ reply = "ok"
    BY <2>1 DEF RunCommand, SetFeatures, GetVariable, Shutdown, BuildTargets, cooker
  <2> QED BY <2>1, <2>2, <2>3, <2>4
<1>4. CASE RunCommands
  BY <1>0, <1>4 DEF RunCommands, CommandHalted, CommandRuns, PrepareParser, events
<1>5. CASE Parsing
  BY <1>0, <1>5 DEF Parsing, SetParsing, ParseMore, ParseFails, ParseEnds, events
<1>6. CASE BuildWaits \/ BuildGoesOn
  BY <1>6 DEF BuildWaits, BuildGoesOn, ExecuteRunqueue
<1>7. CASE BuildTargetsIdle \/ IdleRaises
  <2>1. FinishBuild => Ends /\ command' = None
    BY <1>0 DEF FinishBuild, ServerInv, CookInv
  <2> QED BY <1>7, <2>1 DEF BuildTargetsIdle, IdleRaises, cooker, events
<1>8. CASE Heartbeat
  BY <1>8 DEF Heartbeat, cooker
<1>9. CASE Served
  BY <1>9 DEF Served, PostServe
<1>10. CASE ReleaseLock \/ Killed
  BY <1>10 DEF ReleaseLock, Killed, Off, FreshCooker
<1>11. CASE Boot
  BY <1>11 DEF Boot, Off, FreshCooker, cooker, events
<1> QED BY <1>1, <1>2, <1>3, <1>4, <1>5, <1>6, <1>7, <1>8, <1>9, <1>10, <1>11 DEF Loop

\* What one new outcome can be.
LEMMA OneSaying ==
    ASSUME NEW of \in Conns \cup {None}, NEW failed \in BOOLEAN, NEW k
    PROVE  /\ <<Outcome(of, failed)>> \in Seq(Sayings) /\ Once(<<Outcome(of, failed)>>, k)
           /\ of # k => OutcomesIn(<<Outcome(of, failed)>>, k) = {}
<1>1. Outcome(of, failed) \in Sayings /\ Outcome(of, failed).of = of
  BY DEF Outcome, Sayings
<1> DEFINE o == Outcome(of, failed)
<1> HIDE DEF o
<1>2. o \in Sayings /\ o.of = of
  BY <1>1 DEF o
<1>3. Len(<<o>>) = 1 /\ <<o>>[1] = o /\ <<o>> \in Seq(Sayings)
  BY <1>2
<1>4. \A i \in 1..1 : i = 1
  OBVIOUS
<1> QED BY <1>2, <1>3, <1>4 DEF o, Once, OutcomesIn

LEMMA NoSaying ==
    ASSUME NEW k PROVE /\ <<>> \in Seq(Sayings) /\ Once(<<>>, k) /\ OutcomesIn(<<>>, k) = {}
BY DEF Once, OutcomesIn

\* What is thrown away can only make less of it.
LEMMA QuietTells ==
    ASSUME BoxInv, uiready \in Conns \cup {None}, Quiet
    PROVE  /\ BoxInv'
           /\ \A k : SaidOnce(k) => SaidOnce(k)' /\ (Unsaid(k) => Unsaid(k)')
<1>1. CASE UNCHANGED <<ui_queue, inbox>>
  BY <1>1 DEF BoxInv, SaidOnce, Unsaid
<1>2. CASE Fire(<<>>)
  BY <1>2, NoSaying, FireBox, FireTells
<1>3. CASE ui_queue' = <<>> /\ inbox' = inbox
  BY <1>3, NoSaying DEF BoxInv, SaidOnce, Unsaid
<1> QED BY <1>1, <1>2, <1>3 DEF Quiet

LEMMA FreshServer ==
    ASSUME ServerInv, HaltInv,
           Loop \/ TimersOver \/ Heartbeat \/ IdleRaises \/ Killed \/ Signalled,
           NEW k \in Conns
    PROVE  Fresh(k)' => Fresh(k)
<1>1. k[1] \in Clients /\ tries' = tries
  BY PairsAssumption, ServerTakes
<1>2. pc'[k[1]] = pc[k[1]] \/ pc[k[1]] = "booting"
  BY <1>1, ServerTakes DEF HaltInv
<1> QED BY <1>1, <1>2 DEF Fresh

LEMMA TellServer ==
    ASSUME ServerInv, HaltInv, BoxInv, TellInv,
           Loop \/ TimersOver \/ Heartbeat \/ IdleRaises \/ Killed \/ Signalled
    PROVE  BoxInv' /\ TellInv'
<1>0. /\ uiready \in Conns \cup {None} /\ command \in Conns \cup {None} /\ None \notin Conns
      /\ conn \in [Conns -> ConnEnds]
  BY ConnsAssumption DEF ServerInv, WhoInv, TurnInv, ConnType
<1>1. \A k \in Conns : (Fresh(k)' => Fresh(k)) /\ conn'[k].cmd \in {conn[k].cmd, None}
  BY FreshServer, ServerTakes
<1>2. \A k \in Conns : conn'[k].cmd = "buildTargets" => conn[k].cmd = "buildTargets"
  BY <1>1, WordsAssumption
<1>3. CASE Quiet /\ command' \in {command, None}
  <2>1. BoxInv' /\ \A k : SaidOnce(k) => SaidOnce(k)' /\ (Unsaid(k) => Unsaid(k)')
    BY <1>0, <1>3, QuietTells
  <2> QED BY <1>0, <1>1, <1>2, <1>3, <2>1 DEF TellInv
<1>4. CASE Ends /\ command' = None
  <2>1. PICK failed \in BOOLEAN : Fire(<<Outcome(command, failed)>>)
    BY <1>4 DEF Ends
  <2> DEFINE new == <<Outcome(command, failed)>>
  <2>2. /\ new \in Seq(Sayings)
        /\ \A k : Once(new, k) /\ (command # k => OutcomesIn(new, k) = {})
    BY <1>0, OneSaying
  <2>3. Fire(new)
    BY <2>1
  <2> HIDE DEF new
  <2>4. BoxInv'
    BY <1>0, <2>2, <2>3, FireBox
  <2>5. ASSUME NEW k \in Conns
        PROVE  SaidOnce(k)' /\ (command # k /\ Unsaid(k) => Unsaid(k)')
    <3>1. SaidOnce(k) /\ (OutcomesIn(new, k) = {} \/ Unsaid(k))
      BY <2>2 DEF TellInv
    <3> QED BY <1>0, <2>2, <2>3, <3>1, FireTells
  <2> QED BY <1>0, <1>1, <1>2, <1>4, <2>4, <2>5 DEF TellInv
<1>5. CASE Fire(<<Outcome(None, FALSE)>>) /\ command' = command
  <2> DEFINE new == <<Outcome(None, FALSE)>>
  <2>1. new \in Seq(Sayings) /\ \A k \in Conns : Once(new, k) /\ OutcomesIn(new, k) = {}
    BY <1>0, OneSaying
  <2>2. Fire(new)
    BY <1>5
  <2> HIDE DEF new
  <2>3. BoxInv'
    BY <1>0, <2>1, <2>2, FireBox
  <2>4. ASSUME NEW k \in Conns PROVE SaidOnce(k)' /\ (Unsaid(k) => Unsaid(k)')
    <3>1. SaidOnce(k)
      BY DEF TellInv
    <3> QED BY <1>0, <2>1, <2>2, <3>1, FireTells
  <2> QED BY <1>1, <1>2, <1>5, <2>3, <2>4 DEF TellInv
<1>6. CASE /\ command' = command_channel /\ command_channel \in Conns
           /\ conn[command_channel].cmd = "buildTargets"
           /\ conn' = [conn EXCEPT ![command_channel].cmd = None,
                                   ![command_channel].answer = "ok"]
           /\ UNCHANGED <<ui_queue, inbox>>
  <2>1. BoxInv' /\ \A k : (SaidOnce(k) => SaidOnce(k)') /\ (Unsaid(k) => Unsaid(k)')
    BY <1>6 DEF BoxInv, SaidOnce, Unsaid
  <2>2. conn'[command_channel].cmd = None
    BY <1>0, <1>6 DEF ConnEnds
  <2>3. conn'[command_channel].cmd # "buildTargets"
    BY <2>2, WordsAssumption
  <2>4. ~Fresh(command_channel) /\ Unsaid(command_channel)
    BY <1>6 DEF TellInv
  <2> QED BY <1>1, <1>2, <1>6, <2>1, <2>3, <2>4 DEF TellInv
<1> QED BY <1>3, <1>4, <1>5, <1>6, ServerTells

LEMMA TellKept ==
    ASSUME BoxInv, TellInv, UNCHANGED <<ui_queue, inbox, command>>,
           \A k \in Conns : /\ Fresh(k)' => Fresh(k)
                            /\ conn'[k].cmd = "buildTargets" =>
                                   /\ conn[k].cmd = "buildTargets" \/ Fresh(k)
                                   /\ ~Fresh(k)'
    PROVE  BoxInv' /\ TellInv'
<1>1. BoxInv' /\ \A k : (SaidOnce(k) => SaidOnce(k)') /\ (Unsaid(k) => Unsaid(k)')
  BY DEF BoxInv, SaidOnce, Unsaid
<1> QED BY <1>1 DEF TellInv

LEMMA TellClient ==
    ASSUME ServerInv, HaltInv, BoxInv, TellInv, NEW c \in Clients,
           Client(c) \/ Interrupt(c) \/ Die(c)
    PROVE  BoxInv' /\ TellInv'
<1> DEFINE late == {"action", "events", "halting", "gone"}
<1>0. /\ conn \in [Conns -> ConnEnds] /\ Current(c) \in Conns /\ tries \in [Clients -> 1..Retries]
      /\ Conns = Clients \X (1..Retries)
  BY CurrentConn, PairsAssumption DEF ServerInv, TurnInv, ConnType
<1>1. UNCHANGED <<ui_queue, inbox, command>>
  BY ClientCooker DEF cooker, events
<1>2. ASSUME NEW k \in Conns, k # Current(c)
      PROVE  conn'[k].cmd = conn[k].cmd
  BY <1>2, ClientSends
<1>3. ASSUME NEW k \in Conns, k[1] # c PROVE Fresh(k)' = Fresh(k) /\ k # Current(c)
  <2>1. pc'[k[1]] = pc[k[1]] /\ tries'[k[1]] = tries[k[1]]
    BY <1>0, <1>3, ClientSends
  <2> QED BY <1>3, <2>1 DEF Fresh, Current
<1>4. ASSUME tries' = tries, pc[c] \in late => pc'[c] \in late,
             conn'[Current(c)].cmd = "buildTargets" =>
                 \/ conn[Current(c)].cmd = "buildTargets"
                 \/ pc[c] \notin late /\ pc'[c] \in late
      PROVE  BoxInv' /\ TellInv'
  <2>1. ASSUME NEW k \in Conns PROVE Fresh(k)' => Fresh(k)
    <3>1. CASE k[1] # c
      BY <1>3, <3>1
    <3>2. CASE k[1] = c
      BY <1>4, <3>2 DEF Fresh
    <3> QED BY <3>1, <3>2
  <2>2. ASSUME NEW k \in Conns, conn'[k].cmd = "buildTargets"
        PROVE  (conn[k].cmd = "buildTargets" \/ Fresh(k)) /\ ~Fresh(k)'
    <3>1. CASE k = Current(c)
      <4>1. k[1] = c /\ k[2] = tries[c] /\ tries[c] \in Nat
        BY <1>0, <3>1 DEF Current
      <4>2. Fresh(k) <=> pc[c] \notin late
        BY <4>1 DEF Fresh
      <4>3. Fresh(k)' <=> pc'[c] \notin late
        BY <1>4, <4>1 DEF Fresh
      <4>4. Fresh(k) => conn[k].cmd # "buildTargets"
        BY DEF TellInv
      <4> QED BY <1>4, <2>2, <3>1, <4>2, <4>3, <4>4
    <3>2. CASE k # Current(c)
      BY <1>2, <2>1, <2>2, <3>2 DEF TellInv
    <3> QED BY <3>1, <3>2
  <2> QED BY <1>1, <2>1, <2>2, TellKept
<1>5. CASE UNCHANGED <<conn, tries>> /\ (Locking(c) \/ StartServer(c))
  <2>1. pc[c] \notin late
    BY <1>5 DEF Locking, LockBitbake, Reconnect, WaitLock, Unlock, StartServer, Step
  <2>2. conn'[Current(c)].cmd = conn[Current(c)].cmd
    BY <1>5
  <2> QED BY <1>4, <1>5, <2>1, <2>2
<1>6. CASE Retry(c) /\ tries' # tries
  <2>1. tries'[c] = tries[c] + 1 /\ conn' = conn /\ pc[c] = "retry" /\ tries[c] \in Nat
    BY <1>0, <1>6 DEF Retry
  <2>2. ASSUME NEW k \in Conns PROVE Fresh(k)' => Fresh(k)
    <3>1. CASE k[1] # c
      BY <1>3, <3>1
    <3>2. CASE k[1] = c
      <4>1. k[2] \in Nat
        BY <1>0
      <4> QED BY <2>1, <3>2, <4>1 DEF Fresh
    <3> QED BY <3>1, <3>2
  <2>3. ASSUME NEW k \in Conns, conn'[k].cmd = "buildTargets"
        PROVE  conn[k].cmd = "buildTargets" /\ ~Fresh(k)'
    BY <2>1, <2>2, <2>3 DEF TellInv
  <2> QED BY <1>1, <2>2, <2>3, TellKept
<1>7. CASE \/ Retry(c) /\ tries' = tries
           \/ Connect(c) \/ HangUp(c) \/ Terminated(c) \/ Interrupted(c) \/ ReadEvent(c) \/ Die(c)
  <2>1. tries' = tries /\ (pc[c] \in late => pc'[c] \in late)
    <3>1. \A l : Goto(c, l) => pc'[c] = l
      BY DEF Goto, HaltInv
    <3> QED BY <1>7, <3>1 DEF Retry, Connect, HangUp, Terminated, Interrupted, ReadEvent, Die,
                Step, Leave
  <2>2. conn'[Current(c)].cmd = conn[Current(c)].cmd
    <3>1. Closed(c) => conn'[Current(c)].cmd = conn[Current(c)].cmd
      BY <1>0 DEF Closed, ConnEnds
    <3>2. \/ conn' = [conn EXCEPT ![Current(c)].answer = None]
          \/ conn' = [conn EXCEPT ![Current(c)].open = TRUE, ![Current(c)].up = TRUE]
          => conn'[Current(c)].cmd = conn[Current(c)].cmd
      BY <1>0 DEF ConnEnds
    <3> QED BY <1>7, <3>1, <3>2 DEF Retry, Connect, HangUp, Terminated, Interrupted, ReadEvent,
                Die, Leave
  <2> QED BY <1>4, <2>1, <2>2
<1>8. CASE SendFds(c) \/ Featured(c) \/ Interrupt(c)
  <2>1. tries' = tries /\ (pc[c] \in late => pc'[c] \in late)
    <3>1. \A l : Goto(c, l) => pc'[c] = l
      BY DEF Goto, HaltInv
    <3> QED BY <1>8, <3>1 DEF SendFds, Featured, Interrupt, Step
  <2>2. conn'[Current(c)].cmd = "buildTargets" => conn[Current(c)].cmd = "buildTargets"
    <3>1. Closed(c) \/ conn' = [conn EXCEPT ![Current(c)].pipe = FALSE]
              => conn'[Current(c)].cmd = conn[Current(c)].cmd
      BY <1>0 DEF Closed, ConnEnds
    <3>2. SendFds(c) => conn'[Current(c)].cmd = "setFeatures"
      BY <1>0 DEF SendFds, ConnEnds
    <3>3. Interrupt(c) => conn'[Current(c)].cmd \in {"stateShutdown", "stateForceShutdown"}
      BY <1>0 DEF Interrupt, Send, ConnEnds
    <3>4. ASSUME NEW x \in {"terminateServer", "getVariable"},
                 conn' = [conn EXCEPT ![Current(c)].answer = None, ![Current(c)].cmd = x]
          PROVE  conn'[Current(c)].cmd # "buildTargets"
      BY <1>0, <3>4 DEF ConnEnds
    <3> QED BY <1>8, <3>1, <3>2, <3>3, <3>4 DEF Featured
  <2> QED BY <1>4, <2>1, <2>2
<1>9. CASE Action(c)
  <2>1. \A l : Goto(c, l) => pc'[c] = l
    BY DEF Goto, HaltInv
  <2>2. tries' = tries /\ pc[c] \in {"getVariable", "action"}
        /\ pc'[c] \in {"action", "events", "gone"}
    BY <1>9, <2>1 DEF Action, Leave
  <2>3. pc[c] = "action" /\ conn'[Current(c)].cmd = "buildTargets"
            => conn[Current(c)].cmd = "buildTargets"
    <3>1. Closed(c) => conn'[Current(c)].cmd = conn[Current(c)].cmd
      BY <1>0 DEF Closed, ConnEnds
    <3>2. conn' = [conn EXCEPT ![Current(c)].answer = None, ![Current(c)].cmd = None]
              => conn'[Current(c)].cmd # "buildTargets"
      BY <1>0, WordsAssumption DEF ConnEnds
    <3> QED BY <1>9, <3>1, <3>2 DEF Action, Leave
  <2> QED BY <1>4, <2>2, <2>3
<1> QED BY <1>5, <1>6, <1>7, <1>8, <1>9 DEF Client, Locking, LockBitbake, Reconnect,
          WaitLock, Unlock, StartServer, Step, NoServer

LEMMA InitTell == Init => BoxInv /\ TellInv
<1> SUFFICES ASSUME Init PROVE BoxInv /\ TellInv
  OBVIOUS
<1>1. ui_queue = <<>> /\ inbox = [k \in Conns |-> <<>>] /\ command = None
  BY DEF Init, CookerInit
<1>2. BoxInv /\ \A k : SaidOnce(k) /\ Unsaid(k)
  BY <1>1, NoSaying DEF BoxInv, SaidOnce, Unsaid
<1>3. \A k \in Conns : conn[k].cmd # "buildTargets" /\ command # k
  BY <1>1, ConnsAssumption, WordsAssumption DEF Init, NoConn
<1> QED BY <1>2, <1>3 DEF TellInv

LEMMA NextTell ==
    ASSUME ServerInv, HaltInv, BoxInv, TellInv, [Next]_vars
    PROVE  BoxInv' /\ TellInv'
<1>1. CASE UNCHANGED vars
  <2>1. /\ UNCHANGED <<ui_queue, inbox, command, conn>>
        /\ \A k : Fresh(k)' = Fresh(k)
    BY <1>1 DEF vars, cooker, events, client, Fresh
  <2>2. \A k \in Conns : conn[k].cmd = "buildTargets" => ~Fresh(k)
    BY DEF TellInv
  <2> QED BY <2>1, <2>2, TellKept
<1>2. CASE Loop \/ TimersOver \/ Heartbeat \/ IdleRaises \/ Killed \/ Signalled
  BY <1>2, TellServer
<1>3. ASSUME NEW c \in Clients, Client(c) \/ Interrupt(c) \/ Die(c)
      PROVE  BoxInv' /\ TellInv'
  BY <1>3, TellClient
<1> QED BY <1>1, <1>2, <1>3 DEF Next

LEMMA AtMostOne ==
    ASSUME NEW S, \A x, y \in S : x = y
    PROVE  Cardinality(S) = IF S = {} THEN 0 ELSE 1
<1>1. CASE S = {}
  BY <1>1, FS_EmptySet
<1>2. CASE S # {}
  <2>1. PICK x : S = {x}
    BY <1>2
  <2> QED BY <1>2, <2>1, FS_Singleton
<1> QED BY <1>1, <1>2

\* The outcome of the command of a client is told at most once, through any
\* number of clients that hang up, come back or wait, with events kept for a UI
\* that is not there, and servers that end and are started again.
THEOREM ToldAtMostOnce == Spec => []ToldOnce
<1>1. ASSUME TellInv PROVE ToldOnce
  <2> SUFFICES ASSUME NEW k \in Conns
               PROVE  /\ Cardinality({l \in Conns : OutcomesIn(inbox[l], k) # {}})
                           + Cardinality(OutcomesIn(ui_queue, k)) <= 1
                      /\ \A l \in Conns : Cardinality(OutcomesIn(inbox[l], k)) <= 1
    BY DEF ToldOnce
  <2> DEFINE told == {l \in Conns : OutcomesIn(inbox[l], k) # {}}
  <2>1. SaidOnce(k)
    BY <1>1 DEF TellInv
  <2>2. Cardinality(told) = IF told = {} THEN 0 ELSE 1
    BY <2>1, AtMostOne DEF SaidOnce
  <2>3. Cardinality(OutcomesIn(ui_queue, k)) = IF OutcomesIn(ui_queue, k) = {} THEN 0 ELSE 1
    BY <2>1, AtMostOne DEF SaidOnce, Once
  <2>4. told = {} \/ OutcomesIn(ui_queue, k) = {}
    BY <2>1 DEF SaidOnce
  <2>5. \A l \in Conns : Cardinality(OutcomesIn(inbox[l], k)) <= 1
    <3> SUFFICES ASSUME NEW l \in Conns PROVE Cardinality(OutcomesIn(inbox[l], k)) <= 1
      OBVIOUS
    <3>1. \A i, j \in OutcomesIn(inbox[l], k) : i = j
      BY <2>1 DEF SaidOnce, Once
    <3>2. Cardinality(OutcomesIn(inbox[l], k)) \in {0, 1}
      BY <3>1, AtMostOne
    <3> QED BY <3>2
  <2> QED BY <2>2, <2>3, <2>4, <2>5
<1>2. Init => ServerInv /\ LockInv /\ HaltInv /\ StopInv /\ BoxInv /\ TellInv
  BY InitServer, InitLock, InitStop, InitTell
<1>3. ServerInv /\ LockInv /\ HaltInv /\ StopInv /\ BoxInv /\ TellInv /\ [Next]_vars
          => (ServerInv /\ LockInv /\ HaltInv /\ StopInv /\ BoxInv /\ TellInv)'
  BY NextServer, NextLock, NextStop, NextTell
<1> QED BY <1>1, <1>2, <1>3, PTL DEF Spec
=============================================================================
