---------------------------- MODULE WorkerProofs ----------------------------
(***************************************************************************)
(* For any tasks, changes of hashes and deaths: every child has the task   *)
(* hashes that its task was sent with.                                     *)
(***************************************************************************)
EXTENDS WorkerProps, SequenceTheorems, TLAPS

Commands == [op : {"runtask"}, task : Tasks] \cup [op : {"newtaskhashes"}, hashes : Nat]
            \cup [op : {"finishnow", "quit"}]

\* What the worker has still to handle, in the order it was written in.
Line == (queue \o stdin) \o unflushed

\* The hashes are v behind the first i messages of s, if they are h before s.
After(s, h, i, v) ==
    \/ \E j \in 1..i : /\ s[j].op = "newtaskhashes" /\ s[j].hashes = v
                       /\ \A k \in j + 1..i : s[k].op # "newtaskhashes"
    \/ h = v /\ \A k \in 1..i : s[k].op # "newtaskhashes"

LineType ==
    /\ queue \in Seq(Commands) /\ stdin \in Seq(Commands) /\ unflushed \in Seq(Commands)
    /\ hashes \in Nat /\ sent \subseteq Tasks /\ sentwith \in [Tasks -> Nat]

\* The messages for tasks that were sent, each behind its hashes.
Ordered ==
    \A i \in 1..Len(Line) : Line[i].op = "runtask" =>
        Line[i].task \in sent /\ After(Line, newhashes, i, sentwith[Line[i].task])

\* As long as the cooker may send a task, all hashes are on their way to the
\* worker, or there.
HashesCome == rq = "execute" => After(Line, newhashes, Len(Line), hashes)

ChildType == child \in [Tasks -> {"none", "forked", "session", "exited", "reaped"}]
             /\ ranwith \in [Tasks -> Nat]

LineInv == Ordered /\ HashesCome

HashInv == /\ LineType /\ ChildType /\ LineInv
           /\ Forked \subseteq sent /\ HashesAsSent

-----------------------------------------------------------------------------
(* Sequences of messages *)

\* A message more changes nothing for those before it.
LEMMA AfterAppend ==
    ASSUME NEW S, NEW s \in Seq(S), NEW m \in S, NEW h, NEW v, NEW i \in 0..Len(s)
    PROVE  After(s, h, i, v) <=> After(Append(s, m), h, i, v)
<1>1. Len(s) \in Nat /\ i \in Nat /\ i <= Len(s)
  OBVIOUS
<1>2. \A k \in 1..i : Append(s, m)[k] = s[k]
  BY <1>1
<1>3. \A j \in 1..i : \A k \in j + 1..i : k \in 1..i
  BY <1>1
<1> HIDE DEF After
<1> DEFINE a == Append(s, m)
<1>4. \A k \in 1..i : a[k] = s[k]
  BY <1>2
<1> HIDE DEF a
<1>5. After(s, h, i, v) <=> After(a, h, i, v)
  BY <1>3, <1>4 DEF After
<1> QED BY <1>5 DEF a

\* The message itself: new hashes, or none.
LEMMA AfterLast ==
    ASSUME NEW S, NEW s \in Seq(S), NEW m \in S, NEW h, NEW v,
           \/ m.op = "newtaskhashes" /\ m.hashes = v
           \/ m.op # "newtaskhashes" /\ After(s, h, Len(s), v)
    PROVE  After(Append(s, m), h, Len(s) + 1, v)
<1> DEFINE a == Append(s, m)
           n == Len(s)
<1>1. n \in Nat /\ a[n + 1] = m /\ \A k \in 1..n : a[k] = s[k]
  OBVIOUS
<1> HIDE DEF a, n
<1>2. CASE m.op = "newtaskhashes" /\ m.hashes = v
  <2>1. n + 1 \in 1..n + 1 /\ \A k \in n + 1 + 1..n + 1 : FALSE
    BY <1>1
  <2>2. After(a, h, n + 1, v)
    BY <1>1, <1>2, <2>1 DEF After
  <2> QED BY <2>2 DEF a, n
<1>3. CASE m.op # "newtaskhashes" /\ After(s, h, n, v)
  <2>1. \A k \in 1..n + 1 : k \in 1..n \/ k = n + 1
    BY <1>1
  <2>2. CASE h = v /\ \A k \in 1..n : s[k].op # "newtaskhashes"
    <3>1. \A k \in 1..n + 1 : a[k].op # "newtaskhashes"
      BY <1>1, <1>3, <2>1, <2>2
    <3>2. After(a, h, n + 1, v)
      BY <2>2, <3>1 DEF After
    <3> QED BY <3>2 DEF a, n
  <2>3. ASSUME NEW j \in 1..n, s[j].op = "newtaskhashes", s[j].hashes = v,
               \A k \in j + 1..n : s[k].op # "newtaskhashes"
        PROVE  After(a, h, n + 1, v)
    <3>1. j \in 1..n + 1 /\ \A k \in j + 1..n + 1 : (k \in j + 1..n /\ k \in 1..n) \/ k = n + 1
      BY <1>1
    <3>2. \A k \in j + 1..n + 1 : a[k].op # "newtaskhashes"
      BY <1>1, <1>3, <2>3, <3>1
    <3>3. a[j].op = "newtaskhashes" /\ a[j].hashes = v
      BY <1>1, <2>3
    <3> QED BY <3>1, <3>2, <3>3 DEF After
  <2>4. After(a, h, n + 1, v)
    BY <1>3, <2>2, <2>3 DEF After, a, n
  <2> QED BY <2>4 DEF a, n
<1> QED BY <1>2, <1>3 DEF n

\* The first message is handled: its hashes are those before the others.
LEMMA AfterTail ==
    ASSUME NEW S, NEW s \in Seq(S), s # <<>>, NEW h, NEW g, NEW v, NEW i \in 1..Len(s),
           After(s, h, i, v),
           g = IF s[1].op = "newtaskhashes" THEN s[1].hashes ELSE h
    PROVE  After(Tail(s), g, i - 1, v)
<1> DEFINE t == Tail(s)
<1>1. Len(s) \in Nat /\ i \in Nat /\ i >= 1 /\ \A k \in 1..Len(s) - 1 : t[k] = s[k + 1]
  OBVIOUS
<1>2. \A k \in 1..i - 1 : t[k] = s[k + 1] /\ k + 1 \in 1..i
  BY <1>1
<1> HIDE DEF t
<1>3. CASE h = v /\ \A k \in 1..i : s[k].op # "newtaskhashes"
  <2>1. g = v
    BY <1>1, <1>3
  <2>2. After(t, g, i - 1, v)
    BY <1>2, <1>3, <2>1 DEF After
  <2> QED BY <2>2 DEF t
<1>4. ASSUME NEW j \in 1..i, s[j].op = "newtaskhashes", s[j].hashes = v,
             \A k \in j + 1..i : s[k].op # "newtaskhashes"
      PROVE  After(t, g, i - 1, v)
  <2>1. CASE j = 1
    <3>1. g = v
      BY <1>4, <2>1
    <3>2. \A k \in 1..i - 1 : k + 1 \in j + 1..i
      BY <1>1, <2>1
    <3>3. \A k \in 1..i - 1 : t[k].op # "newtaskhashes"
      BY <1>2, <1>4, <3>2
    <3> QED BY <3>1, <3>3 DEF After
  <2>2. CASE j # 1
    <3>1. j - 1 \in 1..i - 1 /\ (j - 1) + 1 = j
      BY <1>1, <2>2
    <3>2. t[j - 1].op = "newtaskhashes" /\ t[j - 1].hashes = v
      BY <1>2, <1>4, <3>1
    <3>3. \A k \in (j - 1) + 1..i - 1 : k \in 1..i - 1 /\ k + 1 \in j + 1..i
      BY <1>1, <2>2
    <3>4. \A k \in (j - 1) + 1..i - 1 : t[k].op # "newtaskhashes"
      BY <1>2, <1>4, <3>3
    <3> QED BY <3>1, <3>2, <3>4 DEF After
  <2> QED BY <2>1, <2>2
<1>5. After(t, g, i - 1, v)
  BY <1>3, <1>4 DEF After, t
<1> QED BY <1>5 DEF t

-----------------------------------------------------------------------------
(* What is on the way *)

LEMMA LineIn == ASSUME LineType PROVE Line \in Seq(Commands)
BY DEF LineType, Line

\* Written with a flush, behind what was in the buffer.
LEMMA LineFlushed ==
    ASSUME LineType, NEW m \in Commands, Flushed(m), UNCHANGED queue
    PROVE  /\ Line' = Append(Line, m)
           /\ stdin' \in Seq(Commands) /\ unflushed' \in Seq(Commands)
<1> DEFINE u == stdin \o unflushed
<1>1. /\ queue \in Seq(Commands) /\ stdin \in Seq(Commands) /\ unflushed \in Seq(Commands)
      /\ u \in Seq(Commands) /\ <<m>> \in Seq(Commands)
  BY DEF LineType
<1>2. stdin' = u \o <<m>> /\ unflushed' = <<>>
  BY DEF Flushed
<1>3. Line = queue \o u
  BY <1>1, ConcatAssociative DEF Line
<1> HIDE DEF u
<1>4. u \o <<m>> \in Seq(Commands) /\ queue \o (u \o <<m>>) \in Seq(Commands)
  BY <1>1
<1>5. Line' = queue \o (u \o <<m>>)
  BY <1>2, <1>4, ConcatEmptySeq DEF Line
<1>6. queue \o (u \o <<m>>) = (queue \o u) \o <<m>>
  BY <1>1, ConcatAssociative
<1>7. (queue \o u) \o <<m>> = Append(queue \o u, m)
  BY <1>1, AppendIsConcat
<1> QED BY <1>2, <1>3, <1>4, <1>5, <1>6, <1>7

\* Written without one.
LEMMA LineBuffered ==
    ASSUME LineType, NEW m \in Commands, unflushed' = Append(unflushed, m),
           UNCHANGED <<queue, stdin>>
    PROVE  Line' = Append(Line, m) /\ unflushed' \in Seq(Commands)
<1> DEFINE q == queue \o stdin
<1>1. q \in Seq(Commands) /\ unflushed \in Seq(Commands) /\ <<m>> \in Seq(Commands)
  BY DEF LineType
<1> HIDE DEF q
<1>2. Append(unflushed, m) = unflushed \o <<m>> /\ Append(q \o unflushed, m) = (q \o unflushed) \o <<m>>
  BY <1>1, AppendIsConcat
<1>3. q \o (unflushed \o <<m>>) = (q \o unflushed) \o <<m>>
  BY <1>1, ConcatAssociative
<1>4. Line = q \o unflushed /\ Line' = q \o unflushed'
  BY DEF Line, q
<1> QED BY <1>1, <1>2, <1>3, <1>4

\* Read by the worker.
LEMMA LineRead ==
    ASSUME LineType, queue' = queue \o stdin, stdin' = <<>>, UNCHANGED unflushed
    PROVE  Line' = Line /\ queue' \in Seq(Commands) /\ stdin' \in Seq(Commands)
<1>1. queue' \in Seq(Commands)
  BY DEF LineType
<1>2. queue' \o <<>> = queue'
  BY <1>1, ConcatEmptySeq
<1> QED BY <1>1, <1>2 DEF Line

\* Handled.
LEMMA LineHandled ==
    ASSUME LineType, queue # <<>>, queue' = Tail(queue), UNCHANGED <<stdin, unflushed>>
    PROVE  /\ Line # <<>> /\ Line[1] = Head(queue) /\ Line' = Tail(Line)
           /\ queue' \in Seq(Commands)
<1> DEFINE r == stdin \o unflushed
<1>1. /\ queue \in Seq(Commands) /\ stdin \in Seq(Commands) /\ unflushed \in Seq(Commands)
      /\ r \in Seq(Commands) /\ Tail(queue) \in Seq(Commands)
  BY DEF LineType
<1>2. Line = queue \o r /\ Line' = Tail(queue) \o r
  BY SMTT(30), <1>1, ConcatAssociative DEF Line
<1> HIDE DEF r
<1> DEFINE l == queue \o r
           k == Tail(queue) \o r
<1>3. /\ Len(queue) \in Nat /\ Len(queue) > 0 /\ Len(r) \in Nat
      /\ Len(Tail(queue)) = Len(queue) - 1
      /\ \A i \in 1..Len(queue) - 1 : Tail(queue)[i] = queue[i + 1]
  BY <1>1
<1>4. l \in Seq(Commands) /\ Len(l) = Len(queue) + Len(r)
      /\ \A i \in 1..Len(queue) + Len(r) :
            l[i] = IF i <= Len(queue) THEN queue[i] ELSE r[i - Len(queue)]
  BY <1>1, ConcatProperties
<1>5. k \in Seq(Commands) /\ Len(k) = Len(queue) - 1 + Len(r)
      /\ \A i \in 1..Len(queue) - 1 + Len(r) :
            k[i] = IF i <= Len(queue) - 1 THEN Tail(queue)[i] ELSE r[i - (Len(queue) - 1)]
  BY <1>1, <1>3, ConcatProperties
<1> HIDE DEF l, k
<1>6. l # <<>> /\ l[1] = queue[1]
  BY <1>3, <1>4
<1>7. /\ Tail(l) \in Seq(Commands) /\ Len(Tail(l)) = Len(l) - 1
      /\ \A i \in 1..Len(l) - 1 : Tail(l)[i] = l[i + 1]
  BY <1>4, <1>6
<1>8. ASSUME NEW i \in 1..Len(k) PROVE k[i] = Tail(l)[i]
  <2>1. i \in 1..Len(queue) - 1 + Len(r) /\ i + 1 \in 1..Len(queue) + Len(r) /\ i \in 1..Len(l) - 1
    BY <1>3, <1>4, <1>5
  <2>2. Tail(l)[i] = IF i + 1 <= Len(queue) THEN queue[i + 1] ELSE r[i + 1 - Len(queue)]
    BY <1>4, <1>7, <2>1
  <2>3. CASE i + 1 <= Len(queue)
    <3>1. i \in 1..Len(queue) - 1 /\ i <= Len(queue) - 1
      BY <1>3, <2>1, <2>3
    <3> QED BY <1>3, <1>5, <2>1, <2>2, <2>3, <3>1
  <2>4. CASE ~(i + 1 <= Len(queue))
    <3>1. ~(i <= Len(queue) - 1) /\ i - (Len(queue) - 1) = i + 1 - Len(queue)
      BY <1>3, <2>1, <2>4
    <3> QED BY <1>5, <2>1, <2>2, <2>4, <3>1
  <2> QED BY <2>3, <2>4
<1>9. Len(k) = Len(Tail(l))
  BY <1>3, <1>4, <1>5, <1>7
<1>10. k = Tail(l)
  BY <1>5, <1>7, <1>8, <1>9, SeqEqual
<1>11. Head(queue) = queue[1]
  BY <1>1
<1> QED BY <1>1, <1>2, <1>6, <1>10, <1>11 DEF l, k

-----------------------------------------------------------------------------
(* The steps *)

\* Nothing was sent or handled.
LEMMA LineSame ==
    ASSUME LineInv, Line' = Line, rq' = "execute" => rq = "execute",
           UNCHANGED <<sent, sentwith, hashes, newhashes>>
    PROVE  LineInv'
BY DEF LineInv, Ordered, HashesCome

LEMMA ExecuteOrdered ==
    ASSUME LineType, LineInv, NEW t \in Tasks, Execute(t) PROVE LineType' /\ LineInv'
<1>1. CASE ~Alive
  <2>1. Line' = Line
    BY <1>1 DEF Execute, Line, main
  <2> QED BY <1>1, <2>1, LineSame DEF Execute, LineType, main
<1>2. CASE Alive
  <2>1. /\ Flushed(Runtask(t)) /\ rq = "execute" /\ t \notin sent /\ rq' = rq
        /\ sent' = sent \cup {t} /\ sentwith' = [sentwith EXCEPT ![t] = hashes]
        /\ UNCHANGED <<queue, hashes, newhashes>>
    BY <1>2 DEF Execute, main
  <2> DEFINE m == Runtask(t)
  <2>2. m \in Commands /\ m.op = "runtask" /\ m.task = t /\ m.op # "newtaskhashes"
    BY DEF Runtask, Commands
  <2> HIDE DEF m
  <2>3. /\ Line' = Append(Line, m)
        /\ stdin' \in Seq(Commands) /\ unflushed' \in Seq(Commands)
    BY <2>1, <2>2, LineFlushed DEF m
  <2>4. LineType'
    BY <2>1, <2>3 DEF LineType
  <2>5. Line \in Seq(Commands)
    BY LineIn
  <2>6. /\ Len(Line) \in Nat /\ Len(Line') = Len(Line) + 1 /\ Line'[Len(Line) + 1] = m
        /\ \A i \in 1..Len(Line) : Line'[i] = Line[i]
    BY <2>2, <2>3, <2>5
  <2>7. After(Line', newhashes, Len(Line) + 1, hashes)
    BY <2>1, <2>2, <2>3, <2>5, AfterLast DEF LineInv, HashesCome
  <2>8. ASSUME NEW i \in 1..Len(Line'), Line'[i].op = "runtask"
        PROVE  Line'[i].task \in sent' /\ After(Line', newhashes, i, sentwith'[Line'[i].task])
    <3>1. CASE i = Len(Line) + 1
      BY <2>1, <2>2, <2>6, <2>7, <3>1 DEF LineType
    <3>2. CASE i # Len(Line) + 1
      <4>1. i \in 1..Len(Line) /\ i \in 0..Len(Line)
        BY <2>6, <3>2
      <4> DEFINE u == Line[i].task
      <4>2. u \in sent /\ u # t /\ u \in Tasks /\ After(Line, newhashes, i, sentwith[u])
        BY <2>1, <2>6, <2>8, <4>1 DEF LineInv, Ordered, LineType
      <4>3. sentwith'[u] = sentwith[u]
        BY <2>1, <4>2 DEF LineType
      <4>4. After(Line', newhashes, i, sentwith[u])
        BY <2>2, <2>3, <2>5, <4>1, <4>2, AfterAppend
      <4> QED BY <2>1, <2>6, <4>1, <4>2, <4>3, <4>4
    <3> QED BY <3>1, <3>2
  <2>9. Ordered' /\ HashesCome'
    BY <2>1, <2>6, <2>7, <2>8 DEF Ordered, HashesCome
  <2> QED BY <2>4, <2>9 DEF LineInv
<1> QED BY <1>1, <1>2

\* The other commands.
LEMMA OtherOrdered ==
    ASSUME LineType, LineInv, NEW m \in Commands, Line' = Append(Line, m), m.op # "runtask",
           \/ m.op = "newtaskhashes" /\ m.hashes = hashes'
           \/ m.op # "newtaskhashes" /\ UNCHANGED hashes,
           rq' = "execute" => rq = "execute", UNCHANGED <<sent, sentwith, newhashes>>
    PROVE  LineInv'
<1>1. Line \in Seq(Commands)
  BY LineIn
<1>2. /\ Len(Line) \in Nat /\ Len(Line') = Len(Line) + 1 /\ Line'[Len(Line) + 1] = m
      /\ \A i \in 1..Len(Line) : Line'[i] = Line[i]
  BY <1>1
<1>3. rq = "execute" => After(Line', newhashes, Len(Line) + 1, hashes')
  BY <1>1, AfterLast DEF LineInv, HashesCome
<1>4. ASSUME NEW i \in 1..Len(Line'), Line'[i].op = "runtask"
      PROVE  Line'[i].task \in sent /\ After(Line', newhashes, i, sentwith[Line'[i].task])
  <2>1. i \in 1..Len(Line) /\ i \in 0..Len(Line)
    BY <1>2, <1>4
  <2>2. Line'[i].task \in sent /\ After(Line, newhashes, i, sentwith[Line'[i].task])
    BY <1>2, <1>4, <2>1 DEF LineInv, Ordered
  <2> QED BY <1>1, <2>1, <2>2, AfterAppend
<1>5. Ordered' /\ HashesCome'
  BY <1>2, <1>3, <1>4 DEF Ordered, HashesCome
<1> QED BY <1>5 DEF LineInv

\* The worker handles the first message.
LEMMA HandledOrdered ==
    ASSUME LineType, LineInv, queue # <<>>, queue' = Tail(queue),
           UNCHANGED <<stdin, unflushed, sent, sentwith, hashes, rq>>,
           newhashes' = IF Head(queue).op = "newtaskhashes" THEN Head(queue).hashes
                                                            ELSE newhashes
    PROVE  /\ LineType' /\ LineInv'
           /\ Head(queue).op = "runtask" =>
                 Head(queue).task \in sent /\ sentwith[Head(queue).task] = newhashes
<1>1. /\ Line # <<>> /\ Line[1] = Head(queue) /\ Line' = Tail(Line)
      /\ queue' \in Seq(Commands) /\ Line \in Seq(Commands)
  BY LineHandled, LineIn
<1>2. LineType'
  BY <1>1 DEF LineType
<1>3. /\ Len(Line) \in Nat /\ Len(Line) >= 1 /\ Len(Line') = Len(Line) - 1
      /\ \A i \in 1..Len(Line) - 1 : Line'[i] = Line[i + 1]
  BY <1>1
<1>4. ASSUME NEW i \in 1..Len(Line), NEW v, After(Line, newhashes, i, v)
      PROVE  After(Line', newhashes', i - 1, v)
  BY <1>1, <1>4, AfterTail
<1>5. ASSUME NEW i \in 1..Len(Line'), Line'[i].op = "runtask"
      PROVE  Line'[i].task \in sent /\ After(Line', newhashes', i, sentwith[Line'[i].task])
  <2>1. i + 1 \in 1..Len(Line) /\ Line'[i] = Line[i + 1] /\ (i + 1) - 1 = i
    BY <1>3
  <2>2. /\ Line'[i].task \in sent
        /\ After(Line, newhashes, i + 1, sentwith[Line'[i].task])
    BY <1>5, <2>1 DEF LineInv, Ordered
  <2> QED BY <1>4, <2>1, <2>2
<1>6. rq = "execute" => After(Line', newhashes', Len(Line'), hashes)
  <2>1. Len(Line) \in 1..Len(Line)
    BY <1>3
  <2> QED BY <1>3, <1>4, <2>1 DEF LineInv, HashesCome
<1>7. LineInv'
  BY <1>5, <1>6 DEF LineInv, Ordered, HashesCome
<1>8. Head(queue).op = "runtask" =>
        Head(queue).task \in sent /\ sentwith[Head(queue).task] = newhashes
  <2> SUFFICES ASSUME Line[1].op = "runtask"
               PROVE  Line[1].task \in sent /\ sentwith[Line[1].task] = newhashes
    BY <1>1
  <2>1. 1 \in 1..Len(Line)
    BY <1>3
  <2>2. Line[1].task \in sent /\ After(Line, newhashes, 1, sentwith[Line[1].task])
    BY <2>1 DEF LineInv, Ordered
  <2>3. \A j \in 1..1 : j = 1
    OBVIOUS
  <2> QED BY <2>2, <2>3 DEF After
<1> QED BY <1>2, <1>7, <1>8

\* The children stay what they are, or go on; what they run with stays.
ChildrenKept ==
    /\ child' \in [Tasks -> {"none", "forked", "session", "exited", "reaped"}]
    /\ Forked' \subseteq Forked
    /\ UNCHANGED ranwith

LEMMA ChildrenSteps ==
    ASSUME ChildType,
           \/ UNCHANGED child
           \/ \E t \in Tasks : child[t] # "none" /\
                 \E c \in {"session", "exited", "reaped"} : child' = [child EXCEPT ![t] = c]
           \/ Dies,
           UNCHANGED ranwith
    PROVE  ChildrenKept
BY DEF ChildType, ChildrenKept, Forked, Dies

LEMMA Kept ==
    ASSUME HashInv, LineType', LineInv', ChildrenKept,
           \/ UNCHANGED <<sent, sentwith>>
           \/ sent \subseteq sent' /\ \A t \in sent : sentwith'[t] = sentwith[t]
    PROVE  HashInv'
BY DEF HashInv, ChildType, ChildrenKept, HashesAsSent, Forked

\* What passes neither the line nor the cooker's hashes.
LEMMA KeptAll ==
    ASSUME HashInv, ChildrenKept, rq' = "execute" => rq = "execute",
           UNCHANGED <<sent, sentwith, hashes, newhashes, queue, stdin, unflushed>>
    PROVE  HashInv'
<1>1. Line' = Line
  BY DEF Line
<1>2. LineType'
  BY DEF HashInv, LineType
<1>3. LineInv'
  BY <1>1, LineSame DEF HashInv
<1> QED BY <1>2, <1>3, Kept

LEMMA CookerStep == ASSUME HashInv, Cooker \/ CookerKilled PROVE HashInv'
<1> USE DEF HashInv
<1>1. UNCHANGED <<child, ranwith>> => ChildrenKept
  BY ChildrenSteps
<1>2. ASSUME NEW t \in Tasks, Execute(t) PROVE HashInv'
  <2>1. LineType' /\ LineInv'
    BY <1>2, ExecuteOrdered
  <2>2. \/ UNCHANGED <<sent, sentwith>>
        \/ sent \subseteq sent' /\ \A u \in sent : sentwith'[u] = sentwith[u]
    BY <1>2 DEF Execute, LineType
  <2>3. ChildrenKept
    BY <1>1, <1>2 DEF Execute, children
  <2> QED BY <2>1, <2>2, <2>3, Kept
<1>3. CASE NewTaskHashes
  <2> DEFINE m == [op |-> "newtaskhashes", hashes |-> hashes']
  <2>1. hashes' \in Nat
    BY <1>3 DEF NewTaskHashes, LineType
  <2>2. m \in Commands /\ m.op = "newtaskhashes" /\ m.op # "runtask" /\ m.hashes = hashes'
    BY <2>1 DEF Commands
  <2>3. /\ \/ unflushed' = Append(unflushed, m) /\ UNCHANGED stdin
           \/ Flushed(m)
        /\ UNCHANGED <<rq, sent, sentwith, newhashes, queue, child, ranwith>>
    BY <1>3 DEF NewTaskHashes, main, children
  <2> HIDE DEF m
  <2>4. Line' = Append(Line, m) /\ stdin' \in Seq(Commands) /\ unflushed' \in Seq(Commands)
    <3>1. stdin \in Seq(Commands)
      BY DEF LineType
    <3> QED BY <2>2, <2>3, <3>1, LineFlushed, LineBuffered
  <2>5. LineType'
    BY <2>1, <2>3, <2>4 DEF LineType
  <2>6. LineInv'
    BY <2>2, <2>3, <2>4, OtherOrdered
  <2> QED BY <1>1, <2>3, <2>5, <2>6, Kept
<1>4. ASSUME NEW op \in {"finishnow", "quit"}, Flushed(Message(op)),
             rq' = "execute" => rq = "execute",
             UNCHANGED <<sent, sentwith, hashes, newhashes, queue, child, ranwith>>
      PROVE  HashInv'
  <2>1. Message(op) \in Commands /\ Message(op).op = op
    BY DEF Message, Commands
  <2>2. /\ Line' = Append(Line, Message(op))
        /\ stdin' \in Seq(Commands) /\ unflushed' \in Seq(Commands)
    BY <1>4, <2>1, LineFlushed
  <2>3. LineType'
    BY <1>4, <2>2 DEF LineType
  <2>4. LineInv'
    BY <1>4, <2>1, <2>2, OtherOrdered
  <2> QED BY <1>1, <1>4, <2>3, <2>4, Kept
<1>5. CASE SendFinishNow
  <2>1. UNCHANGED <<rq, sent, sentwith, hashes, newhashes, queue, child, ranwith>>
    BY <1>5 DEF SendFinishNow, main, children
  <2>2. CASE Flushed(Message("finishnow"))
    BY <1>4, <2>1, <2>2
  <2>3. CASE UNCHANGED <<stdin, unflushed>>
    BY <1>1, <2>1, <2>3, KeptAll
  <2> QED BY <1>5, <2>2, <2>3 DEF SendFinishNow
<1>6. CASE Teardown
  <2>1. /\ UNCHANGED <<sent, sentwith, hashes, newhashes, queue, child, ranwith>>
        /\ rq' = "teardown"
    BY <1>6 DEF Teardown, main, children
  <2>2. CASE Flushed(Message("quit"))
    BY <1>4, <2>1, <2>2
  <2>3. CASE UNCHANGED <<stdin, unflushed>>
    BY <1>1, <2>1, <2>3, KeptAll
  <2> QED BY <1>6, <2>2, <2>3 DEF Teardown
<1>7. CASE Read
  BY <1>1, <1>7, KeptAll DEF Read, main, children
<1>8. CASE TornDown
  BY <1>1, <1>8, KeptAll DEF TornDown, main, pipes, children
<1>9. CASE CookerKilled
  <2> DEFINE q == queue \o stdin
  <2>1. q \in Seq(Commands) /\ unflushed \in Seq(Commands)
    BY DEF LineType
  <2>2. /\ UNCHANGED <<sent, sentwith, hashes, newhashes, queue, stdin, child, ranwith>>
        /\ rq' = "killed" /\ unflushed' = <<>>
    BY <1>9 DEF CookerKilled, main, children
  <2>3. LineType'
    BY <2>2 DEF LineType
  <2>4. Line = q \o unflushed /\ Line' = q \o <<>>
    BY <2>2 DEF Line
  <2> HIDE DEF q
  <2>5. Line' = q
    BY <2>1, <2>4, ConcatEmptySeq
  <2>6. /\ Len(q) \in Nat /\ Len(Line) \in Nat /\ Len(q) <= Len(Line)
        /\ \A i \in 1..Len(q) : Line[i] = q[i]
    BY <2>1, <2>4
  <2>7. \A i \in 1..Len(q) : /\ i \in 1..Len(Line)
                             /\ \A k \in 1..i : k \in 1..Len(q)
                             /\ \A j \in 1..i : \A k \in j + 1..i : k \in 1..Len(q)
    BY <2>6
  <2>8. ASSUME NEW i \in 1..Len(q), NEW v, After(Line, newhashes, i, v)
        PROVE  After(q, newhashes, i, v)
    BY <2>6, <2>7, <2>8 DEF After
  <2>9. Ordered'
    BY <2>2, <2>5, <2>6, <2>7, <2>8 DEF LineInv, Ordered
  <2>10. LineInv'
    BY <2>2, <2>9 DEF LineInv, HashesCome
  <2> QED BY <1>1, <2>2, <2>3, <2>10, Kept
<1> QED BY <1>2, <1>3, <1>5, <1>6, <1>7, <1>8, <1>9 DEF Cooker

LEMMA MainStep == ASSUME HashInv, Main PROVE HashInv'
<1> USE DEF HashInv
<1>1. UNCHANGED <<child, ranwith>> => ChildrenKept
  BY ChildrenSteps
<1>2. CASE Select
  <2>1. /\ queue' = queue \o stdin /\ stdin' = <<>>
        /\ UNCHANGED <<unflushed, rq, sent, sentwith, hashes, newhashes, child, ranwith>>
    BY <1>2 DEF Select, cooker, children
  <2>2. Line' = Line /\ LineType'
    BY <2>1, LineRead DEF LineType
  <2>3. LineInv'
    BY <2>1, <2>2, LineSame
  <2> QED BY <1>1, <2>1, <2>2, <2>3, Kept
<1>3. CASE NewHashes \/ HandleFinishNow \/ HandleQuit
  <2>1. /\ queue # <<>> /\ queue' = Tail(queue)
        /\ UNCHANGED <<stdin, unflushed, sent, sentwith, hashes, rq, child, ranwith>>
        /\ newhashes' = IF Head(queue).op = "newtaskhashes" THEN Head(queue).hashes
                                                            ELSE newhashes
    BY <1>3 DEF NewHashes, HandleFinishNow, HandleQuit, Turn, Handled, cooker, pipes, children
  <2>2. LineType' /\ LineInv'
    BY <2>1, HandledOrdered
  <2> QED BY <1>1, <2>1, <2>2, Kept
<1>4. CASE HandleRuntask
  <2> DEFINE t == Head(queue).task
  <2>1. /\ queue # <<>> /\ queue' = Tail(queue) /\ Head(queue).op = "runtask"
        /\ UNCHANGED <<stdin, unflushed, sent, sentwith, hashes, rq, newhashes>>
        /\ child' = [child EXCEPT ![t] = "forked"]
        /\ ranwith' = [ranwith EXCEPT ![t] = newhashes]
    BY <1>4 DEF HandleRuntask, Turn, Handled, cooker, pipes
  <2>2. LineType' /\ LineInv' /\ t \in sent /\ sentwith[t] = newhashes
    BY <2>1, HandledOrdered
  <2> HIDE DEF t
  <2>3. t \in Tasks /\ newhashes \in Nat
    BY <2>2 DEF LineType
  <2>4. ChildType'
    BY <2>1, <2>3 DEF ChildType
  <2>5. Forked' \subseteq Forked \cup {t}
    BY <2>1 DEF Forked, ChildType
  <2>6. HashesAsSent'
    BY <2>1, <2>2, <2>3, <2>5 DEF HashesAsSent, ChildType, LineType
  <2> QED BY <2>1, <2>2, <2>4, <2>5, <2>6
<1>5. CASE Garbage
  BY <1>1, <1>5, KeptAll DEF Garbage, cooker, pipes, children
<1>6. CASE KillChild
  <2>1. ChildrenKept
    <3>1. PICK t \in killing :
            IF child[t] \in {"session", "exited"}
            THEN \E u \in Tasks : /\ u = t \/ child[u] = "exited"
                                  /\ child' = [child EXCEPT ![t] = "exited", ![u] = "reaped"]
            ELSE UNCHANGED child
      BY <1>6 DEF KillChild
    <3> QED BY <1>6, <3>1 DEF KillChild, ChildrenKept, ChildType, Forked
  <2> QED BY <1>6, <2>1, KeptAll DEF KillChild, cooker, pipes
<1>7. CASE FinishedNow \/ Join
  <2>1. ChildrenKept
    BY <1>7, ChildrenSteps DEF FinishedNow, Join
  <2> QED BY <1>7, <2>1, KeptAll DEF FinishedNow, Join, cooker, pipes
<1>8. CASE ReadPipes
  BY <1>1, <1>8, KeptAll DEF ReadPipes, cooker, pipes
<1>9. CASE Waitpid
  <2>1. ChildrenKept
    BY <1>9 DEF Waitpid, ChildrenKept, ChildType, Forked
  <2> QED BY <1>9, <2>1, KeptAll DEF Waitpid, cooker, pipes
<1> QED BY <1>2, <1>3, <1>4, <1>5, <1>6, <1>7, <1>8, <1>9 DEF Main

LEMMA OtherStep ==
    ASSUME HashInv,
           \/ Flush \/ WorkerKilled \/ UNCHANGED vars
           \/ \E t \in Tasks : Session(t) \/ Fire(t) \/ Ends(t)
    PROVE  HashInv'
<1>1. UNCHANGED <<child, ranwith>> => ChildrenKept
  BY ChildrenSteps DEF HashInv
<1>2. CASE Flush \/ UNCHANGED vars
  BY <1>1, <1>2, KeptAll DEF Flush, vars, cooker, main, pipes, children
<1>3. CASE WorkerKilled
  <2>1. ChildrenKept
    BY <1>3, ChildrenSteps DEF WorkerKilled, HashInv
  <2> QED BY <1>3, <2>1, KeptAll DEF WorkerKilled, cooker, pipes
<1>4. ASSUME NEW t \in Tasks, Session(t) \/ Fire(t) \/ Ends(t) PROVE HashInv'
  <2>1. ChildrenKept
    BY <1>4, ChildrenSteps DEF Session, Fire, Ends, HashInv
  <2> QED BY <1>4, <2>1, KeptAll DEF Session, Fire, Ends, cooker, pipes, main
<1> QED BY <1>2, <1>3, <1>4

\* A task runs with the task hashes it was sent with: however they were
\* buffered, read and handled by their kind, nothing overtakes them.
THEOREM HashesKeepUp == Spec => []HashesAsSent
<1>1. Init => HashInv
  <2> SUFFICES ASSUME Init PROVE HashInv
    OBVIOUS
  <2>1. Line = <<>>
    BY ConcatEmptySeq DEF Init, Line
  <2>2. Len(Line) = 0
    BY <2>1
  <2>3. \A i \in 1..0 : FALSE
    OBVIOUS
  <2>4. LineInv
    BY <2>2, <2>3 DEF Init, LineInv, Ordered, HashesCome, After
  <2> QED BY <2>4 DEF Init, HashInv, LineType, ChildType, Forked, HashesAsSent
<1>2. HashInv /\ [Next]_vars => HashInv'
  BY CookerStep, MainStep, OtherStep DEF Next
<1>3. HashInv => HashesAsSent
  BY DEF HashInv
<1> QED BY <1>1, <1>2, <1>3, PTL DEF Spec
=============================================================================
