---------------------------- MODULE PublishProofs ----------------------------
(***************************************************************************)
(* For any number of builders, hashes, builds and faults: what has equal   *)
(* outputs has one unihash, and a number stands for one checksum.          *)
(***************************************************************************)
EXTENDS PublishProps, SequenceTheorems, TLAPS

-----------------------------------------------------------------------------
(* Types *)

LEMMA InitType == Init => TypeOK
<1> SUFFICES ASSUME Init PROVE TypeOK
  OBVIOUS
<1>1. HashServType
  BY DEF Init, HashServType
<1>2. PRServType
  <2>1. table \subseteq PRRow
    BY EarlierAssumption DEF Init, PRInit
  <2>2. requestqueue \in Seq(PRRequests)
    BY DEF Init, PRInit
  <2> QED BY <2>1, <2>2 DEF Init, PRInit, PRServType
<1>3. WireType
  BY PublishAssumption DEF Init, WireType, Messages, NoMessage
<1>4. BuilderType
  BY PublishAssumption DEF Init, BuilderType, NoEntry
<1> QED BY <1>1, <1>2, <1>3, <1>4 DEF TypeOK

\* What the table becomes when a row is put in: its rows, with that one in between.
LEMMA InsertPlace ==
    ASSUME rows \in Seq(Row), NEW row \in Row, Insert(row)
    PROVE  /\ rows' \in Seq(Row) /\ Len(rows') = Len(rows) + 1
           /\ \E i \in 1..Len(rows) + 1 : \A k \in 1..Len(rows) + 1 :
                rows'[k] = IF k < i THEN rows[k] ELSE IF k = i THEN row ELSE rows[k - 1]
<1>0. Len(rows) \in Nat
  OBVIOUS
<1>1. CASE rows' = Append(rows, row)
  <2>1. /\ rows' \in Seq(Row) /\ Len(rows') = Len(rows) + 1
        /\ rows'[Len(rows) + 1] = row /\ \A k \in 1..Len(rows) : rows'[k] = rows[k]
    BY <1>1
  <2>2. \A k \in 1..Len(rows) + 1 :
          rows'[k] = IF k < Len(rows) + 1 THEN rows[k]
                     ELSE IF k = Len(rows) + 1 THEN row ELSE rows[k - 1]
    BY <1>0, <2>1
  <2>3. Len(rows) + 1 \in 1..Len(rows) + 1
    BY <1>0
  <2> QED BY <2>1, <2>2, <2>3
<1>2. CASE \E i \in DOMAIN rows :
            rows' = SubSeq(rows, 1, i - 1) \o <<row>> \o SubSeq(rows, i, Len(rows))
  <2>1. PICK i \in DOMAIN rows :
           rows' = SubSeq(rows, 1, i - 1) \o <<row>> \o SubSeq(rows, i, Len(rows))
    BY <1>2
  <2> DEFINE before == SubSeq(rows, 1, i - 1)
             after  == SubSeq(rows, i, Len(rows))
  <2>2. i \in 1..Len(rows)
    OBVIOUS
  <2>3. /\ before \in Seq(Row) /\ Len(before) = i - 1
        /\ \A k \in 1..i - 1 : before[k] = rows[k]
    BY <2>2
  <2>4. /\ after \in Seq(Row) /\ Len(after) = Len(rows) - i + 1
        /\ \A k \in 1..Len(rows) - i + 1 : after[k] = rows[k + i - 1]
    BY <2>2
  <2>5. <<row>> \in Seq(Row) /\ Len(<<row>>) = 1 /\ <<row>>[1] = row
    OBVIOUS
  <2> DEFINE front == before \o <<row>>
  <2> HIDE DEF before, after
  <2>6. /\ front \in Seq(Row) /\ Len(front) = i
        /\ \A k \in 1..i : front[k] = IF k = i THEN row ELSE before[k]
    BY <2>2, <2>3, <2>5
  <2> HIDE DEF front
  <2>7. /\ rows' \in Seq(Row) /\ Len(rows') = Len(rows) + 1
        /\ \A k \in 1..Len(rows) + 1 : rows'[k] = IF k <= i THEN front[k] ELSE after[k - i]
    <3>1. /\ front \o after \in Seq(Row)
          /\ Len(front \o after) = Len(front) + Len(after)
          /\ \A k \in 1..Len(front) + Len(after) :
                (front \o after)[k] = IF k <= Len(front) THEN front[k] ELSE after[k - Len(front)]
      BY <2>4, <2>6, ConcatProperties
    <3>2. Len(front) = i /\ Len(front) + Len(after) = Len(rows) + 1
      BY <2>2, <2>4, <2>6
    <3>3. rows' = front \o after
      BY <2>1 DEF front, before, after
    <3> QED BY <3>1, <3>2, <3>3
  <2>8. ASSUME NEW k \in 1..Len(rows) + 1, k > i
        PROVE  after[k - i] = rows[k - 1]
    <3>1. k - i \in 1..Len(rows) - i + 1 /\ (k - i) + i - 1 = k - 1
      BY <2>2, <2>8
    <3> QED BY <3>1, <2>4
  <2>9. ASSUME NEW k \in 1..Len(rows) + 1
        PROVE  rows'[k] = IF k < i THEN rows[k] ELSE IF k = i THEN row ELSE rows[k - 1]
    <3>1. CASE k < i
      <4>1. k \in 1..i - 1 /\ k \in 1..i /\ k # i /\ k <= i
        BY <2>2, <3>1
      <4>2. before[k] = rows[k] /\ front[k] = before[k] /\ rows'[k] = front[k]
        BY <4>1, <2>3, <2>6, <2>7
      <4> QED BY <3>1, <4>2
    <3>2. CASE k = i
      <4>1. k \in 1..i /\ k <= i
        BY <2>2, <3>2
      <4> QED BY <3>2, <4>1, <2>6, <2>7
    <3>3. CASE k > i
      <4>1. ~(k <= i) /\ ~(k < i) /\ k # i
        BY <2>2, <3>3
      <4> QED BY <3>3, <4>1, <2>7, <2>8
    <3> QED BY <3>1, <3>2, <3>3, <2>2
  <2>10. i \in 1..Len(rows) + 1
    BY <2>2
  <2> QED BY <2>7, <2>9, <2>10
<1> QED BY <1>1, <1>2 DEF Insert

\* No other row comes, and none goes.
LEMMA Inserted ==
    ASSUME rows \in Seq(Row), NEW row \in Row, Insert(row)
    PROVE  /\ rows' \in Seq(Row)
           /\ \A k \in DOMAIN rows' : rows'[k] = row \/ \E j \in DOMAIN rows : rows'[k] = rows[j]
           /\ \A j \in DOMAIN rows : \E k \in DOMAIN rows' : rows'[k] = rows[j]
           /\ \E k \in DOMAIN rows' : rows'[k] = row
<1>1. PICK i \in 1..Len(rows) + 1 : \A k \in 1..Len(rows) + 1 :
        rows'[k] = IF k < i THEN rows[k] ELSE IF k = i THEN row ELSE rows[k - 1]
  BY InsertPlace
<1>2. /\ rows' \in Seq(Row) /\ Len(rows) \in Nat
      /\ DOMAIN rows = 1..Len(rows) /\ DOMAIN rows' = 1..Len(rows) + 1
  BY InsertPlace
<1>3. ASSUME NEW k \in 1..Len(rows) + 1
      PROVE  rows'[k] = row \/ \E j \in 1..Len(rows) : rows'[k] = rows[j]
  <2>1. CASE k < i
    BY <1>1, <1>2, <2>1
  <2>2. CASE k > i
    <3>1. k - 1 \in 1..Len(rows) /\ rows'[k] = rows[k - 1]
      BY <1>1, <1>2, <2>2
    <3> QED BY <3>1
  <2> QED BY <1>1, <1>2, <2>1, <2>2
<1>4. ASSUME NEW j \in 1..Len(rows)
      PROVE  \E k \in 1..Len(rows) + 1 : rows'[k] = rows[j]
  <2>1. CASE j < i
    BY <1>1, <1>2, <2>1
  <2>2. CASE j >= i
    <3>1. j + 1 \in 1..Len(rows) + 1 /\ rows'[j + 1] = rows[j]
      BY <1>1, <1>2, <2>2
    <3> QED BY <3>1
  <2> QED BY <1>1, <1>2, <2>1, <2>2
<1>5. rows'[i] = row
  BY <1>1
<1> QED BY <1>2, <1>3, <1>4, <1>5

\* The server keeps its table, and answers a report.
LEMMA Dispatched ==
    ASSUME HashServType, NEW m \in Messages, NEW a, Dispatch(m, a)
    PROVE  /\ rows' \in Seq(Row) /\ steady' \in BOOLEAN
           /\ m.op = "report" => a \in Hashes
<1> USE DEF HashServType
<1>1. CASE NothingNew /\ m.op # "report"
  BY <1>1 DEF NothingNew
<1>2. CASE m.op = "report" /\ HandleReport(m.taskhash, m.outhash, m.unihash, a)
  <2>1. m.taskhash \in Hashes /\ m.outhash \in Outhashes /\ m.unihash \in Hashes
    BY <1>2 DEF Messages, NoMessage
  <2>2. \A i \in DOMAIN rows : rows[i].unihash \in Hashes
    <3>1. \A i \in DOMAIN rows : rows[i] \in Row
      OBVIOUS
    <3> QED BY <3>1 DEF Row
  <2>3. a \in Hashes
    BY <1>2, <2>1, <2>2 DEF HandleReport, OfOutput
  <2>4. NewRow(m.outhash, m.taskhash, a) \in Row
    BY <2>1, <2>3 DEF NewRow, Row
  <2>5. CASE NothingNew
    BY <2>3, <2>5 DEF NothingNew
  <2>6. CASE Insert(NewRow(m.outhash, m.taskhash, a))
    BY <2>3, <2>4, <2>6, Inserted DEF Insert
  <2> QED BY <1>2, <2>5, <2>6 DEF HandleReport
<1>3. CASE m.op = "report-equiv" /\ HandleEquiv(m.taskhash, m.unihash, a)
  <2>1. NewRow(NoOuthash, m.taskhash, m.unihash) \in Row
    BY <1>3 DEF Messages, NoMessage, NewRow, Row
  <2>2. CASE NothingNew
    BY <2>2, <1>3 DEF NothingNew
  <2>3. CASE Insert(NewRow(NoOuthash, m.taskhash, m.unihash))
    BY <2>1, <2>3, <1>3, Inserted DEF Insert
  <2> QED BY <1>3, <2>2, <2>3 DEF HandleEquiv
<1> QED BY <1>1, <1>2, <1>3 DEF Dispatch

LEMMA ServedType ==
    ASSUME TypeOK, (\E b \in Builders : Serve(b)) \/ (\E m \in strays : ServeStray(m))
    PROVE  TypeOK'
<1>1. CASE \E b \in Builders : Serve(b)
  <2>1. PICK b \in Builders : Serve(b)
    BY <1>1
  <2>2. PICK a \in Hashes \cup {None} : /\ Dispatch(message[b], a) /\ ClockStep
                                       /\ answer' = [answer EXCEPT ![b] = a]
    BY <2>1 DEF Serve
  <2>3. message[b] \in Messages
    BY <2>1 DEF TypeOK, WireType
  <2>4. /\ rows' \in Seq(Row) /\ steady' \in BOOLEAN
        /\ message[b].op = "report" => a \in Hashes
    BY <2>2, <2>3, Dispatched DEF TypeOK
  <2>5. HashServType'
    BY <2>1, <2>4 DEF Serve, TypeOK, HashServType
  <2>6. PRServType'
    BY <2>1 DEF Serve, TypeOK, PRServType, prserv
  <2>7. WireType'
    BY <2>1, <2>2, <2>4 DEF Serve, TypeOK, WireType
  <2>8. bounds' \in [builds : Nat, faults : Nat]
    BY <2>2 DEF ClockStep, TypeOK, BuilderType
  <2>9. BuilderType'
    BY <2>1, <2>8 DEF Serve, TypeOK, BuilderType, siggen
  <2> QED BY <2>5, <2>6, <2>7, <2>9 DEF TypeOK
<1>2. CASE \E m \in strays : ServeStray(m)
  <2>1. PICK m \in strays : ServeStray(m)
    BY <1>2
  <2>2. PICK a : Dispatch(m, a) /\ ClockStep
    BY <2>1 DEF ServeStray
  <2>3. rows' \in Seq(Row) /\ steady' \in BOOLEAN
    BY <2>2, Dispatched DEF TypeOK, HashServType
  <2>4. HashServType'
    BY <2>1, <2>3 DEF ServeStray, TypeOK, HashServType
  <2>5. PRServType'
    BY <2>1 DEF ServeStray, TypeOK, PRServType, prserv
  <2>6. WireType'
    BY <2>1 DEF ServeStray, TypeOK, WireType, wires
  <2>7. bounds' \in [builds : Nat, faults : Nat]
    BY <2>2 DEF ClockStep, TypeOK, BuilderType
  <2>8. BuilderType'
    BY <2>1, <2>7 DEF ServeStray, TypeOK, BuilderType, siggen, wires
  <2> QED BY <2>4, <2>5, <2>6, <2>8 DEF TypeOK
<1> QED BY <1>1, <1>2

LEMMA BreakType == ASSUME TypeOK, NEW b \in Builders, Break(b) PROVE TypeOK'
<1>1. HashServType'
  BY DEF Break, TypeOK, HashServType, WireType
<1>2. PRServType'
  BY DEF Break, TypeOK, PRServType, prserv
<1>3. WireType'
  BY PublishAssumption DEF Break, TypeOK, WireType
<1>4. BuilderType'
  BY DEF Break, TypeOK, BuilderType, siggen
<1> QED BY <1>1, <1>2, <1>3, <1>4 DEF TypeOK

\* The steps of a builder with the hash server: none concerns the servers' state.
LEMMA BuilderSteps ==
    ASSUME TypeOK, NEW b \in Builders,
           \/ Parse(b) \/ GotUnihash(b) \/ Restore(b) \/ ReportUnihash(b) \/ Reported(b)
           \/ Rehash(b) \/ ReportEquiv(b) \/ EquivReported(b)
    PROVE  TypeOK'
<1> USE DEF TypeOK
<1>1. HashServType'
  BY DEF Parse, GotUnihash, Restore, ReportUnihash, Reported, Rehash, ReportEquiv,
         EquivReported, NoHashServ, HashServType
<1>2. PRServType'
  BY DEF Parse, GotUnihash, Restore, ReportUnihash, Reported, Rehash, ReportEquiv,
         EquivReported, prserv, PRServType
<1>3. hash[b] \in Hashes => Unihash(b, hash[b]) \in Hashes
  BY DEF Unihash, WireType
<1>4. CASE Parse(b)
  <2>1. PICK t \in Hashes :
          /\ hash' = [hash EXCEPT ![b] = t]
          /\ out' = [out EXCEPT ![b] = None]
          /\ IF cached[b].taskhash = t
             THEN /\ unihash' = [unihash EXCEPT ![b] = cached[b].unihash]
                  /\ Goto(b, "build") /\ UNCHANGED wires
             ELSE /\ AskUnihash(b, t) /\ Goto(b, "get")
                  /\ UNCHANGED unihash
    BY <1>4 DEF Parse
  <2>2. cached[b].taskhash = t => cached[b].unihash \in Hashes
    BY NoneAssumption DEF BuilderType, NoEntry
  <2>3. WireType'
    BY <2>1, PublishAssumption DEF WireType, wires, AskUnihash, Send, Messages
  <2>4. BuilderType'
    <3>1. /\ bounds' \in [builds : Nat, faults : Nat] /\ UNCHANGED <<cached, sstate>>
          /\ phase[b] = "idle"
      BY <1>4 DEF Parse, BuilderType
    <3>2. hash' \in [Builders -> Hashes \cup {None}] /\ out' \in [Builders -> Outhashes \cup {None}]
      BY <2>1 DEF BuilderType
    <3>3. CASE cached[b].taskhash = t
      BY <2>1, <2>2, <3>1, <3>2, <3>3 DEF BuilderType, Goto, wires
    <3>4. CASE cached[b].taskhash # t
      BY <2>1, <3>1, <3>2, <3>4 DEF BuilderType, WireType, Goto, AskUnihash, Send
    <3> QED BY <3>3, <3>4
  <2> QED BY <1>1, <1>2, <2>3, <2>4
<1>5. CASE GotUnihash(b)
  <2>1. WireType'
    BY <1>5, PublishAssumption DEF GotUnihash, Received, WireType, Messages
  <2>2. BuilderType'
    BY <1>5, <1>3 DEF GotUnihash, Goto, SetUnihash, Received, BuilderType, WireType
  <2> QED BY <1>1, <1>2, <2>1, <2>2
<1>6. CASE Restore(b)
  <2>1. WireType' /\ BuilderType'
    BY <1>6 DEF Restore, Goto, WireType, BuilderType, wires, siggen
  <2> QED BY <1>1, <1>2, <2>1
<1>7. CASE ReportUnihash(b)
  <2>1. WireType'
    BY <1>7, PublishAssumption DEF ReportUnihash, Send, WireType, BuilderType, Messages
  <2>2. BuilderType'
    BY <1>7 DEF ReportUnihash, Goto, Send, BuilderType, WireType
  <2> QED BY <1>1, <1>2, <2>1, <2>2
<1>8. CASE Reported(b)
  <2>1. WireType'
    BY <1>8, PublishAssumption DEF Reported, Received, WireType, Messages
  <2>2. BuilderType'
    BY <1>8 DEF Reported, Answered, Goto, SetUnihash, Received, BuilderType, WireType
  <2> QED BY <1>1, <1>2, <2>1, <2>2
<1>9. CASE Rehash(b)
  <2>1. WireType'
    BY <1>9, PublishAssumption DEF Rehash, AskUnihash, Send, WireType, Messages
  <2>2. BuilderType'
    BY <1>9 DEF Rehash, Goto, AskUnihash, Send, BuilderType, WireType
  <2> QED BY <1>1, <1>2, <2>1, <2>2
<1>10. CASE ReportEquiv(b)
  <2>1. WireType'
    BY SMTT(30), <1>10, PublishAssumption DEF ReportEquiv, Received, Send, WireType, BuilderType, Messages
  <2>2. BuilderType'
    BY <1>10, <1>3 DEF ReportEquiv, Goto, Received, Send, SetUnihash, BuilderType, WireType
  <2> QED BY <1>1, <1>2, <2>1, <2>2
<1>11. CASE EquivReported(b)
  <2>1. WireType'
    BY <1>11, PublishAssumption DEF EquivReported, Received, WireType, Messages
  <2>2. BuilderType'
    BY <1>11 DEF EquivReported, Goto, Received, SetUnihash, BuilderType, WireType
  <2> QED BY <1>1, <1>2, <2>1, <2>2
<1> QED BY <1>4, <1>5, <1>6, <1>7, <1>8, <1>9, <1>10, <1>11

\* What concerns the PR server.
LEMMA NumberSteps ==
    ASSUME TypeOK,
           \/ \E b \in Builders : AskPR(b) \/ PRFailed(b)
           \/ PRAnswers \/ PREnd \/ PRStop \/ PRThreads
    PROVE  TypeOK'
<1> USE DEF TypeOK
<1>1. HashServType'
  BY DEF AskPR, PRFailed, PRAnswers, PREnd, PRStop, PRThreads, NoHashServ, HashServType
<1>2. WireType'
  BY DEF AskPR, PRFailed, PRAnswers, PREnd, PRStop, PRThreads, wires, WireType
<1>3. ASSUME NEW B, Over(B), UNCHANGED <<message, sstate>>,
             bounds' \in [builds : Nat, faults : Nat]
      PROVE  BuilderType'
  BY <1>3 DEF Over, BuilderType
<1>4. CASE \E b \in Builders : AskPR(b)
  <2>1. PICK b \in Builders : AskPR(b)
    BY <1>4
  <2>2. unihash[b] \in Checksums
    BY <2>1, PublishAssumption DEF AskPR, BuilderType
  <2>3. [from |-> b, op |-> "getPR", package |-> Package, checksum |-> unihash[b]] \in PRRequests
    BY <2>2, PublishAssumption DEF PRRequests
  <2>4. requestqueue' \in Seq(PRRequests)
    BY <2>1, <2>3 DEF AskPR, Accept, PRServType
  <2>5. PRServType'
    BY <2>1, <2>4 DEF AskPR, Accept, PRServType
  <2>6. BuilderType'
    BY <2>1 DEF AskPR, Goto, siggen, wires, BuilderType
  <2> QED BY <1>1, <1>2, <2>5, <2>6
<1>5. CASE \E b \in Builders : PRFailed(b)
  <2>1. PRServType'
    BY <1>5 DEF PRFailed, prserv, PRServType
  <2>2. BuilderType'
    BY <1>5, <1>3 DEF PRFailed, wires, BuilderType
  <2> QED BY <1>1, <1>2, <2>1, <2>2
<1>6. CASE PRAnswers
  <2>1. PICK v \in 0..Cardinality(table) + MaxBuilds : GetPR(Head(requestqueue), v)
    BY <1>6 DEF PRAnswers
  <2> DEFINE q == Head(requestqueue)
  <2>2. q \in PRRequests /\ Tail(requestqueue) \in Seq(PRRequests) /\ q.op = "getPR"
    BY <1>6 DEF PRAnswers, HandlerGets, PRServType
  <2>3. q.package \in Packages /\ q.checksum \in Checksums
    BY <2>2 DEF PRRequests
  <2>4. v \in Nat
    BY <2>1 DEF GetPR, GetValue, NextValue, RowsOf, PRServType, PRRow
  <2>5. [package |-> q.package, checksum |-> q.checksum, value |-> v] \in PRRow
    BY <2>3, <2>4 DEF PRRow
  <2> HIDE DEF q
  <2>6. table' \subseteq PRRow /\ dirty' \in BOOLEAN
    BY <2>1, <2>5 DEF GetPR, GetValue, PRServType, q
  <2>7. PRServType'
    BY <2>1, <2>2, <2>5, <2>6 DEF GetPR, PRServType, q
  <2>8. BuilderType'
    BY <1>6, <1>3 DEF PRAnswers, wires, BuilderType
  <2> QED BY <1>1, <1>2, <2>7, <2>8
<1>7. CASE PREnd
  <2>1. PRServType'
    <3>1. Ended
      BY <1>7 DEF PREnd, Join, Killed
    <3>2. requestqueue' \in Seq(PRRequests)
      BY <3>1 DEF Ended
    <3>3. given' \subseteq PRRow
      BY <1>7 DEF PREnd, Join, Killed, PRServType
    <3> QED BY <3>1, <3>2, <3>3 DEF Ended, PRServType
  <2>2. bounds' \in [builds : Nat, faults : Nat]
    BY <1>7 DEF PREnd, BuilderType
  <2>3. BuilderType'
    BY <1>7, <1>3, <2>2 DEF PREnd, wires
  <2> QED BY <1>1, <1>2, <2>1, <2>3
<1>8. CASE PRStop
  <2>1. [op |-> "quit"] \in PRRequests
    BY DEF PRRequests
  <2>2. PRServType'
    <3>1. CASE Accept([op |-> "quit"])
      BY <2>1, <3>1 DEF Accept, PRServType
    <3>2. CASE Sigterm
      BY <3>2 DEF Sigterm, Commit, PRServType
    <3> QED BY <1>8, <3>1, <3>2 DEF PRStop
  <2>3. BuilderType'
    BY <1>8 DEF PRStop, siggen, wires, BuilderType
  <2> QED BY <1>1, <1>2, <2>2, <2>3
<1>9. CASE PRThreads
  <2>1. CASE Start \/ SyncIfDirty \/ HandlerEnds \/ SigtermQuits
    <3>1. PRServType'
      BY <2>1 DEF Start, SyncIfDirty, Commit, HandlerEnds, SigtermQuits, PRServType
    <3> QED BY <1>1, <1>2, <3>1, <1>9 DEF PRThreads, siggen, wires, BuilderType
  <2>2. CASE HandlerGets /\ Quit(Head(requestqueue))
    <3>1. PRServType'
      BY <2>2 DEF HandlerGets, Quit, PRServType
    <3> QED BY <1>1, <1>2, <3>1, <1>9 DEF PRThreads, siggen, wires, BuilderType
  <2> QED BY <1>9, <2>1, <2>2 DEF PRThreads
<1> QED BY <1>4, <1>5, <1>6, <1>7, <1>8, <1>9

LEMMA StutterType == ASSUME TypeOK, UNCHANGED vars PROVE TypeOK'
BY DEF TypeOK, HashServType, PRServType, WireType, BuilderType, vars, siggen, wires, prserv

\* Publish: with any number of builders and whatever fails, a report that is
\* answered is answered with a unihash, and a builder that goes on has one.
THEOREM TypeCorrect == Spec => []TypeOK
<1>1. ASSUME TypeOK, [Next]_vars PROVE TypeOK'
  BY <1>1, ServedType, BreakType, BuilderSteps, NumberSteps, StutterType DEF Next
<1> QED BY <1>1, InitType, PTL DEF Spec

-----------------------------------------------------------------------------
(* The hash server *)

LEMMA ReportShares ==
    ASSUME HashServType, OuthashShared, NEW m \in Messages, NEW a, Dispatch(m, a)
    PROVE  OuthashShared'
<1> USE DEF HashServType
<1>1. CASE NothingNew
  BY <1>1 DEF NothingNew, OuthashShared
<1>2. ASSUME NEW row \in Row, Insert(row),
             \/ row.outhash = NoOuthash
             \/ \A j \in DOMAIN rows : rows[j].outhash = row.outhash => rows[j].unihash = row.unihash
      PROVE  OuthashShared'
  <2>1. \A k \in DOMAIN rows' : rows'[k] = row \/ \E j \in DOMAIN rows : rows'[k] = rows[j]
    BY <1>2, Inserted
  <2> QED BY <1>2, <2>1 DEF OuthashShared
<1>3. CASE m.op = "report" /\ HandleReport(m.taskhash, m.outhash, m.unihash, a)
  <2>1. m.taskhash \in Hashes /\ m.outhash \in Outhashes /\ m.unihash \in Hashes
    BY <1>3 DEF Messages, NoMessage
  <2>2. a \in Hashes
    BY Dispatched, <1>3
  <2> DEFINE row == NewRow(m.outhash, m.taskhash, a)
  <2>3. row \in Row /\ row.outhash = m.outhash /\ row.unihash = a
    BY <2>1, <2>2 DEF NewRow, Row
  <2> HIDE DEF row
  <2>4. CASE Insert(row)
    <3>1. \A j \in DOMAIN rows : rows[j].outhash = m.outhash => rows[j].unihash = a
      BY <1>3, <1>1, <2>1, NoOuthashAssumption DEF HandleReport, OfOutput, OuthashShared
    <3> QED BY <1>2, <2>3, <2>4, <3>1
  <2>5. NothingNew \/ Insert(row)
    BY <1>3 DEF HandleReport, row
  <2> QED BY <1>1, <2>4, <2>5
<1>4. CASE m.op = "report-equiv" /\ HandleEquiv(m.taskhash, m.unihash, a)
  <2>1. NewRow(NoOuthash, m.taskhash, m.unihash) \in Row
    BY <1>4 DEF Messages, NoMessage, NewRow, Row
  <2>2. NewRow(NoOuthash, m.taskhash, m.unihash).outhash = NoOuthash
    BY DEF NewRow
  <2>3. NothingNew \/ Insert(NewRow(NoOuthash, m.taskhash, m.unihash))
    BY <1>4 DEF HandleEquiv
  <2> QED BY <1>1, <1>2, <2>1, <2>2, <2>3
<1> QED BY <1>1, <1>3, <1>4 DEF Dispatch

\* hashserv: whatever is reported, again, late or with a clock that is set
\* back, tasks with equal outputs have one unihash.
THEOREM OutputsShareUnihash == Spec => []OuthashShared
<1>1. Init => OuthashShared
  BY DEF Init, OuthashShared
<1>2. ASSUME TypeOK, OuthashShared, [Next]_vars PROVE OuthashShared'
  <2>1. CASE UNCHANGED rows
    BY <1>2, <2>1 DEF OuthashShared
  <2>2. CASE \E b \in Builders : Serve(b)
    <3>1. PICK b \in Builders : \E a : Dispatch(message[b], a)
      BY <2>2 DEF Serve
    <3>2. PICK a : Dispatch(message[b], a)
      BY <3>1
    <3>3. message[b] \in Messages
      BY <1>2 DEF TypeOK, WireType
    <3> QED BY <1>2, <3>2, <3>3, ReportShares DEF TypeOK
  <2>3. CASE \E m \in strays : ServeStray(m)
    <3>1. PICK m \in strays : \E a : Dispatch(m, a)
      BY <2>3 DEF ServeStray
    <3>2. PICK a : Dispatch(m, a)
      BY <3>1
    <3>3. m \in Messages
      BY <1>2 DEF TypeOK, HashServType
    <3> QED BY <1>2, <3>2, <3>3, ReportShares DEF TypeOK
  <2>4. CASE \E b \in Builders :
               \/ Break(b) \/ Parse(b) \/ GotUnihash(b) \/ Restore(b) \/ ReportUnihash(b)
               \/ Reported(b) \/ Rehash(b) \/ ReportEquiv(b) \/ EquivReported(b)
               \/ AskPR(b) \/ PRFailed(b)
    BY <2>1, <2>4 DEF Break, Parse, GotUnihash, Restore, ReportUnihash, Reported, Rehash,
         ReportEquiv, EquivReported, AskPR, PRFailed, NoHashServ
  <2>5. CASE PRAnswers \/ PREnd \/ PRStop \/ PRThreads
    BY <2>1, <2>5 DEF PRAnswers, PREnd, PRStop, PRThreads, NoHashServ
  <2>6. CASE UNCHANGED vars
    BY <2>1, <2>6 DEF vars
  <2> QED BY <1>2, <2>2, <2>3, <2>4, <2>5, <2>6 DEF Next
<1> QED BY <1>1, <1>2, TypeCorrect, PTL DEF Spec

\* What QueryEquivalent answers from a longer table.
LEMMA OldestStays ==
    ASSUME rows \in Seq(Row), NEW row \in Row, rows' = Append(rows, row),
           NEW t \in Hashes, Known(t) # {}
    PROVE  Known(t)' = Known(t)
<1>1. /\ Len(rows) \in Nat
      /\ DOMAIN rows = 1..Len(rows) /\ DOMAIN rows' = 1..Len(rows) + 1
      /\ \A k \in 1..Len(rows) : rows'[k] = rows[k]
  OBVIOUS
<1>2. PICK i \in TaskRows(rows, t) : Oldest(i, TaskRows(rows, t))
  BY NoneAssumption DEF Known, Get, QueryEquivalent
<1>3. i \in 1..Len(rows) /\ rows[i].taskhash = t
  BY <1>1, <1>2 DEF TaskRows
<1>4. \A j \in TaskRows(rows, t) : i <= j
  BY <1>2 DEF Oldest
<1>5. \A j \in TaskRows(rows', t) : j \in TaskRows(rows, t) \/ j = Len(rows) + 1
  BY <1>1 DEF TaskRows
<1>6. i \in TaskRows(rows', t) /\ \A j \in TaskRows(rows', t) : i <= j
  BY <1>1, <1>3, <1>4, <1>5 DEF TaskRows
<1>7. \A j \in TaskRows(rows, t) \cup TaskRows(rows', t) : j \in Nat
  BY <1>1 DEF TaskRows
<1>8. \A j : Oldest(j, TaskRows(rows, t)) => j = i
  BY <1>2, <1>4, <1>7 DEF Oldest
<1>9. \A j : Oldest(j, TaskRows(rows', t)) => j = i
  BY <1>6, <1>7 DEF Oldest
<1>10. Oldest(i, TaskRows(rows', t)) /\ rows'[i] = rows[i]
  BY <1>1, <1>3, <1>6 DEF Oldest
<1>11. \A a \in Hashes : Get(t, a) <=> a = rows[i].unihash
  BY <1>2, <1>8, NoneAssumption DEF Get, QueryEquivalent
<1>12. \A a \in Hashes : Get(t, a)' <=> a = rows[i].unihash
  BY <1>6, <1>9, <1>10, NoneAssumption DEF Get, QueryEquivalent
<1> QED BY <1>11, <1>12 DEF Known

LEMMA DispatchSteady ==
    ASSUME HashServType, NEW m \in Messages, NEW a, Dispatch(m, a), steady',
           NEW t \in Hashes, Known(t) # {}
    PROVE  Known(t)' = Known(t)
<1> USE DEF HashServType
<1>1. CASE NothingNew
  BY <1>1 DEF NothingNew, Known, Get
<1>2. ASSUME NEW row \in Row, Insert(row) PROVE Known(t)' = Known(t)
  BY <1>2, OldestStays DEF Insert
<1>3. CASE m.op = "report" /\ HandleReport(m.taskhash, m.outhash, m.unihash, a)
  <2>1. NewRow(m.outhash, m.taskhash, a) \in Row
    BY <1>3, Dispatched DEF Messages, NoMessage, NewRow, Row
  <2>2. NothingNew \/ Insert(NewRow(m.outhash, m.taskhash, a))
    BY <1>3 DEF HandleReport
  <2> QED BY <1>1, <1>2, <2>1, <2>2
<1>4. CASE m.op = "report-equiv" /\ HandleEquiv(m.taskhash, m.unihash, a)
  <2>1. NewRow(NoOuthash, m.taskhash, m.unihash) \in Row
    BY <1>4 DEF Messages, NoMessage, NewRow, Row
  <2>2. NothingNew \/ Insert(NewRow(NoOuthash, m.taskhash, m.unihash))
    BY <1>4 DEF HandleEquiv
  <2> QED BY <1>1, <1>2, <2>1, <2>2
<1> QED BY <1>1, <1>3, <1>4 DEF Dispatch

\* hashserv: as long as its clock does not go back, the server answers a task
\* hash as it did before, whatever has been reported since.
THEOREM AnswersSteady == Spec => GetSteady
<1>1. ASSUME TypeOK, [Next]_vars
      PROVE  [steady' => \A t \in Hashes : Known(t) # {} => Known(t)' = Known(t)]_vars
  <2> SUFFICES ASSUME steady', NEW t \in Hashes, Known(t) # {} PROVE Known(t)' = Known(t)
    OBVIOUS
  <2>1. CASE UNCHANGED rows
    BY <2>1 DEF Known, Get
  <2>2. ASSUME NEW b \in Builders, Serve(b) PROVE Known(t)' = Known(t)
    <3>1. PICK a : Dispatch(message[b], a)
      BY <2>2 DEF Serve
    <3>2. message[b] \in Messages
      BY <1>1 DEF TypeOK, WireType
    <3> QED BY <1>1, <3>1, <3>2, DispatchSteady DEF TypeOK
  <2>3. ASSUME NEW m \in strays, ServeStray(m) PROVE Known(t)' = Known(t)
    <3>1. PICK a : Dispatch(m, a)
      BY <2>3 DEF ServeStray
    <3>2. m \in Messages
      BY <1>1 DEF TypeOK, HashServType
    <3> QED BY <1>1, <3>1, <3>2, DispatchSteady DEF TypeOK
  <2>4. CASE \E b \in Builders :
               \/ Break(b) \/ Parse(b) \/ GotUnihash(b) \/ Restore(b) \/ ReportUnihash(b)
               \/ Reported(b) \/ Rehash(b) \/ ReportEquiv(b) \/ EquivReported(b)
               \/ AskPR(b) \/ PRFailed(b)
    BY <2>1, <2>4 DEF Break, Parse, GotUnihash, Restore, ReportUnihash, Reported, Rehash,
         ReportEquiv, EquivReported, AskPR, PRFailed, NoHashServ
  <2>5. CASE PRAnswers \/ PREnd \/ PRStop \/ PRThreads
    BY <2>1, <2>5 DEF PRAnswers, PREnd, PRStop, PRThreads, NoHashServ
  <2>6. CASE UNCHANGED vars
    BY <2>1, <2>6 DEF vars
  <2> QED BY <1>1, <2>2, <2>3, <2>4, <2>5, <2>6 DEF Next
<1> QED BY <1>1, TypeCorrect, PTL DEF Spec, GetSteady

-----------------------------------------------------------------------------
(* The builders *)

\* A row of the table has the output o and the unihash u.
Listed(tasks, o, u) == \E i \in DOMAIN tasks : tasks[i].outhash = o /\ tasks[i].unihash = u

\* The server keeps what is listed, and lists what it answers to a report.
LEMMA DispatchLists ==
    ASSUME HashServType, NEW m \in Messages, NEW a, Dispatch(m, a)
    PROVE  /\ \A o, u : Listed(rows, o, u) => Listed(rows', o, u)
           /\ m.op = "report" => Listed(rows', m.outhash, a)
<1> USE DEF HashServType
<1>1. CASE NothingNew
  <2>1. \A o, u : Listed(rows, o, u) <=> Listed(rows', o, u)
    BY <1>1 DEF NothingNew, Listed
  <2>2. m.op = "report" => Listed(rows, m.outhash, a)
    <3> SUFFICES ASSUME m.op = "report" PROVE Listed(rows, m.outhash, a)
      OBVIOUS
    <3>1. HandleReport(m.taskhash, m.outhash, m.unihash, a)
      BY DEF Dispatch
    <3>2. CASE Insert(NewRow(m.outhash, m.taskhash, a))
      <4>1. a \in Hashes /\ m.outhash \in Outhashes /\ m.taskhash \in Hashes
        BY Dispatched DEF Messages, NoMessage
      <4>2. NewRow(m.outhash, m.taskhash, a) \in Row
        BY <4>1 DEF NewRow, Row
      <4> DEFINE row == NewRow(m.outhash, m.taskhash, a)
      <4>3. row.outhash = m.outhash /\ row.unihash = a
        BY DEF NewRow
      <4> HIDE DEF row
      <4>4. \E k \in DOMAIN rows' : rows'[k] = row
        BY <3>2, <4>2, Inserted DEF row
      <4> QED BY <4>3, <4>4, <1>1 DEF Listed, NothingNew
    <3> QED BY <3>1, <3>2 DEF HandleReport, OfOutput, Listed
  <2> QED BY <2>1, <2>2
<1>2. ASSUME NEW row \in Row, Insert(row)
      PROVE  /\ \A o, u : Listed(rows, o, u) => Listed(rows', o, u)
             /\ Listed(rows', row.outhash, row.unihash)
  <2>1. /\ \A j \in DOMAIN rows : \E k \in DOMAIN rows' : rows'[k] = rows[j]
        /\ \E k \in DOMAIN rows' : rows'[k] = row
    BY <1>2, Inserted
  <2> QED BY <2>1 DEF Listed
<1>3. CASE m.op = "report" /\ HandleReport(m.taskhash, m.outhash, m.unihash, a)
  <2>1. a \in Hashes /\ m.outhash \in Outhashes /\ m.taskhash \in Hashes
    BY <1>3, Dispatched DEF Messages, NoMessage
  <2> DEFINE row == NewRow(m.outhash, m.taskhash, a)
  <2>2. row \in Row /\ row.outhash = m.outhash /\ row.unihash = a
    BY <2>1 DEF NewRow, Row
  <2> HIDE DEF row
  <2>3. CASE Insert(row)
    BY <1>2, <2>2, <2>3
  <2>4. NothingNew \/ Insert(row)
    BY <1>3 DEF HandleReport, row
  <2> QED BY <1>1, <2>3, <2>4
<1>4. CASE m.op = "report-equiv" /\ HandleEquiv(m.taskhash, m.unihash, a)
  <2>1. NewRow(NoOuthash, m.taskhash, m.unihash) \in Row
    BY <1>4 DEF Messages, NoMessage, NewRow, Row
  <2>2. NothingNew \/ Insert(NewRow(NoOuthash, m.taskhash, m.unihash))
    BY <1>4 DEF HandleEquiv
  <2> QED BY <1>1, <1>2, <1>4, <2>1, <2>2
<1> QED BY <1>1, <1>3, <1>4 DEF Dispatch

\* A builder publishes under a unihash that is listed for what it has made.
AgreeInv == \A b \in Builders :
    /\ phase[b] \in {"get", "build"} => out[b] = None
    /\ phase[b] = "report" => message[b].op = "report" /\ message[b].outhash = out[b]
    /\ phase[b] = "report" /\ wire[b] = "answered" => Listed(rows, out[b], answer[b])
    /\ phase[b] \in {"built", "rehashed", "equiv", "remapped", "pr"} /\ out[b] # None =>
          Listed(rows, out[b], unihash[b])

LEMMA NextAgree == ASSUME TypeOK, AgreeInv, [Next]_vars PROVE AgreeInv'
<1> USE DEF AgreeInv
<1>1. CASE UNCHANGED vars
  BY <1>1 DEF vars, siggen, wires, Listed
<1>2. ASSUME NEW b \in Builders, Serve(b) PROVE AgreeInv'
  <2>1. PICK a : Dispatch(message[b], a) /\ answer' = [answer EXCEPT ![b] = a]
    BY <1>2 DEF Serve
  <2>2. message[b] \in Messages /\ b \in DOMAIN answer /\ b \in DOMAIN wire
    BY DEF TypeOK, WireType
  <2>3. /\ \A o, u : Listed(rows, o, u) => Listed(rows', o, u)
        /\ message[b].op = "report" => Listed(rows', message[b].outhash, a)
    BY <2>1, <2>2, DispatchLists DEF TypeOK
  <2>4. UNCHANGED <<phase, out, message, unihash>>
    BY <1>2 DEF Serve, siggen
  <2>5. ASSUME NEW d \in Builders, phase[d] = "report", wire'[d] = "answered"
        PROVE  Listed(rows', out[d], answer'[d])
    <3>1. CASE d = b
      BY <2>1, <2>2, <2>3, <2>4, <2>5, <3>1
    <3>2. CASE d # b
      <4>1. wire[d] = "answered" /\ answer'[d] = answer[d]
        BY <1>2, <2>1, <2>5, <3>2 DEF Serve, TypeOK, WireType
      <4> QED BY <2>3, <2>5, <4>1
    <3> QED BY <3>1, <3>2
  <2> QED BY <2>3, <2>4, <2>5
<1>3. ASSUME NEW m \in strays, ServeStray(m) PROVE AgreeInv'
  <2>1. PICK a : Dispatch(m, a)
    BY <1>3 DEF ServeStray
  <2>2. \A o, u : Listed(rows, o, u) => Listed(rows', o, u)
    BY <2>1, DispatchLists DEF TypeOK, HashServType
  <2> QED BY <1>3, <2>2 DEF ServeStray, siggen, wires
<1>4. ASSUME UNCHANGED rows PROVE \A o, u : Listed(rows', o, u) <=> Listed(rows, o, u)
  BY <1>4 DEF Listed
<1>5. ASSUME NEW b \in Builders,
             \/ Parse(b) \/ GotUnihash(b) \/ Restore(b) \/ ReportUnihash(b) \/ Reported(b)
             \/ Rehash(b) \/ ReportEquiv(b) \/ EquivReported(b)
      PROVE  AgreeInv'
  <2> USE DEF TypeOK, WireType, BuilderType
  <2>1. \A o, u : Listed(rows', o, u) <=> Listed(rows, o, u)
    BY <1>4, <1>5 DEF Parse, GotUnihash, Restore, ReportUnihash, Reported, Rehash,
         ReportEquiv, EquivReported, NoHashServ
  <2>2. CASE Parse(b)
    BY <2>1, <2>2 DEF Parse, Goto, AskUnihash, Send, wires
  <2>3. CASE GotUnihash(b)
    BY <2>1, <2>3 DEF GotUnihash, Goto, Received
  <2>4. CASE Restore(b)
    BY <2>1, <2>4 DEF Restore, Goto, siggen, wires
  <2>5. CASE ReportUnihash(b)
    BY <2>1, <2>5 DEF ReportUnihash, Goto, Send
  <2>6. CASE Reported(b)
    BY <2>1, <2>6 DEF Reported, Answered, Goto, Received
  <2>7. CASE Rehash(b)
    BY <2>1, <2>7 DEF Rehash, Goto, AskUnihash, Send
  <2>8. CASE ReportEquiv(b)
    BY <2>1, <2>8 DEF ReportEquiv, Goto, Received, Send
  <2>9. CASE EquivReported(b)
    BY <2>1, <2>9 DEF EquivReported, Goto, Received
  <2> QED BY <1>5, <2>2, <2>3, <2>4, <2>5, <2>6, <2>7, <2>8, <2>9
<1>6. ASSUME NEW b \in Builders, Break(b) PROVE AgreeInv'
  BY <1>4, <1>6 DEF Break, siggen, TypeOK, WireType, BuilderType
<1>7. ASSUME NEW b \in Builders, AskPR(b) PROVE AgreeInv'
  BY <1>4, <1>7 DEF AskPR, Goto, NoHashServ, siggen, wires, TypeOK, BuilderType
<1>8. ASSUME NEW B, Over(B), UNCHANGED wires, NoHashServ PROVE AgreeInv'
  BY <1>4, <1>8 DEF Over, NoHashServ, wires
<1>9. CASE (\E b \in Builders : PRFailed(b)) \/ PRAnswers \/ PREnd
  BY <1>8, <1>9 DEF PRFailed, PRAnswers, PREnd
<1>10. CASE PRStop \/ PRThreads
  BY <1>4, <1>10 DEF PRStop, PRThreads, siggen, wires, NoHashServ
<1> QED BY <1>1, <1>2, <1>3, <1>5, <1>6, <1>7, <1>9, <1>10 DEF Next

\* Builders that have made the same and could report it have one unihash,
\* whatever was lost on the way, sent twice, or served late.
THEOREM BuildersAgree == Spec => []AgreeOnOutput
<1>1. Init => AgreeInv
  BY DEF Init, AgreeInv
<1>2. ASSUME TypeOK, OuthashShared, AgreeInv PROVE AgreeOnOutput
  <2> SUFFICES ASSUME NEW a \in Builders, NEW b \in Builders,
                      phase[a] \in {"built", "remapped", "pr"},
                      phase[b] \in {"built", "remapped", "pr"},
                      out[a] = out[b], out[a] # None
               PROVE  unihash[a] = unihash[b]
    BY DEF AgreeOnOutput
  <2>1. Listed(rows, out[a], unihash[a]) /\ Listed(rows, out[a], unihash[b])
    BY <1>2 DEF AgreeInv
  <2>2. out[a] \in Outhashes
    BY <1>2 DEF TypeOK, BuilderType
  <2> QED BY <1>2, <2>1, <2>2, NoOuthashAssumption DEF Listed, OuthashShared
<1> QED BY <1>1, <1>2, NextAgree, TypeCorrect, OutputsShareUnihash, PTL DEF Spec

-----------------------------------------------------------------------------
(* The PR server *)

\* Answers G given from table T: none is larger than all of the table, and
\* what is still in the table is not given to another checksum.
OneEach(G) ==
    \A g, h \in G : g.package = h.package /\ g.value = h.value => g.checksum = h.checksum
Backed(G, T) ==
    \A g \in G : /\ \E r \in T : r.package = g.package /\ g.value <= r.value
                 /\ \A r \in T : r.package = g.package /\ r.value = g.value =>
                        r.checksum = g.checksum
Valued(S) == \A r \in S : r.value \in Nat
Sound(G, T) == Valued(G) /\ Valued(T) /\ Distinct(T) /\ OneEach(G) /\ Backed(G, T)

\* What is not committed is one answer, and only until the handler thread has
\* seen to it that it is.
SavedInv == /\ handler # "served" \/ ~dirty => disk = table /\ kept = given
            /\ handler \in {"get", "ended", "off"} => ~dirty
            /\ prmain = "off" => handler = "off"
            /\ OneAtRisk

\* Sound both for what the connection sees and for what is on disk.
ValueInv == Sound(given, table) /\ Sound(kept, disk) /\ SavedInv

LEMMA InitValue == Init => ValueInv
BY EarlierAssumption
   DEF Init, PRInit, ValueInv, SavedInv, OneAtRisk, Sound, Valued, Distinct, OneEach,
       Backed, PRRow

\* Answering a request.
LEMMA AnswerValue ==
    ASSUME ValueInv, NEW p, NEW c, NEW v, GetValue(p, c, v),
           given' = given \cup {[package |-> p, checksum |-> c, value |-> v]}
    PROVE  Sound(given', table')
<1> DEFINE new == [package |-> p, checksum |-> c, value |-> v]
<1>1. CASE \E r \in RowsOf(p) : Largest(r) /\ r.checksum = c /\ v = r.value
                                /\ UNCHANGED <<table, dirty>>
  <2>1. PICK r \in table : r.package = p /\ r.checksum = c /\ r.value = v
    BY <1>1 DEF RowsOf
  <2>2. Valued(given') /\ Valued(table') /\ Distinct(table')
    BY <1>1, <2>1 DEF ValueInv, Sound, Valued, Distinct
  <2>3. OneEach(given')
    BY <2>1 DEF ValueInv, Sound, OneEach, Backed
  <2>4. Backed(given', table')
    BY <1>1, <2>1 DEF ValueInv, Sound, Backed, Distinct, Valued
  <2> QED BY <2>2, <2>3, <2>4 DEF Sound
<1>2. CASE /\ NextValue(p, v)
           /\ table' = {r \in table : ~(r.package = p /\ r.checksum = c)} \cup {new}
  <2>1. v \in Nat /\ \A r \in table : r.package = p => r.value < v
    BY <1>2 DEF NextValue, RowsOf, Largest, ValueInv, Sound, Valued
  <2>2. \A g \in given : g.package = p => g.value < v
    BY <2>1 DEF ValueInv, Sound, Backed, Valued
  <2>3. Valued(given') /\ Valued(table')
    BY <1>2, <2>1 DEF ValueInv, Sound, Valued
  <2>4. Distinct(table')
    BY <1>2, <2>1 DEF ValueInv, Sound, Valued, Distinct
  <2>5. OneEach(given')
    BY <2>1, <2>2 DEF ValueInv, Sound, Valued, OneEach
  <2>6. Backed(given', table')
    <3> SUFFICES ASSUME NEW g \in given'
                 PROVE  /\ \E r \in table' : r.package = g.package /\ g.value <= r.value
                        /\ \A r \in table' : r.package = g.package /\ r.value = g.value =>
                               r.checksum = g.checksum
      BY DEF Backed
    <3>1. CASE g = new
      BY <3>1, <1>2, <2>1
    <3>2. CASE g \in given
      <4>1. PICK r \in table : r.package = g.package /\ g.value <= r.value
        BY <3>2 DEF ValueInv, Sound, Backed
      <4>2. CASE r.package = p
        <5>1. new \in table' /\ new.package = g.package /\ g.value < new.value
          BY <3>2, <4>2, <4>1, <1>2, <2>2
        <5>2. g.value <= new.value
          BY <3>2, <5>1, <2>1 DEF ValueInv, Sound, Valued
        <5>3. \A s \in table' : s.package = g.package /\ s.value = g.value =>
                 s.checksum = g.checksum
          BY <3>2, <4>2, <4>1, <1>2, <2>2, <2>1 DEF ValueInv, Sound, Backed, Valued
        <5> QED BY <5>1, <5>2, <5>3
      <4>3. CASE r.package # p
        BY <3>2, <4>3, <4>1, <1>2 DEF ValueInv, Sound, Backed
      <4> QED BY <4>2, <4>3
    <3> QED BY <3>1, <3>2
  <2> QED BY <2>3, <2>4, <2>5, <2>6 DEF Sound
<1> QED BY <1>1, <1>2 DEF GetValue

\* Answering a request.
LEMMA AnswerSaved ==
    ASSUME ValueInv, NEW q, NEW v, GetPR(q, v)
    PROVE  ValueInv'
<1> DEFINE a == [package |-> q.package, checksum |-> q.checksum, value |-> v]
<1>1. /\ handler = "get" /\ handler' = "served" /\ GetValue(q.package, q.checksum, v)
      /\ given' = given \cup {a} /\ disk' = disk /\ prmain' = prmain
      /\ kept' = IF dirty' THEN kept ELSE given'
  BY DEF GetPR, HandlerGets
<1>2. ~dirty /\ disk = table /\ kept = given
  BY <1>1 DEF ValueInv, SavedInv
<1>3. Sound(given', table')
  BY <1>1, AnswerValue
<1>4. ~dirty' => table' = table
  BY <1>1, <1>2 DEF GetValue
<1>5. Sound(kept', disk')
  <2>1. CASE dirty'
    BY <1>1, <2>1 DEF ValueInv
  <2>2. CASE ~dirty'
    BY <1>1, <1>2, <1>3, <1>4, <2>2
  <2> QED BY <2>1, <2>2
<1>6. SavedInv'
  <2>1. ~dirty' => disk' = table' /\ kept' = given'
    BY <1>1, <1>2, <1>4
  <2>2. prmain' # "off"
    BY <1>1 DEF ValueInv, SavedInv
  <2>3. kept' = given \/ kept' = given'
    BY <1>1, <1>2
  <2>4. OneAtRisk'
    BY <1>1, <2>3 DEF OneAtRisk
  <2> QED BY <1>1, <2>1, <2>2, <2>4 DEF SavedInv
<1> QED BY <1>3, <1>5, <1>6 DEF ValueInv, Sound, Valued, Distinct, OneEach, Backed

\* Steps that touch neither the table nor the answers, and keep to what the
\* handler thread has saved.
LEMMA SavedAlike ==
    ASSUME ValueInv, UNCHANGED <<table, disk, given, kept>>,
           handler' # "served" \/ ~dirty' => handler # "served" \/ ~dirty,
           handler' \in {"get", "ended", "off"} => ~dirty',
           prmain' = "off" => handler' = "off"
    PROVE  ValueInv'
BY DEF ValueInv, SavedInv, OneAtRisk, Sound, Valued, Distinct, OneEach, Backed

LEMMA NextValueInv == ASSUME ValueInv, [Next]_vars PROVE ValueInv'
<1>1. CASE UNCHANGED <<table, disk, given, kept, handler, dirty>> /\ (prmain' = "off" => prmain = "off")
  <2>1. (handler' # "served" \/ ~dirty') <=> (handler # "served" \/ ~dirty)
    BY <1>1, Zenon
  <2>2. handler' \in {"get", "ended", "off"} => ~dirty'
    BY <1>1, Zenon DEF ValueInv, SavedInv
  <2>3. prmain' = "off" => handler' = "off"
    BY <1>1 DEF ValueInv, SavedInv
  <2> QED BY <1>1, <2>1, <2>2, <2>3, SavedAlike
<1>2. CASE PRAnswers
  BY <1>2, AnswerSaved DEF PRAnswers
<1>4. CASE PREnd
  <2>1. CASE Join
    <3>1. disk = table /\ kept = given
      BY <2>1 DEF Join, ValueInv, SavedInv
    <3> QED BY <2>1, <3>1 DEF Join, Ended, ValueInv, SavedInv, OneAtRisk, Sound, Valued,
                              Distinct, OneEach, Backed
  <2>2. CASE Killed
    BY <2>2 DEF Killed, Ended, ValueInv, SavedInv, OneAtRisk, Sound, Valued, Distinct,
                OneEach, Backed
  <2> QED BY <1>4, <2>1, <2>2 DEF PREnd
<1>5. CASE \E b \in Builders :
             \/ Serve(b) \/ Break(b) \/ Parse(b) \/ GotUnihash(b) \/ Restore(b)
             \/ ReportUnihash(b) \/ Reported(b) \/ Rehash(b) \/ ReportEquiv(b)
             \/ EquivReported(b) \/ AskPR(b) \/ PRFailed(b)
  BY <1>1, <1>5 DEF Serve, Break, Parse, GotUnihash, Restore, ReportUnihash, Reported,
       Rehash, ReportEquiv, EquivReported, AskPR, PRFailed, Accept, prserv
<1>6. CASE Sigterm
  BY <1>6 DEF Sigterm, Commit, ValueInv, SavedInv, OneAtRisk, Sound, Valued, Distinct,
              OneEach, Backed
<1>7. CASE PRStop
  <2>1. CASE Accept([op |-> "quit"])
    BY <1>1, <2>1 DEF Accept
  <2> QED BY <1>6, <1>7, <2>1 DEF PRStop
<1>8. CASE PRThreads
  <2>1. CASE Start
    BY <2>1, SavedAlike DEF Start, ValueInv, SavedInv
  <2>2. CASE SyncIfDirty
    <3>1. CASE handler = "served" /\ ~dirty
      BY <2>2, <3>1, SavedAlike DEF SyncIfDirty, ValueInv, SavedInv
    <3>2. CASE Commit /\ handler = "served" /\ handler' = "begin" /\ UNCHANGED prmain
      BY <3>2 DEF Commit, ValueInv, SavedInv, OneAtRisk, Sound, Valued, Distinct, OneEach,
                  Backed
    <3>3. CASE handler = "begin"
      <4>1. handler' = "get" => ~intransaction
        BY <2>2, <3>3 DEF SyncIfDirty
      <4>2. handler' = "get" \/ handler' = "dead"
        BY <2>2, <3>3 DEF SyncIfDirty
      <4>3. handler' = "get" => ~dirty'
        BY <2>2, <3>3, <4>1, Zenon DEF SyncIfDirty
      <4>4. UNCHANGED <<table, disk, given, kept, prmain>>
        BY <2>2, <3>3 DEF SyncIfDirty
      <4> QED BY <3>3, <4>2, <4>3, <4>4, SavedAlike DEF ValueInv, SavedInv
    <3> QED BY <2>2, <3>1, <3>2, <3>3 DEF SyncIfDirty
  <2>3. CASE HandlerEnds
    BY <2>3, SavedAlike DEF HandlerEnds, ValueInv, SavedInv
  <2>4. CASE SigtermQuits
    BY <1>1, <2>4 DEF SigtermQuits, ValueInv, SavedInv
  <2>5. CASE HandlerGets /\ Quit(Head(requestqueue))
    BY <2>5, SavedAlike DEF Quit, HandlerGets, ValueInv, SavedInv
  <2> QED BY <1>8, <2>1, <2>2, <2>3, <2>4, <2>5 DEF PRThreads
<1>9. CASE \E m \in strays : ServeStray(m)
  BY <1>1, <1>9 DEF ServeStray, prserv
<1>10. CASE UNCHANGED vars
  BY <1>1, <1>10 DEF vars, prserv
<1> QED BY <1>2, <1>4, <1>5, <1>7, <1>8, <1>9, <1>10 DEF Next

\* prserv: however often the server is stopped, signalled or killed, no number
\* of a package is given to two checksums, and a kill takes back one answer at
\* most, the one that getPR has sent and sync_if_dirty has not committed yet,
\* however many requests wait and whatever signals arrive.
THEOREM NumbersUnique == Spec => []OneChecksum
<1>1. ValueInv => OneChecksum
  BY DEF ValueInv, SavedInv, Sound, OneEach, OneChecksum
<1> QED BY <1>1, InitValue, NextValueInv, PTL DEF Spec

\* A later build is an upgrade: whoever asks and however often the PR server is
\* stopped, a number is never lower than one given before.
THEOREM NumbersGrow == Spec => NeverLower
<1>1. ASSUME ValueInv, [Next]_vars, NEW b \in Builders, NEW c \in Checksums,
             Served([from |-> b, op |-> "getPR", package |-> Package, checksum |-> c])
      PROVE  \E g \in given' : /\ g.package = Package /\ g.checksum = c
                               /\ \A h \in given : h.package = Package => h.value <= g.value
  <2> DEFINE q == [from |-> b, op |-> "getPR", package |-> Package, checksum |-> c]
  <2>1. /\ handler = "get" /\ handler' = "served"
        /\ q = Head(requestqueue) /\ q.op = "getPR" /\ q.package = Package /\ q.checksum = c
    BY <1>1 DEF Served
  <2> HIDE DEF q
  <2>2. PRAnswers
    <3>1. ~UNCHANGED handler
      BY <2>1
    <3>2. ~PREnd
      BY <2>1 DEF PREnd, Join, Killed, Ended
    <3>3. ~PRStop
      BY <3>1 DEF PRStop, Accept, Sigterm
    <3>4. ~PRThreads
      BY <2>1 DEF PRThreads, Start, SyncIfDirty, HandlerEnds, SigtermQuits, Quit
    <3>5. ~\E a \in Builders :
             \/ Serve(a) \/ Break(a) \/ Parse(a) \/ GotUnihash(a) \/ Restore(a)
             \/ ReportUnihash(a) \/ Reported(a) \/ Rehash(a) \/ ReportEquiv(a)
             \/ EquivReported(a) \/ AskPR(a) \/ PRFailed(a)
      BY <3>1 DEF Serve, Break, Parse, GotUnihash, Restore, ReportUnihash, Reported,
           Rehash, ReportEquiv, EquivReported, AskPR, PRFailed, Accept, prserv
    <3>6. ~\E m \in strays : ServeStray(m)
      BY <3>1 DEF ServeStray, prserv
    <3>7. ~UNCHANGED vars
      BY <3>1 DEF vars, prserv
    <3> QED BY <1>1, <3>2, <3>3, <3>4, <3>5, <3>6, <3>7 DEF Next
  <2>3. PICK v : GetPR(Head(requestqueue), v)
    BY <2>2 DEF PRAnswers
  <2> DEFINE g == [package |-> Package, checksum |-> c, value |-> v]
  <2>4. GetValue(Package, c, v) /\ g \in given'
    BY <2>1, <2>3 DEF GetPR
  <2>5. v \in Nat /\ \A s \in table : s.package = Package => s.value <= v
    <3>1. CASE \E r \in RowsOf(Package) : Largest(r) /\ r.checksum = c /\ v = r.value
      <4>1. PICK r \in RowsOf(Package) : Largest(r) /\ v = r.value
        BY <3>1
      <4>2. r \in table /\ r.package = Package
        BY <4>1 DEF RowsOf
      <4> QED BY <1>1, <4>1, <4>2 DEF RowsOf, Largest, ValueInv, Sound, Valued
    <3>2. CASE NextValue(Package, v)
      BY <1>1, <3>2 DEF NextValue, RowsOf, Largest, ValueInv, Sound, Valued
    <3> QED BY <2>4, <3>1, <3>2 DEF GetValue
  <2>6. \A h \in given : h.package = Package => h.value <= v
    <3> SUFFICES ASSUME NEW h \in given, h.package = Package PROVE h.value <= v
      OBVIOUS
    <3>1. PICK s \in table : s.package = Package /\ h.value <= s.value
      BY <1>1 DEF ValueInv, Sound, Backed
    <3>2. h.value \in Nat /\ s.value \in Nat
      BY <1>1 DEF ValueInv, Sound, Valued
    <3> QED BY <2>5, <3>1, <3>2
  <2> QED BY <2>4, <2>6
<1>2. ASSUME ValueInv, [Next]_vars
      PROVE  [\A b \in Builders, c \in Checksums :
                Served([from |-> b, op |-> "getPR", package |-> Package, checksum |-> c]) =>
                  \E g \in given' :
                     /\ g.package = Package /\ g.checksum = c
                     /\ \A h \in given : h.package = Package => h.value <= g.value]_vars
  BY <1>1, <1>2
<1> QED BY <1>2, InitValue, NextValueInv, PTL DEF Spec, NeverLower
=============================================================================
