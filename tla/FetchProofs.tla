----------------------------- MODULE FetchProofs -----------------------------
(***************************************************************************)
(* For any builds, directories, mirrors and servers: what a download leaves *)
(* is right, and a download only fails when its upstream does.  Both hold    *)
(* as long as no build of another directory has set a mirror's file aside.   *)
(***************************************************************************)
EXTENDS FetchProps, TLAPS

At0 == {"idle", "verify", "sums", "unstamp", "try", "aside", "wget", "update",
        "last", "clean", "cleanStamp"} \cup Outcome
Runs == [at : At0, phase : Phase, n : Nat, done : BOOLEAN, verified : BOOLEAN]

TypeOK ==
    /\ dir \in [Builds -> Dirs] /\ want \in [Builds -> Contents]
    /\ serves \in [Servers -> Contents \cup {None}]
    /\ mirror \in [Locals -> Contents \cup {None}]
    /\ aside \in [Locals -> Builds \cup {None}]
    /\ file \in [Dirs -> Contents \cup Locals \cup {None}]
    /\ stamp \in [Dirs -> Contents \cup {None}]
    /\ lock \in [Dirs -> Builds \cup {None}]
    /\ run \in [Builds -> Runs]
    /\ faults \in Nat

\* Who is in download or clean has the lock of its directory.
Held == \A b \in Builds : run[b].at # "idle" => lock[dir[b]] = b

\* What was set aside has gone, and does not come back.
AsideGone == \A m \in Locals : aside[m] # None => mirror[m] = None

\* The phases in which a step is taken, and the sources it is about.
Shape(r) ==
    /\ r.at \in {"verify", "sums", "unstamp"} => r.phase \in {"first", "pre", "mir", "second"}
    /\ r.at \in {"try", "aside"} => r.phase \in {"pre", "mir"}
    /\ r.at = "wget" => r.phase \in {"pre", "mir", "up"}
    /\ r.at = "update" => r.phase \in {"pre", "mir", "early", "up", "last"}
    /\ r.at = "last" => r.phase = "last"
    /\ r.phase \in {"pre", "mir"} =>
          /\ r.at \in {"verify", "sums", "unstamp", "wget"} => Source(r) \in Servers
          /\ r.at \in {"update", "aside"} => Source(r) \in Locals

Foreign(d) == \E m \in Locals : aside[m] # None /\ dir[aside[m]] # d

\* The stamp tells the truth about the file.
StampTrue(d) == stamp[d] # None /\ Read(d) # None => Read(d) = stamp[d]

\* The upstream is no help to b.
Down(b) == serves[Upstream] # want[b] \/ faults > 0

\* What b knows of its file and its stamp at each step.
Knows(b, at, phase, done) ==
    LET d == dir[b]
    IN  /\ at \in {"try", "aside", "wget"} => Read(d) = None /\ stamp[d] = None
        /\ at = "unstamp" => Read(d) = None
        /\ at \in {"sums", "update"} => Read(d) # None
        /\ at = "update" /\ phase \in {"pre", "mir", "up"} => stamp[d] = None
        /\ at = "update" /\ phase = "early" => stamp[d] \in {None, want[b]}
        /\ at = "update" /\ phase = "up" => Read(d) = serves[Upstream]
        /\ at \in {"verify", "sums", "unstamp"} /\ phase = "second" =>
              Read(d) = IF done THEN want[b] ELSE None
        /\ at \in {"last", "update"} /\ phase = "last" =>
              /\ stamp[d] \in {None, want[b]}
              /\ (done /\ Read(d) = want[b]) \/ Down(b)
        /\ at \in {"try", "aside", "wget", "verify", "sums", "unstamp", "update"}
              /\ phase = "mir" => Down(b)
        /\ at = "failed" => Down(b)
        /\ at = "fetched" => Read(d) = want[b]
        /\ at # "lost"

Fine(b) == Knows(b, run[b].at, run[b].phase, run[b].done)

IInv == /\ TypeOK /\ Held /\ AsideGone
        /\ \A b \in Builds : Shape(run[b])
        /\ \A d \in Dirs : Foreign(d) \/ StampTrue(d)
        /\ \A b \in Builds : Foreign(dir[b]) \/ Fine(b)

-----------------------------------------------------------------------------
LEMMA Start == Init => IInv
<1> SUFFICES ASSUME Init PROVE IInv
  OBVIOUS
<1>1. TypeOK
  BY DEF Init, TypeOK, Idle, Runs, At0, Phase
<1>2. \A b \in Builds : Shape(run[b]) /\ Fine(b)
  BY DEF Init, Idle, Shape, Fine, Knows
<1>3. Held /\ AsideGone /\ \A d \in Dirs : StampTrue(d)
  BY DEF Init, Idle, Held, AsideGone, StampTrue
<1> QED BY <1>1, <1>2, <1>3 DEF IInv

\* A step of b that leaves the mirrors alone, and changes no directory but its own.
LEMMA OwnStep ==
    ASSUME IInv, NEW b \in Builds, run[b].at # "idle",
           NEW r \in Runs, Goes(b, r), r.at # "idle", Shape(r),
           UNCHANGED <<setup, mirror, aside, lock>>,
           faults' \in {faults, faults + 1},
           NEW f \in Contents \cup Locals \cup {None}, file' = [file EXCEPT ![dir[b]] = f],
           NEW s \in Contents \cup {None}, stamp' = [stamp EXCEPT ![dir[b]] = s],
           Foreign(dir[b]) \/ (StampTrue(dir[b])' /\ Knows(b, r.at, r.phase, r.done)')
    PROVE  IInv'
<1>1. TypeOK'
  BY DEF IInv, TypeOK, Goes, setup
<1>2. Held' /\ AsideGone' /\ \A c \in Builds : Shape(run'[c])
  BY DEF IInv, TypeOK, Held, AsideGone, Goes, setup
<1>3. \A d \in Dirs : Foreign(d) => Foreign(d)'
  BY DEF Foreign, setup
<1>4. ASSUME NEW d \in Dirs, d # dir[b]
      PROVE  Read(d)' = Read(d) /\ stamp'[d] = stamp[d]
  BY <1>4 DEF IInv, TypeOK, Read
<1>5. ASSUME NEW d \in Dirs
      PROVE  Foreign(d)' \/ StampTrue(d)'
  <2>1. CASE d = dir[b]
    BY <1>3, <1>5, <2>1 DEF setup
  <2>2. CASE d # dir[b]
    BY <1>3, <1>4, <2>2 DEF IInv, StampTrue
  <2> QED BY <2>1, <2>2
<1>6. ASSUME NEW c \in Builds, c # b
      PROVE  Foreign(dir[c])' \/ Fine(c)'
  <2>1. CASE run[c].at = "idle"
    BY <1>6, <2>1 DEF IInv, TypeOK, Goes, Fine, Knows
  <2>2. CASE run[c].at # "idle"
    <3>1. dir[c] \in Dirs /\ dir[c] # dir[b]
      BY <1>6, <2>2 DEF IInv, TypeOK, Held
    <3>2. Down(c) => Down(c)'
      BY DEF Down, setup, IInv, TypeOK
    <3>3. run'[c] = run[c]
      BY <1>6 DEF Goes, IInv, TypeOK
    <3>4. dir' = dir /\ want' = want /\ serves' = serves
      BY DEF setup
    <3> QED BY <1>3, <1>4, <3>1, <3>2, <3>3, <3>4 DEF IInv, Fine, Knows
  <2> QED BY <2>1, <2>2
<1>7. Foreign(dir[b])' \/ Fine(b)'
  <2>1. run'[b] = r /\ dir' = dir
    BY DEF Goes, IInv, TypeOK, setup
  <2> QED BY <2>1, <1>3 DEF Fine, IInv, TypeOK
<1>8. dir' = dir
  BY DEF setup
<1> QED BY <1>1, <1>2, <1>5, <1>6, <1>7, <1>8 DEF IInv

-----------------------------------------------------------------------------
(* Where a step leads *)

LEMMA TriedRuns ==
    ASSUME NEW r \in Runs, NEW found \in BOOLEAN
    PROVE  /\ Tried(r, found) \in Runs /\ Shape(Tried(r, found))
           /\ Tried(r, found).at # "idle"
BY DEF Tried, Last, Update, VerifyAgain, Runs, At0, Phase, Shape

LEMMA NextRuns ==
    ASSUME NEW r \in Runs, r.phase \in {"pre", "mir"}
    PROVE  /\ TryNext(r) \in Runs /\ Shape(TryNext(r))
           /\ TryNext(r).at = "try" /\ TryNext(r).phase = r.phase
<1> PICK n \in Nat : n = r.n + 1
  BY DEF Runs
<1>1. TryNext(r) = [r EXCEPT !.at = "try", !.n = n]
  BY DEF TryNext
<1>2. [r EXCEPT !.at = "try", !.n = n] \in Runs
  BY DEF Runs, At0
<1>3. TryNext(r).at = "try" /\ TryNext(r).phase = r.phase
  BY <1>1 DEF Runs
<1> QED BY <1>1, <1>2, <1>3 DEF Shape

LEMMA UpdatedRuns ==
    ASSUME NEW r \in Runs, Shape(r), r.at = "update"
    PROVE  /\ Updated(r) \in Runs /\ Shape(Updated(r))
           /\ Updated(r).at # "idle"
<1>1. CASE r.phase \in {"pre", "mir"}
  BY <1>1, TriedRuns DEF Updated
<1>2. CASE r.phase \in {"early", "up", "last"}
  BY <1>2 DEF Updated, Last, To, VerifyAgain, Runs, At0, Outcome, Phase, Shape
<1> QED BY <1>1, <1>2 DEF Shape

LEMMA NotUpdatedRuns ==
    ASSUME NEW r \in Runs, Shape(r), r.at = "update"
    PROVE  /\ NotUpdated(r) \in Runs /\ Shape(NotUpdated(r))
           /\ NotUpdated(r).at # "idle"
<1>1. CASE r.phase \in {"pre", "mir"}
  <2>1. NotUpdated(r) = To(r, "aside")
    BY <1>1 DEF NotUpdated
  <2> QED BY <1>1, <2>1 DEF To, Runs, At0, Phase, Shape, Source, List
<1>2. CASE r.phase \in {"early", "up"}
  BY <1>2 DEF NotUpdated, VerifyAgain, Try, Runs, At0, Phase, Shape
<1>3. CASE r.phase = "last"
  BY <1>3 DEF NotUpdated, To, Runs, At0, Outcome, Phase, Shape
<1> QED BY <1>1, <1>2, <1>3 DEF Shape

LEMMA VerifiedRuns ==
    ASSUME NEW b \in Builds, NEW ok \in BOOLEAN, run[b] \in Runs, Shape(run[b]),
           run[b].at \in {"verify", "sums", "unstamp"}
    PROVE  /\ Verified(b, ok) \in Runs /\ Shape(Verified(b, ok))
           /\ Verified(b, ok).at # "idle"
<1> DEFINE r == run[b]
           good == ok /\ Read(dir[b]) # None
<1>1. CASE r.phase = "first"
  BY <1>1 DEF Verified, VerifyAgain, Try, Runs, At0, Phase, Shape
<1>2. CASE r.phase \in {"pre", "mir"}
  <2>1. CASE good
    <3>1. Verified(b, ok) = Tried(r, TRUE)
      BY <1>2, <2>1 DEF Verified
    <3> QED BY <3>1, TriedRuns
  <2>2. CASE ~good
    <3>1. Verified(b, ok) = To(r, "wget")
      BY <1>2, <2>2 DEF Verified
    <3> QED BY <3>1, <1>2 DEF To, Runs, At0, Phase, Shape, Source, List
  <2> QED BY <2>1, <2>2
<1>3. CASE r.phase = "second"
  BY <1>3 DEF Verified, Last, Runs, At0, Phase, Shape
<1> QED BY <1>1, <1>2, <1>3 DEF Shape

\* After verify_donestamp has found the file right.
LEMMA VerifiedRight ==
    ASSUME NEW b \in Builds, NEW v, v = Verified(b, TRUE), run[b] \in Runs, Shape(run[b]),
           run[b].at = "sums", Fine(b), dir' = dir, want' = want, serves' = serves,
           faults' = faults, want[b] # None,
           Read(dir[b])' = want[b], Read(dir[b]) = want[b], stamp'[dir[b]] = want[b]
    PROVE  Knows(b, v.at, v.phase, v.done)'
<1> DEFINE r == run[b]
<1>1. CASE r.phase = "first"
  BY <1>1 DEF Verified, VerifyAgain, Runs, Knows, Down
<1>2. CASE r.phase = "pre"
  BY <1>2 DEF Verified, Tried, Update, Runs, Knows, Down
<1>3. CASE r.phase = "mir"
  BY <1>3 DEF Verified, Tried, Last, Runs, Fine, Knows, Down
<1>4. CASE r.phase = "second"
  BY <1>4 DEF Verified, Last, Runs, Fine, Knows, Down
<1> QED BY <1>1, <1>2, <1>3, <1>4 DEF Shape

\* After it has found no file, or a wrong one.
LEMMA VerifiedNot ==
    ASSUME NEW b \in Builds, NEW v, v = Verified(b, FALSE), run[b] \in Runs, Shape(run[b]),
           run[b].at \in {"verify", "unstamp"}, Fine(b), dir' = dir, want' = want,
           serves' = serves, faults' = faults, want[b] # None,
           Read(dir[b])' = None, Read(dir[b]) = None, stamp'[dir[b]] = None
    PROVE  Knows(b, v.at, v.phase, v.done)'
<1> DEFINE r == run[b]
<1>1. CASE r.phase = "first"
  BY <1>1 DEF Verified, Try, Runs, Knows, Down
<1>2. CASE r.phase = "pre"
  BY <1>2 DEF Verified, To, Runs, Knows, Down
<1>3. CASE r.phase = "mir"
  BY <1>3 DEF Verified, To, Runs, Fine, Knows, Down
<1>4. CASE r.phase = "second"
  BY <1>4 DEF Verified, Runs, Fine, Knows, Down
<1> QED BY <1>1, <1>2, <1>3, <1>4 DEF Shape

-----------------------------------------------------------------------------
(* Steps that leave the disk alone *)

LEMMA Same ==
    ASSUME IInv, NEW b \in Builds, UNCHANGED <<setup, disk>>, faults' \in {faults, faults + 1},
           NEW r \in Runs, Goes(b, r), Shape(r), Knows(b, r.at, r.phase, r.done),
           NEW l \in Builds \cup {None}, lock' = [lock EXCEPT ![dir[b]] = l], Held'
    PROVE  IInv'
<1>1. /\ dir' = dir /\ want' = want /\ serves' = serves /\ mirror' = mirror
      /\ aside' = aside /\ file' = file /\ stamp' = stamp
  BY DEF setup, disk
<1>2. TypeOK' /\ AsideGone'
  BY <1>1 DEF IInv, TypeOK, Goes, AsideGone
<1>3. \A d \in Dirs : Foreign(d)' \/ StampTrue(d)'
  BY <1>1 DEF IInv, Foreign, StampTrue, Read
<1>4. ASSUME NEW c \in Builds
      PROVE  Shape(run'[c]) /\ (Foreign(dir[c])' \/ Fine(c)')
  <2>1. Down(c) => Down(c)'
    BY <1>1 DEF Down, IInv, TypeOK
  <2>2. CASE c = b
    <3>1. run'[c] = r
      BY <2>2 DEF Goes, IInv, TypeOK
    <3> QED BY <3>1, <2>1, <2>2, <1>1 DEF Fine, Knows, Read
  <2>3. CASE c # b
    <3>1. run'[c] = run[c]
      BY <2>3 DEF Goes, IInv, TypeOK
    <3> QED BY <3>1, <2>1, <1>1 DEF IInv, Fine, Knows, Read, Foreign
  <2> QED BY <2>2, <2>3
<1> QED BY <1>1, <1>2, <1>3, <1>4, Held' DEF IInv

LEMMA Leave ==
    ASSUME IInv, NEW b \in Builds, run[b].at # "idle", Goes(b, Idle),
           UNCHANGED <<setup, disk>>, faults' \in {faults, faults + 1},
           lock' = [lock EXCEPT ![dir[b]] = None]
    PROVE  IInv'
<1>1. Idle \in Runs /\ Shape(Idle) /\ Knows(b, Idle.at, Idle.phase, Idle.done)
  BY DEF Idle, Runs, At0, Phase, Shape, Knows
<1>2. Held'
  BY DEF IInv, TypeOK, Held, Goes, Idle, setup
<1> QED BY <1>1, <1>2, Same

LEMMA Enter ==
    ASSUME IInv, NEW b \in Builds, NEW at \in {"verify", "clean"}, Take(b, at)
    PROVE  IInv'
<1> DEFINE r == To(Idle, at)
<1>1. r \in Runs /\ Shape(r) /\ Knows(b, r.at, r.phase, r.done)
  BY DEF To, Idle, Runs, At0, Phase, Shape, Knows
<1>2. Goes(b, r) /\ UNCHANGED <<setup, disk, faults>> /\ lock' = [lock EXCEPT ![dir[b]] = b]
  BY DEF Take
<1>3. Held'
  BY <1>2, DistinctAssumption DEF Take, IInv, TypeOK, Held, Goes, setup
<1> HIDE DEF r
<1> QED BY <1>1, <1>2, <1>3, Same

\* A mirror's file is set aside: builds of other directories lose all certainty.
LEMMA MirrorStep ==
    ASSUME IInv, NEW b \in Builds, SetAside(b) PROVE IInv'
<1> DEFINE d == dir[b]
<1> PICK r : r = run[b]
  OBVIOUS
<1> PICK m : m = Source(r)
  OBVIOUS
<1> PICK v : v = TryNext(r)
  OBVIOUS
<1>1. /\ r \in Runs /\ Shape(r) /\ r.at = "aside" /\ m \in Locals /\ d \in Dirs
      /\ Goes(b, v) /\ UNCHANGED <<setup, file, stamp, lock, calls, faults>>
      /\ IF mirror[m] = None THEN UNCHANGED <<mirror, aside>>
         ELSE /\ mirror' = [mirror EXCEPT ![m] = None]
              /\ aside' = [aside EXCEPT ![m] = b]
  BY DEF SetAside, At, IInv, TypeOK, Shape
<1>2. v \in Runs /\ Shape(v) /\ v.at # "idle" /\ v.at = "try" /\ v.phase = r.phase
  BY <1>1, NextRuns DEF Shape
<1>3. dir' = dir /\ want' = want /\ serves' = serves
  BY <1>1 DEF setup
<1>4. TypeOK' /\ Held'
  BY <1>1, <1>2, <1>3 DEF IInv, TypeOK, Held, Goes
<1>5. AsideGone'
  BY <1>1 DEF IInv, TypeOK, AsideGone
<1>6. \A e \in Dirs : Foreign(e) => Foreign(e)'
  BY <1>1, <1>3, DistinctAssumption DEF IInv, TypeOK, AsideGone, Foreign
<1>7. CASE mirror[m] = None
  <2>1. Foreign(d) \/ (StampTrue(d)' /\ Knows(b, v.at, v.phase, v.done)')
    BY <1>1, <1>2, <1>3, <1>7 DEF IInv, StampTrue, Fine, Knows, Read, Down
  <2>2. file' = [file EXCEPT ![d] = file[d]] /\ stamp' = [stamp EXCEPT ![d] = stamp[d]]
    BY <1>1 DEF IInv, TypeOK
  <2>3. file[d] \in Contents \cup Locals \cup {None} /\ stamp[d] \in Contents \cup {None}
    BY <1>1 DEF IInv, TypeOK
  <2> QED BY <1>1, <1>2, <1>7, <2>1, <2>2, <2>3, OwnStep
<1>8. CASE mirror[m] # None
  <2>1. \A e \in Dirs : e # d => Foreign(e)'
    BY <1>1, <1>3, <1>8, DistinctAssumption DEF IInv, TypeOK, Foreign
  <2>2. Foreign(d)' \/ (StampTrue(d)' /\ Fine(b)')
    <3>1. CASE Foreign(d)
      BY <3>1, <1>1, <1>3, <1>6
    <3>2. CASE Fine(b)
      <4>1. Read(d) = None /\ stamp[d] = None /\ (r.phase = "mir" => Down(b))
        BY <3>2, <1>1 DEF Fine, Knows
      <4>2. Read(d)' = None /\ stamp'[d] = None /\ (r.phase = "mir" => Down(b)')
        BY <4>1, <1>1, <1>3, <1>8 DEF IInv, TypeOK, Read, Down
      <4>3. run'[b] = v
        BY <1>1 DEF Goes, IInv, TypeOK
      <4> QED BY <4>2, <4>3, <1>2, <1>3 DEF Fine, Knows, StampTrue
    <3> QED BY <3>1, <3>2 DEF IInv
  <2>3. ASSUME NEW c \in Builds, c # b
        PROVE  Foreign(dir[c])' \/ Fine(c)'
    <3>1. run'[c] = run[c]
      BY <2>3, <1>1 DEF Goes, IInv, TypeOK
    <3>2. CASE run[c].at = "idle"
      BY <3>1, <3>2, <1>3 DEF Fine, Knows
    <3>3. CASE run[c].at # "idle"
      BY <3>3, <2>1, <2>3, <1>1, <1>3 DEF IInv, TypeOK, Held
    <3> QED BY <3>2, <3>3
  <2>4. \A c \in Builds : Shape(run'[c])
    BY <1>1, <1>2 DEF Goes, IInv, TypeOK
  <2>5. \A e \in Dirs : Foreign(e)' \/ StampTrue(e)'
    BY <2>1, <2>2, <1>3
  <2>6. \A c \in Builds : Foreign(dir[c])' \/ Fine(c)'
    BY <2>2, <2>3, <1>3
  <2> QED BY <1>3, <1>4, <1>5, <2>4, <2>5, <2>6 DEF IInv
<1> QED BY <1>7, <1>8

-----------------------------------------------------------------------------
LEMMA Step == IInv /\ [Next]_vars => IInv'
<1> SUFFICES ASSUME IInv, [Next]_vars PROVE IInv'
  OBVIOUS
<1>1. CASE UNCHANGED vars
  BY <1>1 DEF vars, setup, disk, IInv, TypeOK, Held, AsideGone, Shape, Source, List,
              Foreign, StampTrue, Read, Fine, Knows, Down
<1>2. CASE Next
  <2> PICK b \in Builds : Download(b) \/ Clean(b) \/ Call(b) \/ Die(b)
    BY <1>2 DEF Next
  <2> DEFINE d == dir[b]
             r == run[b]
  <2>0. /\ d \in Dirs /\ r \in Runs /\ Shape(r) /\ want[b] \in Contents
        /\ file[d] \in Contents \cup Locals \cup {None}
        /\ stamp[d] \in Contents \cup {None} /\ Read(d) \in Contents \cup {None}
        /\ file = [file EXCEPT ![d] = file[d]] /\ stamp = [stamp EXCEPT ![d] = stamp[d]]
    BY DEF IInv, TypeOK, Read
  <2>1. CASE VerifyMissing(b)
    <3> PICK v : v = Verified(b, FALSE)
      OBVIOUS
    <3>1. /\ r.at = "verify" /\ Goes(b, v) /\ Read(d) = None
          /\ stamp' = [stamp EXCEPT ![d] = None]
          /\ UNCHANGED <<setup, mirror, aside, file, lock, calls, faults>>
      BY <2>1 DEF VerifyMissing, At
    <3>2. v \in Runs /\ Shape(v) /\ v.at # "idle"
      BY <3>1, <2>0, VerifiedRuns DEF IInv
    <3>3. Read(d)' = None /\ stamp'[d] = None /\ dir' = dir /\ want' = want /\ serves' = serves
      BY <3>1, <2>0 DEF Read, setup, IInv, TypeOK
    <3>4. Foreign(d) \/ (StampTrue(d)' /\ Knows(b, v.at, v.phase, v.done)')
      BY <3>1, <3>3, <2>0, VerifiedNot, DistinctAssumption DEF IInv, StampTrue
    <3> QED BY <3>1, <3>2, <3>4, <2>0, OwnStep
  <2>2. CASE VerifyPresent(b)
    <3> PICK v : v = To(r, "sums")
      OBVIOUS
    <3>1. /\ Goes(b, v) /\ r.at = "verify" /\ Read(d) # None
          /\ UNCHANGED <<setup, mirror, aside, file, stamp, lock, calls>>
          /\ faults' \in {faults, faults + 1}
      BY <2>2 DEF VerifyPresent, At, disk, Sums
    <3>2. v \in Runs /\ Shape(v) /\ v.at # "idle"
      BY <3>1, <2>0 DEF IInv, Runs, At0, Outcome, Phase, Shape, Source, List, To
    <3>3. dir' = dir /\ want' = want /\ serves' = serves
      BY <3>1 DEF setup
    <3>4. Foreign(d) \/ (StampTrue(d)' /\ Knows(b, v.at, v.phase, v.done)')
      BY <3>1, <3>3, <2>0, DistinctAssumption DEF IInv, TypeOK, StampTrue, Read, Runs,
         Shape, Fine, Knows, Down, To
    <3> QED BY <3>1, <3>2, <3>4, <2>0, OwnStep
  <2>3. CASE SumsWrong(b)
    <3> PICK v : v = To(r, "unstamp")
      OBVIOUS
    <3>1. /\ Goes(b, v) /\ r.at = "sums" /\ \E c \in {Read(d), stamp[d]} : c \notin {want[b], None}
          /\ file' = [file EXCEPT ![d] = IF Read(d) = None THEN file[d] ELSE None]
          /\ UNCHANGED <<setup, mirror, aside, stamp, lock, calls>>
          /\ faults' \in {faults, faults + 1}
      BY <2>3 DEF SumsWrong, At, disk, Sums
    <3>2. v \in Runs /\ Shape(v) /\ v.at # "idle"
      BY <3>1, <2>0 DEF IInv, Runs, At0, Outcome, Phase, Shape, Source, List, To
    <3>3. dir' = dir /\ want' = want /\ serves' = serves
      BY <3>1 DEF setup
    <3>4. Foreign(d) \/ (StampTrue(d)' /\ Knows(b, v.at, v.phase, v.done)')
      BY <3>1, <3>3, <2>0, DistinctAssumption DEF IInv, TypeOK, StampTrue, Read, Runs,
         Shape, Fine, Knows, Down, To
    <3> QED BY <3>1, <3>2, <3>4, <2>0, OwnStep
  <2>4. CASE SumsLost(b)
    <3> PICK v : v = To(r, "lost")
      OBVIOUS
    <3>1. /\ Goes(b, v) /\ r.at = "sums" /\ Read(d) = None
          /\ UNCHANGED <<setup, mirror, aside, file, stamp, lock, calls>>
          /\ faults' \in {faults, faults + 1}
      BY <2>4 DEF SumsLost, At, disk, Sums
    <3>2. v \in Runs /\ Shape(v) /\ v.at # "idle"
      BY <3>1, <2>0 DEF IInv, Runs, At0, Outcome, Phase, Shape, Source, List, To
    <3>3. dir' = dir /\ want' = want /\ serves' = serves
      BY <3>1 DEF setup
    <3>4. Foreign(d) \/ (StampTrue(d)' /\ Knows(b, v.at, v.phase, v.done)')
      BY <3>1, <3>3, <2>0, DistinctAssumption DEF IInv, TypeOK, StampTrue, Read, Runs,
         Shape, Fine, Knows, Down, To
    <3> QED BY <3>1, <3>2, <3>4, <2>0, OwnStep
  <2>5. CASE TryNone(b)
    <3> PICK v : v = Tried(r, FALSE)
      OBVIOUS
    <3>1. /\ Goes(b, v) /\ r.at = "try"
          /\ UNCHANGED <<setup, mirror, aside, file, stamp, lock, calls>>
          /\ faults' \in {faults, faults + 1}
      BY <2>5 DEF TryNone, At, disk, Sums
    <3>2. v \in Runs /\ Shape(v) /\ v.at # "idle"
      BY <3>1, <2>0, TriedRuns
    <3>3. dir' = dir /\ want' = want /\ serves' = serves
      BY <3>1 DEF setup
    <3>4. Foreign(d) \/ (StampTrue(d)' /\ Knows(b, v.at, v.phase, v.done)')
      BY <3>1, <3>3, <2>0, DistinctAssumption DEF IInv, TypeOK, StampTrue, Read, Runs,
         Shape, Fine, Knows, Down, Tried, Last, Update, VerifyAgain
    <3> QED BY <3>1, <3>2, <3>4, <2>0, OwnStep
  <2>6. CASE TryServer(b)
    <3> PICK v : v = To(r, "verify")
      OBVIOUS
    <3>1. /\ Goes(b, v) /\ r.at = "try" /\ Source(r) \in Servers
          /\ UNCHANGED <<setup, mirror, aside, file, stamp, lock, calls>>
          /\ faults' \in {faults, faults + 1}
      BY <2>6 DEF TryServer, At, disk, Sums, Trying
    <3>2. v \in Runs /\ Shape(v) /\ v.at # "idle"
      BY <3>1, <2>0 DEF IInv, Runs, At0, Outcome, Phase, Shape, Source, List, To
    <3>3. dir' = dir /\ want' = want /\ serves' = serves
      BY <3>1 DEF setup
    <3>4. Foreign(d) \/ (StampTrue(d)' /\ Knows(b, v.at, v.phase, v.done)')
      BY <3>1, <3>3, <2>0, DistinctAssumption DEF IInv, TypeOK, StampTrue, Read, Runs,
         Shape, Fine, Knows, Down, To
    <3> QED BY <3>1, <3>2, <3>4, <2>0, OwnStep
  <2>7. CASE Touch(b)
    <3> PICK v : v = Updated(r)
      OBVIOUS
    <3>1. /\ Goes(b, v) /\ r.at = "update" /\ stamp[d] # None
          /\ UNCHANGED <<setup, mirror, aside, file, stamp, lock, calls>>
          /\ faults' \in {faults, faults + 1}
      BY <2>7 DEF Touch, At, disk, Sums
    <3>2. v \in Runs /\ Shape(v) /\ v.at # "idle"
      BY <3>1, <2>0, UpdatedRuns
    <3>3. dir' = dir /\ want' = want /\ serves' = serves
      BY <3>1 DEF setup
    <3>4. Foreign(d) \/ (StampTrue(d)' /\ Knows(b, v.at, v.phase, v.done)')
      BY <3>1, <3>3, <2>0, DistinctAssumption DEF IInv, TypeOK, StampTrue, Read, Runs,
         Shape, Fine, Knows, Down, Updated, Tried, VerifyAgain, Last, Update, To
    <3> QED BY <3>1, <3>2, <3>4, <2>0, OwnStep
  <2>8. CASE UpdateRight(b)
    <3> PICK v : v = Updated(r)
      OBVIOUS
    <3>1. /\ Goes(b, v) /\ r.at = "update" /\ Read(d) = want[b]
          /\ stamp' = [stamp EXCEPT ![d] = want[b]]
          /\ UNCHANGED <<setup, mirror, aside, file, lock, calls>>
          /\ faults' \in {faults, faults + 1}
      BY <2>8 DEF UpdateRight, At, disk, Sums
    <3>2. v \in Runs /\ Shape(v) /\ v.at # "idle"
      BY <3>1, <2>0, UpdatedRuns
    <3>3. dir' = dir /\ want' = want /\ serves' = serves
      BY <3>1 DEF setup
    <3>4. Foreign(d) \/ (StampTrue(d)' /\ Knows(b, v.at, v.phase, v.done)')
      BY <3>1, <3>3, <2>0, DistinctAssumption DEF IInv, TypeOK, StampTrue, Read, Runs,
         Shape, Fine, Knows, Down, Updated, Tried, VerifyAgain, Last, Update, To
    <3> QED BY <3>1, <3>2, <3>4, <2>0, OwnStep
  <2>9. CASE UpdateWrong(b)
    <3> PICK v : v = NotUpdated(r)
      OBVIOUS
    <3>1. /\ Goes(b, v) /\ r.at = "update" /\ stamp[d] = None /\ Read(d) \notin {want[b], None}
          /\ file' = [file EXCEPT ![d] = None]
          /\ UNCHANGED <<setup, mirror, aside, stamp, lock, calls>>
          /\ faults' \in {faults, faults + 1}
      BY <2>9 DEF UpdateWrong, At, disk, Sums
    <3>2. v \in Runs /\ Shape(v) /\ v.at # "idle"
      BY <3>1, <2>0, NotUpdatedRuns
    <3>3. dir' = dir /\ want' = want /\ serves' = serves
      BY <3>1 DEF setup
    <3>4. Foreign(d) \/ (StampTrue(d)' /\ Knows(b, v.at, v.phase, v.done)')
      BY <3>1, <3>3, <2>0, DistinctAssumption DEF IInv, TypeOK, StampTrue, Read, Runs,
         Shape, Fine, Knows, Down, NotUpdated, VerifyAgain, Try, To
    <3> QED BY <3>1, <3>2, <3>4, <2>0, OwnStep
  <2>10. CASE UpdateLost(b)
    <3> PICK v : v = To(r, "lost")
      OBVIOUS
    <3>1. /\ Goes(b, v) /\ r.at = "update" /\ Read(d) = None
          /\ UNCHANGED <<setup, mirror, aside, file, stamp, lock, calls>>
          /\ faults' \in {faults, faults + 1}
      BY <2>10 DEF UpdateLost, At, disk, Sums
    <3>2. v \in Runs /\ Shape(v) /\ v.at # "idle"
      BY <3>1, <2>0 DEF IInv, Runs, At0, Outcome, Phase, Shape, Source, List, To
    <3>3. dir' = dir /\ want' = want /\ serves' = serves
      BY <3>1 DEF setup
    <3>4. Foreign(d) \/ (StampTrue(d)' /\ Knows(b, v.at, v.phase, v.done)')
      BY <3>1, <3>3, <2>0, DistinctAssumption DEF IInv, TypeOK, StampTrue, Read, Runs,
         Shape, Fine, Knows, Down, To
    <3> QED BY <3>1, <3>2, <3>4, <2>0, OwnStep
  <2>11. CASE Finish(b)
    <3> PICK v : v = IF r.done /\ Read(d) # None THEN To(r, "update") ELSE To(r, "failed")
      OBVIOUS
    <3>1. /\ Goes(b, v) /\ r.at = "last"
          /\ UNCHANGED <<setup, mirror, aside, file, stamp, lock, calls>>
          /\ faults' \in {faults, faults + 1}
      BY <2>11 DEF Finish, At, disk, Sums
    <3>2. v \in Runs /\ Shape(v) /\ v.at # "idle"
      BY <3>1, <2>0 DEF IInv, Runs, At0, Outcome, Phase, Shape, Source, List, To
    <3>3. dir' = dir /\ want' = want /\ serves' = serves
      BY <3>1 DEF setup
    <3>4. Foreign(d) \/ (StampTrue(d)' /\ Knows(b, v.at, v.phase, v.done)')
      BY <3>1, <3>3, <2>0, DistinctAssumption DEF IInv, TypeOK, StampTrue, Read, Runs,
         Shape, Fine, Knows, Down, To
    <3> QED BY <3>1, <3>2, <3>4, <2>0, OwnStep
  <2>12. CASE CleanFile(b)
    <3> PICK v : v = To(r, "cleanStamp")
      OBVIOUS
    <3>1. /\ Goes(b, v) /\ r.at = "clean"
          /\ file' = [file EXCEPT ![d] = None]
          /\ UNCHANGED <<setup, mirror, aside, stamp, lock, calls>>
          /\ faults' \in {faults, faults + 1}
      BY <2>12 DEF CleanFile, At, disk, Sums
    <3>2. v \in Runs /\ Shape(v) /\ v.at # "idle"
      BY <3>1, <2>0 DEF IInv, Runs, At0, Outcome, Phase, Shape, Source, List, To
    <3>3. dir' = dir /\ want' = want /\ serves' = serves
      BY <3>1 DEF setup
    <3>4. Foreign(d) \/ (StampTrue(d)' /\ Knows(b, v.at, v.phase, v.done)')
      BY <3>1, <3>3, <2>0, DistinctAssumption DEF IInv, TypeOK, StampTrue, Read, Runs,
         Shape, Fine, Knows, Down, To
    <3> QED BY <3>1, <3>2, <3>4, <2>0, OwnStep
  <2>13. CASE CleanStamp(b)
    <3> PICK v : v = To(r, "cleaned")
      OBVIOUS
    <3>1. /\ Goes(b, v) /\ r.at = "cleanStamp"
          /\ stamp' = [stamp EXCEPT ![d] = None]
          /\ UNCHANGED <<setup, mirror, aside, file, lock, calls>>
          /\ faults' \in {faults, faults + 1}
      BY <2>13 DEF CleanStamp, At, disk, Sums
    <3>2. v \in Runs /\ Shape(v) /\ v.at # "idle"
      BY <3>1, <2>0 DEF IInv, Runs, At0, Outcome, Phase, Shape, Source, List, To
    <3>3. dir' = dir /\ want' = want /\ serves' = serves
      BY <3>1 DEF setup
    <3>4. Foreign(d) \/ (StampTrue(d)' /\ Knows(b, v.at, v.phase, v.done)')
      BY <3>1, <3>3, <2>0, DistinctAssumption DEF IInv, TypeOK, StampTrue, Read, Runs,
         Shape, Fine, Knows, Down, To
    <3> QED BY <3>1, <3>2, <3>4, <2>0, OwnStep
  <2>14. CASE SumsRight(b)
    <3> PICK v : v = Verified(b, TRUE)
      OBVIOUS
    <3>1. /\ r.at = "sums" /\ Goes(b, v) /\ want[b] \in {Read(d), stamp[d]}
          /\ stamp' = [stamp EXCEPT ![d] = want[b]]
          /\ UNCHANGED <<setup, mirror, aside, file, lock, calls, faults>>
      BY <2>14 DEF SumsRight, At, Sums
    <3>2. v \in Runs /\ Shape(v) /\ v.at # "idle"
      BY <3>1, <2>0, VerifiedRuns
    <3>3. /\ Read(d)' = Read(d) /\ stamp'[d] = want[b] /\ dir' = dir /\ want' = want
          /\ serves' = serves
      BY <3>1, <2>0 DEF Read, setup, IInv, TypeOK
    <3>4. Foreign(d) \/ (Read(d) = want[b] /\ Fine(b))
      BY <3>1, <2>0, DistinctAssumption DEF IInv, StampTrue, Fine, Knows
    <3>5. Foreign(d) \/ (StampTrue(d)' /\ Knows(b, v.at, v.phase, v.done)')
      BY <3>1, <3>3, <3>4, <2>0, VerifiedRight, DistinctAssumption DEF StampTrue
    <3> QED BY <3>1, <3>2, <3>5, <2>0, OwnStep
  <2>15. CASE Unstamp(b)
    <3> PICK v : v = Verified(b, FALSE)
      OBVIOUS
    <3>1. /\ r.at = "unstamp" /\ Goes(b, v)
          /\ stamp' = [stamp EXCEPT ![d] = None]
          /\ UNCHANGED <<setup, mirror, aside, file, lock, calls, faults>>
      BY <2>15 DEF Unstamp, At
    <3>2. v \in Runs /\ Shape(v) /\ v.at # "idle"
      BY <3>1, <2>0, VerifiedRuns
    <3>3. /\ Read(d)' = Read(d) /\ stamp'[d] = None /\ dir' = dir /\ want' = want
          /\ serves' = serves
      BY <3>1, <2>0 DEF Read, setup, IInv, TypeOK
    <3>4. Foreign(d) \/ (Read(d) = None /\ Fine(b))
      BY <3>1, <2>0 DEF IInv, Fine, Knows
    <3>5. Foreign(d) \/ (StampTrue(d)' /\ Knows(b, v.at, v.phase, v.done)')
      BY <3>1, <3>3, <3>4, <2>0, VerifiedNot, DistinctAssumption DEF StampTrue
    <3> QED BY <3>1, <3>2, <3>5, <2>0, OwnStep
  <2>16. CASE TryLocal(b)
    <3> PICK m : m = Source(r)
      OBVIOUS
    <3>1. /\ r.at = "try" /\ m \in Locals /\ mirror[m] \in Contents \cup {None}
          /\ UNCHANGED <<setup, mirror, aside, stamp, lock, calls, faults>>
          /\ dir' = dir /\ want' = want /\ serves' = serves
      BY <2>16 DEF TryLocal, Trying, At, setup, IInv, TypeOK
    <3>2. CASE mirror[m] = None
      <4> PICK v : v = TryNext(r)
        OBVIOUS
      <4>1. Goes(b, v) /\ UNCHANGED file
        BY <2>16, <3>2 DEF TryLocal
      <4>2. v \in Runs /\ Shape(v) /\ v.at # "idle"
        BY <3>1, <2>0, NextRuns DEF Shape
      <4>3. Foreign(d) \/ (StampTrue(d)' /\ Knows(b, v.at, v.phase, v.done)')
        BY <3>1, <4>1, <2>0 DEF IInv, TypeOK, TryNext, StampTrue, Read, Runs, Fine, Knows, Down
      <4> QED BY <3>1, <4>1, <4>2, <4>3, <2>0, OwnStep
    <3>3. CASE mirror[m] # None
      <4> PICK v : v = To(r, "update")
        OBVIOUS
      <4> PICK f : f = IF Read(d) = None THEN m ELSE file[d]
        OBVIOUS
      <4>1. Goes(b, v) /\ file' = [file EXCEPT ![d] = f]
        BY <2>16, <3>3 DEF TryLocal
      <4>2. v \in Runs /\ Shape(v) /\ v.at # "idle"
        BY <3>1, <2>0 DEF To, Runs, At0, Shape, Source, List
      <4>3. Foreign(d) \/ (StampTrue(d)' /\ Knows(b, v.at, v.phase, v.done)')
        BY <3>1, <3>3, <4>1, <2>0 DEF IInv, TypeOK, To, StampTrue, Read, Runs, Shape,
           Fine, Knows, Down
      <4>4. f \in Contents \cup Locals \cup {None}
        BY <3>1, <2>0
      <4> QED BY <3>1, <4>1, <4>2, <4>3, <4>4, <2>0, OwnStep
    <3> QED BY <3>2, <3>3
  <2>17. CASE WgetDone(b)
    <3> PICK c : c = serves[Source(r)]
      OBVIOUS
    <3> PICK v : v = IF r.phase = "up" THEN Update(r, "up") ELSE Tried(r, TRUE)
      OBVIOUS
    <3>1. /\ r.at = "wget" /\ c # None /\ Goes(b, v) /\ file' = [file EXCEPT ![d] = c]
          /\ UNCHANGED <<setup, mirror, aside, stamp, lock, calls, faults>>
          /\ dir' = dir /\ want' = want /\ serves' = serves
      BY <2>17 DEF WgetDone, At, setup
    <3>2. c \in Contents /\ (r.phase = "up" => c = serves[Upstream])
      BY <3>1, <2>0, SourcesAssumption DEF Shape, Source, IInv, TypeOK
    <3>3. Read(d)' = c /\ stamp'[d] = stamp[d]
      BY <3>1, <3>2, <2>0, DistinctAssumption DEF Read, IInv, TypeOK
    <3>4. v \in Runs /\ Shape(v) /\ v.at # "idle"
      BY <3>1, <2>0, TriedRuns DEF Update, Runs, At0, Phase, Shape
    <3>5. Foreign(d) \/ (StampTrue(d)' /\ Knows(b, v.at, v.phase, v.done)')
      BY <3>1, <3>2, <3>3, <2>0
      DEF IInv, StampTrue, Runs, Shape, Fine, Knows, Down, Update, Tried, Last
    <3> QED BY <3>1, <3>2, <3>4, <3>5, <2>0, OwnStep
  <2>18. CASE WgetFailed(b)
    <3> PICK f : f = IF r.phase = "up" /\ r.verified THEN file[d] ELSE None
      OBVIOUS
    <3> PICK v : v = IF r.phase = "up" THEN Try(r, "mir") ELSE TryNext(r)
      OBVIOUS
    <3>1. /\ r.at = "wget" /\ Goes(b, v) /\ file' = [file EXCEPT ![d] = f]
          /\ \/ serves[Source(r)] = None /\ faults' = faults
             \/ faults' = faults + 1
          /\ UNCHANGED <<setup, mirror, aside, stamp, lock, calls>>
          /\ dir' = dir /\ want' = want /\ serves' = serves
      BY <2>18 DEF WgetFailed, At, setup
    <3>2. v \in Runs /\ Shape(v) /\ v.at # "idle"
      <4>1. CASE r.phase = "up"
        BY <4>1, <2>0 DEF Try, Runs, At0, Phase, Shape
      <4>2. CASE r.phase # "up"
        BY <4>2, <3>1, <2>0, NextRuns DEF Shape
      <4> QED BY <4>1, <4>2
    <3>3. r.phase = "up" \/ Down(b) => Down(b)'
      BY <3>1, <2>0, DistinctAssumption DEF Down, Source, IInv, TypeOK
    <3>4. Read(d) = None => Read(d)' = None
      BY <3>1, <2>0, DistinctAssumption DEF Read, IInv, TypeOK
    <3>5. stamp'[d] = stamp[d]
      BY <3>1
    <3>6. Foreign(d) \/ (StampTrue(d)' /\ Knows(b, v.at, v.phase, v.done)')
      BY <3>1, <3>3, <3>4, <3>5, <2>0 DEF IInv, StampTrue, Runs, Shape, Fine, Knows,
         Try, TryNext
    <3>7. f \in Contents \cup Locals \cup {None}
      BY <2>0
    <3> QED BY <3>1, <3>2, <3>6, <3>7, <2>0, OwnStep
  <2>19. CASE SetAside(b)
    BY <2>19, MirrorStep
  <2>20. CASE Unlock(b) \/ Die(b)
    BY <2>20, Leave DEF Unlock, Die, At, Outcome
  <2>21. CASE Download(b) \/ Clean(b)
    BY <2>21, Enter DEF Download, Clean
  <2> QED BY <2>1, <2>2, <2>3, <2>4, <2>5, <2>6, <2>7, <2>8, <2>9, <2>10, <2>11, <2>12,
             <2>13, <2>14, <2>15, <2>16, <2>17, <2>18, <2>19, <2>20, <2>21 DEF Call
<1> QED BY <1>1, <1>2

-----------------------------------------------------------------------------
(* Theorems *)

LEMMA Inductive == Spec => []IInv
BY Start, Step, PTL DEF Spec

\* When download returns, its file is what the recipe wants, whoever was killed
\* where, as long as no other directory's build has set a mirror's file aside.
THEOREM DownloadRight == Spec => []FetchedRight
<1>1. IInv => FetchedRight
  BY DEF IInv, FetchedRight, AsideByOther, Foreign, Fine, Knows, At
<1> QED BY <1>1, Inductive, PTL

\* Wrong files on the mirrors do not make a download fail.
THEOREM FailsWithUpstream == Spec => []Resilient
<1>1. IInv => Resilient
  BY DEF IInv, Resilient, AsideByOther, Foreign, Fine, Knows, Down, At
<1> QED BY <1>1, Inductive, PTL
=============================================================================
