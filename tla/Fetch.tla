-------------------------------- MODULE Fetch --------------------------------
(***************************************************************************)
(* Fetch.download and Fetch.clean of fetch2 for one file that recipes take *)
(* from http or ftp, with its PREMIRRORS, its upstream and its MIRRORS.    *)
(*                                                                         *)
(* Builds that share a download directory share the file, its done stamp   *)
(* and its lock.  A mirror on disk (file://) is shared by the builds of    *)
(* all download directories: the file is then a link into the mirror, and  *)
(* nobody locks that.                                                      *)
(***************************************************************************)
EXTENDS Naturals, Sequences

CONSTANTS
  Builds,      \* the processes that run do_fetch and do_cleanall
  Dirs,        \* the download directories
  Locals,      \* the mirrors on disk
  Servers,     \* the servers, mirrors or not
  Upstream,    \* the server of SRC_URI
  Premirrors,  \* PREMIRRORS and MIRRORS, as sequences of sources
  Mirrors,
  Contents,    \* what the file may contain
  None,        \* nothing, or nobody
  MaxCalls,    \* bound: the calls of a build
  MaxFaults    \* bound: lost connections and killed builds

Sources == Locals \cup Servers
ASSUME SourcesAssumption == /\ Upstream \in Servers
                            /\ Premirrors \in Seq(Sources) /\ Mirrors \in Seq(Sources)
ASSUME DistinctAssumption == /\ Contents \cap Locals = {} /\ Locals \cap Servers = {}
                             /\ None \notin Contents \cup Locals \cup Builds

VARIABLES
  dir,      \* DL_DIR of each build
  want,     \* the checksum in its recipe, as the content that has it
  serves,   \* what each server serves under the name, None when it fails
  mirror,   \* the file in each mirror on disk, or None
  aside,    \* who renamed that file to its name with _bad-checksum_, or None
  file,     \* the file in each download directory: None, a content or a link
  stamp,    \* the checksums in its done stamp, or None
  lock,     \* the build that has its lock, or None
  run,      \* where each build is in download or clean
  calls,    \* the calls each build has made
  faults    \* the faults so far

setup == <<dir, want, serves>>
disk == <<mirror, aside, file, stamp>>
vars == <<setup, disk, lock, run, calls, faults>>

\* Of a call: the step it is at, what it is busy with, the index in the list of
\* mirrors, and its variables done and verified_stamp.
Phase == {"first", "pre", "early", "second", "up", "mir", "last"}
Idle == [at |-> "idle", phase |-> "first", n |-> 1, done |-> FALSE, verified |-> FALSE]
Outcome == {"fetched", "failed", "lost", "cleaned"}

Init ==
    /\ dir \in [Builds -> Dirs]
    /\ want \in [Builds -> Contents]
    /\ serves \in [Servers -> Contents \cup {None}]
    /\ mirror \in [Locals -> Contents \cup {None}]
    /\ aside = [m \in Locals |-> None]
    /\ file = [d \in Dirs |-> None]
    /\ stamp = [d \in Dirs |-> None]
    /\ lock = [d \in Dirs |-> None]
    /\ run = [b \in Builds |-> Idle]
    /\ calls = [b \in Builds |-> 0]
    /\ faults = 0

-----------------------------------------------------------------------------
(* Helpers *)

\* What is read at localpath, through a link; None when os.path.exists is False.
Read(d) == IF file[d] \in Locals THEN mirror[file[d]] ELSE file[d]

\* The list of mirrors that is tried, and the source in use.
List(r) == IF r.phase = "pre" THEN Premirrors ELSE Mirrors
Source(r) == IF r.phase = "up" THEN Upstream ELSE List(r)[r.n]

To(r, at) == [r EXCEPT !.at = at]
Try(r, phase) == [r EXCEPT !.at = "try", !.phase = phase, !.n = 1]
TryNext(r) == [r EXCEPT !.at = "try", !.n = r.n + 1]
VerifyAgain(r, done) == [r EXCEPT !.at = "verify", !.phase = "second", !.done = done]
Last(r, done) == [r EXCEPT !.at = "last", !.phase = "last", !.done = done]
Update(r, phase) == [r EXCEPT !.at = "update", !.phase = phase]

\* Mutant: a premirror's file is verified at the end only.
TriedLate(r, found) == IF r.phase = "mir" THEN Last(r, found) ELSE VerifyAgain(r, found)

\* try_mirrors is over: a premirror's file is verified early.
Tried(r, found) == IF r.phase = "mir" THEN Last(r, found)
                   ELSE IF found THEN Update(r, "early") ELSE VerifyAgain(r, FALSE)

\* b is at the step at, and goes on as r.
At(b, at) == run[b].at = at
Goes(b, r) == run' = [run EXCEPT ![b] = r]

-----------------------------------------------------------------------------
(* The lock *)

Take(b, at) ==
    /\ At(b, "idle") /\ lock[dir[b]] = None /\ calls[b] < MaxCalls
    /\ lock' = [lock EXCEPT ![dir[b]] = b]
    /\ calls' = [calls EXCEPT ![b] = @ + 1]
    /\ Goes(b, To(Idle, at))
    /\ UNCHANGED <<setup, disk, faults>>

Download(b) == Take(b, "verify")
Clean(b) == Take(b, "clean")

\* The finally of download, and the end of clean.
Unlock(b) ==
    /\ run[b].at \in Outcome
    /\ lock' = [lock EXCEPT ![dir[b]] = None]
    /\ Goes(b, Idle)
    /\ UNCHANGED <<setup, disk, calls, faults>>

-----------------------------------------------------------------------------
(* verify_donestamp *)

\* verify_donestamp has returned: what download or try_mirror_url does then.
\* need_update is the opposite of os.path.exists(localpath).
Verified(b, ok) ==
    LET r == run[b]
        good == ok /\ Read(dir[b]) # None
    IN  CASE r.phase = "first" ->
               IF good THEN VerifyAgain(r, TRUE) ELSE Try(r, "pre")
          [] r.phase \in {"pre", "mir"} ->
               IF good THEN Tried(r, TRUE) ELSE To(r, "wget")
          [] r.phase = "second" ->
               IF r.done \/ good THEN Last([r EXCEPT !.verified = ok], r.done)
               ELSE [r EXCEPT !.at = "wget", !.phase = "up", !.verified = ok]

\* Mutant: the stamp of a file that is not there stays.
VerifyMissingKept(b) ==
    /\ At(b, "verify") /\ Read(dir[b]) = None
    /\ Goes(b, Verified(b, FALSE))
    /\ UNCHANGED <<setup, disk, lock, calls, faults>>

\* A stamp without a file is removed.
VerifyMissing(b) ==
    /\ At(b, "verify") /\ Read(dir[b]) = None
    /\ stamp' = [stamp EXCEPT ![dir[b]] = None]
    /\ Goes(b, Verified(b, FALSE))
    /\ UNCHANGED <<setup, mirror, aside, file, lock, calls, faults>>

VerifyPresent(b) ==
    /\ At(b, "verify") /\ Read(dir[b]) # None
    /\ Goes(b, To(run[b], "sums"))
    /\ UNCHANGED <<setup, disk, lock, calls, faults>>

\* The checksums in a stamp are used instead of those of the file when the
\* stamp is newer; which is newer depends on the time the server gave the file.
Sums(b) == {Read(dir[b])} \cup ({stamp[dir[b]]} \ {None})

SumsRight(b) ==
    /\ At(b, "sums") /\ want[b] \in Sums(b)
    /\ stamp' = [stamp EXCEPT ![dir[b]] = want[b]]
    /\ Goes(b, Verified(b, TRUE))
    /\ UNCHANGED <<setup, mirror, aside, file, lock, calls, faults>>

\* rename_bad_checksum: a link is renamed, not what it leads to.
SumsWrong(b) ==
    /\ At(b, "sums") /\ \E c \in Sums(b) : c \notin {want[b], None}
    /\ file' = [file EXCEPT ![dir[b]] = IF Read(dir[b]) = None THEN @ ELSE None]
    /\ Goes(b, To(run[b], "unstamp"))
    /\ UNCHANGED <<setup, mirror, aside, stamp, lock, calls, faults>>

Unstamp(b) ==
    /\ At(b, "unstamp")
    /\ stamp' = [stamp EXCEPT ![dir[b]] = None]
    /\ Goes(b, Verified(b, FALSE))
    /\ UNCHANGED <<setup, mirror, aside, file, lock, calls, faults>>

\* The file has gone between os.path.exists and its checksums: the IOError is
\* not ESTALE, and download drops it and returns.
SumsLost(b) ==
    /\ At(b, "sums") /\ None \in Sums(b)
    /\ Goes(b, To(run[b], "lost"))
    /\ UNCHANGED <<setup, disk, lock, calls, faults>>

-----------------------------------------------------------------------------
(* try_mirrors and try_mirror_url *)

TryNone(b) ==
    /\ At(b, "try") /\ run[b].n > Len(List(run[b]))
    /\ Goes(b, Tried(run[b], FALSE))
    /\ UNCHANGED <<setup, disk, lock, calls, faults>>

Trying(b) == At(b, "try") /\ run[b].n <= Len(List(run[b]))

\* Wget as a mirror has the same localpath, and the lock is held.
TryServer(b) ==
    /\ Trying(b) /\ Source(run[b]) \in Servers
    /\ Goes(b, To(run[b], "verify"))
    /\ UNCHANGED <<setup, disk, lock, calls, faults>>

\* ensure_symlink; a link that leads nowhere is replaced.
TryLocal(b) ==
    /\ Trying(b) /\ Source(run[b]) \in Locals
    /\ LET m == Source(run[b])
       IN  IF mirror[m] = None
           THEN Goes(b, TryNext(run[b])) /\ UNCHANGED file
           ELSE /\ file' = [file EXCEPT ![dir[b]] = IF Read(dir[b]) = None THEN m ELSE @]
                /\ Goes(b, To(run[b], "update"))
    /\ UNCHANGED <<setup, mirror, aside, stamp, lock, calls, faults>>

\* The handler of try_mirror_url renames the mirror's own file.
SetAside(b) ==
    /\ At(b, "aside")
    /\ LET m == Source(run[b])
       IN  IF mirror[m] = None THEN UNCHANGED <<mirror, aside>>
           ELSE /\ mirror' = [mirror EXCEPT ![m] = None]
                /\ aside' = [aside EXCEPT ![m] = b]
    /\ Goes(b, TryNext(run[b]))
    /\ UNCHANGED <<setup, file, stamp, lock, calls, faults>>

-----------------------------------------------------------------------------
(* Wget.download *)

\* The file is renamed into place when it is complete.
WgetDone(b) ==
    /\ At(b, "wget") /\ serves[Source(run[b])] # None
    /\ file' = [file EXCEPT ![dir[b]] = serves[Source(run[b])]]
    /\ Goes(b, IF run[b].phase = "up" THEN Update(run[b], "up") ELSE Tried(run[b], TRUE))
    /\ UNCHANGED <<setup, mirror, aside, stamp, lock, calls, faults>>

\* The handlers: "Remove any incomplete fetch", and the next source.
WgetFailed(b) ==
    /\ At(b, "wget")
    /\ \/ serves[Source(run[b])] = None /\ UNCHANGED faults
       \/ serves[Source(run[b])] # None /\ faults < MaxFaults /\ faults' = faults + 1
    /\ file' = [file EXCEPT ![dir[b]] =
                   IF run[b].phase = "up" /\ run[b].verified THEN @ ELSE None]
    /\ Goes(b, IF run[b].phase = "up" THEN Try(run[b], "mir") ELSE TryNext(run[b]))
    /\ UNCHANGED <<setup, mirror, aside, stamp, lock, calls>>

-----------------------------------------------------------------------------
(* update_stamp, early or last *)

Updated(r) == CASE r.phase \in {"pre", "mir"} -> Tried(r, TRUE)
                [] r.phase = "early" -> VerifyAgain(r, TRUE)
                [] r.phase = "up" -> Last(r, TRUE)
                [] r.phase = "last" -> To(r, "fetched")

NotUpdated(r) == CASE r.phase \in {"pre", "mir"} -> To(r, "aside")
                   [] r.phase = "early" -> VerifyAgain(r, FALSE)
                   [] r.phase = "up" -> Try(r, "mir")
                   [] r.phase = "last" -> To(r, "failed")

\* A stamp that is there is touched, and nothing is verified.
Touch(b) ==
    /\ At(b, "update") /\ stamp[dir[b]] # None
    /\ Goes(b, Updated(run[b]))
    /\ UNCHANGED <<setup, disk, lock, calls, faults>>

UpdateRight(b) ==
    /\ At(b, "update") /\ stamp[dir[b]] = None /\ Read(dir[b]) = want[b]
    /\ stamp' = [stamp EXCEPT ![dir[b]] = want[b]]
    /\ Goes(b, Updated(run[b]))
    /\ UNCHANGED <<setup, mirror, aside, file, lock, calls, faults>>

UpdateWrong(b) ==
    /\ At(b, "update") /\ stamp[dir[b]] = None /\ Read(dir[b]) \notin {want[b], None}
    /\ file' = [file EXCEPT ![dir[b]] = None]
    /\ Goes(b, NotUpdated(run[b]))
    /\ UNCHANGED <<setup, mirror, aside, stamp, lock, calls, faults>>

UpdateLost(b) ==
    /\ At(b, "update") /\ stamp[dir[b]] = None /\ Read(dir[b]) = None
    /\ Goes(b, To(run[b], "lost"))
    /\ UNCHANGED <<setup, disk, lock, calls, faults>>

\* "Unable to fetch URL from any source", or the last update of the stamp.
Finish(b) ==
    /\ At(b, "last")
    /\ Goes(b, IF run[b].done /\ Read(dir[b]) # None THEN To(run[b], "update")
               ELSE To(run[b], "failed"))
    /\ UNCHANGED <<setup, disk, lock, calls, faults>>

-----------------------------------------------------------------------------
(* Fetch.clean, and a build that is killed *)

CleanFile(b) ==
    /\ At(b, "clean")
    /\ file' = [file EXCEPT ![dir[b]] = None]
    /\ Goes(b, To(run[b], "cleanStamp"))
    /\ UNCHANGED <<setup, mirror, aside, stamp, lock, calls, faults>>

CleanStamp(b) ==
    /\ At(b, "cleanStamp")
    /\ stamp' = [stamp EXCEPT ![dir[b]] = None]
    /\ Goes(b, To(run[b], "cleaned"))
    /\ UNCHANGED <<setup, mirror, aside, file, lock, calls, faults>>

Die(b) ==
    /\ ~At(b, "idle") /\ faults < MaxFaults
    /\ faults' = faults + 1
    /\ lock' = [lock EXCEPT ![dir[b]] = None]
    /\ Goes(b, Idle)
    /\ UNCHANGED <<setup, disk, calls>>

Call(b) ==
    \/ VerifyMissing(b) \/ VerifyPresent(b)
    \/ SumsRight(b) \/ SumsWrong(b) \/ Unstamp(b) \/ SumsLost(b)
    \/ TryNone(b) \/ TryServer(b) \/ TryLocal(b) \/ SetAside(b)
    \/ WgetDone(b) \/ WgetFailed(b)
    \/ Touch(b) \/ UpdateRight(b) \/ UpdateWrong(b) \/ UpdateLost(b)
    \/ Finish(b) \/ CleanFile(b) \/ CleanStamp(b) \/ Unlock(b)

Next == \E b \in Builds : Download(b) \/ Clean(b) \/ Call(b) \/ Die(b)

Spec == Init /\ [][Next]_vars
=============================================================================
