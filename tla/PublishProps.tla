---------------------------- MODULE PublishProps ----------------------------
(***************************************************************************)
(* What builders may rely on: of the hash server, and of the PR server.    *)
(***************************************************************************)
EXTENDS Publish

Messages == {NoMessage}
    \cup [op : {"get"}, taskhash : Hashes]
    \cup [op : {"report"}, taskhash : Hashes, outhash : Outhashes, unihash : Hashes]
    \cup [op : {"report-equiv"}, taskhash : Hashes, unihash : Hashes]
PRRequests == [op : {"quit"}]
    \cup [from : Builders, op : {"getPR"}, package : Packages, checksum : Checksums]

HashServType ==
    /\ rows \in Seq(Row) /\ steady \in BOOLEAN
    /\ strays \subseteq Messages
PRServType ==
    /\ table \subseteq PRRow /\ disk \subseteq PRRow
    /\ given \subseteq PRRow /\ kept \subseteq PRRow
    /\ dirty \in BOOLEAN /\ intransaction \in BOOLEAN /\ quitflag \in BOOLEAN
    /\ requestqueue \in Seq(PRRequests)
    /\ handler \in {"off", "get", "served", "begin", "dead", "ended"}
    /\ prmain \in {"off", "select", "begin", "dead"}
WireType ==
    /\ wire \in [Builders -> {"idle", "sent", "answered", "failed"}]
    /\ message \in [Builders -> Messages] /\ answer \in [Builders -> Hashes \cup {None}]
    /\ count \in [Builders -> 0..Retries + 1]
    /\ \A b \in Builders : wire[b] \in {"sent", "answered"} => count[b] <= Retries
    /\ \A b \in Builders : wire[b] = "answered" /\ message[b].op = "report" => answer[b] \in Hashes
BuilderType ==
    /\ phase \in [Builders -> {"idle", "get", "build", "report", "built", "rehashed", "equiv",
                              "remapped", "pr"}]
    /\ hash \in [Builders -> Hashes \cup {None}]
    /\ unihash \in [Builders -> Hashes \cup {None}]
    /\ cached \in [Builders -> {NoEntry} \cup [taskhash : Hashes, unihash : Hashes]]
    /\ out \in [Builders -> Outhashes \cup {None}]
    /\ sstate \subseteq Hashes
    /\ bounds \in [builds : Nat, faults : Nat]
    /\ \A b \in Builders : phase[b] # "idle" => hash[b] \in Hashes
    /\ \A b \in Builders : phase[b] \notin {"idle", "get"} => unihash[b] \in Hashes
    /\ \A b \in Builders : phase[b] = "report" => message[b].op = "report"

\* Every variable keeps its type: in particular, whatever is lost, a report is
\* answered, and a builder that goes on has a unihash, which names its object
\* and its package.
TypeOK == HashServType /\ PRServType /\ WireType /\ BuilderType

-----------------------------------------------------------------------------
(* The hash server *)

\* Tasks whose outputs are equal share one unihash, whoever reports them in
\* which order, again, or late, and whatever the clock does.
OuthashShared ==
    \A i, j \in DOMAIN rows :
        rows[i].outhash = rows[j].outhash /\ rows[i].outhash # NoOuthash =>
            rows[i].unihash = rows[j].unihash

\* What the server answers for a task hash it goes on answering, unless its
\* clock has gone back: a build that asks later is the same build.
Known(t) == {a \in Hashes : Get(t, a)}
GetSteady ==
    [][steady' => \A t \in Hashes : Known(t) # {} => Known(t)' = Known(t)]_vars

\* Two builders that made the same and could report it publish it under the
\* same unihash, although answers are lost and requests are sent twice.
AgreeOnOutput ==
    \A a, b \in Builders :
        /\ phase[a] \in {"built", "remapped", "pr"} /\ phase[b] \in {"built", "remapped", "pr"}
        /\ out[a] = out[b] /\ out[a] # None
        => unihash[a] = unihash[b]

-----------------------------------------------------------------------------
(* The PR server *)

\* Killed, the server takes back one answer at most: the last.
OneAtRisk == \A g, h \in given \ kept : g = h

\* No number stands for two checksums of a package, so that two packages with
\* one name and number are equivalent, however the server is stopped: killed, it
\* may give again what it has given once, but not more than one number.
OneChecksum ==
    /\ \A g, h \in given : g.package = h.package /\ g.value = h.value =>
           g.checksum = h.checksum
    /\ OneAtRisk

\* Numbers are never lower than one given before: a package that is built
\* later is an upgrade, also when its content is that of an older one and the
\* server has been stopped in between.
Served(q) ==
    /\ requestqueue # <<>> /\ handler = "get" /\ handler' = "served"
    /\ q = Head(requestqueue) /\ q.op = "getPR"
NeverLower ==
    [][\A b \in Builders, c \in Checksums :
        Served([from |-> b, op |-> "getPR", package |-> Package, checksum |-> c]) =>
            \E g \in given' : /\ g.package = Package /\ g.checksum = c
                              /\ \A h \in given : h.package = Package => h.value <= g.value]_vars

\* What has been answered is not taken back.  It is when the server is killed
\* between the answer and the commit.
AnswersKept == [][given \subseteq given']_vars
=============================================================================
