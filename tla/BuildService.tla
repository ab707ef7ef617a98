---------------------------- MODULE BuildService ----------------------------
(***************************************************************************)
(* The package mirror and its build service.                               *)
(*                                                                         *)
(* The mirror (scripts/tt_rpm.py): the RPM pools, the signed index clients *)
(* fetch and its plain copy, and the programs that change them: `sync'     *)
(* from upstream and `add', which ttbuildd calls.  Both end in cmd_index,  *)
(* which scans the pools, takes a serial above the one in index.tsv and    *)
(* replaces index.signed, then index.tsv, each atomically.  A package is a *)
(* name; its file is a version, which stands for its bytes and their       *)
(* SHA-256 too.  Malformed RPMs, which stop cmd_index before it publishes, *)
(* and the signing key are a failure cmd_index may have.                   *)
(*                                                                         *)
(* ttbuildd (scripts/ttbuildd.py) takes signed build requests from the     *)
(* broker, builds what the mirror lacks and a recipe covers                *)
(* (scripts/build_recipe.py), adds it to the mirror and answers on the     *)
(* request's own topics.  Requests wait in memory; accepted ids are kept   *)
(* in a file.  ttbuildd may stop at any point (an exception outside the    *)
(* guarded build ends its loop) and is started again.                      *)
(*                                                                         *)
(* Time is in units of MAX_AGE.  The broker keeps nothing for a subscriber *)
(* that is away (QoS 0 end to end), and may deliver a request again.       *)
(***************************************************************************)
EXTENDS Naturals, Sequences, FiniteSets, FiniteSetsExt

CONSTANTS
  Pkgs,        \* package names
  Upstream,    \* those upstream carries; sync drops the others from its pools
  MaxVersion,  \* versions upstream reaches
  MaxIndex,    \* runs of cmd_index
  MirrorFaults \* "race": two runs of cmd_index overlap; "crash": one stops between its two files

ASSUME MirrorAssumption == IsFiniteSet(Pkgs) /\ Upstream \subseteq Pkgs
                           /\ MaxVersion \in Nat \ {0} /\ MaxIndex \in Nat
                           /\ MirrorFaults \subseteq {"race", "crash"}

VARIABLES
  pool,     \* pool[p]: the version in m68kmint/ or noarch/, 0 if none
  built,    \* built[p]: the version in built/
  signed,   \* index.signed: serial and the versions listed
  tsv,      \* index.tsv
  ix,       \* the runs of cmd_index: sync's and ttbuildd's
  runs      \* cmd_index runs begun

mirrorVars == <<pool, built, signed, tsv, ix, runs>>

Versions == 0..MaxVersion
Lists == [serial : 0..MaxIndex, has : [Pkgs -> Versions]]
Runs == {"sync", "add"}
NoRun == [at |-> "idle", snap |-> [p \in Pkgs |-> 0], serial |-> 0]
Others(r) == Runs \ {r}

MirrorTypeOK ==
  /\ pool \in [Pkgs -> Versions] /\ built \in [Pkgs -> Versions]
  /\ signed \in Lists /\ tsv \in Lists /\ runs \in 0..MaxIndex
  /\ ix \in [Runs -> [at : {"idle", "scan", "serial", "signed", "tsv"}, snap : [Pkgs -> Versions], serial : 0..MaxIndex]]

\* Mutant: the upstream package always wins.
Listed_Upstream(p) == pool[p]

\* rpmvercmp newest wins, built/ wins a tie (newer, build_index).
Listed(p) == Max({pool[p], built[p]})
Listing == [p \in Pkgs |-> Listed(p)]

\* The mirror as first synced and indexed, at version 1.
MirrorInit ==
  /\ pool = [p \in Pkgs |-> IF p \in Upstream THEN 1 ELSE 0]
  /\ built = [p \in Pkgs |-> 0]
  /\ signed = [serial |-> 0, has |-> Listing] /\ tsv = signed
  /\ ix = [r \in Runs |-> NoRun] /\ runs = 0

-----------------------------------------------------------------------------
Free(r) == ix[r].at = "idle" /\ runs < MaxIndex
           /\ ("race" \in MirrorFaults \/ \A o \in Others(r) : ix[o].at = "idle")
Begin(r) == ix' = [ix EXCEPT ![r].at = "scan"] /\ runs' = runs + 1

\* sync: a new version of p comes in, checked against its git blob, or upstream has dropped p.
Sync(p, v) ==
  /\ Free("sync") /\ v \in {pool[p] + 1, 0} /\ v \in Versions
  /\ pool' = [pool EXCEPT ![p] = v] /\ Begin("sync")
  /\ UNCHANGED <<built, signed, tsv>>

\* cmd_add: the file into built/, replaced atomically.
Add(p) ==
  /\ Free("add")
  /\ built' = [built EXCEPT ![p] = 1] /\ Begin("add")
  /\ UNCHANGED <<pool, signed, tsv>>

\* cmd_index, by run r.
Scan(r) ==
  /\ ix[r].at = "scan"
  /\ ix' = [ix EXCEPT ![r] = [at |-> "serial", snap |-> Listing, serial |-> 0]]
  /\ UNCHANGED <<pool, built, signed, tsv, runs>>

\* serial_for: above the serial in index.tsv.
SerialFor == tsv.serial + 1
TakeSerial(r) ==
  /\ ix[r].at = "serial"
  /\ ix' = [ix EXCEPT ![r].at = "signed", ![r].serial = SerialFor]
  /\ UNCHANGED <<pool, built, signed, tsv, runs>>

PublishSigned(r) ==
  /\ ix[r].at = "signed"
  /\ signed' = [serial |-> ix[r].serial, has |-> ix[r].snap]
  /\ ix' = [ix EXCEPT ![r].at = "tsv"]
  /\ UNCHANGED <<pool, built, tsv, runs>>

PublishTsv(r) ==
  /\ ix[r].at = "tsv"
  /\ tsv' = [serial |-> ix[r].serial, has |-> ix[r].snap]
  /\ ix' = [ix EXCEPT ![r] = NoRun]
  /\ UNCHANGED <<pool, built, signed, runs>>

\* "index NOT written"; or the run stops before its second file.
IndexFails(r) ==
  /\ ix[r].at \in {"scan", "serial"} \/ (ix[r].at = "tsv" /\ "crash" \in MirrorFaults)
  /\ ix' = [ix EXCEPT ![r] = NoRun]
  /\ UNCHANGED <<pool, built, signed, tsv, runs>>

MirrorStep ==
  \/ \E p \in Upstream, v \in Versions : Sync(p, v)
  \/ Scan("sync") \/ TakeSerial("sync") \/ PublishSigned("sync") \/ PublishTsv("sync") \/ IndexFails("sync")

-----------------------------------------------------------------------------
\* Every index.signed a client can fetch has a serial above all before it, so that the client can
\* tell an old one (serial_for: "strictly greater than the serial already published").
SerialGrows == [][signed' # signed => signed'.serial > signed.serial]_mirrorVars

-----------------------------------------------------------------------------
(***************************************************************************)
(* ttbuildd.                                                               *)
(***************************************************************************)
CONSTANTS
  Recipes,    \* packages with an entry in source-map.json
  Skews,      \* the TT's clock, ahead of this host's
  MaxReqs, MaxNow, MaxStops   \* bounds on requests, time, and stops of ttbuildd

ASSUME BuildAssumption == Recipes \subseteq Pkgs /\ Skews \subseteq {0, 1} /\ MaxReqs \in Nat
                          /\ MaxNow \in Nat /\ MaxStops \in Nat

VARIABLES
  now,
  req,       \* req[r]: the request of id r: its package and time stamp
  inbox,     \* ids on their way to ttbuildd
  said,      \* said[r]: status messages on their way to r's subscriber
  subs,      \* ids whose subscription is live
  up,        \* ttbuildd runs
  loading,   \* it starts: the file of ids is truncated and not yet written again
  seen,      \* SeenIds in memory
  seenFile,  \* the file: id -> time
  work,      \* the queue of accepted ids
  job,       \* the request in hand: its id and place
  human,     \* packages with an open entry in queue.jsonl
  stops,
  accepted,  \* history: how often each id was accepted
  lost       \* history: how often a stop in the middle of the rewriting lost it

buildVars == <<now, req, inbox, said, subs, up, loading, seen, seenFile, work, job, human, stops, accepted, lost>>

Ids == 1..MaxReqs
Verbs == {"progress", "done", "failed", "queued"}
NoJob == [id |-> 0, at |-> "idle"]
Pkg(r) == req[r].pkg

BuildTypeOK ==
  /\ now \in 0..MaxNow /\ inbox \subseteq Ids /\ subs \subseteq Ids /\ {up, loading} \subseteq BOOLEAN /\ seen \subseteq Ids
  /\ \A r \in DOMAIN req : req[r].pkg \in Pkgs /\ req[r].ts \in 0..(MaxNow + 1)
  /\ said \in [Ids -> Seq(Verbs)] /\ DOMAIN seenFile \subseteq Ids
  /\ work \in Seq(Ids) /\ human \subseteq Pkgs /\ stops \in 0..MaxStops
  /\ job.at \in {"idle", "look", "build", "publish", "index", "record"}

BuildInit ==
  /\ now = 0 /\ req = <<>> /\ inbox = {} /\ said = [r \in Ids |-> <<>>] /\ subs = {}
  /\ up = TRUE /\ loading = FALSE /\ seen = {} /\ seenFile = <<>> /\ work = <<>> /\ job = NoJob /\ human = {}
  /\ stops = 0 /\ accepted = [r \in Ids |-> 0] /\ lost = [r \in Ids |-> 0]

-----------------------------------------------------------------------------
\* say: only a live subscription hears it.
Say(r, v) == said' = IF r \in subs THEN [said EXCEPT ![r] = Append(@, v)] ELSE said
Silent == UNCHANGED said

Abs(a, b) == IF a > b THEN a - b ELSE b - a

\* authorize, for the card's own requests: fresh, and not seen before.
Authorized(r) == Abs(now, req[r].ts) <= 1 /\ r \notin seen

\* on_message: accepted ids go to memory and file before the request is queued.
Receive(r) ==
  /\ up /\ r \in inbox /\ inbox' = inbox \ {r}
  /\ IF Authorized(r)
     THEN /\ seen' = seen \cup {r}
          /\ seenFile' = [i \in DOMAIN seenFile \cup {r} |-> IF i = r THEN now ELSE seenFile[i]]
          /\ work' = Append(work, r) /\ Say(r, "progress")
          /\ accepted' = [accepted EXCEPT ![r] = @ + 1]
     ELSE Say(r, "failed") /\ UNCHANGED <<seen, seenFile, work, accepted>>
  /\ UNCHANGED <<now, req, subs, up, loading, job, human, stops, lost, mirrorVars>>

\* The broker has no ttbuildd to give it to.
Undelivered(r) ==
  /\ ~up /\ r \in inbox /\ inbox' = inbox \ {r}
  /\ UNCHANGED <<now, req, said, subs, up, loading, seen, seenFile, work, job, human, stops, accepted, lost, mirrorVars>>

\* The same request comes again.
Again(r) ==
  /\ r \in DOMAIN req /\ r \notin inbox /\ stops < MaxStops /\ stops' = stops + 1
  /\ inbox' = inbox \cup {r}
  /\ UNCHANGED <<now, req, said, subs, up, loading, seen, seenFile, work, job, human, accepted, lost, mirrorVars>>

-----------------------------------------------------------------------------
(***************************************************************************)
(* The worker loop and handle.                                             *)
(***************************************************************************)
At(l) == up /\ job.at = l
JobTo(l) == job' = IF l = "idle" THEN NoJob ELSE [job EXCEPT !.at = l]
service == <<now, req, inbox, subs, up, loading, seen, seenFile, stops, accepted, lost>>

Take ==
  /\ At("idle") /\ work # <<>>
  /\ job' = [id |-> Head(work), at |-> "look"] /\ work' = Tail(work)
  /\ Silent /\ UNCHANGED <<service, human, mirrorVars>>

\* on_mirror reads index.tsv; no recipe: queue.jsonl and a card, once per package.
Look ==
  /\ At("look")
  /\ LET p == Pkg(job.id) IN
       \/ tsv.has[p] # 0 /\ Say(job.id, "done") /\ JobTo("idle") /\ UNCHANGED human
       \/ tsv.has[p] = 0 /\ p \notin Recipes /\ human' = human \cup {p} /\ Say(job.id, "queued") /\ JobTo("idle")
       \/ tsv.has[p] = 0 /\ p \in Recipes /\ Silent /\ JobTo("build") /\ UNCHANGED human
  /\ UNCHANGED <<service, work, mirrorVars>>

\* build_recipe.build: fetch, configure, make, package; one time limit for all of it.
Build ==
  /\ At("build")
  /\ \/ Say(job.id, "progress") /\ JobTo("publish")
     \/ Say(job.id, "failed") /\ JobTo("idle")
  /\ UNCHANGED <<service, work, human, mirrorVars>>

Publish ==
  /\ At("publish") /\ Add(Pkg(job.id)) /\ JobTo("index")
  /\ Silent /\ UNCHANGED <<service, work, human>>

Index ==
  /\ At("index")
  /\ \/ (Scan("add") \/ TakeSerial("add") \/ PublishSigned("add")) /\ Silent /\ UNCHANGED job
     \/ PublishTsv("add") /\ Silent /\ JobTo("record")
     \/ ix["add"].at \in {"scan", "serial"} /\ IndexFails("add") /\ Say(job.id, "failed") /\ JobTo("idle")
  /\ UNCHANGED <<service, work, human>>

\* provenance.jsonl, then done.
Finish ==
  /\ At("record") /\ Say(job.id, "done") /\ JobTo("idle")
  /\ UNCHANGED <<service, work, human, mirrorVars>>

\* ttbuildd stops; the queue goes with it.
Stop ==
  /\ up /\ stops < MaxStops /\ (ix["add"].at = "tsv" => "crash" \in MirrorFaults)
  /\ up' = FALSE /\ stops' = stops + 1
  /\ seen' = {} /\ work' = <<>> /\ job' = NoJob /\ ix' = [ix EXCEPT !["add"] = NoRun]
  /\ UNCHANGED <<now, req, inbox, said, subs, loading, seenFile, human, accepted, lost, pool, built, signed, tsv, runs>>

\* SeenIds.__init__: ids older than MAX_AGE are dropped; opening the file to write the others, with
\* the time of now, empties it.
Kept == {r \in DOMAIN seenFile : now - seenFile[r] <= 1}
Load ==
  /\ ~up /\ ~loading /\ loading' = TRUE
  /\ seen' = Kept /\ seenFile' = <<>>
  /\ UNCHANGED <<now, req, inbox, said, subs, up, work, job, human, stops, accepted, lost, mirrorVars>>
Rewrite ==
  /\ loading /\ loading' = FALSE /\ up' = TRUE
  /\ seenFile' = [r \in seen |-> now]
  /\ UNCHANGED <<now, req, inbox, said, subs, seen, work, job, human, stops, accepted, lost, mirrorVars>>

\* It stops between the two.
StopLoading ==
  /\ loading /\ loading' = FALSE /\ seen' = {}
  /\ lost' = [r \in Ids |-> IF r \in seen THEN lost[r] + 1 ELSE lost[r]]
  /\ UNCHANGED <<now, req, inbox, said, subs, up, seenFile, work, job, human, stops, accepted, mirrorVars>>

\* Only requests tell times apart, and the rewriting is over before one grows old.
Tick == req # <<>> /\ ~loading /\ now < MaxNow /\ now' = now + 1
        /\ UNCHANGED <<req, inbox, said, subs, up, loading, seen, seenFile, work, job, human, stops, accepted, lost, mirrorVars>>

Worker == Take \/ Look \/ Build \/ Publish \/ Index \/ Finish
ServiceStep == Worker \/ Stop \/ Load \/ Rewrite \/ StopLoading \/ Tick \/ (\E r \in inbox : Receive(r) \/ Undelivered(r))
               \/ (\E r \in DOMAIN req : Again(r)) \/ (MirrorStep /\ UNCHANGED buildVars)

-----------------------------------------------------------------------------
\* A request is acted on at most once, though it may be delivered again and ttbuildd restarted in
\* between, but for each time that a stop in the middle of SeenIds.__init__ lost its id (SeenIds:
\* "persisted so a restart cannot re-open a replay window").
AtMostOnce == \A r \in Ids : accepted[r] <= 1 + lost[r]

\* When a build is answered `done' the index clients fetch lists the package: the `makecache' that
\* follows finds it.
DoneIsListed == job.at = "record" => signed.has[Pkg(job.id)] # 0

=============================================================================
