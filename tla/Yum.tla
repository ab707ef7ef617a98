-------------------------------- MODULE Yum ---------------------------------
(***************************************************************************)
(* The TT's package client (sam-yum-tt/src/yum, resolve.awk, update.awk,   *)
(* and ttmqtt's sub and pub) with the mirror and the build service.  Each  *)
(* run of yum is a process; all share the cache directory: the index, the  *)
(* serial of the last index accepted, the plan, the fetched files and the  *)
(* list of installed packages.  makecache moves the index into place and   *)
(* then writes its serial; a run may be killed, the disk may be full, and  *)
(* a broker that is silently dead holds a run for ever.                    *)
(*                                                                         *)
(* Requirements are package names here, and near matches, which end a      *)
(* run, are a choice.                                                      *)
(***************************************************************************)
EXTENDS BuildService, SequencesExt

CONSTANTS
  Yums,       \* processes
  Req,        \* Req[p]: the packages p requires
  MaxYums,    \* runs of yum
  MaxEvents,  \* bound on the runs of yum and of cmd_index and the stops of ttbuildd together
  YumFaults   \* "overlap": two runs at once; "replay": the mirror serves an old index;
              \* "kill", "window": a run is killed, "window": between two steps that belong together;
              \* "full": serial or installed.tsv cannot be written; "dead": the broker never answers pub

ASSUME YumAssumption == Req \in [Pkgs -> SUBSET Pkgs] /\ MaxYums \in Nat /\ MaxEvents \in Nat
                        /\ YumFaults \subseteq {"overlap", "replay", "kill", "window", "full", "dead"}

VARIABLES
  c,          \* the runs of yum
  cidx,       \* $CACHE/index.tsv
  cserial,    \* $CACHE/serial
  plan,       \* $CACHE/plan
  file,       \* $CACHE/pkgs: file[p] is the version fetched, 0 if none
  db,         \* the rpm database: db[p] is the version installed
  inst,       \* $CACHE/installed.tsv
  torn,       \* history: those of serial and installed.tsv whose last write failed or was cut off
  old,        \* history: the index that signed replaced last
  begun

cache == <<cidx, cserial, plan, file, inst>>
vars == <<mirrorVars, buildVars, c, cache, db, torn, old, begun>>

NoIndex == [serial |-> 0, has |-> [p \in Pkgs |-> 0]]
NoPlan == [missing |-> {}, unmet |-> FALSE, get |-> <<>>]
Off == [at |-> "off", verb |-> "none", want |-> CHOOSE p \in Pkgs : TRUE, nodeps |-> FALSE, built |-> FALSE, refreshed |-> FALSE,
        new |-> NoIndex, ret |-> "resolve", id |-> 0, todo |-> {}, pos |-> 0, files |-> {}, rc |-> "fail"]

TypeOK ==
  /\ MirrorTypeOK /\ BuildTypeOK
  /\ \A y \in Yums :
       /\ c[y].at \in {"off", "fresh", "fetchidx", "mv", "echo", "resolve", "planned", "sub", "pub", "hang", "wait",
                       "fetch", "rpm", "qa", "mvinst"}
       /\ c[y].verb \in {"none", "install", "update", "remove"} /\ c[y].rc \in {"ok", "fail"}
       /\ c[y].id \in 0..MaxReqs /\ c[y].todo \subseteq Pkgs /\ c[y].pos \in 0..(Cardinality(Pkgs) + 1)
  /\ cidx \in Lists /\ cserial \in 0..MaxIndex /\ file \in [Pkgs -> Versions]
  /\ db \in [Pkgs -> Versions] /\ inst \in [Pkgs -> Versions] /\ begun \in 0..MaxYums
  /\ torn \subseteq {"serial", "installed"}

\* A new TT, or one with some of the mirror's packages and its index.
Init ==
  /\ MirrorInit /\ BuildInit
  /\ c = [y \in Yums |-> Off] /\ cserial = 0 /\ plan = NoPlan
  /\ \E S \in SUBSET Upstream : /\ \A p \in S : Req[p] \subseteq S
                                /\ db = [q \in Pkgs |-> IF q \in S THEN 1 ELSE 0]
                                /\ cidx = IF S = {} THEN NoIndex ELSE signed
  /\ file = [p \in Pkgs |-> 0] /\ inst = db /\ torn = {} /\ old = NoIndex /\ begun = 0

-----------------------------------------------------------------------------
\* What comes from outside, so far.
Events == begun + runs + stops

Installed == {p \in Pkgs : db[p] # 0}

Become(y, r) == c' = [c EXCEPT ![y] = r]
Goto(y, l) == c' = [c EXCEPT ![y].at = l]
Exit(y, code) == Become(y, [Off EXCEPT !.rc = code])

outside == <<mirrorVars, buildVars, old, begun>>
Rest == UNCHANGED <<outside, cache, db, torn>>

Run(y, verb, p) ==
  /\ c[y].at = "off" /\ begun < MaxYums /\ Events < MaxEvents /\ begun' = begun + 1
  /\ "overlap" \in YumFaults \/ \A o \in Yums : c[o].at = "off"
  /\ Become(y, [Off EXCEPT !.at = IF verb = "remove" THEN "rpm" ELSE "fresh", !.verb = verb, !.want = p])
  /\ UNCHANGED <<mirrorVars, buildVars, old, cache, db, torn>>

\* fresh_cache: an index younger than ten minutes will do.
FreshCache(y) ==
  /\ c[y].at = "fresh"
  /\ \/ cidx # NoIndex /\ Goto(y, "resolve")
     \/ Become(y, [c[y] EXCEPT !.at = "fetchidx", !.ret = "resolve"])
  /\ Rest

\* Mutant: an older serial is accepted.
Acceptable_Any(l) == l.serial \in 0..MaxIndex

\* makecache: fetched and verified, with a serial not below the last one accepted.
Acceptable(l) == l.serial >= cserial
FetchIndex(y) ==
  /\ c[y].at = "fetchidx"
  /\ \/ \E l \in {signed} \cup (IF "replay" \in YumFaults THEN {old} ELSE {}) :
          IF Acceptable(l) THEN Become(y, [c[y] EXCEPT !.at = "mv", !.new = l]) ELSE Exit(y, "fail")
     \/ Exit(y, "fail")
  /\ Rest

MoveIndex(y) ==
  /\ c[y].at = "mv" /\ cidx' = c[y].new /\ Goto(y, "echo")
  /\ UNCHANGED <<outside, cserial, plan, file, inst, db, torn>>

\* Where it fails the file is empty, as good as 0: `[ "$new" -lt "" ]' says no replay.
WriteSerial(y) ==
  /\ c[y].at = "echo"
  /\ \/ cserial' = c[y].new.serial /\ torn' = torn \ {"serial"}
     \/ "full" \in YumFaults /\ c[y].new.serial # 0 /\ cserial' = 0 /\ torn' = torn \cup {"serial"}
  /\ Become(y, [c[y] EXCEPT !.at = c[y].ret, !.new = NoIndex])
  /\ UNCHANGED <<outside, cidx, plan, file, inst, db>>

\* resolve.awk: what is wanted and, as long as something required is neither installed nor taken,
\* that too.
Needed(S) == {q \in Pkgs : q \notin Installed /\ cidx.has[q] # 0 /\ \E p \in S : q \in Req[p]}
Closure(want) ==
  LET more[n \in 0..Cardinality(Pkgs)] == IF n = 0 THEN want ELSE more[n - 1] \cup Needed(more[n - 1])
  IN more[Cardinality(Pkgs)]

Gets(S) == SetToSeq({<<p, cidx.has[p]>> : p \in S})
InstallPlan(p) ==
  IF p \in Installed THEN NoPlan
  ELSE IF cidx.has[p] = 0 THEN [NoPlan EXCEPT !.missing = {p}]
  ELSE [missing |-> {}, get |-> Gets(Closure({p})),
        unmet |-> \E q \in Closure({p}) : \E r \in Req[q] : r \notin Installed /\ cidx.has[r] = 0]
\* update.awk
UpdatePlan == [NoPlan EXCEPT !.get = Gets({p \in Installed : cidx.has[p] > db[p]})]

Resolve(y) ==
  /\ c[y].at = "resolve" /\ Goto(y, "planned")
  /\ plan' = IF c[y].verb = "install" THEN InstallPlan(c[y].want) ELSE UpdatePlan
  /\ UNCHANGED <<outside, cidx, cserial, file, inst, db, torn>>

\* What the shell does with the plan: one round of builds, then on to fetching.  What nothing
\* provides ends the run, or it has --nodeps: the option is chosen here, where it first matters.
FollowPlan(y) ==
  /\ c[y].at = "planned"
  /\ \/ plan.missing # {} /\ Exit(y, "fail")        \* built already, or near matches
     \/ plan.missing # {} /\ ~c[y].built /\ Become(y, [c[y] EXCEPT !.at = "sub", !.todo = plan.missing])
     \/ plan.missing = {} /\ plan.unmet /\ ~c[y].nodeps /\ Exit(y, "fail")
     \/ plan.missing = {} /\ ~plan.unmet /\ plan.get = <<>> /\ Exit(y, "ok")
     \/ plan.missing = {} /\ plan.get # <<>>
          /\ Become(y, [c[y] EXCEPT !.at = "fetch", !.pos = 1, !.files = {}, !.nodeps = @ \/ plan.unmet])
  /\ Rest

-----------------------------------------------------------------------------
(***************************************************************************)
(* build_on_miss.                                                          *)
(***************************************************************************)
\* ttmqtt sub -S: the subscription is live before the request goes out.
Subscribe(y) ==
  /\ c[y].at = "sub" /\ Len(req) < MaxReqs
  /\ Become(y, [c[y] EXCEPT !.at = "pub", !.id = Len(req) + 1])
  /\ \E p \in c[y].todo, s \in Skews : req' = Append(req, [pkg |-> p, ts |-> now + s])
  /\ subs' = subs \cup {Len(req) + 1}
  /\ UNCHANGED <<mirrorVars, now, inbox, said, up, loading, seen, seenFile, work, job, human, stops, accepted, lost, old, begun, cache, db, torn>>

\* ttmqtt pub; its wait for the broker's answer has no end (ttmqtt's mqtt_connect).
Request(y) ==
  /\ c[y].at = "pub"
  /\ \/ inbox' = inbox \cup {c[y].id} /\ Goto(y, "wait")
     \/ "dead" \in YumFaults /\ Goto(y, "hang") /\ UNCHANGED inbox
  /\ UNCHANGED <<mirrorVars, now, req, said, subs, up, loading, seen, seenFile, work, job, human, stops, accepted, lost, old, begun, cache, db, torn>>

Unsubscribe(y) == subs' = subs \ {c[y].id} /\ said' = [said EXCEPT ![c[y].id] = <<>>]

\* A status arrives; after `done' for the last package the index is read again and yum runs anew.
Built(y) == LET left == c[y].todo \ {Pkg(c[y].id)} IN
  IF left # {} THEN [c[y] EXCEPT !.at = "sub", !.todo = left]
  ELSE [c[y] EXCEPT !.at = "fetchidx", !.ret = "fresh", !.built = TRUE, !.todo = {}, !.id = 0]
Hear(y) ==
  /\ c[y].at = "wait" /\ said[c[y].id] # <<>>
  /\ LET v == Head(said[c[y].id]) IN
       \/ v = "progress" /\ said' = [said EXCEPT ![c[y].id] = Tail(@)] /\ UNCHANGED <<subs, c>>
       \/ v = "done" /\ Unsubscribe(y) /\ Become(y, Built(y))
       \/ v \in {"failed", "queued"} /\ Unsubscribe(y) /\ Exit(y, "fail")
  /\ UNCHANGED <<mirrorVars, now, req, inbox, up, loading, seen, seenFile, work, job, human, stops, accepted, lost, old, begun, cache, db, torn>>

\* Mutant: a request once sent is waited for without a limit.
NoAnswer_Waits(y) ==
  /\ c[y].at = "sub" /\ Exit(y, "fail")
  /\ UNCHANGED <<mirrorVars, buildVars, old, begun, cache, db, torn>>

\* No broker, no key, fifteen minutes of silence, or the connection lost.
NoAnswer(y) ==
  /\ \/ c[y].at = "sub"
     \/ c[y].at \in {"pub", "wait"} /\ said[c[y].id] = <<>>
  /\ Exit(y, "fail")
  /\ IF c[y].at = "sub" THEN UNCHANGED <<subs, said>> ELSE Unsubscribe(y)
  /\ UNCHANGED <<mirrorVars, now, req, inbox, up, loading, seen, seenFile, work, job, human, stops, accepted, lost, old, begun, cache, db, torn>>

-----------------------------------------------------------------------------
(***************************************************************************)
(* fetch_verify_install.                                                   *)
(***************************************************************************)
\* The next line of the plan.  The file cached or fetched must have the sum the index gives; when
\* it cannot be fetched the index is read again, once.
Fetch(y) ==
  /\ c[y].at = "fetch" /\ c[y].pos <= Len(plan.get)
  /\ LET p == plan.get[c[y].pos][1]
         v == plan.get[c[y].pos][2]
         next == [c[y] EXCEPT !.pos = @ + 1, !.files = @ \cup {<<p, v>>}]
     IN \/ file[p] = v /\ Become(y, next) /\ UNCHANGED file
        \/ file[p] # v /\ v \in {pool[p], built[p]} /\ file' = [file EXCEPT ![p] = v] /\ Become(y, next)
        \/ file[p] # v /\ file' = [file EXCEPT ![p] = 0]       \* fails, or the sum is wrong
             /\ \/ Exit(y, "fail")
                \/ ~c[y].refreshed /\ Become(y, [c[y] EXCEPT !.at = "fetchidx", !.ret = "fresh", !.refreshed = TRUE])
  /\ UNCHANGED <<outside, cidx, cserial, plan, inst, db, torn>>

Fetched(y) == c[y].at = "fetch" /\ c[y].pos > Len(plan.get) /\ Goto(y, "rpm") /\ Rest

\* One rpm over the set.  rpm refuses unmet requirements; a failed -U may have upgraded some.
Names(S) == {f[1] : f \in S}
With(S) == [p \in Pkgs |-> IF p \in Names(S) THEN (CHOOSE f \in S : f[1] = p)[2] ELSE db[p]]
Rpm(y) ==
  /\ c[y].at = "rpm"
  /\ \/ /\ Become(y, [c[y] EXCEPT !.at = "qa", !.rc = "fail"]) /\ UNCHANGED file
        /\ \E S \in SUBSET c[y].files : (S # {} => c[y].verb = "update") /\ db' = With(S)
     \/ /\ c[y].verb # "remove"
        /\ c[y].nodeps \/ \A p \in Names(c[y].files) : Req[p] \subseteq Installed \cup Names(c[y].files)
        /\ c[y].verb = "install" => Names(c[y].files) \cap Installed = {}
        /\ db' = With(c[y].files)
        /\ file' = [p \in Pkgs |-> IF p \in Names(c[y].files) THEN 0 ELSE file[p]]
        /\ Become(y, [c[y] EXCEPT !.at = "qa", !.rc = "ok"])
     \/ /\ c[y].verb = "remove" /\ c[y].want \in Installed
        /\ \A p \in Installed \ {c[y].want} : c[y].want \notin Req[p]
        /\ db' = [db EXCEPT ![c[y].want] = 0] /\ UNCHANGED file
        /\ Become(y, [c[y] EXCEPT !.at = "qa", !.rc = "ok"])
  /\ UNCHANGED <<outside, cidx, cserial, plan, inst, torn>>

\* write_installed: whatever rpm said, to a temporary file, then moved into place.  When rpm -qa or
\* mv fails the old list stays, and nobody is told.
OldListStays(y) == "full" \in YumFaults /\ torn' = torn \cup {"installed"} /\ Exit(y, c[y].rc) /\ UNCHANGED inst
Query(y) ==
  /\ c[y].at = "qa"
  /\ \/ Become(y, [c[y] EXCEPT !.at = "mvinst", !.files = {<<p, db[p]>> : p \in Pkgs}]) /\ UNCHANGED <<inst, torn>>
     \/ OldListStays(y)
  /\ UNCHANGED <<outside, cidx, cserial, plan, file, db>>
WriteInstalled(y) ==
  /\ c[y].at = "mvinst"
  /\ \/ /\ inst' = [p \in Pkgs |-> (CHOOSE f \in c[y].files : f[1] = p)[2]]
        /\ torn' = torn \ {"installed"} /\ Exit(y, c[y].rc)
     \/ OldListStays(y)
  /\ UNCHANGED <<outside, cidx, cserial, plan, file, db>>

\* The run is interrupted; in a window, what it was about to write is not written.
Cut(l) == IF l = "echo" THEN {"serial"} ELSE IF l \in {"qa", "mvinst"} THEN {"installed"} ELSE {}
Kill(y) ==
  /\ c[y].at # "off" /\ ({"kill", "window"} \cap YumFaults # {})
  /\ Cut(c[y].at) # {} => "window" \in YumFaults
  /\ torn' = torn \cup Cut(c[y].at) /\ Exit(y, "fail")
  /\ subs' = subs \ {c[y].id} /\ said' = [r \in Ids |-> IF r = c[y].id THEN <<>> ELSE said[r]]
  /\ UNCHANGED <<mirrorVars, now, req, inbox, up, loading, seen, seenFile, work, job, human, stops, accepted, lost, old, begun,
                 cache, db>>

-----------------------------------------------------------------------------
YumStep(y) == \/ FreshCache(y) \/ FetchIndex(y) \/ MoveIndex(y) \/ WriteSerial(y) \/ Resolve(y) \/ FollowPlan(y)
              \/ Subscribe(y) \/ Request(y) \/ Hear(y) \/ NoAnswer(y) \/ Fetch(y) \/ Fetched(y)
              \/ Rpm(y) \/ Query(y) \/ WriteInstalled(y)
Service == ServiceStep /\ old' = (IF signed' # signed THEN signed ELSE old)
           /\ UNCHANGED <<c, cache, db, torn, begun>> /\ Events' <= MaxEvents

Next == \/ \E y \in Yums : \/ YumStep(y) \/ Kill(y)
                           \/ Run(y, "update", Off.want) \/ \E v \in {"install", "remove"}, p \in Pkgs : Run(y, v, p)
        \/ Service

Spec == Init /\ [][Next]_vars

\* A run of yum goes on: its fetches have time-outs, ttmqtt sub has -W and a minute to subscribe, and
\* rpm is taken to end.  It is weak fairness of YumStep(y): in the shell's own places, where a step is
\* always enabled and changes the run, written out.
Shell(y) == c[y].at \notin {"off", "hang", "sub", "pub", "wait"}
FairSpec == Spec /\ \A y \in Yums : /\ WF_vars(Subscribe(y) \/ Request(y) \/ Hear(y) \/ NoAnswer(y))
                                    /\ []<>~Shell(y) \/ []<><<Shell(y) /\ c'[y] # c[y]>>_vars

-----------------------------------------------------------------------------
\* The cached index never goes back to an older one, whatever the mirror serves (makecache:
\* "refusing a replay"), as long as the last serial could be written; after a kill between the index
\* and its serial, or a full disk, it may go back, to no older one than the serial that is left.
CacheForward ==
  [][cidx'.serial >= cidx.serial \/ ("serial" \in torn /\ cidx'.serial >= cserial)]_vars

\* An install that ends well has installed what was asked for.
OkInstalled == [][\A y \in Yums : c'[y].rc = "ok" /\ c'[y].at = "off" /\ c[y].at # "off" /\ c[y].verb = "install"
                     => db'[c[y].want] # 0]_vars

\* When rpm runs over an install's files they are the whole closure: what any of them requires is
\* installed, among them, or, with --nodeps, provided by nothing (yum's header: "the WHOLE closure
\* before the first rpm -i").
WholeClosure == \A y \in Yums : c[y].at = "rpm" /\ c[y].verb = "install" =>
                  \A p \in Names(c[y].files) : \A r \in Req[p] :
                    \/ r \in Installed \cup Names(c[y].files)
                    \/ c[y].nodeps /\ cidx.has[r] = 0

\* When no yum runs, the list of installed packages the GUI reads is the rpm database's, unless the
\* last run that changed the database was cut off, or failed, before it could write the list.
ListTrue == (\A y \in Yums : c[y].at = "off") => inst = db \/ "installed" \in torn

\* Every run of yum ends, whatever the mirror, the build service and the broker do, but for one that
\* waits for a broker that is silently dead to answer ttmqtt pub: no step of another is needed.
RunsEnd == \A y \in Yums : c[y].at # "off" ~> c[y].at \in {"off", "hang"}

\* Each step of a run goes on within a round, and it starts over at most twice, for one refresh of
\* the index and one round of builds (YUM_REFRESHED, YUM_BUILT).
Tries(r) == Cardinality({t \in {"built", "refreshed"} : ~r[t]})
Place == <<"off", "mvinst", "qa", "rpm", "fetch", "wait", "pub", "sub", "planned", "resolve", "echo", "mv", "fetchidx", "fresh">>
Stage(r) == (CHOOSE i \in DOMAIN Place : Place[i] = r.at)
            + (IF r.at \in {"echo", "mv", "fetchidx"} /\ r.ret = "fresh" THEN Len(Place) ELSE 0)
Left(r) == IF r.at \in {"sub", "pub", "wait"} THEN Cardinality(r.todo)
           ELSE IF Stage(r) > 8 THEN Cardinality(Pkgs) + 1 ELSE 0
Lines(r) == Cardinality(Pkgs) + 1 - r.pos
Before(r, s) ==
  \/ Tries(r) < Tries(s)
  \/ Tries(r) = Tries(s) /\ (Left(r) < Left(s) \/ (Left(r) = Left(s) /\ Stage(r) < Stage(s)))
  \/ Tries(r) = Tries(s) /\ Stage(r) = Stage(s) /\ Lines(r) < Lines(s)
GoesOn == [][\A y \in Yums : c'[y] # c[y] /\ c[y].at # "off" /\ c'[y].at \notin {"off", "hang"} => Before(c'[y], c[y])]_vars

\* What the mirror, the build service and the TT's own files say is so: a build is made once for a
\* request, a package reported as built is in the index, rpm is given whole closures, and
\* installed.tsv is the database.
FilesTrue == TypeOK /\ AtMostOnce /\ DoneIsListed /\ WholeClosure /\ ListTrue

\* Serials only grow, the cached index only gets newer, and an install that ends well has installed
\* what was asked for.
NeverBack == SerialGrows /\ CacheForward /\ OkInstalled
=============================================================================
