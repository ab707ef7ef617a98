------------------------------- MODULE TTMqtt -------------------------------
(***************************************************************************)
(* What the TT and the management host say to each other over MQTT.        *)
(*                                                                         *)
(* Telemetry.  ttmon, on the TT, publishes two retained topics: its status *)
(* every round, and a runtime frame (installed packages, start of ttjobd)  *)
(* when the time stamps it watches have moved.  The broker (external)      *)
(* publishes the OFFLINE will when it loses the session.  On the           *)
(* management host tt_versions.py judges the frame against the mirror, and *)
(* tt_reach_probe.py publishes whether the TT can be reached.              *)
(*                                                                         *)
(* Requests.  `ttmqtt sub -S` waits on a topic and says SUBSCRIBED, its    *)
(* caller then publishes a request with `pub`, and a service answers on    *)
(* the topic that `sub` is waiting on.  Everything is QoS 0, so nothing is *)
(* repeated.  The broker, which sends SUBACK before any message of the     *)
(* subscription, and the service are external.                             *)
(***************************************************************************)
EXTENDS Integers, Sequences

CONSTANTS
    MaxTime,      \* bound on the seconds in which something happens
    MaxFaults,    \* bound on power, network and broker faults
    Window,       \* messages a socket holds before a write waits
    TooLong,      \* the versions whose package list does not fit runtime_frame's buffer
    Killed,       \* TRUE: a write to a reset connection raises SIGPIPE, which ttmon does not handle
    SameSecond    \* TRUE: two changes of the rpm database may fall in one second

Unseen == -1      \* db_seen, sock_seen: nothing seen
NoFrame == [ver |-> 0, inst |-> 0, sock |-> 0]

VARIABLES
    tt,       \* the machine: "up", "off"
    lan,      \* [out, in]: which directions of the network work
    broker,   \* is the broker running
    mon,      \* ttmon: pc ("connack": it reads for a CONNACK that will not come), db and sk (db_seen,
              \* sock_seen), f (the frame being built), load (the figure of the status just sent)
    conn,     \* ttmon's socket: "none", "open", "broken" (the peer is gone, unnoticed), "reset"
    wire,     \* what was written on the open connection and has not reached the broker
    sess,     \* does the broker hold a session (and its will) of ttmon
    ret,      \* the retained messages: status, frame, reach; old = the status survived a broker restart
    sys,      \* what is true on the TT: ver, inst, mt (mtime of packages.rpm), busy, sock; run = ttjobd's version
    mir,      \* the version on the mirror
    clock, faults

monVars == <<tt, lan, broker, mon, conn, wire, sess, ret, sys, mir, clock, faults>>

\* One round's start: nothing seen yet, as the locals of main.
Fresh == [pc |-> "top", db |-> Unseen, sk |-> Unseen, f |-> NoFrame, load |-> 0]

MonInit ==
    /\ tt = "up" /\ lan = [out |-> TRUE, in |-> TRUE] /\ broker = TRUE
    /\ mon = Fresh /\ conn = "none" /\ wire = <<>> /\ sess = FALSE
    /\ ret = [status |-> "none", frame |-> NoFrame, reach |-> "none", old |-> FALSE]
    /\ sys = [ver |-> 1, inst |-> 1, mt |-> 1, busy |-> "no", sock |-> 0, run |-> 0]
    /\ mir = 1 /\ clock = 1 /\ faults = 0

-----------------------------------------------------------------------------
(* ttmon. *)

Reaches == broker /\ lan.out

\* The will of a session that ends without a DISCONNECT (external).
Offline == [ret EXCEPT !.status = "OFFLINE", !.old = FALSE]

\* mqtt_connect: a session of the same client id is taken over, which publishes its will; a CONNACK
\* that does not come leaves a session without a client.
Connect ==
    /\ mon.pc = "top" /\ conn = "none" /\ Reaches
    /\ conn' \in {"open", "none"}
    /\ conn' = "none" => faults < MaxFaults
    /\ faults' = IF conn' = "none" THEN faults + 1 ELSE faults
    /\ wire' = <<>> /\ sess' = TRUE
    /\ ret' = IF sess THEN Offline ELSE ret
    /\ UNCHANGED <<mon, sys, mir, clock, lan, broker, tt>>

\* The connection dies silently once the CONNECT is acknowledged by TCP (the broker's host loses its
\* power, or the network fails for longer than TCP repeats the CONNACK): the read has no time-out, and
\* as nothing is left to send TCP finds nothing out.
Unanswered ==
    /\ mon.pc = "top" /\ conn = "none" /\ Reaches /\ faults < MaxFaults
    /\ faults' = faults + 1 /\ mon' = [mon EXCEPT !.pc = "connack"]
    /\ sess' = TRUE /\ ret' = IF sess THEN Offline ELSE ret
    /\ UNCHANGED <<conn, wire, sys, mir, clock, lan, broker, tt>>

\* The share of the CPU since the last round: the process times of /kern, which fall when a process
\* ends, over the uptime passed, which counts as 0 while either reading of it is missing.
Busy(passed, ms) ==
    IF passed > 0 /\ ms >= 0
    THEN LET b == (100 * ms) \div passed IN IF b > 100 THEN 100 ELSE b
    ELSE 0

\* A failed write: main closes the socket and forgets what it has published.
Failed(m) == [m EXCEPT !.pc = "top", !.db = Unseen]

\* send_all on the socket: appended when the peer is there (a full socket waits), lost when it is gone unnoticed, an error
\* (or SIGPIPE) after a reset.
Write(m, ok) ==
    CASE conn = "open" -> Len(wire) < Window /\ wire' = Append(wire, m) /\ mon' = ok /\ conn' = conn
      [] conn = "broken" -> wire' = wire /\ mon' = ok /\ conn' = conn
      [] OTHER -> /\ wire' = <<>> /\ conn' = "none"
                  /\ mon' = IF Killed THEN [mon EXCEPT !.pc = "killed"] ELSE Failed(mon)

\* Gather the figures and publish the status.
Status ==
    /\ mon.pc = "top" /\ conn # "none"
    /\ \E passed \in {0, 2}, ms \in {-1, 1, 3} :
          Write([k |-> "status", f |-> NoFrame], [mon EXCEPT !.pc = "check", !.load = Busy(passed, ms)])
    /\ UNCHANGED <<sys, mir, clock, lan, broker, tt, sess, ret, faults>>

Quiet == UNCHANGED <<conn, wire, sess, ret, sys, mir, clock, lan, broker, tt, faults>>

\* Have the stamps moved since the last frame?
Moved == sys.mt # mon.db \/ sys.sock # mon.sk
Check == /\ mon.pc = "check" /\ Quiet
         /\ mon' = [mon EXCEPT !.pc = IF Moved THEN "see" ELSE "sleep", !.load = 0]

\* db_seen and sock_seen are read before the list is made.
Seen(m) == [m EXCEPT !.db = sys.mt, !.sk = sys.sock]
See == mon.pc = "see" /\ mon' = [Seen(mon) EXCEPT !.pc = "sock"] /\ Quiet

\* runtime_frame reads the socket's stamp, then runs rpm -qa: no list while an install holds the
\* database, or when it does not fit, and then db_seen is put back so that the next round retries.
StampSock == mon.pc = "sock" /\ mon' = [mon EXCEPT !.pc = "rpm", !.f.sock = sys.sock] /\ Quiet
NoList(m) == [m EXCEPT !.pc = "sleep", !.db = Unseen]
Listed == [mon EXCEPT !.pc = "send", !.f.ver = sys.ver, !.f.inst = sys.inst]
RpmQa == /\ mon.pc = "rpm"
         /\ mon' = IF sys.busy # "no" \/ sys.ver \in TooLong THEN NoList(mon) ELSE Listed
         /\ Quiet

Sent(m) == [m EXCEPT !.pc = "sleep"]
SendFrame == /\ mon.pc = "send" /\ Write([k |-> "frame", f |-> mon.f], Sent(mon))
             /\ UNCHANGED <<sys, mir, clock, lan, broker, tt, sess, ret, faults>>

Sleep == mon.pc = "sleep" /\ mon' = [mon EXCEPT !.pc = "top"] /\ Quiet

MonStep == tt = "up" /\ (Connect \/ Unanswered \/ Status \/ Check \/ See \/ StampSock \/ RpmQa \/ SendFrame \/ Sleep)

-----------------------------------------------------------------------------
(* The broker and the network (external). *)

\* A message of the open connection is retained.
Deliver ==
    /\ wire # <<>> /\ conn = "open" /\ Reaches
    /\ ret' = IF Head(wire).k = "status" THEN [ret EXCEPT !.status = "READY", !.old = FALSE]
              ELSE [ret EXCEPT !.frame = Head(wire).f]
    /\ wire' = Tail(wire)
    /\ UNCHANGED <<tt, lan, broker, mon, conn, sess, sys, mir, clock, faults>>

\* The keep-alive of CONNECT runs out (ttmon publishes well within it), or the close is seen.
Expire ==
    /\ broker /\ sess /\ (conn # "open" \/ ~lan.out)
    /\ sess' = FALSE /\ ret' = Offline
    /\ conn' = IF conn = "open" THEN "broken" ELSE conn
    /\ wire' = <<>>
    /\ UNCHANGED <<tt, lan, broker, mon, sys, mir, clock, faults>>

\* TCP notices that the peer is gone.
Noticed == /\ conn = "broken" /\ conn' = "reset"
           /\ UNCHANGED <<tt, lan, broker, mon, wire, sess, ret, sys, mir, clock, faults>>

\* The broker stops, with or without a file of its retained messages, and comes back.
BrokerStop ==
    /\ broker /\ faults < MaxFaults /\ faults' = faults + 1
    /\ broker' = FALSE /\ sess' = FALSE /\ wire' = <<>>
    /\ conn' = IF conn = "open" THEN "broken" ELSE conn
    /\ \/ ret' = [ret EXCEPT !.old = TRUE]
       \/ ret' = [status |-> "none", frame |-> NoFrame, reach |-> "none", old |-> FALSE]
    /\ UNCHANGED <<tt, lan, mon, sys, mir, clock>>
BrokerStart == /\ ~broker /\ broker' = TRUE
               /\ UNCHANGED <<tt, lan, mon, conn, wire, sess, ret, sys, mir, clock, faults>>

\* A direction of the network fails or works again.
LanChange == /\ \E d \in {"out", "in"} :
                   /\ lan[d] => faults < MaxFaults
                   /\ lan' = [lan EXCEPT ![d] = ~@]
                   /\ faults' = IF lan[d] THEN faults + 1 ELSE faults
             /\ UNCHANGED <<tt, broker, mon, conn, wire, sess, ret, sys, mir, clock>>

-----------------------------------------------------------------------------
(* The TT: power, installs, ttjobd. *)

PowerOff == /\ tt = "up" /\ faults < MaxFaults /\ faults' = faults + 1
            /\ tt' = "off" /\ mon' = Fresh /\ conn' = "none" /\ wire' = <<>>
            /\ sys' = [sys EXCEPT !.busy = "no", !.sock = 0]
            /\ UNCHANGED <<lan, broker, sess, ret, mir, clock>>
PowerOn == /\ tt = "off" /\ tt' = "up"
           /\ UNCHANGED <<lan, broker, mon, conn, wire, sess, ret, sys, mir, clock, faults>>

\* Something happens in a later second; an install under way keeps its own.
Later == clock + (IF sys.busy = "taken" THEN 1 ELSE 0) < MaxTime /\ clock' = clock + 1
Outside == UNCHANGED <<tt, lan, broker, mon, conn, wire, sess, ret, faults>>

\* rpm -U takes the database, writes packages.rpm, then its indexes, and lets it go.
InstallBegin == /\ tt = "up" /\ sys.busy = "no" /\ mir > sys.ver /\ clock < MaxTime
                /\ sys' = [sys EXCEPT !.busy = "taken"] /\ UNCHANGED <<mir, clock>> /\ Outside
InstallWrite == /\ sys.busy = "taken"
                /\ clock' = IF SameSecond THEN clock ELSE clock + 1
                /\ sys' = [sys EXCEPT !.busy = "written", !.ver = mir, !.inst = clock', !.mt = clock']
                /\ UNCHANGED mir /\ Outside
InstallEnd == /\ sys.busy = "written" /\ sys' = [sys EXCEPT !.busy = "no"]
              /\ UNCHANGED <<mir, clock>> /\ Outside
\* A start of ttjobd makes its socket anew.
JobdStart == /\ tt = "up" /\ Later /\ sys' = [sys EXCEPT !.sock = clock', !.run = sys.ver]
             /\ UNCHANGED mir /\ Outside
MirrorNew == /\ Later /\ mir' = mir + 1 /\ UNCHANGED sys /\ Outside

-----------------------------------------------------------------------------
(* The management host. *)

\* evaluate: the verdicts on a frame.
Evaluate(frame, index) ==
    IF frame = NoFrame THEN {"UNREPORTED"}
    ELSE (IF index > frame.ver THEN {"STALE"} ELSE {})
         \union (IF frame.sock # 0 /\ frame.inst > frame.sock THEN {"RUNNING_STALE"} ELSE {})

\* probe and main of tt_reach_probe: a connection to port 22, the answer retained.
Reached == tt = "up" /\ lan.in /\ lan.out
Probe == /\ broker /\ ret' = [ret EXCEPT !.reach = IF Reached THEN "REACHABLE" ELSE "UNREACHABLE"]
         /\ UNCHANGED <<tt, lan, broker, mon, conn, wire, sess, sys, mir, clock, faults>>

MonNext == \/ MonStep \/ Deliver \/ Expire \/ Noticed \/ BrokerStop \/ BrokerStart \/ LanChange
           \/ PowerOff \/ PowerOn \/ InstallBegin \/ InstallWrite \/ InstallEnd \/ JobdStart
           \/ MirrorNew \/ Probe

-----------------------------------------------------------------------------
MonTypeOK ==
    /\ tt \in {"up", "off"} /\ lan \in [out : BOOLEAN, in : BOOLEAN] /\ broker \in BOOLEAN
    /\ mon.pc \in {"top", "check", "see", "sock", "rpm", "send", "sleep", "connack", "killed"}
    /\ mon.db \in {Unseen} \union 1 .. MaxTime /\ mon.sk \in {Unseen} \union 0 .. MaxTime
    /\ mon.load \in 0 .. 100
    /\ conn \in {"none", "open", "broken", "reset"} /\ sess \in BOOLEAN
    /\ ret.status \in {"none", "READY", "OFFLINE"}

\* What the broker will retain once the open connection has drained.
Coming == LET F == {i \in 1 .. Len(wire) : wire[i].k = "frame"} IN
          IF F = {} THEN ret.frame ELSE wire[CHOOSE i \in F : \A j \in F : j <= i].f

\* ttmon rests only on a frame that says what is installed: between rounds, on an open connection,
\* stamps that have not moved since they were seen mean that the frame of the present packages and
\* socket has been written on this connection.
SeenIsSent ==
    mon.pc \in {"sleep", "top"} /\ conn = "open" /\ ~Moved
        => Coming = [ver |-> sys.ver, inst |-> sys.inst, sock |-> sys.sock]

\* What tt_versions ought to say: the mirror is ahead, or ttjobd runs an older version than the
\* installed one.
Truth == (IF mir > sys.ver THEN {"STALE"} ELSE {})
         \union (IF sys.sock # 0 /\ sys.run < sys.ver THEN {"RUNNING_STALE"} ELSE {})

-----------------------------------------------------------------------------
(***************************************************************************)
(* Requests and replies: ttmqtt sub and pub.                               *)
(***************************************************************************)
CONSTANTS
    Replies,     \* the sequences of messages the service answers with; see Message
    MaxLosses    \* bound on connections that are lost

\* term: the topic contains one of the -E strings; fits: the packet fits read_packet's buffer.
Message == [term : BOOLEAN, fits : BOOLEAN]
SubAck == [ack |-> TRUE]
Refused == [ack |-> FALSE]

VARIABLES
    opt,       \* the options of sub: keep (-k), stop (some -E given)
    sub,       \* sub: pc, out (messages printed), exit (-1 while it runs), said (SUBSCRIBED printed)
    inbox,     \* packets on the way from the broker to sub
    cut,       \* sub's connection: "no", or lost: "seen" (TCP says so), "silent", or "half" (silent,
               \* and the last packet of inbox has come in part)
    live,      \* does the broker hold the subscription
    pub,       \* pub: pc ("wait", "send", "sent", "done"; "connack" on a silent connection), exit
    todo,      \* what the service still has to answer, <<>> until the request arrives
    given,     \* messages the broker accepted after SUBSCRIBED was printed
    kept,      \* a retained message on the topic
    losses

subVars == <<opt, sub, inbox, cut, live, pub, todo, given, kept, losses>>

SubInit ==
    /\ opt \in [keep : BOOLEAN, stop : BOOLEAN]
    /\ sub = [pc |-> "connect", out |-> <<>>, exit |-> -1, said |-> FALSE]
    /\ inbox = <<>> /\ cut = "no" /\ live = FALSE
    /\ pub = [pc |-> "wait", exit |-> -1] /\ todo = <<>> /\ given = <<>>
    /\ kept \in {<<>>} \union {<<m>> : m \in Message}
    /\ losses = 0

Ended(code) == [sub EXCEPT !.pc = "ended", !.exit = code]
Remote == UNCHANGED <<opt, pub, todo, given, kept, losses>>

\* mqtt_connect: a name that does not resolve, a refused connection or CONNACK end it with 2.  A CONNACK
\* that a silent connection keeps back is read for without a time-out: -W does not count yet.
SubConnect ==
    /\ sub.pc = "connect" /\ cut = "no"
    /\ \/ sub' = [sub EXCEPT !.pc = "subscribe"] /\ UNCHANGED <<losses, cut>>
       \/ /\ losses < MaxLosses /\ losses' = losses + 1
          /\ \/ sub' = Ended(2) /\ cut' = "seen"
             \/ sub' = sub /\ cut' = "silent"
    /\ UNCHANGED <<opt, pub, todo, given, kept, inbox, live>>

\* Mutant: the word is written before the acknowledgement.
SubSend_Says(s) == [s EXCEPT !.pc = "suback", !.said = TRUE]

\* SUBSCRIBE is written; with -S the word follows its acknowledgement.
SubSend(s) == [s EXCEPT !.pc = "suback"]
Subscribe == /\ sub.pc = "subscribe" /\ sub' = SubSend(sub)
             /\ UNCHANGED <<inbox, cut, live>> /\ Remote

\* read_packet meets the end of the connection once the packets before it are read; of a packet that has
\* come in part it waits for the rest, however long.
Eof == cut = "seen" /\ inbox = <<>>
Readable == inbox # <<>> /\ ~(cut = "half" /\ Len(inbox) = 1)

\* sub blocks in a read that nothing bounds, on a connection that is silently dead.
SubHangs == /\ sub.exit = -1
            /\ \/ cut = "silent" /\ sub.pc \in {"connect", "suback"} /\ Len(inbox) = 0
               \/ cut = "half" /\ Len(inbox) = 1

Acknowledged ==
    /\ sub.pc = "suback" /\ (Readable \/ Eof)
    /\ sub' = IF ~Eof /\ Head(inbox) = SubAck THEN [sub EXCEPT !.pc = "loop", !.said = TRUE] ELSE Ended(2)
    /\ inbox' = IF Eof THEN inbox ELSE Tail(inbox)
    /\ live' = (live /\ sub'.exit = -1)
    /\ UNCHANGED cut /\ Remote

\* Is a message the last one: the first, without -k and -E; one that matches, with -E.
Done(m) == (~opt.keep /\ ~opt.stop) \/ (opt.stop /\ m.term)

\* A packet of the loop: printed, and the end with 0 if it is the last; one too long, or the end of
\* the connection, ends with 2.
Receive ==
    /\ sub.pc = "loop" /\ (Readable \/ Eof)
    /\ sub' = IF Eof \/ ~Head(inbox).fits THEN Ended(2)
              ELSE [IF Done(Head(inbox)) THEN Ended(0) ELSE sub EXCEPT !.out = Append(@, Head(inbox))]
    /\ inbox' = IF Eof THEN inbox ELSE Tail(inbox)
    /\ live' = (live /\ sub'.exit = -1)
    /\ UNCHANGED cut /\ Remote

\* Mutant: -W is ignored.
Timeout_Never == FALSE

\* wait_readable's -W seconds of silence.
Timeout == sub.pc = "loop" /\ inbox = <<>> /\ cut # "seen"
Expires == /\ Timeout /\ sub' = Ended(1) /\ live' = FALSE
           /\ UNCHANGED <<inbox, cut>> /\ Remote

SubStep == SubConnect \/ Subscribe \/ Acknowledged \/ Receive \/ Expires

-----------------------------------------------------------------------------
\* The caller starts pub once it has read SUBSCRIBED; pub connects, writes, says goodbye and ends, unless
\* its connection dies silently before the CONNACK.
PubStep ==
    /\ \/ pub.pc = "wait" /\ sub.said /\ pub' = [pub EXCEPT !.pc = "send"] /\ UNCHANGED losses
       \/ pub.pc = "wait" /\ sub.said /\ losses < MaxLosses /\ losses' = losses + 1
          /\ pub' \in {[pc |-> "done", exit |-> 2], [pub EXCEPT !.pc = "connack"]}
       \/ pub.pc = "send" /\ pub' = [pc |-> "sent", exit |-> 0] /\ UNCHANGED losses
       \/ pub.pc = "send" /\ losses < MaxLosses /\ losses' = losses + 1
          /\ pub' = [pc |-> "done", exit |-> 2]
    /\ UNCHANGED <<opt, sub, inbox, cut, live, todo, given, kept>>

\* The request reaches the service, or is lost with its connection although pub ended with 0.
Arrive == /\ pub.pc = "sent" /\ pub' = [pub EXCEPT !.pc = "done"]
          /\ \/ (\E r \in Replies : todo' = r) /\ UNCHANGED losses
             \/ losses < MaxLosses /\ losses' = losses + 1 /\ todo' = <<>>
          /\ UNCHANGED <<opt, sub, inbox, cut, live, given, kept>>

\* The broker takes up the SUBSCRIBE: its answer, then a retained message.
Admit == /\ sub.pc = "suback" /\ ~live /\ cut = "no" /\ inbox = <<>>
         /\ \/ live' = TRUE /\ inbox' = <<SubAck>> \o kept /\ UNCHANGED losses
            \/ losses < MaxLosses /\ losses' = losses + 1 /\ live' = FALSE /\ inbox' = <<Refused>>
         /\ UNCHANGED <<opt, sub, cut, pub, todo, given, kept>>

\* The service publishes its next message; the broker passes it on while the subscription lives.
Answer == /\ todo # <<>> /\ todo' = Tail(todo)
          /\ given' = Append(given, Head(todo))
          /\ inbox' = IF live /\ cut = "no" THEN Append(inbox, Head(todo)) ELSE inbox
          /\ UNCHANGED <<opt, sub, cut, live, pub, kept, losses>>

\* sub's connection is lost: TCP sees it, or it falls silent, with what was on the way in whole or half.
Lose == /\ sub.exit = -1 /\ sub.pc # "connect" /\ cut = "no" /\ losses < MaxLosses
        /\ losses' = losses + 1 /\ live' = FALSE
        /\ \/ cut' = "seen" /\ inbox' = inbox
           \/ \E n \in 0 .. Len(inbox) :
                 /\ inbox' = SubSeq(inbox, 1, n)
                 /\ cut' \in IF n > 0 THEN {"silent", "half"} ELSE {"silent"}
        /\ UNCHANGED <<opt, sub, pub, todo, given, kept>>

SubNext == SubStep \/ PubStep \/ Arrive \/ Admit \/ Answer \/ Lose

-----------------------------------------------------------------------------
IsSubseq(s, t) == \E f \in [1 .. Len(s) -> 1 .. Len(t)] :
                     /\ \A i, j \in 1 .. Len(s) : i < j => f[i] < f[j]
                     /\ \A i \in 1 .. Len(s) : s[i] = t[f[i]]

\* No answer is missed: as long as sub's connection holds, every message published after SUBSCRIBED
\* was printed is printed, in order, or on its way.  A fast reply is therefore never lost as a
\* false timeout, which is what the header says -S is for.
NoneMissed == sub.exit = -1 /\ cut = "no" /\ sub.said => IsSubseq(given, sub.out \o inbox)

\* The exit codes say what happened: 0 only with the last message printed and only with that one
\* being last; 1 only when nothing terminal was printed; 2 only for a lost or refused connection or
\* a packet that does not fit.
ExitTrue ==
    /\ sub.exit = 0 => /\ sub.out # <<>> /\ Done(sub.out[Len(sub.out)])
                       /\ \A i \in 1 .. Len(sub.out) - 1 : ~Done(sub.out[i])
                       /\ opt.keep => sub.out[Len(sub.out)].term
    /\ sub.exit = 1 => inbox = <<>> /\ \A i \in 1 .. Len(sub.out) : ~Done(sub.out[i])
    /\ sub.exit = 2 => losses > 0 \/ \E m \in {kept[i] : i \in 1 .. Len(kept)}
                                               \union {given[i] : i \in 1 .. Len(given)} : ~m.fits

=============================================================================
