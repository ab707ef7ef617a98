----------------------------- MODULE RemoteKbd ------------------------------
(***************************************************************************)
(* The remote keyboard end to end: ttkbdd (KbdDaemon) with its network and *)
(* serial loops, the host's ttkbd_send.py grab, and the wire between them. *)
(* The wire may fall silent, and records may come twice, out of order or   *)
(* altered; a serial line loses frames or garbles them.  Encryption is     *)
(* what it does: a record opens only under the session's key at the        *)
(* counter it was sealed with.                                             *)
(***************************************************************************)
EXTENDS KbdDaemon

CONSTANTS
  Chord,      \* RELEASE_CHORD
  MaxSent,    \* frames of one grab
  MaxTrouble  \* faults of the wire, signals and kills

ASSUME WireAssumption == Chord \subseteq Keys /\ MaxSent \in Nat /\ MaxTrouble \in Nat

VARIABLES
  link,      \* "none", "syn", "up", "shut" (closed by the host), "ended" (by the TT), "cut" (silent for ever)
  auth,      \* the host's answer to the hello: "none", "good", "bad"
  toTT,      \* frames on the way to the TT; n is the counter a record was sealed with
  toHost,    \* messages on the way to the host: "ok", "corner"
  ctr,       \* serve's ctr
  host,      \* ttkbd_send.py: "out", "hello", "wait", "grab"
  phys,      \* keys down on the host's keyboard
  kdown,     \* KeyPump.down
  sent,      \* history: the frames of this grab
  applied,   \* history: the frames of this session ttkbdd has applied
  trouble

wire == <<link, auth, toTT, toHost>>
hostVars == <<host, phys, kdown, sent>>
vars == <<kbdVars, wire, ctr, hostVars, applied, trouble>>

Forged == MaxSent + 1                 \* the counter of a record that opens under none
Records == [n : 0..Forged, f : Frames]

TypeOK ==
  /\ KbdTypeOK
  /\ link \in {"none", "syn", "up", "shut", "ended", "cut"} /\ auth \in {"none", "good", "bad"}
  /\ toTT \in Seq(Records) /\ toHost \in Seq({"ok", "corner"})
  /\ ctr \in 0..Forged /\ host \in {"out", "hello", "wait", "grab"}
  /\ phys \subseteq Keys /\ kdown \subseteq Keys
  /\ sent \in Seq(Frames) /\ applied \in Seq(Frames) /\ trouble \in 0..MaxTrouble

Init ==
  /\ KbdInit
  /\ link = "none" /\ auth = "none" /\ toTT = <<>> /\ toHost = <<>> /\ ctr = 0
  /\ host = "out" /\ phys = {} /\ kdown = {} /\ sent = <<>> /\ applied = <<>> /\ trouble = 0

-----------------------------------------------------------------------------
(***************************************************************************)
(* ttkbdd -l: listen_loop and serve.                                       *)
(***************************************************************************)
\* close(c): a host still there learns of it when it next uses the connection.  A connection not
\* yet accepted waits on in the backlog.
Closed == IF link = "shut" \/ host = "out" THEN "none" ELSE "ended"
HangUp ==
  /\ link' = IF link = "syn" THEN "syn" ELSE Closed
  /\ toTT' = <<>>

\* The process ends, and with it both sockets.
Dies == link' = Closed /\ toTT' = <<>>

Accept ==
  /\ pc = "listen" /\ link \in {"syn", "shut"}
  /\ Moves("auth") /\ link' = IF link = "syn" THEN "up" ELSE link
  /\ UNCHANGED <<auth, toTT, toHost, ctr, hostVars, applied, trouble>>

\* recv_exact of the auth fails or times out, or the signature is wrong.
Refuse ==
  /\ pc = "auth" /\ auth # "good"
  /\ Moves("listen") /\ HangUp /\ auth' = "none"
  /\ UNCHANGED <<toHost, ctr, hostVars, applied, trouble>>

Verify ==
  /\ pc = "auth" /\ auth = "good"
  /\ Moves("begin") /\ auth' = "none"
  /\ UNCHANGED <<link, toTT, toHost, ctr, hostVars, applied, trouble>>

NoTable ==
  /\ BeginFails
  /\ IF mode = "net" THEN HangUp ELSE UNCHANGED <<link, toTT>>
  /\ UNCHANGED <<auth, toHost, ctr, hostVars, applied, trouble>>

Begins == SessionBegin /\ UNCHANGED <<wire, ctr, hostVars, applied, trouble>>
Saves == SaveRate /\ UNCHANGED <<wire, ctr, hostVars, applied, trouble>>

WriteAccept ==
  /\ pc = "accept" /\ Moves("up")
  /\ toHost' = Append(toHost, "ok")
  /\ UNCHANGED <<link, auth, toTT, ctr, hostVars, applied, trouble>>

\* The accept byte cannot be written: serve leaves without session_end, or SIGPIPE ends ttkbdd.
AcceptFails ==
  /\ "pipe" \in Faults /\ pc = "accept" /\ link = "shut"
  /\ HangUp /\ pc' \in {"listen", "off"} /\ dirty' = dirty \cup Unclean
  /\ UNCHANGED <<machine, mode, local, cur, old, starts, left, auth, toHost, ctr, hostVars, applied, trouble>>

\* v3_unlock
Opens(r) == r.n = ctr

\* serve's loop: a record that opens is applied.
NetUp == mode = "net" /\ pc = "up"
NetRecord ==
  LET r == Head(toTT) IN
  /\ NetUp /\ toTT # <<>> /\ Opens(r)
  /\ Inject(r.f)
  /\ toTT' = Tail(toTT) /\ ctr' = ctr + 1 /\ applied' = Append(applied, r.f)
  /\ UNCHANGED <<link, auth, toHost, hostVars, trouble>>

\* Mutant: a silent peer never ends the session.
NetEnd_NoSilence ==
  /\ NetUp /\ (IF toTT = <<>> THEN link = "shut" ELSE ~Opens(Head(toTT)))
  /\ SessionEnd("listen") /\ HangUp /\ ctr' = 0 /\ applied' = <<>>
  /\ UNCHANGED <<auth, toHost, hostVars, trouble>>

\* A record that does not open, the connection closed, or SILENCE_S with nothing to read.
NetEnd ==
  /\ NetUp /\ (IF toTT = <<>> THEN TRUE ELSE ~Opens(Head(toTT)))
  /\ SessionEnd("listen") /\ HangUp /\ ctr' = 0 /\ applied' = <<>>
  /\ UNCHANGED <<auth, toHost, hostVars, trouble>>

\* The second half of an injection; the hot corner's message, on the session's own connection,
\* whose write may fail.
Recorded ==
  /\ Record
  /\ \/ UNCHANGED toHost
     \/ HitsCorner /\ mode # "file" /\ link # "syn" /\ toHost = <<>> /\ toHost' = <<"corner">>
  /\ UNCHANGED <<link, auth, toTT, ctr, hostVars, applied, trouble>>

-----------------------------------------------------------------------------
(***************************************************************************)
(* ttkbdd -S: serial_loop.                                                 *)
(***************************************************************************)
OnSerial(l) == mode = "serial" /\ pc = l

\* The next frame.  The first that is not a heartbeat opens a session.
SerialFrame ==
  LET f == Head(toTT).f IN
  /\ OnSerial("idle") \/ (OnSerial("up") /\ cur = NoCur)
  /\ toTT # <<>> /\ toTT' = Tail(toTT)
  /\ \/ f.t = "quit" /\ pc = "up" /\ SessionEnd("off")
     \/ f.t = "quit" /\ pc = "idle" /\ Moves("off")
     \/ f.t = "beat" /\ pc = "idle" /\ Moves("idle")
     \/ f.t \notin {"quit", "beat"} /\ pc = "idle" /\ Goto("begin") /\ cur' = f
          /\ UNCHANGED <<machine, mode, local, old, starts, left, dirty>>
     \/ f.t # "quit" /\ pc = "up" /\ Inject(f)
  /\ UNCHANGED <<link, auth, toHost, ctr, hostVars, applied, trouble>>

SerialFirst == OnSerial("up") /\ cur # NoCur /\ Inject(cur) /\ UNCHANGED <<wire, ctr, hostVars, applied, trouble>>

SerialSilence ==
  /\ OnSerial("up") /\ cur = NoCur /\ toTT = <<>>
  /\ SessionEnd("idle")
  /\ UNCHANGED <<wire, ctr, hostVars, applied, trouble>>

\* A read of the line fails: return 1, in a session too.
SerialError ==
  /\ "serial" \in Faults /\ (OnSerial("idle") \/ OnSerial("up")) /\ cur = NoCur
  /\ Die({}) /\ UNCHANGED <<wire, ctr, hostVars, applied, trouble>>

FileReads == (\E f \in Frames : FileFrame(f)) /\ UNCHANGED <<wire, ctr, hostVars, applied, trouble>>
FileEnds == FileEnd /\ UNCHANGED <<wire, ctr, hostVars, applied, trouble>>

-----------------------------------------------------------------------------
(***************************************************************************)
(* Starting and stopping ttkbdd.                                           *)
(***************************************************************************)
\* The kernel closes the connection of a process that ends.
Signalled == OnSignal /\ Dies /\ auth' = "none" /\ ctr' = 0 /\ applied' = <<>> /\ UNCHANGED <<toHost, hostVars>>
Killed == Kill /\ Dies /\ auth' = "none" /\ ctr' = 0 /\ applied' = <<>> /\ UNCHANGED <<toHost, hostVars>>
Stops == trouble < MaxTrouble /\ trouble' = trouble + 1 /\ (Signalled \/ Killed)

Starts == (\/ host = "out" /\ toTT = <<>> /\ \E m \in Modes : Start(m)
           \/ ReleaseAll
           \/ LocalMouse) /\ UNCHANGED <<wire, ctr, hostVars, applied, trouble>>

-----------------------------------------------------------------------------
(***************************************************************************)
(* The host: Session, SerialLink, KeyPump, MousePump and grab.             *)
(***************************************************************************)
\* Session.__init__ connects and takes the hello; SerialLink just opens the device.
Connect ==
  /\ host = "out" /\ mode = "net" /\ pc # "off" /\ link = "none"
  /\ host' = "hello" /\ link' = "syn" /\ toHost' = <<>>
  /\ UNCHANGED <<kbdVars, auth, toTT, ctr, phys, kdown, sent, applied, trouble>>

Grabs == /\ host' = "grab" /\ kdown' = {} /\ sent' = <<>>
         /\ phys' \in SUBSET Keys /\ ~(Chord \subseteq phys')

OpenSerial ==
  /\ host = "out" /\ mode = "serial" /\ pc # "off" /\ toTT = <<>>
  /\ Grabs /\ toHost' = <<>>
  /\ UNCHANGED <<kbdVars, link, auth, toTT, ctr, applied, trouble>>

SendAuth(a) ==
  /\ host = "hello" /\ link = "up" /\ pc = "auth"
  /\ auth' = a /\ host' = "wait"
  /\ UNCHANGED <<kbdVars, link, toTT, toHost, ctr, phys, kdown, sent, applied, trouble>>

Ready ==
  /\ host = "wait" /\ toHost # <<>> /\ Head(toHost) = "ok"
  /\ Grabs /\ toHost' = Tail(toHost)
  /\ UNCHANGED <<kbdVars, link, auth, toTT, ctr, applied, trouble>>

\* sess.close(): what the TT has not read may be lost with the connection; over the serial
\* line a quit frame goes out first.
Shut ==
  /\ host' = "out" /\ kdown' = {} /\ sent' = <<>> /\ phys' = {} /\ UNCHANGED auth
  /\ link' = CASE link \in {"syn", "up"} -> "shut" [] link \in {"ended", "cut"} -> "none" [] OTHER -> link
  /\ \/ mode = "serial" /\ toTT' = Append(toTT, [n |-> 0, f |-> Quit])
     \/ mode # "serial" /\ toTT' \in {toTT, <<>>}

\* The 60 s of create_connection run out, or the TT has closed.
GiveUp ==
  /\ host \in {"hello", "wait"} /\ Shut
  /\ UNCHANGED <<kbdVars, toHost, ctr, applied, trouble>>

\* frame(): on a connection the TT has closed a frame is lost, and a later one raises.
Send(f) ==
  /\ host = "grab" /\ Len(sent) < MaxSent
  /\ sent' = Append(sent, f) /\ host' = host
  /\ toTT' = IF link = "up" \/ mode = "serial" THEN Append(toTT, [n |-> Len(sent), f |-> f]) ELSE toTT
  /\ UNCHANGED <<kbdVars, link, auth, toHost, ctr, applied, trouble>>

\* KeyPump.event
KeyDown(k) ==
  /\ host = "grab" /\ k \notin phys
  /\ phys' = phys \cup {k} /\ kdown' = kdown \cup {k}
  /\ ~(Chord \subseteq kdown') /\ Send(Make(k))
KeyUp(k) ==
  /\ host = "grab" /\ k \in phys
  /\ phys' = phys \ {k} /\ kdown' = kdown \ {k}
  /\ Send(Break(k))
Repeat(k) == host = "grab" /\ k \in phys /\ Send(Make(k)) /\ UNCHANGED <<phys, kdown>>
MouseEvent(f) == Send(f) /\ UNCHANGED <<phys, kdown>>
Heartbeat == Send(Beat) /\ UNCHANGED <<phys, kdown>>

\* The chord, the TT's hot corner, an exception: grab's finally clause.
EndGrab ==
  /\ host = "grab"
  /\ \/ \E k \in Chord : k \notin phys /\ Chord \subseteq kdown \cup {k}
     \/ "corner" \in {toHost[i] : i \in DOMAIN toHost}
     \/ link = "ended"
  /\ Shut /\ toHost' = <<>>
  /\ UNCHANGED <<kbdVars, ctr, applied, trouble>>

\* The sender is killed: no quit frame.
HostDies ==
  /\ host # "out" /\ trouble < MaxTrouble /\ trouble' = trouble + 1
  /\ host' = "out" /\ kdown' = {} /\ sent' = <<>> /\ phys' = {} /\ toHost' = <<>>
  /\ link' = CASE link \in {"syn", "up"} -> "shut" [] link \in {"ended", "cut"} -> "none" [] OTHER -> link
  /\ UNCHANGED <<kbdVars, auth, toTT, ctr, applied>>

\* The wire: silence for good; a record twice, late or altered; a serial frame lost or garbled.
WireFault ==
  /\ trouble < MaxTrouble /\ trouble' = trouble + 1
  /\ \/ link = "up" /\ host = "grab" /\ link' = "cut" /\ toTT' = <<>>
     \/ mode = "net" /\ toTT # <<>> /\ toTT' = <<Head(toTT)>> \o toTT /\ UNCHANGED link
     \/ mode = "net" /\ Len(toTT) > 1 /\ toTT' = <<toTT[2], toTT[1]>> \o SubSeq(toTT, 3, Len(toTT)) /\ UNCHANGED link
     \/ mode = "net" /\ toTT # <<>> /\ toTT' = [toTT EXCEPT ![1].n = Forged] /\ UNCHANGED link
     \/ mode = "serial" /\ toTT # <<>> /\ toTT' = Tail(toTT) /\ UNCHANGED link
     \/ mode = "serial" /\ toTT # <<>> /\ (\E f \in Frames : toTT' = [toTT EXCEPT ![1].f = f]) /\ UNCHANGED link
  /\ UNCHANGED <<kbdVars, auth, toHost, ctr, hostVars, applied>>

-----------------------------------------------------------------------------
Serve == \/ Accept \/ Refuse \/ Verify \/ NoTable \/ Begins \/ Saves \/ WriteAccept \/ AcceptFails
         \/ NetRecord \/ NetEnd \/ Recorded
Serial == SerialFrame \/ SerialFirst \/ SerialSilence \/ SerialError
Host == \/ Connect \/ OpenSerial \/ Ready \/ GiveUp \/ Heartbeat \/ EndGrab \/ HostDies
        \/ \E a \in {"good", "bad"} : SendAuth(a)
        \/ \E k \in Keys : KeyDown(k) \/ KeyUp(k) \/ Repeat(k)
        \/ \E f \in MouseFrames : MouseEvent(f)

Next == Serve \/ Serial \/ FileReads \/ FileEnds \/ Stops \/ Starts \/ Host \/ WireFault

Spec == Init /\ [][Next]_vars

\* The daemon runs when it can and its timeouts come; a frame file is finite.
FairSpec == Spec /\ WF_vars(Serve) /\ WF_vars(Serial) /\ SF_vars(FileEnds)

-----------------------------------------------------------------------------
(***************************************************************************)
(* Properties.                                                             *)
(***************************************************************************)
\* Whenever no session is under way, no key or button is held down by ttkbdd and table and repeat
\* rate are the TT's own (session_end, on_signal), unless ttkbdd has since stopped in one of the ways
\* that do not clean up (kill -9, a signal in a window, an accept byte or a serial read that fails)
\* and nobody has run ttkbdd --release (or, for a button, touched the TT's mouse).
AtRest ==
  ~InSession => /\ "keys" \notin dirty => down = {} /\ table = "patched" /\ rate = "boot"
                /\ "mouse" \notin dirty => ~btn

\* Over the network ttkbdd types a prefix of what the sender sent, each frame once and in order,
\* whatever the wire does to the records ("tampered, replayed or reordered: never typed").
TypedAsSent ==
  NetUp /\ host = "grab" /\ link \in {"up", "cut"} =>
    Len(applied) <= Len(sent) /\ applied = SubSeq(sent, 1, Len(applied))

\* With nothing on the way and both ends up, the TT holds no key that is not down on the host.
NoStuckKey ==
  NetUp /\ dirty = {} /\ host = "grab" /\ link = "up" /\ toTT = <<>> => down \subseteq phys

\* The TT tells the host that the pointer is in the hot corner only if it was outside it before in
\* the same session: a session begun with the pointer there is not ended by its first mouse frame.
CornerLeftFirst == [][ "corner" \in {toHost'[i] : i \in DOMAIN toHost'} /\ toHost # toHost' => left ]_vars

\* When the host's program has gone, or nothing comes through any more, the session ends: nobody has
\* to release a key by hand (SILENCE_S; "3 s of nothing = link lost -> release").
ComesToRest == []<>((host # "out" /\ link # "cut") \/ ~InSession)

\* The TT types what the host's user typed, each key once, in order and released again, and between
\* sessions its keyboard is its own.
KeysTrue == TypeOK /\ TypedAsSent /\ NoStuckKey /\ AtRest

\* A session ends when it should and not before: on silence or a host that has gone, and not because
\* the pointer was in the hot corner to begin with.
SessionEnds == ComesToRest /\ CornerLeftFirst
=============================================================================
