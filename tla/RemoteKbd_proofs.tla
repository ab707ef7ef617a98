-------------------------- MODULE RemoteKbd_proofs ---------------------------
(***************************************************************************)
(* What the remote keyboard types is what was typed, on any number of keys *)
(* and frames and whatever the wire, the signals and the ends without      *)
(* clean-up do: proofs of KeysTrue (RemoteKbd) and of CornerLeftFirst.     *)
(*                                                                         *)
(* The invariant has three parts.  DaemonInv says what the daemon knows of *)
(* the TT between an injection and its record, and is kept by every step   *)
(* of KbdDaemon whatever the wire does.  WireInv says where a connection's *)
(* two ends may be, and which of its queues must then be empty.  GrabInv   *)
(* is the argument proper: in a grab every frame sent and not yet applied  *)
(* is on the way, unless a record that cannot open is, which no later step *)
(* removes without ending the session.                                     *)
(***************************************************************************)
EXTENDS RemoteKbd, SequenceTheorems, TLAPS

-----------------------------------------------------------------------------
(***************************************************************************)
(* The daemon's part.                                                      *)
(***************************************************************************)
Waiting == {"listen", "idle", "auth", "begin"}
Typing == pc \in {"up", "record"}
KeysClean == "keys" \notin dirty

\* Until its first frame a process holds nothing, and its corner is not armed.
Fresh == pc \in Waiting \cup {"save", "accept"} => held = {} /\ ~mbuttons /\ ~armed

\* saved_kbrate is the TT's own rate from the second half of session_begin on, and none before.
RateKept ==
  KeysClean => /\ pc \in Waiting \cup {"save"} => saved = NoRate
               /\ pc = "save" => old = "boot"
               /\ pc \in {"accept", "up", "record"} => saved = "boot"

\* Between an injection and its record the frame in hand is what the TT has just been given.
InHand ==
  pc = "record" => /\ cur \in {Make(k) : k \in Keys} \cup MouseFrames
                   /\ cur.t = "mouse" => btn = cur.b /\ corner = cur.c /\ (~cur.c => left)

\* The TT holds no key that held[] lacks, except the one in hand; and the same of the button.
KeysHeld ==
  KeysClean => /\ pc \in {"save", "accept", "up"} => down \subseteq held
               /\ pc = "record" => \A k \in down : k \in held \/ cur = Make(k)
ButtonHeld ==
  "mouse" \notin dirty /\ InSession /\ ~(pc = "record" /\ cur.t = "mouse") => (btn => mbuttons)

\* corner_armed is set in a session only by a frame of this session.
ArmedOutside == InSession /\ armed => left

DaemonInv == Fresh /\ RateKept /\ InHand /\ KeysHeld /\ ButtonHeld /\ ArmedOutside /\ AtRest

-----------------------------------------------------------------------------
(***************************************************************************)
(* The wire's part.                                                        *)
(***************************************************************************)
WireTypeOK ==
  /\ link \in {"none", "syn", "up", "shut", "ended", "cut"} /\ auth \in {"none", "good", "bad"}
  /\ toTT \in Seq(Records) /\ toHost \in Seq({"ok", "corner"})
  /\ ctr \in 0..Forged /\ host \in {"out", "hello", "wait", "grab"}
  /\ phys \subseteq Keys /\ kdown \subseteq Keys
  /\ sent \in Seq(Frames) /\ applied \in Seq(Frames) /\ trouble \in 0..MaxTrouble

\* Which loops belong to which mode.
Places == /\ pc \in {"listen", "auth", "accept"} => mode = "net"
          /\ pc = "idle" => mode = "serial"

\* What the state of the connection says of the host's end of it ...
Ends ==
  /\ host = "out" => link \in {"none", "shut"}
  /\ pc = "off" \/ mode # "net" => link \in {"none", "ended"}
  /\ mode = "net" /\ link = "none" => host = "out"
  /\ link = "shut" => host = "out"
  /\ link = "syn" => host = "hello"
  /\ link = "cut" => host = "grab"
  /\ mode = "file" => host = "out"

\* ... and of the daemon's.
Serving ==
  /\ link = "up" => pc \in {"auth", "begin", "save", "accept", "up", "record"}
  /\ mode = "net" /\ pc \in {"auth", "begin", "save", "accept"} => link \in {"up", "shut"}
  /\ link = "cut" => Typing
  /\ mode = "net" /\ host = "grab" /\ link = "up" => Typing

\* No record is on the way before the grab or after the connection.
NothingSent ==
  /\ mode = "net" /\ (link \in {"none", "syn", "ended", "cut"} \/ host \in {"hello", "wait"}) => toTT = <<>>
  /\ mode = "file" => toTT = <<>>

\* A session's counter is the number of frames it has applied.
Started ==
  /\ ctr = Len(applied) /\ ctr <= MaxSent
  /\ mode # "net" \/ ~Typing => ctr = 0
  /\ link = "up" /\ host \in {"hello", "wait"} => ctr = 0

\* The TT says one thing at a time, and nothing to a host it has not accepted.
Said ==
  /\ toHost \in {<<>>, <<"ok">>, <<"corner">>}
  /\ link = "syn" => toHost = <<>>
  /\ mode = "net" /\ pc \in {"auth", "begin", "save", "accept"} => toHost = <<>>
  /\ pc = "listen" /\ link = "shut" => toHost = <<>>

Sealed == mode = "net" => \A i \in DOMAIN toTT : toTT[i].n < MaxSent \/ toTT[i].n = Forged

WireInv == Places /\ Ends /\ Serving /\ NothingSent /\ Started /\ Said /\ Sealed

-----------------------------------------------------------------------------
(***************************************************************************)
(* The grab: what is sent, on the way, applied and down.                   *)
(***************************************************************************)
Grabbed == mode = "net" /\ host = "grab" /\ link \in {"up", "cut"}
SentBound == Len(sent) <= MaxSent

\* What is applied is a prefix of what was sent.
Typed == Grabbed => /\ Len(applied) <= Len(sent)
                    /\ \A i \in 1..Len(applied) : applied[i] = sent[i]

\* A record that has not been altered carries the frame that was sent under its counter.
Genuine ==
  Grabbed => \A i \in DOMAIN toTT :
    toTT[i].n = Forged \/ (toTT[i].n < Len(sent) /\ toTT[i].f = sent[toTT[i].n + 1])

\* A record is on the way that will never open; else every frame not yet applied is on the way.
Blocked == \E i \in DOMAIN toTT : toTT[i].n = Forged \/ toTT[i].n < ctr
Covered ==
  Grabbed /\ link = "up" =>
    Blocked \/ \A m \in ctr..(Len(sent) - 1) : \E i \in DOMAIN toTT : toTT[i].n = m

\* The last make of k in s has no break after it.
LastIsMake(s, k) == \E i \in 1..Len(s) : s[i] = Make(k) /\ \A j \in (i + 1)..Len(s) : s[j] # Break(k)

\* The TT holds what the frames applied leave down, the host's user what the frames sent do.
DownTyped == KeysClean /\ mode = "net" /\ Typing => \A k \in down : LastIsMake(applied, k)
PressedDown == host = "grab" => \A k \in Keys : LastIsMake(sent, k) => k \in phys

GrabInv == SentBound /\ Typed /\ Genuine /\ Covered /\ DownTyped /\ PressedDown

KbdInv == TypeOK /\ DaemonInv /\ WireInv /\ GrabInv

-----------------------------------------------------------------------------
(***************************************************************************)
(* The daemon's steps.                                                     *)
(***************************************************************************)
\* A frame is a make or a break of a key, a mouse frame, or one that injects nothing.
LEMMA FrameKinds ==
  ASSUME NEW f \in Frames
  PROVE  \/ f.t = "make" /\ \E k \in Keys : f = Make(k) /\ f.k = k
         \/ f.t = "break" /\ \E k \in Keys : f = Break(k) /\ f.k = k
         \/ f.t = "mouse" /\ f \in MouseFrames /\ f.b \in BOOLEAN /\ f.c \in BOOLEAN
         \/ f.t \notin {"make", "break", "mouse"}
  BY DEF Frames, MouseFrames, Make, Break, Mouse, Beat, Quit, BadKey

\* main: a new process keeps the daemon's part.
LEMMA Starting ==
  ASSUME KbdTypeOK, DaemonInv, NEW m \in Modes, Start(m)
  PROVE  KbdTypeOK' /\ DaemonInv'
<1>1. m \in {"net", "serial", "file"} /\ starts' \in 0..MaxStarts
  BY KbdAssumption DEF Start, KbdTypeOK
<1>2. pc' \in {"begin", "idle", "listen"}
  BY <1>1 DEF Start, Goto, Idle
<1>. QED
  BY <1>1, <1>2 DEF DaemonInv, Fresh, RateKept, InHand, KeysHeld, ButtonHeld, ArmedOutside, AtRest,
     InSession, Waiting, KeysClean, machine, Start, KbdTypeOK, NoRate, NoCur

\* So does a session_begin that finds no table.
LEMMA Failing ==
  ASSUME KbdTypeOK, DaemonInv, BeginFails
  PROVE  KbdTypeOK' /\ DaemonInv'
  BY DEF KbdTypeOK, DaemonInv, Fresh, RateKept, InHand, KeysHeld, ButtonHeld, ArmedOutside, AtRest,
     InSession, Waiting, KeysClean, machine, local, Goto, Rates, NoRate, NoCur, BeginFails

\* The first half of session_begin: what it reads as the TT's rate is the TT's own, if nothing
\* unclean is left.
LEMMA Beginning ==
  ASSUME KbdTypeOK, DaemonInv, SessionBegin
  PROVE  KbdTypeOK' /\ DaemonInv'
<1>1. KbdTypeOK'
  BY DEF DaemonInv, KbdTypeOK, Rates, NoRate, local, Goto, SessionBegin
<1>2. Fresh'
  BY DEF DaemonInv, Fresh, KbdTypeOK, Waiting, local, Goto, SessionBegin
<1>3. RateKept'
  BY DEF DaemonInv, RateKept, AtRest, KeysClean, NoRate, InSession, Waiting, local, Goto, SessionBegin
<1>4. InHand'
  BY DEF DaemonInv, InHand, local, Goto, SessionBegin
<1>5. KeysHeld'
  BY DEF DaemonInv, KeysHeld, AtRest, Fresh, KeysClean, InHand, InSession, Waiting, local, Goto,
     SessionBegin
<1>6. ButtonHeld'
  BY DEF DaemonInv, ButtonHeld, InHand, Fresh, AtRest, InSession, Waiting, local, Goto, SessionBegin
<1>7. ArmedOutside'
  BY DEF DaemonInv, ArmedOutside, Fresh, InHand, InSession, Waiting, local, Goto, SessionBegin
<1>8. AtRest'
  BY DEF DaemonInv, AtRest, KeysHeld, ButtonHeld, RateKept, Fresh, KeysClean, InHand, NoRate, InSession,
     Waiting, local, Goto, SessionBegin
<1>. QED
  BY <1>1, <1>2, <1>3, <1>4, <1>5, <1>6, <1>7, <1>8 DEF DaemonInv

\* The second half of session_begin: from here on there is a rate to put back.
LEMMA Saving ==
  ASSUME KbdTypeOK, DaemonInv, SaveRate
  PROVE  KbdTypeOK' /\ DaemonInv'
  BY DEF KbdTypeOK, DaemonInv, Fresh, RateKept, InHand, KeysHeld, ButtonHeld, ArmedOutside, AtRest,
     InSession, Waiting, KeysClean, machine, Goto, Rates, NoRate, NoCur, SaveRate

\* frame and key or mouse, the injection: what the TT then holds and held[] lacks is in hand.
LEMMA Injecting ==
  ASSUME KbdTypeOK, DaemonInv, pc = "up", NEW f \in Frames, Inject(f)
  PROVE  KbdTypeOK' /\ DaemonInv'
<1>1. CASE f.t = "make" /\ \E k \in Keys : f = Make(k) /\ f.k = k
  <2> PICK k \in Keys : f = Make(k) /\ f.k = k  BY <1>1
  <2>1. down' = down \cup {k} /\ pc' = "record" /\ cur' = Make(k) /\ cur'.t = "make"
        /\ (left' <=> left) /\ UNCHANGED <<btn, corner, held, table, rate, mode, mbuttons, saved, armed,
           old, starts, dirty>>
    BY <1>1 DEF Inject, DownAfter, Goto, Make
  <2>2. cur' \in Frames /\ cur' \in {Make(j) : j \in Keys}
    BY <2>1 DEF Frames
  <2>. QED
    BY <2>1, <2>2 DEF DaemonInv, Fresh, RateKept, InHand, KeysHeld, ButtonHeld, ArmedOutside, AtRest,
       InSession, Waiting, KeysClean, KbdTypeOK
<1>2. CASE f.t = "break" /\ \E k \in Keys : f = Break(k) /\ f.k = k
  <2>1. down' = down \ {f.k} /\ pc' = "up" /\ held' = held \ {f.k} /\ cur' = NoCur
        /\ (left' <=> left) /\ UNCHANGED <<btn, corner, table, rate, mode, mbuttons, saved, armed, old,
           starts, dirty>>
    BY <1>2 DEF Inject, DownAfter, Goto
  <2>. QED
    BY <2>1 DEF DaemonInv, Fresh, RateKept, InHand, KeysHeld, ButtonHeld, ArmedOutside, AtRest, InSession,
       Waiting, KeysClean, KbdTypeOK
<1>3. CASE f.t = "mouse" /\ f \in MouseFrames /\ f.b \in BOOLEAN /\ f.c \in BOOLEAN
  <2>1. btn' = f.b /\ corner' = f.c /\ left' = (left \/ ~f.c) /\ pc' = "record" /\ cur' = f
        /\ UNCHANGED <<down, held, table, rate, mode, mbuttons, saved, armed, old, starts, dirty>>
    BY <1>3 DEF Inject, DownAfter, Goto
  <2>. QED
    BY <1>3, <2>1 DEF DaemonInv, Fresh, RateKept, InHand, KeysHeld, ButtonHeld, ArmedOutside, AtRest,
       InSession, Waiting, KeysClean, KbdTypeOK
<1>4. CASE f.t \notin {"make", "break", "mouse"}
  <2>1. pc' = "up" /\ cur' = NoCur /\ (left' <=> left)
        /\ UNCHANGED <<down, btn, corner, held, table, rate, mode, mbuttons, saved, armed, old, starts,
           dirty>>
    BY <1>4 DEF Inject, DownAfter, Goto
  <2>. QED
    BY <2>1 DEF DaemonInv, Fresh, RateKept, InHand, KeysHeld, ButtonHeld, ArmedOutside, AtRest, InSession,
       Waiting, KeysClean, KbdTypeOK
<1>. QED
  BY <1>1, <1>2, <1>3, <1>4, FrameKinds

\* The second half of an injection: held[], the buttons and the corner catch up with the TT.
LEMMA Recording ==
  ASSUME KbdTypeOK, DaemonInv, Record
  PROVE  KbdTypeOK' /\ DaemonInv'
  BY DEF KbdTypeOK, DaemonInv, Fresh, RateKept, InHand, KeysHeld, ButtonHeld, ArmedOutside, AtRest,
     InSession, Waiting, KeysClean, machine, Goto, Rates, NoRate, NoCur, Record, Frames, MouseFrames, Make,
     Break, Mouse, Beat, Quit, BadKey

\* session_end: held[] covers what is down, so the TT is left at rest.
LEMMA Ending ==
  ASSUME KbdTypeOK, DaemonInv, pc = "up", NEW l \in {"listen", "idle", "off"}, SessionEnd(l)
  PROVE  KbdTypeOK' /\ DaemonInv'
<1>1. KbdTypeOK'
  BY DEF DaemonInv, KbdTypeOK, Rates, NoRate, Goto, SessionEnd, PutBack
<1>2. Fresh'
  BY DEF DaemonInv, Fresh, KbdTypeOK, Waiting, Goto, SessionEnd, PutBack
<1>3. RateKept'
  BY DEF DaemonInv, RateKept, AtRest, KeysClean, NoRate, InSession, Waiting, Goto, SessionEnd, PutBack
<1>4. InHand'
  BY DEF DaemonInv, InHand, Goto, SessionEnd, PutBack
<1>5. KeysHeld'
  BY DEF DaemonInv, KeysHeld, AtRest, Fresh, KeysClean, InHand, InSession, Waiting, Goto, SessionEnd,
     PutBack
<1>6. ButtonHeld'
  BY DEF DaemonInv, ButtonHeld, InHand, Fresh, AtRest, InSession, Waiting, Goto, SessionEnd, PutBack
<1>7. ArmedOutside'
  BY DEF DaemonInv, ArmedOutside, Fresh, InHand, InSession, Waiting, Goto, SessionEnd, PutBack
<1>8. AtRest'
  BY DEF DaemonInv, AtRest, KeysHeld, ButtonHeld, RateKept, Fresh, KeysClean, InHand, NoRate, InSession,
     Waiting, Goto, SessionEnd, PutBack
<1>. QED
  BY <1>1, <1>2, <1>3, <1>4, <1>5, <1>6, <1>7, <1>8 DEF DaemonInv

\* on_signal: outside the two windows the handler knows of everything that is down.
LEMMA Signalling ==
  ASSUME KbdTypeOK, DaemonInv, OnSignal
  PROVE  KbdTypeOK' /\ DaemonInv'
<1>1. KbdTypeOK'
  BY DEF OnSignal, PutBack, KbdTypeOK, Goto, Unclean, NoRate, Rates
<1>2. AtRest'
  <2>1. CASE pc \in Window
    BY <2>1 DEF OnSignal, AtRest, Unclean
  <2>2. CASE pc \in {"accept", "up"}
    BY <2>2 DEF OnSignal, PutBack, DaemonInv, AtRest, KeysHeld, KeysClean, ButtonHeld, RateKept, NoRate,
       InSession, Window, KbdTypeOK
  <2>3. CASE ~InSession
    BY <2>3 DEF OnSignal, PutBack, DaemonInv, AtRest, Fresh, RateKept, KeysClean, NoRate, InSession,
       Window, Waiting, KbdTypeOK
  <2>. QED
    BY <2>1, <2>2, <2>3 DEF InSession, Window, KbdTypeOK
<1>3. pc' = "off"
  BY DEF OnSignal, Goto
<1>. QED
  BY <1>1, <1>2, <1>3 DEF DaemonInv, Fresh, RateKept, InHand, KeysHeld, ButtonHeld, ArmedOutside,
     InSession, Waiting

\* A process that dies in a session leaves the TT marked as unclean.
LEMMA Dying ==
  ASSUME KbdTypeOK, DaemonInv, pc # "off", NEW w \in SUBSET {"killed"}, Die(w)
  PROVE  KbdTypeOK' /\ DaemonInv'
  BY DEF KbdTypeOK, DaemonInv, Fresh, RateKept, InHand, KeysHeld, ButtonHeld, ArmedOutside, AtRest,
     InSession, Waiting, KeysClean, machine, local, Goto, Rates, NoRate, NoCur, Die, Unclean

\* An accept byte that cannot be written: serve goes back to its loop without session_end.
LEMMA Abandoning ==
  ASSUME KbdTypeOK, DaemonInv, pc = "accept", pc' \in {"listen", "off"}, dirty' = dirty \cup Unclean,
         UNCHANGED <<machine, mode, local, cur, old, starts, left>>
  PROVE  KbdTypeOK' /\ DaemonInv'
  BY DEF KbdTypeOK, DaemonInv, Fresh, RateKept, InHand, KeysHeld, ButtonHeld, ArmedOutside, AtRest,
     InSession, Waiting, KeysClean, machine, local, Rates, NoRate, NoCur, Unclean

\* ttkbdd --release.
LEMMA Releasing ==
  ASSUME KbdTypeOK, DaemonInv, ReleaseAll
  PROVE  KbdTypeOK' /\ DaemonInv'
  BY DEF KbdTypeOK, DaemonInv, Fresh, RateKept, InHand, KeysHeld, ButtonHeld, ArmedOutside, AtRest,
     InSession, Waiting, KeysClean, local, Rates, NoRate, NoCur, ReleaseAll

\* The TT's own mouse.
LEMMA Touching ==
  ASSUME KbdTypeOK, DaemonInv, LocalMouse
  PROVE  KbdTypeOK' /\ DaemonInv'
<1>1. KbdTypeOK'
  BY DEF DaemonInv, KbdTypeOK, Rates, NoRate, local, LocalMouse
<1>2. Fresh'
  BY DEF DaemonInv, Fresh, KbdTypeOK, Waiting, local, LocalMouse
<1>3. RateKept'
  BY DEF DaemonInv, RateKept, AtRest, KeysClean, NoRate, InSession, Waiting, local, LocalMouse
<1>4. InHand'
  BY DEF DaemonInv, InHand, local, LocalMouse
<1>5. KeysHeld'
  BY DEF DaemonInv, KeysHeld, AtRest, Fresh, KeysClean, InHand, InSession, Waiting, local, LocalMouse
<1>6. ButtonHeld'
  BY DEF DaemonInv, ButtonHeld, InHand, Fresh, AtRest, InSession, Waiting, local, LocalMouse
<1>7. ArmedOutside'
  BY DEF DaemonInv, ArmedOutside, Fresh, InHand, InSession, Waiting, local, LocalMouse
<1>8. AtRest'
  BY DEF DaemonInv, AtRest, KeysHeld, ButtonHeld, RateKept, Fresh, KeysClean, InHand, NoRate, InSession,
     Waiting, local, LocalMouse
<1>. QED
  BY <1>1, <1>2, <1>3, <1>4, <1>5, <1>6, <1>7, <1>8 DEF DaemonInv

\* serial_loop's first frame.
LEMMA Opening ==
  ASSUME KbdTypeOK, DaemonInv, pc = "idle", pc' = "begin", cur' \in Frames,
         UNCHANGED <<machine, mode, local, old, starts, left, dirty>>
  PROVE  KbdTypeOK' /\ DaemonInv'
  BY DEF KbdTypeOK, DaemonInv, Fresh, RateKept, InHand, KeysHeld, ButtonHeld, ArmedOutside, AtRest,
     InSession, Waiting, KeysClean, machine, local, Rates, NoRate, NoCur

\* The steps that only go from one place to the next.
LEMMA Walking ==
  ASSUME KbdTypeOK, DaemonInv, NEW l, Moves(l),
         <<pc, l>> \in {<<"listen", "auth">>, <<"auth", "listen">>, <<"auth", "begin">>,
                       <<"accept", "up">>, <<"idle", "idle">>, <<"idle", "off">>}
  PROVE  KbdTypeOK' /\ DaemonInv'
  BY DEF KbdTypeOK, DaemonInv, Fresh, RateKept, InHand, KeysHeld, ButtonHeld, ArmedOutside, AtRest,
     InSession, Waiting, KeysClean, machine, local, Goto, Rates, NoRate, NoCur, Moves

\* A step of the host or the wire leaves the daemon and the TT alone.
LEMMA Still ==
  ASSUME KbdTypeOK, DaemonInv, UNCHANGED kbdVars
  PROVE  KbdTypeOK' /\ DaemonInv'
  BY DEF KbdTypeOK, DaemonInv, Fresh, RateKept, InHand, KeysHeld, ButtonHeld, ArmedOutside, AtRest,
     InSession, Waiting, KeysClean, machine, local, kbdVars, Rates, NoRate, NoCur

-----------------------------------------------------------------------------
(***************************************************************************)
(* What is on the way.                                                     *)
(***************************************************************************)
\* The records of the wire, and what altering one makes of it.
LEMMA RecordsMade ==
  /\ Forged \in Nat /\ 0 \in 0..Forged
  /\ \A n \in 0..Forged, f \in Frames : [n |-> n, f |-> f] \in Records
  /\ \A r \in Records : r.n \in Nat /\ r.n \in 0..Forged /\ r.f \in Frames /\ [r EXCEPT !.n = Forged] \in Records
                        /\ [r EXCEPT !.n = Forged].n = Forged
                        /\ \A f \in Frames : [r EXCEPT !.f = f] \in Records
  BY WireAssumption DEF Records, Forged

\* What is on the way is records.
LEMMA RecordAt ==
  ASSUME TypeOK
  PROVE  /\ Len(toTT) \in Nat /\ DOMAIN toTT = 1..Len(toTT)
         /\ \A i \in DOMAIN toTT : toTT[i] \in Records /\ toTT[i].n \in Nat /\ toTT[i].f \in Frames
<1>1. toTT \in Seq(Records)
  BY DEF TypeOK
<1>2. Len(toTT) \in Nat /\ DOMAIN toTT = 1..Len(toTT)
  BY <1>1, LenProperties
<1>. QED
  BY <1>1, <1>2, ElementOfSeq, RecordsMade

\* Reading the head of what is on the way.
LEMMA HeadRead ==
  ASSUME TypeOK, toTT # <<>>
  PROVE  /\ Len(toTT) >= 1 /\ 1 \in DOMAIN toTT /\ Head(toTT) = toTT[1] /\ Head(toTT) \in Records
         /\ Tail(toTT) \in Seq(Records) /\ Len(Tail(toTT)) = Len(toTT) - 1
         /\ \A i \in 1..(Len(toTT) - 1) : Tail(toTT)[i] = toTT[i + 1]
         /\ DOMAIN Tail(toTT) = 1..(Len(toTT) - 1)
<1>1. toTT \in Seq(Records) /\ Len(toTT) \in Nat
  BY DEF TypeOK
<1>2. Len(toTT) # 0
  BY <1>1, EmptySeq
<1>3. Head(toTT) = toTT[1]
  BY <1>1, <1>2
<1>4. QED
  BY <1>1, <1>2, <1>3, HeadTailProperties, LenProperties

\* frame() on the host: one frame more is sent, and at most one record more is on the way.
LEMMA Sending ==
  ASSUME TypeOK, WireInv, SentBound, NEW f \in Frames, Send(f)
  PROVE  /\ sent' \in Seq(Frames) /\ toTT' \in Seq(Records) /\ SentBound'
         /\ Len(sent') = Len(sent) + 1 /\ Len(sent) < MaxSent
<1>1. Len(sent) \in Nat /\ Len(sent) < MaxSent
  BY DEF Send, TypeOK
<1>2. sent' \in Seq(Frames) /\ Len(sent') = Len(sent) + 1
  BY AppendProperties DEF Send, TypeOK
<1>3. [n |-> Len(sent), f |-> f] \in Records
  BY <1>1, RecordsMade, WireAssumption DEF Forged
<1>4. toTT' \in Seq(Records)
  BY <1>3, AppendProperties DEF Send, TypeOK
<1>. QED
  BY <1>1, <1>2, <1>4, WireAssumption DEF SentBound

\* Every record that comes out of a fault of the wire is altered beyond opening or was on the way
\* before; and a fault that leaves no altered record has lost none.
LEMMA Faulted ==
  ASSUME TypeOK, WireInv, SentBound, WireFault
  PROVE  /\ toTT' \in Seq(Records)
         /\ mode = "net" => \A i \in DOMAIN toTT' : toTT'[i].n = Forged \/ \E j \in DOMAIN toTT : toTT'[i] = toTT[j]
         /\ mode = "net" /\ link' # "cut" => \/ \E i \in DOMAIN toTT' : toTT'[i].n = Forged
                                            \/ \A j \in DOMAIN toTT : \E i \in DOMAIN toTT' : toTT'[i] = toTT[j]
<1>1. CASE toTT' = <<>> /\ link' = "cut"
  BY <1>1
<1>2. CASE toTT # <<>> /\ toTT' = <<Head(toTT)>> \o toTT
  <2>1. <<Head(toTT)>> \in Seq(Records) /\ Head(toTT) = toTT[1] /\ toTT \in Seq(Records) /\ 1 \in DOMAIN toTT
    BY <1>2, HeadRead DEF TypeOK
  <2>0. Len(toTT) \in Nat /\ DOMAIN toTT = 1..Len(toTT)
    BY <2>1, LenProperties
  <2>2. toTT' \in Seq(Records) /\ Len(toTT') = Len(toTT) + 1
        /\ \A i \in 1..(Len(toTT) + 1) : toTT'[i] = IF i = 1 THEN toTT[1] ELSE toTT[i - 1]
    BY <1>2, <2>1, ConcatProperties
  <2>3. \A j \in 1..Len(toTT) : j + 1 \in 1..(Len(toTT) + 1) /\ toTT'[j + 1] = toTT[j]
    BY <2>0, <2>2
  <2>4. DOMAIN toTT' = 1..(Len(toTT) + 1)
    BY <2>0, <2>2, LenProperties
  <2>5. \A i \in 1..(Len(toTT) + 1) : i = 1 \/ (i - 1 \in 1..Len(toTT) /\ toTT'[i] = toTT[i - 1])
    BY <2>0, <2>2
  <2>6. toTT'[1] = toTT[1]
    BY <2>0, <2>2
  <2>. QED
    BY <2>0, <2>1, <2>2, <2>3, <2>4, <2>5, <2>6
<1>3. CASE Len(toTT) > 1 /\ toTT' = <<toTT[2], toTT[1]>> \o SubSeq(toTT, 3, Len(toTT))
  <2>1. toTT \in Seq(Records) /\ Len(toTT) \in Nat /\ DOMAIN toTT = 1..Len(toTT) /\ \A i \in 1..Len(toTT) : toTT[i] \in Records
    BY LenProperties DEF TypeOK
  <2>2. <<toTT[2], toTT[1]>> \in Seq(Records) /\ Len(<<toTT[2], toTT[1]>>) = 2
    BY <1>3, <2>1
  <2>3. SubSeq(toTT, 3, Len(toTT)) \in Seq(Records) /\ Len(SubSeq(toTT, 3, Len(toTT))) = Len(toTT) - 2
        /\ \A i \in 1..(Len(toTT) - 2) : SubSeq(toTT, 3, Len(toTT))[i] = toTT[i + 2]
    <3>1. \A i \in 3..Len(toTT) : toTT[i] \in Records
      BY <2>1
    <3>2. SubSeq(toTT, 3, Len(toTT)) \in Seq(Records) /\ Len(SubSeq(toTT, 3,
       Len(toTT))) = (IF 3 <= Len(toTT) THEN Len(toTT) - 3 + 1 ELSE 0)
          /\ \A i \in 1..(Len(toTT) - 3 + 1) : SubSeq(toTT, 3, Len(toTT))[i] = toTT[3 + i - 1]
      BY <2>1, <3>1, SubSeqProperties, SMT
    <3>. QED
      BY <1>3, <2>1, <3>2
  <2>4. toTT' \in Seq(Records) /\ Len(toTT') = Len(toTT)
        /\ \A i \in 1..Len(toTT) : toTT'[i] = IF i = 1 THEN toTT[2] ELSE IF i = 2 THEN toTT[1] ELSE toTT[i]
    <3>1. toTT' \in Seq(Records) /\ Len(toTT') = 2 + (Len(toTT) - 2)
          /\ \A i \in 1..(2 + (Len(toTT) - 2)) : toTT'[i] = IF i <= 2 THEN <<toTT[2],
             toTT[1]>>[i] ELSE SubSeq(toTT, 3, Len(toTT))[i - 2]
      BY <1>3, <2>2, <2>3, ConcatProperties
    <3>. QED
      BY <1>3, <2>1, <2>3, <3>1
  <2>5. 1 \in 1..Len(toTT) /\ 2 \in 1..Len(toTT) /\ DOMAIN toTT' = 1..Len(toTT)
    BY <1>3, <2>1, <2>4, LenProperties
  <2>6. \A i \in 1..Len(toTT) : toTT'[i] \in {toTT[1], toTT[2], toTT[i]}
    BY <2>4
  <2>7. toTT'[2] = toTT[1] /\ toTT'[1] = toTT[2] /\ \A j \in 1..Len(toTT) : j = 1 \/ j = 2 \/ toTT'[j] = toTT[j]
    BY <2>4, <2>5
  <2>. QED
    BY <2>1, <2>4, <2>5, <2>6, <2>7
<1>4. CASE toTT # <<>> /\ toTT' = [toTT EXCEPT ![1].n = Forged]
  <2>1. toTT \in Seq(Records) /\ Len(toTT) \in Nat /\ 1 \in 1..Len(toTT) /\ DOMAIN toTT = 1..Len(toTT) /\ toTT[1] \in Records
    BY <1>4, HeadRead, LenProperties DEF TypeOK
  <2>2. toTT' = [toTT EXCEPT ![1] = [toTT[1] EXCEPT !.n = Forged]]
    BY <1>4
  <2>3. [toTT[1] EXCEPT !.n = Forged] \in Records /\ [toTT[1] EXCEPT !.n = Forged].n = Forged
    BY <2>1, RecordsMade
  <2>. HIDE DEF Records
  <2>. QED
    BY <2>1, <2>2, <2>3, ExceptSeq
<1>5. CASE toTT # <<>> /\ mode = "serial" /\ toTT' = Tail(toTT)
  BY <1>5, HeadRead
<1>6. CASE toTT # <<>> /\ mode = "serial" /\ \E f \in Frames : toTT' = [toTT EXCEPT ![1].f = f]
  <2> PICK f \in Frames : toTT' = [toTT EXCEPT ![1].f = f]  BY <1>6
  <2>1. toTT \in Seq(Records) /\ 1 \in 1..Len(toTT) /\ toTT[1] \in Records
    BY <1>6, HeadRead DEF TypeOK
  <2>2. toTT' = [toTT EXCEPT ![1] = [toTT[1] EXCEPT !.f = f]]
    OBVIOUS
  <2>3. [toTT[1] EXCEPT !.f = f] \in Records
    BY <2>1, RecordsMade
  <2>. QED
    BY <1>6, <2>1, <2>2, <2>3, ExceptSeq
<1>. QED
  BY <1>1, <1>2, <1>3, <1>4, <1>5, <1>6 DEF WireFault

\* What a frame more makes of the keys that a sequence of frames leaves down.
LEMMA LastAppended ==
  ASSUME NEW s \in Seq(Frames), NEW f \in Frames, NEW k \in Keys
  PROVE  LastIsMake(Append(s, f), k) <=> f = Make(k) \/ (LastIsMake(s, k) /\ f # Break(k))
<1> DEFINE t == Append(s, f)
<1>1. Len(s) \in Nat /\ Len(t) = Len(s) + 1 /\ t[Len(s) + 1] = f /\ \A i \in 1..Len(s) : t[i] = s[i]
  BY AppendProperties, LenProperties
<1>2. Make(k) # Break(k)
  BY DEF Make, Break
<1>3. ASSUME LastIsMake(t, k), f # Make(k) PROVE LastIsMake(s, k) /\ f # Break(k)
  <2>1. PICK i \in 1..Len(t) : t[i] = Make(k) /\ \A j \in (i + 1)..Len(t) : t[j] # Break(k)
    BY <1>3 DEF LastIsMake
  <2>2. i \in 1..Len(s) /\ s[i] = Make(k)
    BY <1>1, <1>3, <2>1
  <2>3. \A j \in (i + 1)..Len(s) : j \in (i + 1)..Len(t) /\ j \in 1..Len(s)
    BY <1>1, <2>2
  <2>4. \A j \in (i + 1)..Len(s) : s[j] # Break(k)
    BY <1>1, <2>1, <2>3
  <2>5. Len(t) \in (i + 1)..Len(t)
    BY <1>1, <2>2
  <2>. QED
    BY <1>1, <2>1, <2>2, <2>4, <2>5 DEF LastIsMake
<1>4. ASSUME f = Make(k) PROVE LastIsMake(t, k)
  <2>1. Len(t) \in 1..Len(t) /\ t[Len(t)] = Make(k) /\ \A j \in (Len(t) + 1)..Len(t) : FALSE
    BY <1>1, <1>4
  <2>. QED
    BY <2>1 DEF LastIsMake
<1>5. ASSUME LastIsMake(s, k), f # Break(k) PROVE LastIsMake(t, k)
  <2>1. PICK i \in 1..Len(s) : s[i] = Make(k) /\ \A j \in (i + 1)..Len(s) : s[j] # Break(k)
    BY <1>5 DEF LastIsMake
  <2>2. i \in 1..Len(t) /\ t[i] = Make(k)
    BY <1>1, <2>1
  <2>3. \A j \in (i + 1)..Len(t) : j = Len(s) + 1 \/ (j \in (i + 1)..Len(s) /\ j \in 1..Len(s))
    BY <1>1, <2>1
  <2>. QED
    BY <1>1, <1>5, <2>1, <2>2, <2>3 DEF LastIsMake
<1>. QED
  BY <1>2, <1>3, <1>4, <1>5

\* frame() keeps what is on the way complete: the new frame travels under the counter that is its
\* place.
LEMMA SendGrab ==
  ASSUME TypeOK, WireInv, GrabInv, NEW f \in Frames, Send(f)
  PROVE  SentBound' /\ Typed' /\ Genuine' /\ Covered' /\ DownTyped'
<1>1. Len(sent') = Len(sent) + 1 /\ Len(sent) \in Nat /\ SentBound' /\ sent'[Len(sent) + 1] = f /\ \A i \in 1..Len(sent) : sent'[i] = sent[i]
  BY Sending, AppendProperties, LenProperties DEF TypeOK, GrabInv, Send
<1>2. UNCHANGED <<mode, link, host, ctr,
   applied>> /\ (Grabbed' => Grabbed) /\ (mode = "net" /\ link # "up" => toTT' = toTT)
  BY DEF Send, kbdVars, Grabbed
<1>3. link = "up" => /\ Len(toTT) \in Nat /\ DOMAIN toTT = 1..Len(toTT) /\ DOMAIN toTT' = 1..(Len(toTT) + 1)
                     /\ toTT'[Len(toTT) + 1] = [n |-> Len(sent),
                        f |-> f] /\ \A i \in 1..Len(toTT) : toTT'[i] = toTT[i]
  <2>1. [n |-> Len(sent), f |-> f] \in Records
    BY <1>1, RecordsMade, WireAssumption DEF GrabInv, SentBound, Forged
  <2>. QED
    BY <2>1, AppendProperties, LenProperties DEF Send, TypeOK
<1>4. Typed'
  BY <1>1, <1>2, LenProperties DEF GrabInv, Typed, TypeOK
<1>5. Genuine'
  <2>1. SUFFICES ASSUME Grabbed,
     NEW i \in DOMAIN toTT' PROVE toTT'[i].n = Forged \/ (toTT'[i].n < Len(sent') /\ toTT'[i].f = sent'[toTT'[i].n + 1])
    BY <1>2 DEF Genuine
  <2>2. CASE i \in DOMAIN toTT /\ toTT'[i] = toTT[i]
    <3>1. toTT[i].n \in Nat
      BY <2>2, RecordAt
    <3>. QED
      BY <1>1, <2>1, <2>2, <3>1 DEF GrabInv, Genuine
  <2>3. CASE toTT'[i] = [n |-> Len(sent), f |-> f]
    BY <1>1, <2>3
  <2>. QED
    BY <1>2, <1>3, <2>1, <2>2, <2>3 DEF Grabbed
<1>6. Covered'
  <2>1. SUFFICES ASSUME Grabbed, link = "up",
     ~Blocked' PROVE \A m \in ctr..(Len(sent') - 1) : \E i \in DOMAIN toTT' : toTT'[i].n = m
    BY <1>2 DEF Covered
  <2>2. ~Blocked
    BY <1>2, <1>3, <2>1 DEF Blocked
  <2>3. TAKE m \in ctr..(Len(sent') - 1)
  <2>4. CASE m = Len(sent)
    BY <1>3, <2>1, <2>4
  <2>5. CASE m # Len(sent)
    <3>1. m \in ctr..(Len(sent) - 1)
      BY <1>1, <2>5 DEF TypeOK
    <3>2. PICK i \in DOMAIN toTT : toTT[i].n = m
      BY <2>1, <2>2, <3>1 DEF GrabInv, Covered
    <3>. QED
      BY <1>3, <2>1, <3>2
  <2>. QED
    BY <2>4, <2>5
<1>7. DownTyped'
  BY <1>2 DEF GrabInv, DownTyped, KeysClean, Typing, Send, kbdVars, machine
<1>. QED
  BY <1>1, <1>4, <1>5, <1>6, <1>7

\* KeyPump: the host's keys follow the frames it sends.
LEMMA PressGrab ==
  ASSUME TypeOK, WireInv, GrabInv, NEW f \in Frames, Send(f), phys' \subseteq Keys,
         \A k \in Keys : f = Make(k) => k \in phys',
         \A k \in phys : k \in phys' \/ f = Break(k)
  PROVE  GrabInv'
<1>1. PressedDown'
  <2>1. SUFFICES ASSUME NEW k \in Keys, LastIsMake(sent', k) PROVE k \in phys'
    BY DEF PressedDown
  <2>2. f = Make(k) \/ (LastIsMake(sent, k) /\ f # Break(k))
    BY <2>1, LastAppended DEF Send, TypeOK
  <2>. QED
    BY <2>2 DEF GrabInv, PressedDown, Send
<1>. QED
  BY <1>1, SendGrab DEF GrabInv

\* serve applies a record that opens: it is the next frame sent, and what else is on the way still
\* covers the rest, or holds a copy of this one, which will not open again.
LEMMA NetRecordGrab ==
  ASSUME TypeOK, DaemonInv, WireInv, GrabInv, NetRecord
  PROVE  GrabInv'
<1>0. Head(toTT) = toTT[1] /\ 1 \in DOMAIN toTT /\ toTT[1].f \in Frames
  BY HeadRead, RecordAt DEF NetRecord
<1>1. PICK r : r = toTT[1] /\ r.n = ctr /\ Inject(r.f) /\ toTT' = Tail(toTT) /\ ctr' = ctr + 1 /\ applied' = Append(applied, r.f)
               /\ r.f \in Frames /\ 1 \in DOMAIN toTT /\ mode = "net" /\ pc = "up" /\ UNCHANGED <<link,
                  host, phys, sent>>
  BY <1>0 DEF NetRecord, Opens, NetUp, hostVars
<1>2. Len(applied') = Len(applied) + 1 /\ applied'[Len(applied) + 1] = r.f /\ \A i \in 1..Len(applied) : applied'[i] = applied[i]
      /\ Len(applied) \in Nat /\ Len(sent) \in Nat
  BY <1>1, AppendProperties DEF TypeOK
<1>c. ctr = Len(applied) /\ ctr \in Nat
  BY DEF TypeOK, WireInv, Started
<1>3. Len(toTT) \in Nat /\ DOMAIN toTT = 1..Len(toTT) /\ DOMAIN toTT' = 1..(Len(toTT) - 1) /\ \A i \in 1..(Len(toTT) - 1) : toTT'[i] = toTT[i + 1]
  BY <1>1, HeadRead, LenProperties DEF NetRecord, TypeOK
<1>4. ctr # Forged /\ mode' = mode /\ UNCHANGED dirty /\ pc' \in {"up", "record"}
  BY <1>1, WireAssumption DEF WireInv, Started, Forged, TypeOK, Inject, Goto
<1>5. Typed'
  <2>1. SUFFICES ASSUME Grabbed PROVE Len(applied') <= Len(sent) /\ \A i \in 1..Len(applied') : applied'[i] = sent[i]
    BY <1>1, <1>4 DEF Typed, Grabbed
  <2>2. ctr < Len(sent) /\ r.f = sent[ctr + 1]
    BY <1>1, <1>4, <2>1 DEF GrabInv, Genuine
  <2>3. \A i \in 1..Len(applied) : applied'[i] = sent[i]
    BY <1>2, <2>1 DEF GrabInv, Typed
  <2>4. Len(applied') <= Len(sent)
    BY <1>2, <1>c, <2>2
  <2>5. \A i \in 1..Len(applied') : i = Len(applied) + 1 \/ i \in 1..Len(applied)
    BY <1>2
  <2>6. applied'[Len(applied) + 1] = sent[Len(applied) + 1]
    BY <1>2, <1>c, <2>2
  <2>. QED
    BY <2>3, <2>4, <2>5, <2>6
<1>6. Genuine'
  BY <1>1, <1>3, <1>4 DEF GrabInv, Genuine, Grabbed
<1>7. Covered'
  <2>1. SUFFICES ASSUME Grabbed, link = "up", ~Blocked'
                 PROVE  \A m \in (ctr + 1)..(Len(sent) - 1) : \E i \in DOMAIN toTT' : toTT'[i].n = m
    BY <1>1, <1>4 DEF Covered, Grabbed
  <2>0. ctr \in Nat /\ ctr' = ctr + 1
    BY <1>1, <1>c
  <2>2. ~Blocked
    <3>1. SUFFICES ASSUME NEW i \in DOMAIN toTT, toTT[i].n = Forged \/ toTT[i].n < ctr PROVE FALSE
      BY DEF Blocked
    <3>2. i # 1
      BY <1>1, <1>4, <2>0, <3>1
    <3>3. (i - 1) \in DOMAIN toTT' /\ toTT'[i - 1] = toTT[i] /\ toTT[i].n \in Nat
      BY <1>3, <3>2, RecordAt
    <3>4. ~(toTT'[i - 1].n = Forged \/ toTT'[i - 1].n < ctr + 1)
      BY <2>0, <2>1, <3>3 DEF Blocked
    <3>. QED
      BY <2>0, <3>1, <3>3, <3>4
  <2>3. TAKE m \in (ctr + 1)..(Len(sent) - 1)
  <2>m. m \in ctr..(Len(sent) - 1) /\ m > ctr
    BY <1>2, <2>0
  <2>4. PICK i \in DOMAIN toTT : toTT[i].n = m
    BY <2>1, <2>2, <2>m DEF GrabInv, Covered
  <2>5. i # 1
    BY <1>1, <2>0, <2>4, <2>m
  <2>6. (i - 1) \in DOMAIN toTT' /\ toTT'[i - 1] = toTT[i]
    BY <1>3, <2>5
  <2>. QED
    BY <2>4, <2>6
<1>8. DownTyped'
  <2>1. SUFFICES ASSUME KeysClean, NEW k \in down' PROVE LastIsMake(applied', k)
    BY <1>4 DEF DownTyped, KeysClean
  <2>2. k \in Keys /\ (r.f = Make(k) \/ (k \in down /\ r.f # Break(k)))
    BY <1>1, <2>1, FrameKinds DEF Inject, DownAfter, Make, Break, TypeOK, KbdTypeOK
  <2>3. k \in down => LastIsMake(applied, k)
    BY <1>1, <2>1 DEF GrabInv, DownTyped, Typing
  <2>. QED
    BY <1>1, <2>2, <2>3, LastAppended DEF TypeOK
<1>. QED
  BY <1>1, <1>5, <1>6, <1>7, <1>8 DEF GrabInv, SentBound, PressedDown

\* The counter of a session stays below that of a forged record.
LEMMA NetRecordWire ==
  ASSUME TypeOK, WireInv, SentBound, NetRecord
  PROVE  WireTypeOK' /\ Started'
<1>1. Head(toTT) \in Records /\ Tail(toTT) \in Seq(Records) /\ Head(toTT) = toTT[1] /\ 1 \in DOMAIN toTT
  BY HeadRead DEF NetRecord, TypeOK
<1>2. applied' \in Seq(Frames) /\ Len(applied') = Len(applied) + 1
  BY <1>1, AppendProperties, RecordsMade DEF NetRecord, TypeOK
<1>3. ctr' \in 0..MaxSent /\ Forged = MaxSent + 1
  <2>1. toTT[1].n < MaxSent \/ toTT[1].n = Forged
    BY <1>1 DEF NetRecord, NetUp, WireInv, Sealed
  <2>. QED
    BY <1>1, <2>1, RecordsMade, WireAssumption DEF NetRecord, Opens, WireInv, Started, TypeOK, Forged
<1>4. WireTypeOK'
  BY <1>1, <1>2, <1>3, WireAssumption DEF NetRecord, WireTypeOK, TypeOK, hostVars
<1>5. mode' = "net" /\ pc' \in {"up", "record"} /\ toTT # <<>> /\ UNCHANGED <<link, host>>
  BY DEF NetRecord, NetUp, Inject, Goto, hostVars
<1>6. ctr' = Len(applied') /\ ctr' \in 0..MaxSent
  BY <1>2, <1>3 DEF NetRecord, WireInv, Started
<1>. QED
  BY <1>4, <1>5, <1>6, WireAssumption DEF WireInv, NothingSent, Started, Typing, NetRecord, NetUp

\* Silence, copies, changed order and altered records: none of them makes a gap that is not blocked.
LEMMA WireFaultGrab ==
  ASSUME TypeOK, DaemonInv, WireInv, GrabInv, WireFault
  PROVE  Genuine' /\ Covered'
<1>1. UNCHANGED <<mode, host, sent, ctr>> /\ (link' = link \/ link' = "cut") /\ (Grabbed' => Grabbed)
  BY DEF WireFault, kbdVars, hostVars, Grabbed
<1>2. mode = "net" => \A i \in DOMAIN toTT' : toTT'[i].n = Forged \/ \E j \in DOMAIN toTT : toTT'[i] = toTT[j]
  BY Faulted DEF GrabInv
<1>3. mode = "net" /\ link' # "cut" => \/ \E i \in DOMAIN toTT' : toTT'[i].n = Forged
                                       \/ \A j \in DOMAIN toTT : \E i \in DOMAIN toTT' : toTT'[i] = toTT[j]
  BY Faulted DEF GrabInv
<1>4. Genuine'
  BY <1>1, <1>2 DEF GrabInv, Genuine, Grabbed
<1>5. Covered'
  <2>1. SUFFICES ASSUME Grabbed',
     link' = "up" PROVE Blocked' \/ \A m \in ctr..(Len(sent) - 1) : \E i \in DOMAIN toTT' : toTT'[i].n = m
    BY <1>1 DEF Covered
  <2>2. Grabbed /\ link = "up" /\ (Blocked \/ \A m \in ctr..(Len(sent) - 1) : \E i \in DOMAIN toTT : toTT[i].n = m)
    BY <1>1, <2>1 DEF GrabInv, Covered
  <2>. QED
    BY <1>1, <1>3, <2>1, <2>2 DEF Blocked, Grabbed
<1>. QED
  BY <1>4, <1>5

-----------------------------------------------------------------------------
(***************************************************************************)
(* The steps of the whole.                                                 *)
(***************************************************************************)
\* listen_loop accepts a connection.
LEMMA AcceptKept ==
  ASSUME KbdInv, Accept
  PROVE  KbdInv'
<1> USE DEF KbdInv
<1>1. KbdTypeOK' /\ DaemonInv'
  BY Walking DEF TypeOK, machine, local, hostVars, Goto, Moves, Accept
<1>2. WireTypeOK'
  BY WireAssumption DEF WireTypeOK, TypeOK, machine, local, hostVars, Goto, Moves, Accept
<1>3. WireInv'
  BY WireAssumption DEF WireInv, Places, Ends, Serving, NothingSent, Started, Said, Sealed, Typing, TypeOK,
     KbdTypeOK, machine, local, hostVars, Goto, Moves, Accept
<1>4. GrabInv'
  BY WireAssumption DEF GrabInv, SentBound, Typed, Genuine, Covered, Blocked, DownTyped, PressedDown,
     Grabbed, WireInv, Places, Ends, Serving, NothingSent, Started, Said, Sealed, Typing, KeysClean,
     TypeOK, KbdTypeOK, machine, local, hostVars, Goto, Moves, Accept
<1>. QED
  BY <1>1, <1>2, <1>3, <1>4 DEF TypeOK, WireTypeOK

\* An auth that fails or does not come.
LEMMA RefuseKept ==
  ASSUME KbdInv, Refuse
  PROVE  KbdInv'
<1> USE DEF KbdInv
<1>1. KbdTypeOK' /\ DaemonInv'
  BY Walking DEF TypeOK, machine, local, hostVars, Goto, Moves, Refuse, HangUp, Closed
<1>2. WireTypeOK'
  BY WireAssumption DEF WireTypeOK, TypeOK, machine, local, hostVars, Goto, Moves, Refuse, HangUp, Closed
<1>3. WireInv'
  BY WireAssumption DEF WireInv, Places, Ends, Serving, NothingSent, Started, Said, Sealed, Typing, TypeOK,
     KbdTypeOK, machine, local, hostVars, Goto, Moves, Refuse, HangUp, Closed
<1>4. GrabInv'
  BY WireAssumption DEF GrabInv, SentBound, Typed, Genuine, Covered, Blocked, DownTyped, PressedDown,
     Grabbed, WireInv, Places, Ends, Serving, NothingSent, Started, Said, Sealed, Typing, KeysClean,
     TypeOK, KbdTypeOK, machine, local, hostVars, Goto, Moves, Refuse, HangUp, Closed
<1>. QED
  BY <1>1, <1>2, <1>3, <1>4 DEF TypeOK, WireTypeOK

\* An auth with a good signature.
LEMMA VerifyKept ==
  ASSUME KbdInv, Verify
  PROVE  KbdInv'
<1> USE DEF KbdInv
<1>1. KbdTypeOK' /\ DaemonInv'
  BY Walking DEF TypeOK, machine, local, hostVars, Goto, Moves, Verify
<1>2. WireTypeOK'
  BY WireAssumption DEF WireTypeOK, TypeOK, machine, local, hostVars, Goto, Moves, Verify
<1>3. WireInv'
  BY WireAssumption DEF WireInv, Places, Ends, Serving, NothingSent, Started, Said, Sealed, Typing, TypeOK,
     KbdTypeOK, machine, local, hostVars, Goto, Moves, Verify
<1>4. GrabInv'
  BY WireAssumption DEF GrabInv, SentBound, Typed, Genuine, Covered, Blocked, DownTyped, PressedDown,
     Grabbed, WireInv, Places, Ends, Serving, NothingSent, Started, Said, Sealed, Typing, KeysClean,
     TypeOK, KbdTypeOK, machine, local, hostVars, Goto, Moves, Verify
<1>. QED
  BY <1>1, <1>2, <1>3, <1>4 DEF TypeOK, WireTypeOK

\* No table, no session: the connection is closed.
LEMMA NoTableKept ==
  ASSUME KbdInv, NoTable
  PROVE  KbdInv'
<1> USE DEF KbdInv
<1>1. KbdTypeOK' /\ DaemonInv'
  BY Failing DEF TypeOK, machine, local, hostVars, Goto, NoTable, BeginFails, HangUp, Closed
<1>2. WireTypeOK'
  <2>1. toTT' \in {toTT, <<>>} /\ link' \in {link, "none", "syn", "ended"}
    BY DEF NoTable, HangUp, Closed
  <2>2. toTT' \in Seq(Records)
    BY <2>1, EmptySeq DEF TypeOK
  <2>. QED
    BY <2>1, <2>2 DEF WireTypeOK, TypeOK, NoTable, hostVars
<1>3. WireInv'
  BY WireAssumption DEF WireInv, Places, Ends, Serving, NothingSent, Started, Said, Sealed, Typing, TypeOK,
     KbdTypeOK, machine, local, hostVars, Goto, NoTable, BeginFails, HangUp, Closed
<1>4. GrabInv'
  BY WireAssumption DEF GrabInv, SentBound, Typed, Genuine, Covered, Blocked, DownTyped, PressedDown,
     Grabbed, WireInv, Places, Ends, Serving, NothingSent, Started, Said, Sealed, Typing, KeysClean,
     TypeOK, KbdTypeOK, machine, local, hostVars, Goto, NoTable, BeginFails, HangUp, Closed
<1>. QED
  BY <1>1, <1>2, <1>3, <1>4 DEF TypeOK, WireTypeOK

\* session_begin, its first half.
LEMMA BeginsKept ==
  ASSUME KbdInv, Begins
  PROVE  KbdInv'
<1> USE DEF KbdInv
<1>1. KbdTypeOK' /\ DaemonInv'
  BY Beginning DEF TypeOK, local, wire, hostVars, Goto, Begins, SessionBegin
<1>2. WireTypeOK'
  BY WireAssumption DEF WireTypeOK, TypeOK, local, wire, hostVars, Goto, Begins, SessionBegin
<1>3. WireInv'
  BY WireAssumption DEF WireInv, Places, Ends, Serving, NothingSent, Started, Said, Sealed, Typing, TypeOK,
     KbdTypeOK, local, wire, hostVars, Goto, Begins, SessionBegin
<1>4. GrabInv'
  BY WireAssumption DEF GrabInv, SentBound, Typed, Genuine, Covered, Blocked, DownTyped, PressedDown,
     Grabbed, WireInv, Places, Ends, Serving, NothingSent, Started, Said, Sealed, Typing, KeysClean,
     TypeOK, KbdTypeOK, local, wire, hostVars, Goto, Begins, SessionBegin
<1>. QED
  BY <1>1, <1>2, <1>3, <1>4 DEF TypeOK, WireTypeOK

\* session_begin, its second half.
LEMMA SavesKept ==
  ASSUME KbdInv, Saves
  PROVE  KbdInv'
<1> USE DEF KbdInv
<1>1. KbdTypeOK' /\ DaemonInv'
  BY Saving DEF TypeOK, machine, wire, hostVars, Goto, Saves, SaveRate
<1>2. WireTypeOK'
  BY WireAssumption DEF WireTypeOK, TypeOK, machine, wire, hostVars, Goto, Saves, SaveRate
<1>3. WireInv'
  BY WireAssumption DEF WireInv, Places, Ends, Serving, NothingSent, Started, Said, Sealed, Typing, TypeOK,
     KbdTypeOK, machine, wire, hostVars, Goto, Saves, SaveRate
<1>4. GrabInv'
  BY WireAssumption DEF GrabInv, SentBound, Typed, Genuine, Covered, Blocked, DownTyped, PressedDown,
     Grabbed, WireInv, Places, Ends, Serving, NothingSent, Started, Said, Sealed, Typing, KeysClean,
     TypeOK, KbdTypeOK, machine, wire, hostVars, Goto, Saves, SaveRate
<1>. QED
  BY <1>1, <1>2, <1>3, <1>4 DEF TypeOK, WireTypeOK

\* The accept byte: the session's first frame is still to come, and nothing is down.
LEMMA WriteAcceptKept ==
  ASSUME KbdInv, WriteAccept
  PROVE  KbdInv'
<1> USE DEF KbdInv
<1>1. KbdTypeOK' /\ DaemonInv'
  BY Walking DEF TypeOK, machine, local, hostVars, Goto, Moves, WriteAccept
<1>2. WireTypeOK'
  BY WireAssumption DEF WireTypeOK, TypeOK, machine, local, hostVars, Goto, Moves, WriteAccept
<1>3. WireInv'
  <2>1. toHost = <<>> /\ mode = "net" /\ pc = "accept" /\ link # "syn" /\ link # "cut"
    BY DEF WriteAccept, WireInv, Said, Places, Serving, Typing
  <2>2. toHost' = <<"ok">>
    BY <2>1 DEF WriteAccept
  <2>. QED
    BY <2>1, <2>2 DEF WireInv, Places, Ends, Serving, NothingSent, Started, Said, Sealed, Typing, TypeOK,
       KbdTypeOK, machine, local, hostVars, Goto, Moves, WriteAccept
<1>4. GrabInv'
  <2>1. KeysClean => down = {}
    BY DEF WriteAccept, DaemonInv, Fresh, KeysHeld
  <2>. QED
    BY <2>1 DEF GrabInv, SentBound, Typed, Genuine, Covered, Blocked, DownTyped, PressedDown, Grabbed,
       KeysClean, WriteAccept, machine, local, hostVars, Goto, Moves
<1>. QED
  BY <1>1, <1>2, <1>3, <1>4 DEF TypeOK, WireTypeOK

\* The accept byte cannot be written.
LEMMA AcceptFailsKept ==
  ASSUME KbdInv, AcceptFails
  PROVE  KbdInv'
<1> USE DEF KbdInv
<1>1. KbdTypeOK' /\ DaemonInv'
  BY Abandoning DEF TypeOK, machine, local, hostVars, AcceptFails, HangUp, Closed
<1>2. WireTypeOK'
  BY WireAssumption DEF WireTypeOK, TypeOK, machine, local, hostVars, AcceptFails, HangUp, Closed
<1>3. WireInv'
  BY WireAssumption DEF WireInv, Places, Ends, Serving, NothingSent, Started, Said, Sealed, Typing, TypeOK,
     KbdTypeOK, machine, local, hostVars, AcceptFails, HangUp, Closed
<1>4. GrabInv'
  BY WireAssumption DEF GrabInv, SentBound, Typed, Genuine, Covered, Blocked, DownTyped, PressedDown,
     Grabbed, WireInv, Places, Ends, Serving, NothingSent, Started, Said, Sealed, Typing, KeysClean,
     TypeOK, KbdTypeOK, machine, local, hostVars, AcceptFails, HangUp, Closed
<1>. QED
  BY <1>1, <1>2, <1>3, <1>4 DEF TypeOK, WireTypeOK

\* serve applies a record.
LEMMA NetRecordKept ==
  ASSUME KbdInv, NetRecord
  PROVE  KbdInv'
<1> USE DEF KbdInv
<1>1. KbdTypeOK' /\ DaemonInv'
  <2>1. Head(toTT).f \in Frames
    BY HeadRead, RecordAt DEF NetRecord
  <2>. QED
    BY <2>1, Injecting DEF TypeOK, NetRecord, NetUp
<1>2. WireTypeOK'
  BY NetRecordWire DEF GrabInv
<1>3. WireInv'
  <2>1. Places'
    BY WireAssumption, KbdAssumption DEF WireInv, Places, TypeOK, KbdTypeOK, hostVars, Goto, NetRecord,
       NetUp, Opens, Inject
  <2>2. Ends'
    BY WireAssumption, KbdAssumption DEF WireInv, Ends, Places, Serving, TypeOK, KbdTypeOK, hostVars, Goto,
       NetRecord, NetUp, Opens, Inject
  <2>3. Serving'
    BY WireAssumption, KbdAssumption DEF WireInv, Serving, Said, Places, Typing, Ends, NothingSent, TypeOK,
       KbdTypeOK, hostVars, Goto, NetRecord, NetUp, Opens, Inject
  <2>4. NothingSent'
    BY WireAssumption, KbdAssumption DEF WireInv, NothingSent, Ends, Places, TypeOK, KbdTypeOK, hostVars,
       Goto, NetRecord, NetUp, Opens, Inject
  <2>5. Started'
    BY NetRecordWire DEF GrabInv
  <2>6. Said'
    BY WireAssumption, KbdAssumption DEF WireInv, Said, Places, Ends, Serving, TypeOK, KbdTypeOK, hostVars,
       Goto, NetRecord, NetUp, Opens, Inject
  <2>7. Sealed'
    BY WireAssumption, KbdAssumption DEF WireInv, Sealed, NothingSent, Places, Forged, Records, TypeOK,
       KbdTypeOK, hostVars, Goto, NetRecord, NetUp, Opens, Inject
  <2>. QED
    BY <2>1, <2>2, <2>3, <2>4, <2>5, <2>6, <2>7 DEF WireInv
<1>4. GrabInv'
  BY NetRecordGrab
<1>. QED
  BY <1>1, <1>2, <1>3, <1>4 DEF TypeOK, WireTypeOK

\* serve's end: a record that does not open, a closed connection, or silence.
LEMMA NetEndKept ==
  ASSUME KbdInv, NetEnd
  PROVE  KbdInv'
<1> USE DEF KbdInv
<1>1. KbdTypeOK' /\ DaemonInv'
  BY Ending DEF TypeOK, hostVars, Goto, NetEnd, NetUp, Opens, SessionEnd, HangUp, Closed
<1>2. WireTypeOK'
  BY RecordsMade DEF WireTypeOK, TypeOK, hostVars, Goto, NetEnd, NetUp, SessionEnd, HangUp, Closed
<1>3. WireInv'
  BY WireAssumption DEF WireInv, Places, Ends, Serving, NothingSent, Started, Said, Sealed, Typing, TypeOK,
     KbdTypeOK, hostVars, Goto, NetEnd, NetUp, Opens, SessionEnd, HangUp, Closed
<1>4. GrabInv'
  BY WireAssumption DEF GrabInv, SentBound, Typed, Genuine, Covered, Blocked, DownTyped, PressedDown,
     Grabbed, WireInv, Places, Ends, Serving, NothingSent, Started, Said, Sealed, Typing, KeysClean,
     TypeOK, KbdTypeOK, hostVars, Goto, NetEnd, NetUp, Opens, SessionEnd, HangUp, Closed
<1>. QED
  BY <1>1, <1>2, <1>3, <1>4 DEF TypeOK, WireTypeOK

\* The second half of an injection, and the message of the hot corner.
LEMMA RecordedKept ==
  ASSUME KbdInv, Recorded
  PROVE  KbdInv'
<1> USE DEF KbdInv
<1>1. KbdTypeOK' /\ DaemonInv'
  BY Recording DEF TypeOK, machine, hostVars, Goto, Recorded, Record
<1>2. WireTypeOK'
  <2>1. <<"corner">> \in Seq({"ok", "corner"})
    OBVIOUS
  <2>. QED
    BY <2>1 DEF WireTypeOK, TypeOK, machine, hostVars, Goto, Recorded, Record
<1>3. WireInv'
  BY WireAssumption DEF WireInv, Places, Ends, Serving, NothingSent, Started, Said, Sealed, Typing, TypeOK,
     KbdTypeOK, machine, hostVars, Goto, Recorded, Record
<1>4. GrabInv'
  BY WireAssumption DEF GrabInv, SentBound, Typed, Genuine, Covered, Blocked, DownTyped, PressedDown,
     Grabbed, WireInv, Places, Ends, Serving, NothingSent, Started, Said, Sealed, Typing, KeysClean,
     TypeOK, KbdTypeOK, machine, hostVars, Goto, Recorded, Record
<1>. QED
  BY <1>1, <1>2, <1>3, <1>4 DEF TypeOK, WireTypeOK

\* serial_loop reads a frame.
LEMMA SerialFrameKept ==
  ASSUME KbdInv, SerialFrame
  PROVE  KbdInv'
<1> USE DEF KbdInv
<1>1. KbdTypeOK' /\ DaemonInv'
  <2>1. Head(toTT).f \in Frames
    BY HeadRead, RecordAt DEF SerialFrame
  <2>. QED
    BY <2>1, Walking, Opening, Injecting, Ending DEF TypeOK, SerialFrame, OnSerial, Goto
<1>2. WireTypeOK'
  BY WireAssumption DEF WireTypeOK, TypeOK, machine, local, hostVars, Goto, Moves, SerialFrame, OnSerial,
     SessionEnd, Inject
<1>3. WireInv'
  BY WireAssumption DEF WireInv, Places, Ends, Serving, NothingSent, Started, Said, Sealed, Typing, TypeOK,
     KbdTypeOK, machine, local, hostVars, Goto, Moves, SerialFrame, OnSerial, SessionEnd, Inject
<1>4. GrabInv'
  BY WireAssumption DEF GrabInv, SentBound, Typed, Genuine, Covered, Blocked, DownTyped, PressedDown,
     Grabbed, WireInv, Places, Ends, Serving, NothingSent, Started, Said, Sealed, Typing, KeysClean,
     TypeOK, KbdTypeOK, machine, local, hostVars, Goto, Moves, SerialFrame, OnSerial, SessionEnd, Inject
<1>. QED
  BY <1>1, <1>2, <1>3, <1>4 DEF TypeOK, WireTypeOK

\* serial_loop applies the frame that opened its session.
LEMMA SerialFirstKept ==
  ASSUME KbdInv, SerialFirst
  PROVE  KbdInv'
<1> USE DEF KbdInv
<1>1. KbdTypeOK' /\ DaemonInv'
  BY Injecting DEF TypeOK, KbdTypeOK, SerialFirst, OnSerial
<1>2. WireTypeOK'
  BY WireAssumption DEF WireTypeOK, TypeOK, wire, hostVars, Goto, SerialFirst, OnSerial, Inject
<1>3. WireInv'
  BY WireAssumption DEF WireInv, Places, Ends, Serving, NothingSent, Started, Said, Sealed, Typing, TypeOK,
     KbdTypeOK, wire, hostVars, Goto, SerialFirst, OnSerial, Inject
<1>4. GrabInv'
  BY WireAssumption DEF GrabInv, SentBound, Typed, Genuine, Covered, Blocked, DownTyped, PressedDown,
     Grabbed, WireInv, Places, Ends, Serving, NothingSent, Started, Said, Sealed, Typing, KeysClean,
     TypeOK, KbdTypeOK, wire, hostVars, Goto, SerialFirst, OnSerial, Inject
<1>. QED
  BY <1>1, <1>2, <1>3, <1>4 DEF TypeOK, WireTypeOK

\* serial_loop's end on silence.
LEMMA SerialSilenceKept ==
  ASSUME KbdInv, SerialSilence
  PROVE  KbdInv'
<1> USE DEF KbdInv
<1>1. KbdTypeOK' /\ DaemonInv'
  BY Ending DEF TypeOK, wire, hostVars, Goto, SerialSilence, OnSerial, SessionEnd
<1>2. WireTypeOK'
  BY WireAssumption DEF WireTypeOK, TypeOK, wire, hostVars, Goto, SerialSilence, OnSerial, SessionEnd
<1>3. WireInv'
  BY WireAssumption DEF WireInv, Places, Ends, Serving, NothingSent, Started, Said, Sealed, Typing, TypeOK,
     KbdTypeOK, wire, hostVars, Goto, SerialSilence, OnSerial, SessionEnd
<1>4. GrabInv'
  BY WireAssumption DEF GrabInv, SentBound, Typed, Genuine, Covered, Blocked, DownTyped, PressedDown,
     Grabbed, WireInv, Places, Ends, Serving, NothingSent, Started, Said, Sealed, Typing, KeysClean,
     TypeOK, KbdTypeOK, wire, hostVars, Goto, SerialSilence, OnSerial, SessionEnd
<1>. QED
  BY <1>1, <1>2, <1>3, <1>4 DEF TypeOK, WireTypeOK

\* A read of the line fails.
LEMMA SerialErrorKept ==
  ASSUME KbdInv, SerialError
  PROVE  KbdInv'
<1> USE DEF KbdInv
<1>1. KbdTypeOK' /\ DaemonInv'
  <2>1. pc # "off" /\ Die({}) /\ {} \in SUBSET {"killed"}
    BY DEF SerialError, OnSerial
  <2>. QED
    BY <2>1, Dying DEF TypeOK
<1>2. WireTypeOK'
  BY WireAssumption DEF WireTypeOK, TypeOK, machine, local, wire, hostVars, Goto, SerialError, OnSerial, Die
<1>3. WireInv'
  BY WireAssumption DEF WireInv, Places, Ends, Serving, NothingSent, Started, Said, Sealed, Typing, TypeOK,
     KbdTypeOK, machine, local, wire, hostVars, Goto, SerialError, OnSerial, Die
<1>4. GrabInv'
  BY WireAssumption DEF GrabInv, SentBound, Typed, Genuine, Covered, Blocked, DownTyped, PressedDown,
     Grabbed, WireInv, Places, Ends, Serving, NothingSent, Started, Said, Sealed, Typing, KeysClean,
     TypeOK, KbdTypeOK, machine, local, wire, hostVars, Goto, SerialError, OnSerial, Die
<1>. QED
  BY <1>1, <1>2, <1>3, <1>4 DEF TypeOK, WireTypeOK

\* session_file applies a frame.
LEMMA FileReadsKept ==
  ASSUME KbdInv, FileReads
  PROVE  KbdInv'
<1> USE DEF KbdInv
<1>1. KbdTypeOK' /\ DaemonInv'
  BY Injecting DEF TypeOK, wire, hostVars, Goto, FileReads, FileFrame, Inject
<1>2. WireTypeOK'
  BY WireAssumption DEF WireTypeOK, TypeOK, wire, hostVars, Goto, FileReads, FileFrame, Inject
<1>3. WireInv'
  BY WireAssumption DEF WireInv, Places, Ends, Serving, NothingSent, Started, Said, Sealed, Typing, TypeOK,
     KbdTypeOK, wire, hostVars, Goto, FileReads, FileFrame, Inject
<1>4. GrabInv'
  BY WireAssumption DEF GrabInv, SentBound, Typed, Genuine, Covered, Blocked, DownTyped, PressedDown,
     Grabbed, WireInv, Places, Ends, Serving, NothingSent, Started, Said, Sealed, Typing, KeysClean,
     TypeOK, KbdTypeOK, wire, hostVars, Goto, FileReads, FileFrame, Inject
<1>. QED
  BY <1>1, <1>2, <1>3, <1>4 DEF TypeOK, WireTypeOK

\* session_file's end.
LEMMA FileEndsKept ==
  ASSUME KbdInv, FileEnds
  PROVE  KbdInv'
<1> USE DEF KbdInv
<1>1. KbdTypeOK' /\ DaemonInv'
  BY Ending DEF TypeOK, wire, hostVars, Goto, FileEnds, FileEnd, SessionEnd
<1>2. WireTypeOK'
  BY WireAssumption DEF WireTypeOK, TypeOK, wire, hostVars, Goto, FileEnds, FileEnd, SessionEnd
<1>3. WireInv'
  BY WireAssumption DEF WireInv, Places, Ends, Serving, NothingSent, Started, Said, Sealed, Typing, TypeOK,
     KbdTypeOK, wire, hostVars, Goto, FileEnds, FileEnd, SessionEnd
<1>4. GrabInv'
  BY WireAssumption DEF GrabInv, SentBound, Typed, Genuine, Covered, Blocked, DownTyped, PressedDown,
     Grabbed, WireInv, Places, Ends, Serving, NothingSent, Started, Said, Sealed, Typing, KeysClean,
     TypeOK, KbdTypeOK, wire, hostVars, Goto, FileEnds, FileEnd, SessionEnd
<1>. QED
  BY <1>1, <1>2, <1>3, <1>4 DEF TypeOK, WireTypeOK

\* SIGTERM, SIGINT or SIGHUP: with the process go its sockets.
LEMMA SignalledKept ==
  ASSUME KbdInv, Signalled, trouble < MaxTrouble, trouble' = trouble + 1
  PROVE  KbdInv'
<1> USE DEF KbdInv
<1>1. KbdTypeOK' /\ DaemonInv'
  BY Signalling DEF TypeOK, hostVars, Goto, Signalled, OnSignal, Dies, Closed
<1>2. WireTypeOK'
  <2>1. trouble' \in 0..MaxTrouble
    BY WireAssumption DEF TypeOK
  <2>2. toTT' = <<>> /\ applied' = <<>> /\ ctr' = 0 /\ link' \in {"none", "ended"}
    BY DEF Signalled, Dies, Closed
  <2>. QED
    BY <2>1, <2>2, RecordsMade DEF WireTypeOK, TypeOK, Signalled, hostVars
<1>3. WireInv'
  BY WireAssumption DEF WireInv, Places, Ends, Serving, NothingSent, Started, Said, Sealed, Typing, TypeOK,
     KbdTypeOK, hostVars, Goto, Signalled, OnSignal, Dies, Closed
<1>4. GrabInv'
  BY WireAssumption DEF GrabInv, SentBound, Typed, Genuine, Covered, Blocked, DownTyped, PressedDown,
     Grabbed, WireInv, Places, Ends, Serving, NothingSent, Started, Said, Sealed, Typing, KeysClean,
     TypeOK, KbdTypeOK, hostVars, Goto, Signalled, OnSignal, Dies, Closed
<1>. QED
  BY <1>1, <1>2, <1>3, <1>4 DEF TypeOK, WireTypeOK

\* kill -9.
LEMMA KilledKept ==
  ASSUME KbdInv, Killed, trouble < MaxTrouble, trouble' = trouble + 1
  PROVE  KbdInv'
<1> USE DEF KbdInv
<1>1. KbdTypeOK' /\ DaemonInv'
  BY Dying DEF TypeOK, machine, local, hostVars, Goto, Killed, Kill, Die, Dies, Closed
<1>2. WireTypeOK'
  <2>1. trouble' \in 0..MaxTrouble
    BY WireAssumption DEF TypeOK
  <2>2. toTT' = <<>> /\ applied' = <<>> /\ ctr' = 0 /\ link' \in {"none", "ended"}
    BY DEF Killed, Dies, Closed
  <2>. QED
    BY <2>1, <2>2, RecordsMade DEF WireTypeOK, TypeOK, Killed, hostVars
<1>3. WireInv'
  BY WireAssumption DEF WireInv, Places, Ends, Serving, NothingSent, Started, Said, Sealed, Typing, TypeOK,
     KbdTypeOK, machine, local, hostVars, Goto, Killed, Kill, Die, Dies, Closed
<1>4. GrabInv'
  BY WireAssumption DEF GrabInv, SentBound, Typed, Genuine, Covered, Blocked, DownTyped, PressedDown,
     Grabbed, WireInv, Places, Ends, Serving, NothingSent, Started, Said, Sealed, Typing, KeysClean,
     TypeOK, KbdTypeOK, machine, local, hostVars, Goto, Killed, Kill, Die, Dies, Closed
<1>. QED
  BY <1>1, <1>2, <1>3, <1>4 DEF TypeOK, WireTypeOK

\* A new ttkbdd, ttkbdd --release, or a touch of the TT's mouse.
LEMMA StartsKept ==
  ASSUME KbdInv, Starts
  PROVE  KbdInv'
<1> USE DEF KbdInv
<1>1. KbdTypeOK' /\ DaemonInv'
  BY Starting, Releasing, Touching DEF TypeOK, machine, local, wire, hostVars, Goto, Starts, Start,
     ReleaseAll, LocalMouse, Idle
<1>2. WireTypeOK'
  BY WireAssumption DEF WireTypeOK, TypeOK, machine, local, wire, hostVars, Goto, Starts, Start,
     ReleaseAll, LocalMouse, Idle
<1>3. WireInv'
  <2>1. CASE host = "out" /\ toTT = <<>> /\ \E m \in Modes : Start(m)
    <3> PICK m \in Modes : Start(m)  BY <2>1
    <3>1. m \in {"net", "serial",
       "file"} /\ pc' = (IF m = "file" THEN "begin" ELSE IF m = "net" THEN "listen" ELSE "idle")
      BY KbdAssumption DEF Start, Goto, Idle
    <3>2. mode' = m /\ pc = "off" /\ link = "none" /\ UNCHANGED <<link, toTT, toHost, ctr, host, applied>>
      BY <2>1 DEF Starts, Start, ReleaseAll, LocalMouse, wire, hostVars, WireInv, Ends
    <3>. QED
      BY <2>1, <3>1, <3>2 DEF WireInv, Places, Ends, Serving, NothingSent, Started, Said, Sealed, Typing
  <2>2. CASE ReleaseAll \/ LocalMouse
    BY <2>2 DEF WireInv, Places, Ends, Serving, NothingSent, Started, Said, Sealed, Typing, Starts,
       ReleaseAll, LocalMouse, wire, hostVars
  <2>. QED
    BY <2>1, <2>2 DEF Starts
<1>4. GrabInv'
  BY WireAssumption DEF GrabInv, SentBound, Typed, Genuine, Covered, Blocked, DownTyped, PressedDown,
     Grabbed, WireInv, Places, Ends, Serving, NothingSent, Started, Said, Sealed, Typing, KeysClean,
     TypeOK, KbdTypeOK, machine, local, wire, hostVars, Goto, Starts, Start, ReleaseAll, LocalMouse, Idle
<1>. QED
  BY <1>1, <1>2, <1>3, <1>4 DEF TypeOK, WireTypeOK

\* The host connects.
LEMMA ConnectKept ==
  ASSUME KbdInv, Connect
  PROVE  KbdInv'
<1> USE DEF KbdInv
<1>1. KbdTypeOK' /\ DaemonInv'
  BY Still DEF TypeOK, kbdVars, machine, local, Connect
<1>2. WireTypeOK'
  BY WireAssumption DEF WireTypeOK, TypeOK, kbdVars, machine, local, Connect
<1>3. WireInv'
  BY WireAssumption DEF WireInv, Places, Ends, Serving, NothingSent, Started, Said, Sealed, Typing, TypeOK,
     KbdTypeOK, kbdVars, machine, local, Connect
<1>4. GrabInv'
  BY WireAssumption DEF GrabInv, SentBound, Typed, Genuine, Covered, Blocked, DownTyped, PressedDown,
     Grabbed, WireInv, Places, Ends, Serving, NothingSent, Started, Said, Sealed, Typing, KeysClean,
     TypeOK, KbdTypeOK, kbdVars, machine, local, Connect
<1>. QED
  BY <1>1, <1>2, <1>3, <1>4 DEF TypeOK, WireTypeOK

\* The host opens the serial line.
LEMMA OpenSerialKept ==
  ASSUME KbdInv, OpenSerial
  PROVE  KbdInv'
<1> USE DEF KbdInv
<1>1. KbdTypeOK' /\ DaemonInv'
  BY Still DEF TypeOK, kbdVars, machine, local, OpenSerial, Grabs
<1>2. WireTypeOK'
  BY WireAssumption DEF WireTypeOK, TypeOK, kbdVars, machine, local, OpenSerial, Grabs
<1>3. WireInv'
  BY WireAssumption DEF WireInv, Places, Ends, Serving, NothingSent, Started, Said, Sealed, Typing, TypeOK,
     KbdTypeOK, kbdVars, machine, local, OpenSerial, Grabs
<1>4. GrabInv'
  <2>1. sent' = <<>> /\ Len(sent') = 0 /\ mode' = "serial" /\ ~Grabbed'
    BY DEF OpenSerial, Grabs, Grabbed, kbdVars
  <2>. QED
    BY <2>1, WireAssumption DEF GrabInv, SentBound, Typed, Genuine, Covered, DownTyped, PressedDown,
       LastIsMake
<1>. QED
  BY <1>1, <1>2, <1>3, <1>4 DEF TypeOK, WireTypeOK

\* The host answers the hello.
LEMMA SendAuthKept ==
  ASSUME KbdInv, NEW a \in {"good", "bad"}, SendAuth(a)
  PROVE  KbdInv'
<1> USE DEF KbdInv
<1>1. KbdTypeOK' /\ DaemonInv'
  BY Still DEF TypeOK, kbdVars, machine, local, SendAuth
<1>2. WireTypeOK'
  BY WireAssumption DEF WireTypeOK, TypeOK, kbdVars, machine, local, SendAuth
<1>3. WireInv'
  BY WireAssumption DEF WireInv, Places, Ends, Serving, NothingSent, Started, Said, Sealed, Typing, TypeOK,
     KbdTypeOK, kbdVars, machine, local, SendAuth
<1>4. GrabInv'
  BY WireAssumption DEF GrabInv, SentBound, Typed, Genuine, Covered, Blocked, DownTyped, PressedDown,
     Grabbed, WireInv, Places, Ends, Serving, NothingSent, Started, Said, Sealed, Typing, KeysClean,
     TypeOK, KbdTypeOK, kbdVars, machine, local, SendAuth
<1>. QED
  BY <1>1, <1>2, <1>3, <1>4 DEF TypeOK, WireTypeOK

\* The accept byte reaches the host and the grab begins: nothing is sent, on the way or applied.
LEMMA ReadyKept ==
  ASSUME KbdInv, Ready
  PROVE  KbdInv'
<1> USE DEF KbdInv
<1>1. KbdTypeOK' /\ DaemonInv'
  BY Still DEF TypeOK, kbdVars, machine, local, Ready, Grabs
<1>2. WireTypeOK'
  BY WireAssumption DEF WireTypeOK, TypeOK, kbdVars, machine, local, Ready, Grabs
<1>3. WireInv'
  <2>1. toHost = <<"ok">> /\ toHost' = <<>>
    <3>1. toHost \in {<<>>, <<"ok">>,
       <<"corner">>} /\ toHost # <<>> /\ Head(toHost) = "ok" /\ toHost' = Tail(toHost)
      BY DEF Ready, WireInv, Said
    <3>. QED
      BY <3>1
  <2>2. host = "wait" /\ host' = "grab" /\ UNCHANGED <<mode, pc, link, toTT, ctr, applied>>
    BY DEF Ready, Grabs, kbdVars
  <2>. QED
    BY <2>1, <2>2 DEF WireInv, Places, Ends, Serving, NothingSent, Started, Said, Sealed, Typing
<1>4. GrabInv'
  <2>1. sent' = <<>> /\ Len(sent') = 0 /\ toTT' = toTT /\ UNCHANGED <<mode, pc, link, ctr, applied, down,
     dirty>>
    BY DEF Ready, Grabs, kbdVars, machine
  <2>2. Grabbed' => link = "up" /\ toTT = <<>> /\ Len(applied) = 0 /\ ctr = 0
    BY <2>1 DEF Ready, Grabbed, WireInv, Ends, NothingSent, Started
  <2>3. Typed' /\ Genuine' /\ Covered'
    BY <2>1, <2>2 DEF Typed, Genuine, Covered
  <2>. QED
    BY <2>1, <2>3, WireAssumption DEF GrabInv, SentBound, DownTyped, KeysClean, Typing, PressedDown,
       LastIsMake
<1>. QED
  BY <1>1, <1>2, <1>3, <1>4 DEF TypeOK, WireTypeOK

\* The host gives up before its grab.
LEMMA GiveUpKept ==
  ASSUME KbdInv, GiveUp
  PROVE  KbdInv'
<1> USE DEF KbdInv
<1>1. KbdTypeOK' /\ DaemonInv'
  BY Still DEF TypeOK, kbdVars, machine, local, GiveUp, Shut
<1>2. WireTypeOK'
  <2>1. [n |-> 0, f |-> Quit] \in Records
    BY RecordsMade DEF Frames
  <2>2. Append(toTT, [n |-> 0, f |-> Quit]) \in Seq(Records) /\ <<>> \in Seq(Records)
    BY <2>1, AppendProperties DEF TypeOK
  <2>3. toTT' \in Seq(Records)
    BY <2>2 DEF GiveUp, Shut, TypeOK
  <2>4. link' \in {"shut", "none",
     link} /\ sent' = <<>> /\ phys' = {} /\ kdown' = {} /\ host' = "out" /\ auth' = auth
    BY DEF GiveUp, Shut, TypeOK
  <2>. QED
    BY <2>3, <2>4 DEF WireTypeOK, TypeOK, GiveUp
<1>3. WireInv'
  BY WireAssumption DEF WireInv, Places, Ends, Serving, NothingSent, Started, Said, Sealed, Typing, TypeOK,
     KbdTypeOK, kbdVars, machine, local, GiveUp, Shut
<1>4. GrabInv'
  BY WireAssumption DEF GrabInv, SentBound, Typed, Genuine, Covered, Blocked, DownTyped, PressedDown,
     Grabbed, WireInv, Places, Ends, Serving, NothingSent, Started, Said, Sealed, Typing, KeysClean,
     TypeOK, KbdTypeOK, kbdVars, machine, local, GiveUp, Shut
<1>. QED
  BY <1>1, <1>2, <1>3, <1>4 DEF TypeOK, WireTypeOK

\* A frame that is sent leaves the rules of the connection as they are.
LEMMA SendingWire ==
  ASSUME KbdInv, NEW f, Send(f)
  PROVE  WireInv'
<1> USE DEF KbdInv, WireInv
<1>1. /\ UNCHANGED <<mode, pc, link, host, ctr, applied, toHost>> /\ host = "grab"
      /\ toTT' = IF link = "up" \/ mode = "serial" THEN Append(toTT, [n |-> Len(sent), f |-> f]) ELSE toTT
      /\ Len(sent) < MaxSent
  BY DEF Send, kbdVars, machine, local
<1>2. Places' /\ Ends'
  BY <1>1 DEF Places, Ends
<1>3. Serving'
  BY <1>1 DEF Serving, Typing
<1>4. NothingSent'
  BY <1>1 DEF NothingSent, Ends
<1>5. Started' /\ Said'
  BY <1>1 DEF Started, Said, Typing
<1>6. Sealed'
  <2>1. toTT \in Seq(Records) /\ Len(sent) \in Nat
    BY DEF TypeOK, WireTypeOK
  <2>2. CASE toTT' = toTT
    BY <1>1, <2>2 DEF Sealed
  <2>3. CASE toTT' = Append(toTT, [n |-> Len(sent), f |-> f])
    <3>1. /\ DOMAIN toTT' = 1..(Len(toTT) + 1) /\ DOMAIN toTT = 1..Len(toTT) /\ Len(toTT) \in Nat
          /\ toTT'[Len(toTT) + 1].n = Len(sent)
          /\ \A i \in 1..Len(toTT) : toTT'[i] = toTT[i]
      BY <2>1, <2>3
    <3>2. QED
      BY <1>1, <2>1, <3>1, WireAssumption DEF Sealed
  <2>4. QED
    BY <1>1, <2>2, <2>3
<1>7. QED
  BY <1>2, <1>3, <1>4, <1>5, <1>6

\* A key goes down on the host.
LEMMA KeyDownKept ==
  ASSUME KbdInv, NEW k \in Keys, KeyDown(k)
  PROVE  KbdInv'
<1> USE DEF KbdInv
<1>1. KbdTypeOK' /\ DaemonInv'
  BY Still DEF TypeOK, kbdVars, machine, local, KeyDown, Send
<1>2. WireTypeOK'
  <2>1. Make(k) \in Frames /\ Send(Make(k))
    BY DEF KeyDown, Frames
  <2>. QED
    BY <2>1, Sending DEF KeyDown, Send, WireTypeOK, TypeOK, GrabInv
<1>3. WireInv'
  BY SendingWire DEF KeyDown
<1>4. GrabInv'
  <2>1. Make(k) \in Frames /\ Send(Make(k)) /\ \A j \in Keys : Make(k) = Make(j) => j = k
    BY DEF KeyDown, Frames, Make
  <2>. QED
    BY <2>1, PressGrab DEF KeyDown, TypeOK
<1>. QED
  BY <1>1, <1>2, <1>3, <1>4 DEF TypeOK, WireTypeOK

\* A key goes up on the host.
LEMMA KeyUpKept ==
  ASSUME KbdInv, NEW k \in Keys, KeyUp(k)
  PROVE  KbdInv'
<1> USE DEF KbdInv
<1>1. KbdTypeOK' /\ DaemonInv'
  BY Still DEF TypeOK, kbdVars, machine, local, KeyUp, Send
<1>2. WireTypeOK'
  <2>1. Break(k) \in Frames /\ Send(Break(k))
    BY DEF KeyUp, Frames
  <2>. QED
    BY <2>1, Sending DEF KeyUp, Send, WireTypeOK, TypeOK, GrabInv
<1>3. WireInv'
  BY SendingWire DEF KeyUp
<1>4. GrabInv'
  <2>1. Break(k) \in Frames /\ Send(Break(k)) /\ \A j \in Keys : Break(k) # Make(j)
    BY DEF KeyUp, Frames, Make, Break
  <2>. QED
    BY <2>1, PressGrab DEF KeyUp, TypeOK
<1>. QED
  BY <1>1, <1>2, <1>3, <1>4 DEF TypeOK, WireTypeOK

\* The host's own key repeat.
LEMMA RepeatKept ==
  ASSUME KbdInv, NEW k \in Keys, Repeat(k)
  PROVE  KbdInv'
<1> USE DEF KbdInv
<1>1. KbdTypeOK' /\ DaemonInv'
  BY Still DEF TypeOK, kbdVars, machine, local, Repeat, Send
<1>2. WireTypeOK'
  <2>1. Make(k) \in Frames /\ Send(Make(k))
    BY DEF Repeat, Frames
  <2>. QED
    BY <2>1, Sending DEF Repeat, Send, WireTypeOK, TypeOK, GrabInv
<1>3. WireInv'
  BY SendingWire DEF Repeat
<1>4. GrabInv'
  <2>1. Make(k) \in Frames /\ Send(Make(k)) /\ \A j \in Keys : Make(k) = Make(j) => j = k
    BY DEF Repeat, Frames, Make
  <2>. QED
    BY <2>1, PressGrab DEF Repeat, TypeOK
<1>. QED
  BY <1>1, <1>2, <1>3, <1>4 DEF TypeOK, WireTypeOK

\* The host's mouse.
LEMMA MouseEventKept ==
  ASSUME KbdInv, NEW f \in MouseFrames, MouseEvent(f)
  PROVE  KbdInv'
<1> USE DEF KbdInv
<1>1. KbdTypeOK' /\ DaemonInv'
  BY Still DEF TypeOK, kbdVars, machine, local, MouseEvent, Send
<1>2. WireTypeOK'
  <2>1. f \in Frames /\ Send(f)
    BY DEF MouseEvent, Frames
  <2>. QED
    BY <2>1, Sending DEF MouseEvent, Send, WireTypeOK, TypeOK, GrabInv
<1>3. WireInv'
  BY SendingWire DEF MouseEvent
<1>4. GrabInv'
  <2>1. f \in Frames /\ Send(f) /\ \A k \in Keys : f # Make(k)
    BY DEF MouseEvent, Frames, MouseFrames, Mouse, Make
  <2>. QED
    BY <2>1, PressGrab DEF MouseEvent, TypeOK
<1>. QED
  BY <1>1, <1>2, <1>3, <1>4 DEF TypeOK, WireTypeOK

\* A heartbeat.
LEMMA HeartbeatKept ==
  ASSUME KbdInv, Heartbeat
  PROVE  KbdInv'
<1> USE DEF KbdInv
<1>1. KbdTypeOK' /\ DaemonInv'
  BY Still DEF TypeOK, kbdVars, machine, local, Heartbeat, Send
<1>2. WireTypeOK'
  BY Sending DEF Heartbeat, Send, Frames, WireTypeOK, TypeOK, GrabInv
<1>3. WireInv'
  BY SendingWire DEF Heartbeat
<1>4. GrabInv'
  <2>1. Beat \in Frames /\ Send(Beat) /\ \A k \in Keys : Beat # Make(k)
    BY DEF Heartbeat, Frames, Beat, Make
  <2>. QED
    BY <2>1, PressGrab DEF Heartbeat, TypeOK
<1>. QED
  BY <1>1, <1>2, <1>3, <1>4 DEF TypeOK, WireTypeOK

\* grab ends.
LEMMA EndGrabKept ==
  ASSUME KbdInv, EndGrab
  PROVE  KbdInv'
<1> USE DEF KbdInv
<1>1. KbdTypeOK' /\ DaemonInv'
  BY Still DEF TypeOK, kbdVars, machine, local, EndGrab, Shut
<1>2. WireTypeOK'
  <2>1. [n |-> 0, f |-> Quit] \in Records
    BY RecordsMade DEF Frames
  <2>2. Append(toTT, [n |-> 0, f |-> Quit]) \in Seq(Records) /\ <<>> \in Seq(Records)
    BY <2>1, AppendProperties DEF TypeOK
  <2>3. toTT' \in Seq(Records)
    BY <2>2 DEF EndGrab, Shut, TypeOK
  <2>4. link' \in {"shut", "none",
     link} /\ sent' = <<>> /\ phys' = {} /\ kdown' = {} /\ host' = "out" /\ auth' = auth
    BY DEF EndGrab, Shut, TypeOK
  <2>. QED
    BY <2>3, <2>4 DEF WireTypeOK, TypeOK, EndGrab
<1>3. WireInv'
  BY WireAssumption DEF WireInv, Places, Ends, Serving, NothingSent, Started, Said, Sealed, Typing, TypeOK,
     KbdTypeOK, kbdVars, machine, local, EndGrab, Shut
<1>4. GrabInv'
  BY WireAssumption DEF GrabInv, SentBound, Typed, Genuine, Covered, Blocked, DownTyped, PressedDown,
     Grabbed, WireInv, Places, Ends, Serving, NothingSent, Started, Said, Sealed, Typing, KeysClean,
     TypeOK, KbdTypeOK, kbdVars, machine, local, EndGrab, Shut
<1>. QED
  BY <1>1, <1>2, <1>3, <1>4 DEF TypeOK, WireTypeOK

\* The sender is killed.
LEMMA HostDiesKept ==
  ASSUME KbdInv, HostDies
  PROVE  KbdInv'
<1> USE DEF KbdInv
<1>1. KbdTypeOK' /\ DaemonInv'
  BY Still DEF TypeOK, kbdVars, machine, local, HostDies
<1>2. WireTypeOK'
  BY WireAssumption DEF WireTypeOK, TypeOK, kbdVars, machine, local, HostDies
<1>3. WireInv'
  BY WireAssumption DEF WireInv, Places, Ends, Serving, NothingSent, Started, Said, Sealed, Typing, TypeOK,
     KbdTypeOK, kbdVars, machine, local, HostDies
<1>4. GrabInv'
  BY WireAssumption DEF GrabInv, SentBound, Typed, Genuine, Covered, Blocked, DownTyped, PressedDown,
     Grabbed, WireInv, Places, Ends, Serving, NothingSent, Started, Said, Sealed, Typing, KeysClean,
     TypeOK, KbdTypeOK, kbdVars, machine, local, HostDies
<1>. QED
  BY <1>1, <1>2, <1>3, <1>4 DEF TypeOK, WireTypeOK

\* A fault of the wire.
LEMMA WireFaultKept ==
  ASSUME KbdInv, WireFault
  PROVE  KbdInv'
<1> USE DEF KbdInv
<1>1. KbdTypeOK' /\ DaemonInv'
  BY Still DEF TypeOK, kbdVars, machine, local, hostVars, WireFault
<1>2. WireTypeOK'
  <2>1. toTT' \in Seq(Records)
    BY Faulted DEF GrabInv
  <2>2. trouble' \in 0..MaxTrouble
    BY WireAssumption DEF WireFault, TypeOK
  <2>3. link' \in {link, "cut"}
    BY DEF WireFault
  <2>. QED
    BY <2>1, <2>2, <2>3 DEF WireFault, WireTypeOK, TypeOK, kbdVars, machine, local, hostVars
<1>3. WireInv'
  <2>1. Places'
    BY WireAssumption, KbdAssumption DEF WireInv, Places, TypeOK, KbdTypeOK, kbdVars, machine, local,
       hostVars, WireFault
  <2>2. Ends'
    BY WireAssumption, KbdAssumption DEF WireInv, Ends, Places, Serving, TypeOK, KbdTypeOK, kbdVars,
       machine, local, hostVars, WireFault
  <2>3. Serving'
    BY WireAssumption, KbdAssumption DEF WireInv, Serving, Said, Places, Typing, Ends, NothingSent, TypeOK,
       KbdTypeOK, kbdVars, machine, local, hostVars, WireFault
  <2>4. NothingSent'
    BY WireAssumption, KbdAssumption DEF WireInv, NothingSent, Ends, Places, TypeOK, KbdTypeOK, kbdVars,
       machine, local, hostVars, WireFault
  <2>5. Started'
    BY WireAssumption, KbdAssumption DEF WireInv, Started, Typing, Sealed, Serving, Places, NothingSent,
       Ends, TypeOK, KbdTypeOK, kbdVars, machine, local, hostVars, WireFault
  <2>6. Said'
    BY WireAssumption, KbdAssumption DEF WireInv, Said, Places, Ends, Serving, TypeOK, KbdTypeOK, kbdVars,
       machine, local, hostVars, WireFault
  <2>7. Sealed'
    <3>1. mode' = mode
      BY DEF WireFault, kbdVars
    <3>. QED
      BY <3>1, Faulted DEF GrabInv, WireInv, Sealed
  <2>. QED
    BY <2>1, <2>2, <2>3, <2>4, <2>5, <2>6, <2>7 DEF WireInv
<1>4. GrabInv'
  <2>1. UNCHANGED <<mode, pc, sent, applied, ctr, host, phys, down, dirty>> /\ (Grabbed' => Grabbed)
    BY DEF WireFault, kbdVars, machine, local, hostVars, Grabbed
  <2>. QED
    BY <2>1, WireFaultGrab DEF GrabInv, SentBound, Typed, DownTyped, KeysClean, Typing, PressedDown
<1>. QED
  BY <1>1, <1>2, <1>3, <1>4 DEF TypeOK, WireTypeOK

-----------------------------------------------------------------------------
(***************************************************************************)
(* The theorems.                                                           *)
(***************************************************************************)
\* The invariant holds before anything runs.
LEMMA Initially == Init => KbdInv
<1>1. SUFFICES ASSUME Init PROVE KbdInv
  OBVIOUS
<1>2. mode \in {"net", "serial",
   "file"} /\ starts \in 0..MaxStarts /\ pc = "off" /\ host = "out" /\ link = "none"
  BY <1>1, KbdAssumption DEF Init, KbdInit
<1>3. KbdTypeOK
  BY <1>1, <1>2 DEF Init, KbdInit, KbdTypeOK, Rates, NoRate, NoCur
<1>4. DaemonInv
  BY <1>1 DEF Init, KbdInit, DaemonInv, Fresh, RateKept, InHand, KeysHeld, ButtonHeld, ArmedOutside,
     AtRest, InSession, Waiting, KeysClean
<1>5. toTT = <<>> /\ sent = <<>> /\ applied = <<>> /\ toHost = <<>> /\ Len(sent) = 0 /\ Len(applied) = 0 /\ ctr = 0
  BY <1>1 DEF Init
<1>6. WireTypeOK
  BY <1>1, <1>5, RecordsMade, WireAssumption DEF Init, WireTypeOK
<1>7. WireInv
  BY <1>2, <1>5, WireAssumption DEF WireInv, Places, Ends, Serving, NothingSent, Started, Said, Sealed,
     Typing
<1>8. GrabInv
  BY <1>2, <1>5, WireAssumption DEF GrabInv, SentBound, Typed, Genuine, Covered, Grabbed, DownTyped,
     Typing, PressedDown
<1>. QED
  BY <1>3, <1>4, <1>6, <1>7, <1>8 DEF KbdInv, TypeOK, WireTypeOK

\* And every step keeps it.
LEMMA NextKept == KbdInv /\ [Next]_vars => KbdInv'
<1>1. SUFFICES ASSUME KbdInv, [Next]_vars PROVE KbdInv'
  OBVIOUS
<1>2. CASE Serve
  BY <1>1, <1>2, AcceptKept, RefuseKept, VerifyKept, NoTableKept, BeginsKept, SavesKept, WriteAcceptKept,
     AcceptFailsKept, NetRecordKept,
     NetEndKept, RecordedKept DEF Serve
<1>3. CASE Serial
  BY <1>1, <1>3, SerialFrameKept, SerialFirstKept, SerialSilenceKept, SerialErrorKept DEF Serial
<1>4. CASE FileReads \/ FileEnds
  BY <1>1, <1>4, FileReadsKept, FileEndsKept
<1>5. CASE Stops \/ Starts
  BY <1>1, <1>5, SignalledKept, KilledKept, StartsKept DEF Stops
<1>6. CASE Host
  BY <1>1, <1>6, ConnectKept, OpenSerialKept, ReadyKept, GiveUpKept, HeartbeatKept, EndGrabKept,
     HostDiesKept, SendAuthKept, KeyDownKept,
     KeyUpKept, RepeatKept, MouseEventKept DEF Host
<1>7. CASE WireFault
  BY <1>1, <1>7, WireFaultKept
<1>8. CASE UNCHANGED vars
  <2>1. KbdTypeOK' /\ DaemonInv'
    BY <1>1, <1>8, Still DEF vars, KbdInv, TypeOK
  <2>2. WireTypeOK' /\ WireInv'
    BY <1>1, <1>8 DEF vars, KbdInv, TypeOK, WireTypeOK, WireInv, Places, Ends, Serving, NothingSent,
       Started, Said, Sealed, Typing, kbdVars, wire, hostVars
  <2>3. GrabInv'
    BY <1>1, <1>8 DEF vars, KbdInv, GrabInv, SentBound, Typed, Genuine, Covered, Blocked, Grabbed,
       DownTyped, Typing, KeysClean, PressedDown, kbdVars, machine, wire, hostVars
  <2>. QED
    BY <2>1, <2>2, <2>3 DEF KbdInv, TypeOK, WireTypeOK
<1>. QED
  BY <1>1, <1>2, <1>3, <1>4, <1>5, <1>6, <1>7, <1>8 DEF Next

\* With nothing on the way nothing is blocked, so everything sent is applied: a key that is down on
\* the TT is down on the host.
LEMMA NoStuckKeyHolds == KbdInv => NoStuckKey
<1>1. SUFFICES ASSUME KbdInv, NetUp, dirty = {}, host = "grab", link = "up", toTT = <<>>,
   NEW k \in down PROVE k \in phys
  BY DEF NoStuckKey
<1>2. ctr = Len(applied) /\ Len(applied) \in Nat /\ Len(sent) \in Nat /\ k \in Keys
  BY <1>1 DEF KbdInv, TypeOK, KbdTypeOK, WireInv, Started
<1>3. Len(applied) <= Len(sent) /\ \A i \in 1..Len(applied) : applied[i] = sent[i]
  BY <1>1 DEF KbdInv, GrabInv, Typed, Grabbed, NetUp
<1>4. \A m \in ctr..(Len(sent) - 1) : FALSE
  BY <1>1 DEF KbdInv, GrabInv, Covered, Grabbed, NetUp, Blocked
<1>5. Len(applied) = Len(sent)
  <2>1. CASE ctr < Len(sent)
    <3>1. ctr \in ctr..(Len(sent) - 1)
      BY <1>2, <2>1
    <3>. QED
      BY <1>4, <3>1
  <2>. QED
    BY <1>2, <1>3, <2>1
<1>6. applied = sent
  BY <1>1, <1>3, <1>5, SeqEqual DEF KbdInv, TypeOK
<1>7. LastIsMake(applied, k)
  BY <1>1 DEF KbdInv, GrabInv, DownTyped, KeysClean, Typing, NetUp
<1>. QED
  BY <1>1, <1>2, <1>6, <1>7 DEF KbdInv, GrabInv, PressedDown

\* The prefix, in the words of the property.
LEMMA TypedAsSentHolds == KbdInv => TypedAsSent
<1>1. SUFFICES ASSUME KbdInv, NetUp, host = "grab", link \in {"up",
   "cut"} PROVE Len(applied) <= Len(sent) /\ applied = SubSeq(sent, 1, Len(applied))
  BY DEF TypedAsSent
<1>2. Len(applied) <= Len(sent) /\ \A i \in 1..Len(applied) : applied[i] = sent[i]
  BY <1>1 DEF KbdInv, GrabInv, Typed, Grabbed, NetUp
<1>3. sent \in Seq(Frames) /\ applied \in Seq(Frames) /\ Len(applied) \in Nat /\ Len(sent) \in Nat
  BY <1>1 DEF KbdInv, TypeOK
<1>4. \A i \in 1..Len(applied) : sent[i] \in Frames
  BY <1>2, <1>3
<1>5. SubSeq(sent, 1, Len(applied)) \in Seq(Frames) /\ Len(SubSeq(sent, 1, Len(applied))) = Len(applied)
      /\ \A i \in 1..Len(applied) : SubSeq(sent, 1, Len(applied))[i] = sent[i]
  <2>1. SubSeq(sent, 1, Len(applied)) \in Seq(Frames) /\ Len(SubSeq(sent, 1,
     Len(applied))) = (IF 1 <= Len(applied) THEN Len(applied) - 1 + 1 ELSE 0)
        /\ \A i \in 1..(Len(applied) - 1 + 1) : SubSeq(sent, 1, Len(applied))[i] = sent[1 + i - 1]
    BY <1>3, <1>4, SubSeqProperties
  <2>. QED
    BY <1>3, <2>1
<1>. QED
  BY <1>2, <1>3, <1>5, SeqEqual

\* The inductive invariant of the remote keyboard.
THEOREM KbdInvariant == Spec => []KbdInv
  BY Initially, NextKept, PTL DEF Spec

\* Whatever the wire, the signals and the kills do, ttkbdd types a prefix of what was sent, leaves
\* no key stuck once all has come through, and between sessions leaves the TT's keyboard its own
\* (session_end, on_signal, v3_unlock).
THEOREM KeysTrueHolds == Spec => []KeysTrue
<1>1. KbdInv => KeysTrue
  BY TypedAsSentHolds, NoStuckKeyHolds DEF KbdInv, DaemonInv, KeysTrue
<1>. QED
  BY <1>1, KbdInvariant, PTL

\* What the TT says to the host: only the second half of an injection can say corner, and it says so
\* when corner_armed is set.
LEMMA CornerSaid ==
  ASSUME KbdInv, [Next]_vars, toHost' # toHost
  PROVE  toHost' \in {<<>>, <<"ok">>} \/ left
<1> USE DEF KbdInv
<1>1. CASE Serve
  <2>1. ASSUME WriteAccept PROVE toHost' = <<"ok">>
    <3>1. toHost = <<>> /\ toHost' = Append(toHost, "ok")
      BY <2>1 DEF WriteAccept, WireInv, Said, Places
    <3>. QED
      BY <3>1
  <2>2. ASSUME Recorded PROVE left
    BY <2>2 DEF Recorded, Record, HitsCorner, DaemonInv, ArmedOutside, InSession
  <2>. QED
    BY <1>1, <2>1, <2>2 DEF Serve, Accept, Refuse, Verify, NoTable, Begins, Saves, AcceptFails, NetRecord,
       NetEnd, wire
<1>2. CASE Host
  <2>1. ASSUME Ready PROVE toHost' = <<>>
    <3>1. toHost \in {<<>>, <<"ok">>, <<"corner">>} /\ toHost # <<>> /\ toHost' = Tail(toHost)
      BY <2>1 DEF Ready, WireInv, Said
    <3>. QED
      BY <3>1
  <2>. QED
    BY <1>2, <2>1 DEF Host, Connect, OpenSerial, GiveUp, Heartbeat, EndGrab, HostDies, SendAuth, KeyDown,
       KeyUp, Repeat, MouseEvent, Send
<1>3. CASE Serial \/ FileReads \/ FileEnds \/ Stops \/ Starts \/ WireFault \/ UNCHANGED vars
  BY <1>3 DEF Serial, SerialFrame, SerialFirst, SerialSilence, SerialError, FileReads, FileEnds, Stops,
     Signalled, Killed, Starts, WireFault, vars, wire
<1>. QED
  BY <1>1, <1>2, <1>3 DEF Next

\* The TT reports its hot corner only to a host whose session has had the pointer outside it
\* (corner_armed).
THEOREM CornerLeftFirstHolds == Spec => CornerLeftFirst
<1>1. ASSUME KbdInv, [Next]_vars
      PROVE  [ "corner" \in {toHost'[i] : i \in DOMAIN toHost'} /\ toHost # toHost' => left ]_vars
  <2>1. SUFFICES ASSUME "corner" \in {toHost'[i] : i \in DOMAIN toHost'}, toHost' # toHost PROVE left
    OBVIOUS
  <2>2. toHost' # <<>> /\ toHost' # <<"ok">>
    BY <2>1
  <2>. QED
    BY <1>1, <2>1, <2>2, CornerSaid
<1>. QED
  BY <1>1, KbdInvariant, PTL DEF Spec, CornerLeftFirst
=============================================================================
