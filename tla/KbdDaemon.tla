----------------------------- MODULE KbdDaemon ------------------------------
(***************************************************************************)
(* ttkbdd (src/ttkbdd.c): the daemon that types a remote keyboard's frames *)
(* on the TT.  A session loads the unpatched key table, slows the TT's own *)
(* key repeat, injects frames, and at its end releases what it holds and   *)
(* puts table and repeat rate back; so does the handler of SIGTERM, SIGINT *)
(* and SIGHUP.  Three modes: network, serial line, frame file.             *)
(*                                                                         *)
(* An injection and the assignment that records it are two steps (pc       *)
(* "record", "save"): a signal may come between them.  The steps of        *)
(* session_end can be repeated without harm and are one.  Pacing (raw's    *)
(* 20 ms) and the F_ACK reply of the latency tool are left out.            *)
(***************************************************************************)
EXTENDS Naturals, Sequences, FiniteSets

CONSTANTS
  Keys,      \* scancodes SC_MIN..SC_MAX
  Modes,     \* how ttkbdd may be started: a subset of {"net", "serial", "file"}
  Faults,    \* "window": a signal between an injection and its record; "pipe": a write to a closed
             \* connection fails; "serial": a read of the line fails; "kill": kill -9
  MaxStarts  \* processes started

ASSUME KbdAssumption == Modes \subseteq {"net", "serial", "file"} /\ MaxStarts \in Nat
                        /\ Faults \subseteq {"window", "pipe", "serial", "kill"}

VARIABLES
  down, btn,     \* the keys and the mouse button the TT takes to be down
  table, rate,   \* its key table and repeat rate
  corner,        \* the pointer is in the hot corner
  mode, pc,      \* the process: its mode and its place
  held,          \* held[]
  mbuttons,      \* mbuttons # 0
  saved,         \* saved_kbrate
  armed,         \* corner_armed
  cur, old,      \* in hand: the frame being applied, the rate Kbrate has just returned
  starts,
  left,          \* history: a mouse frame of this session has found the pointer outside the corner
  dirty          \* history: what an end without clean-up may have left, until put right;
                 \* "killed" if it was a kill -9

machine == <<down, btn, table, rate, corner>>
local == <<held, mbuttons, saved, armed>>
kbdVars == <<machine, mode, pc, local, cur, old, starts, left, dirty>>

Make(k) == [t |-> "make", k |-> k]
Break(k) == [t |-> "break", k |-> k]
Mouse(b, c) == [t |-> "mouse", b |-> b, c |-> c]   \* c: it moves the pointer into the corner
Beat == [t |-> "beat"]
Quit == [t |-> "quit"]
BadKey == [t |-> "bad"]                            \* a scancode out of range
MouseFrames == {Mouse(b, c) : b \in BOOLEAN, c \in BOOLEAN}
Frames == {Make(k) : k \in Keys} \cup {Break(k) : k \in Keys} \cup MouseFrames \cup {Beat, Quit, BadKey}

NoCur == [t |-> "none"]
NoRate == "none"
Rates == {"boot", "slow"}
Idle == [net |-> "listen", serial |-> "idle"]      \* where the loops wait between sessions
Window == {"record", "save"}
InSession == pc \in {"save", "accept", "up", "record"}

KbdTypeOK ==
  /\ down \subseteq Keys /\ held \subseteq Keys
  /\ btn \in BOOLEAN /\ mbuttons \in BOOLEAN /\ corner \in BOOLEAN /\ armed \in BOOLEAN /\ left \in BOOLEAN
  /\ table \in {"patched", "unpatched"} /\ rate \in Rates /\ saved \in Rates \cup {NoRate}
  /\ mode \in {"net", "serial", "file"}
  /\ pc \in {"off", "listen", "idle", "auth", "begin", "save", "accept", "up", "record"}
  /\ cur \in Frames \cup {NoCur} /\ old \in Rates
  /\ dirty \subseteq {"keys", "mouse", "killed"} /\ starts \in 0..MaxStarts

KbdInit ==
  /\ down = {} /\ btn = FALSE /\ table = "patched" /\ rate = "boot" /\ corner \in BOOLEAN
  /\ mode \in Modes /\ pc = "off" /\ held = {} /\ mbuttons = FALSE /\ saved = NoRate /\ armed = FALSE
  /\ cur = NoCur /\ old = "boot" /\ starts = 0 /\ left = FALSE /\ dirty = {}

Goto(l) == pc' = l
\* A step that moves on and leaves all else of the TT and the daemon as it is.
Moves(l) == Goto(l) /\ UNCHANGED <<machine, mode, local, cur, old, starts, left, dirty>>

-----------------------------------------------------------------------------
(***************************************************************************)
(* The session.                                                            *)
(***************************************************************************)
\* main: a new process; -f begins its session at once.
Start(m) ==
  /\ pc = "off" /\ starts < MaxStarts
  /\ starts' = starts + 1 /\ mode' = m
  /\ Goto(IF m = "file" THEN "begin" ELSE Idle[m])
  /\ held' = {} /\ mbuttons' = FALSE /\ saved' = NoRate /\ armed' = FALSE /\ cur' = NoCur
  /\ UNCHANGED <<machine, old, left, dirty>>

\* session_begin without its table: no session; a serial or file ttkbdd exits.
BeginFails ==
  /\ pc = "begin"
  /\ Goto(IF mode = "net" THEN "listen" ELSE "off") /\ cur' = NoCur
  /\ UNCHANGED <<machine, mode, local, old, starts, left, dirty>>

SessionBegin ==
  /\ pc = "begin" /\ Goto("save")
  /\ table' = "unpatched" /\ rate' = "slow" /\ old' = rate
  /\ left' = FALSE
  /\ UNCHANGED <<down, btn, corner, mode, local, cur, starts, dirty>>

\* saved_kbrate = ...; then serve writes its accept byte, serial_loop applies the frame that
\* opened the session, session_file reads on.
SaveRate ==
  /\ pc = "save" /\ saved' = old /\ old' = "boot"
  /\ Goto(IF mode = "net" THEN "accept" ELSE "up")
  /\ UNCHANGED <<machine, mode, held, mbuttons, armed, cur, starts, left, dirty>>

\* release_held, release_mouse, restore_kbrate, load_table(tbl_patched).
PutBack ==
  /\ down' = down \ held /\ held' = {}
  /\ btn' = (btn /\ ~mbuttons) /\ mbuttons' = FALSE
  /\ rate' = IF saved = NoRate THEN rate ELSE saved
  /\ saved' = NoRate
  /\ table' = "patched" /\ corner' = corner

\* session_end, then on to `next'.
SessionEnd(next) ==
  /\ PutBack /\ armed' = FALSE /\ cur' = NoCur /\ Goto(next)
  /\ UNCHANGED <<mode, old, starts, left, dirty>>

\* Mutant: a release is not recorded.
DownAfter_NoBreak(f) == IF f.t \in {"make", "break"} THEN down \cup {f.k} ELSE down

\* key's injection: the keys down after frame f.
DownAfter(f) == CASE f.t = "make" -> down \cup {f.k} [] f.t = "break" -> down \ {f.k} [] OTHER -> down

\* frame and key or mouse: the injection.  Heartbeats, bad scancodes and (outside
\* serial_loop) quit frames do nothing.
Inject(f) ==
  /\ down' = DownAfter(f)
  /\ held' = IF f.t = "break" THEN held \ {f.k} ELSE held
  /\ btn' = IF f.t = "mouse" THEN f.b ELSE btn
  /\ corner' = IF f.t = "mouse" THEN f.c ELSE corner
  /\ IF f.t \in {"make", "mouse"} THEN Goto("record") /\ cur' = f ELSE Goto("up") /\ cur' = NoCur
  /\ left' = (left \/ (f.t = "mouse" /\ ~f.c))
  /\ UNCHANGED <<table, rate, mode, mbuttons, saved, armed, old, starts, dirty>>

\* held[sc] = 1; mbuttons = buttons and the test of the corner.
HitsCorner == cur.t = "mouse" /\ corner /\ armed
Record ==
  /\ pc = "record" /\ Goto("up") /\ cur' = NoCur
  /\ held' = IF cur.t = "make" THEN held \cup {cur.k} ELSE held
  /\ mbuttons' = IF cur.t = "mouse" THEN cur.b ELSE mbuttons
  /\ armed' = (armed \/ (cur.t = "mouse" /\ ~corner))
  /\ UNCHANGED <<machine, mode, saved, old, starts, left, dirty>>

\* session_file: frames from a file until its end.
FileFrame(f) == mode = "file" /\ pc = "up" /\ Inject(f)
FileEnd == mode = "file" /\ pc = "up" /\ SessionEnd("off")

-----------------------------------------------------------------------------
(***************************************************************************)
(* Ends that are not the session's own.                                    *)
(***************************************************************************)
\* on_signal: cleans up in the handler and exits.  In a window it does not know of the injection.
Unclean == {"keys", "mouse"}
OnSignal ==
  /\ pc # "off" /\ (pc \in Window => "window" \in Faults)
  /\ PutBack /\ Goto("off") /\ cur' = NoCur
  /\ dirty' = IF pc \in Window THEN dirty \cup Unclean ELSE dirty
  /\ UNCHANGED <<mode, armed, old, starts, left>>

\* The process dies with nothing cleaned up.
Die(why) ==
  /\ Goto("off") /\ cur' = NoCur
  /\ dirty' = IF InSession THEN dirty \cup Unclean \cup why ELSE dirty
  /\ UNCHANGED <<machine, mode, local, old, starts, left>>
Kill == "kill" \in Faults /\ pc # "off" /\ Die({"killed"})

\* ttkbdd --release: every scancode, the boot-time rate and the patched table; not the mouse.
ReleaseAll ==
  /\ pc = "off" /\ "keys" \in dirty
  /\ down' = {} /\ rate' = "boot" /\ table' = "patched"
  /\ dirty' = dirty \ {"keys", "killed"}
  /\ UNCHANGED <<btn, corner, mode, pc, local, cur, old, starts, left>>

\* The TT's own mouse, which goes through the same vector.
LocalMouse ==
  /\ pc = "off" /\ "mouse" \in dirty
  /\ btn' = FALSE /\ dirty' = dirty \ {"mouse"}
  /\ UNCHANGED <<down, table, rate, corner, mode, pc, local, cur, old, starts, left>>

=============================================================================
