--------------------------- MODULE SerialConsole ---------------------------
(***************************************************************************)
(* The TT's serial console (Modem 2) and the tools of the management host  *)
(* that share the cable: tt_serial.py, which runs a command on the TT's    *)
(* bash and returns its exit code, and tt_zput.sh, which uploads a file by *)
(* ZMODEM and compares its digest, with two calls of tt_serial.py inside.  *)
(* One lock file keeps them apart.  On the TT, ttygetty restarts the shell *)
(* when it ends; a keyboard session that did not end cleanly leaves        *)
(* ttkbdd -S on the line instead of bash, and the transmitter may stall    *)
(* with output queued until a byte comes in.  `tt_serial.py --clear' takes *)
(* no lock: tt_zput.sh calls it inside its own, and called by itself it    *)
(* writes and reads on a line that somebody else is using.                 *)
(*                                                                         *)
(* Waits are long enough for what they wait for: a bash that is there      *)
(* answers within console_ready's seconds, and a command outlasts its      *)
(* timeout only if it is in long.                                          *)
(***************************************************************************)
EXTENDS Integers, Sequences

CONSTANTS
    Runs,        \* the calls of tt_serial.py COMMAND
    Beside,      \* those that are made where a --clear is called by itself
    Long,        \* those whose command may outlast the timeout
    MaxTx,       \* tokens in the TT's transmit queue
    MaxPend,     \* empty lines that wait for a running command to end
    MaxStalls    \* bound on stalls of the transmitter, in a behaviour without a lone --clear

Zput == "zput"
Clear == "clear"         \* tt_zput's  tt_serial.py --clear
Digest == "digest"       \* tt_zput's  tt_serial.py 'openssl dgst ...'
Lone == "lone"           \* a  tt_serial.py --clear  called by itself
Clears == {Clear, Lone}
Calls == Runs \union {Clear, Digest, Lone}
Nobody == "none"

VARIABLES
    con,       \* the console: st ("bash", "cmd", "rz", "kbd", "exited"), who (whose command runs),
               \*   next (a command line typed meanwhile), pend (empty lines typed meanwhile),
               \*   orphan (did a ttkbdd hold the line at the start),
               \*   torn (the call whose command line lost its beginning while it was typed)
    tx, rx,    \* output in the TT's driver; output that has arrived at the host
    stalled,   \* the transmitter waits for a byte
    stalls,
    lock,      \* who holds /tmp/atari-tt-serial.lock
    long,      \* the runs whose command outlasts the timeout
    call,      \* per call of tt_serial.py: pc, exit (-1 while it runs), of (whose end marker it took)
    zp,        \* tt_zput: pc, exit
    file       \* the uploaded file on the TT: "none", "bad", "good"

conVars == <<con, tx, rx, stalled, stalls, lock, long, call, zp, file>>

ConInit ==
    /\ con \in {[st |-> s, who |-> Nobody, next |-> Nobody, pend |-> 0, orphan |-> s = "kbd", torn |-> Nobody]
                : s \in {"bash", "kbd"}}
    /\ tx = <<>> /\ rx = <<>> /\ stalled = FALSE /\ stalls = 0 /\ lock = Nobody
    /\ \E alone \in SUBSET {Lone} :
          call = [c \in Calls |-> [pc |-> IF c \in alone \union (IF alone = {} THEN Runs ELSE Beside) THEN "start" ELSE "idle",
                                   exit |-> -1, of |-> Nobody]]
    /\ long \in SUBSET Long
    /\ zp = [pc |-> "lock", exit |-> -1] /\ file = "none"

\* What the TT sends: k is "prompt", "zrinit" or "end" (an end marker), id and code are the marker's.
Token(k, id, code) == [k |-> k, id |-> id, code |-> code]
Prompt == Token("prompt", Nobody, 0)
\* Prompts appended to a queue, as far as it holds them.
Prompted(t, n) == t \o [i \in 1 .. IF n < MaxTx - Len(t) THEN n ELSE MaxTx - Len(t) |-> Prompt]
\* The exit code of a call's command; of a line that lost its beginning only the rest is run.
RunCode == 127
TornCode == 0
CodeOf(c) == IF c = Digest THEN (IF file = "good" /\ con.torn # c THEN 0 ELSE 1)
             ELSE IF con.torn = c THEN TornCode ELSE RunCode

\* The port is open while a call is past its start, and from tt_zput's start of rz to its end.
Open == \/ \E c \in Calls : call[c].pc \in {"first", "quit", "second", "type", "wait"}
        \/ zp.pc \in {"rz", "init", "send", "digest", "compare"}

-----------------------------------------------------------------------------
(* The TT. *)

\* A CR, or ^U CR: an idle bash prints a prompt, a running command leaves it queued, ttkbdd swallows it.
Cr(t) == IF con.st = "bash" THEN Prompted(t, 1) ELSE t
CrPend == IF con.st = "cmd" /\ con.pend < MaxPend THEN con.pend + 1 ELSE con.pend

\* The command ends: its printf sends the end marker, then bash answers the lines that waited and
\* starts a command that waited.
CmdEnds ==
    /\ con.st = "cmd"
    /\ tx' = Prompted(Append(tx, Token("end", con.who, CodeOf(con.who))), 1 + con.pend)
    /\ con' = [con EXCEPT !.st = IF con.next = Nobody THEN "bash" ELSE "cmd", !.who = con.next, !.next = Nobody, !.pend = 0]
    /\ UNCHANGED <<rx, stalled, stalls, lock, long, call, zp, file>>

\* ttygetty: waitpid, then a new shell on the line.
Respawn == /\ con.st = "exited" /\ con' = [con EXCEPT !.st = "bash"] /\ tx' = Prompted(tx, 1)
           /\ UNCHANGED <<rx, stalled, stalls, lock, long, call, zp, file>>

\* rz gives up when nothing comes.
RzGivesUp == /\ con.st = "rz" /\ zp.pc \notin {"init", "send"}
             /\ con' = [con EXCEPT !.st = "bash"] /\ tx' = Prompted(tx, 1)
             /\ UNCHANGED <<rx, stalled, stalls, lock, long, call, zp, file>>

\* rz sends its ZRINIT again while no sz answers, at intervals longer than prompt() waits.
RzAgain == /\ con.st = "rz" /\ zp.pc = "init" /\ tx = <<>> /\ rx = <<>>
           /\ call[Lone].pc \notin {"first", "second"}
           /\ tx' = <<Token("zrinit", Nobody, 0)>>
           /\ UNCHANGED <<con, rx, stalled, stalls, lock, long, call, zp, file>>

\* Output reaches the host; it is dropped while nothing has the port open.
Transmit == /\ tx # <<>> /\ ~stalled /\ tx' = Tail(tx)
            /\ rx' = IF Open THEN Append(rx, Head(tx)) ELSE <<>>
            /\ UNCHANGED <<con, stalled, stalls, lock, long, call, zp, file>>
Stall == /\ tx # <<>> /\ ~stalled /\ stalls < MaxStalls /\ call[Lone].pc = "idle"
         /\ stalled' = TRUE /\ stalls' = stalls + 1
         /\ UNCHANGED <<con, tx, rx, lock, long, call, zp, file>>

-----------------------------------------------------------------------------
(* tt_serial.py. *)

Goes(c, pc) == call' = [call EXCEPT ![c].pc = pc]
Exits(c, code, of) == call' = [call EXCEPT ![c] = [pc |-> "ended", exit |-> code, of |-> of]]

\* run takes the lock, unless tt_zput holds it for its caller; --clear takes none, whoever calls it.
Locks(c) == c \in Runs
Start(c) == /\ call[c].pc = "start"
            /\ Locks(c) => lock = Nobody
            /\ lock' = IF Locks(c) THEN c ELSE lock
            /\ Goes(c, "open") /\ UNCHANGED <<con, tx, rx, stalled, stalls, long, zp, file>>

\* open_port flushes the line; prompt() sends ^U CR.
Ask(c, from, to) == /\ call[c].pc = from /\ Goes(c, to)
                    /\ rx' = <<>> /\ stalled' = FALSE /\ tx' = Cr(tx)
                    /\ con' = [con EXCEPT !.pend = CrPend]
                    /\ UNCHANGED <<stalls, lock, long, zp, file>>

\* A prompt is seen: ready.  --clear ends here.
Ready(c) == /\ call[c].pc \in {"first", "second"} /\ rx # <<>> /\ rx' = Tail(rx)
            /\ IF Head(rx).k # "prompt" THEN UNCHANGED call
               ELSE IF c \in Clears THEN Exits(c, 0, Nobody) ELSE Goes(c, "type")
            /\ UNCHANGED <<con, tx, stalled, stalls, lock, long, zp, file>>

\* Nobody answers (or another reader has taken the prompt): a quit frame ends a ttkbdd that was left
\* behind; a second silence gives up.
Silent == rx = <<>> /\ (stalled \/ tx = <<>>)
QuitFrame(st) == IF st = "kbd" THEN "exited" ELSE st
Quits(c) == /\ call[c].pc = "first" /\ Silent /\ Goes(c, "quit")
            /\ con' = [con EXCEPT !.st = QuitFrame(@)]
            /\ UNCHANGED <<tx, rx, stalled, stalls, lock, long, zp, file>>
\* Four seconds for the shell to come back, then prompt() again.
Again(c) == call[c].pc = "quit" /\ con.st # "exited" /\ Ask(c, "quit", "second")
GivesUp(c) == /\ call[c].pc = "second" /\ Silent
              /\ Exits(c, IF c \in Clears THEN 1 ELSE 124, Nobody)
              /\ lock' = IF lock = c THEN Nobody ELSE lock
              /\ UNCHANGED <<con, tx, rx, stalled, stalls, long, zp, file>>

\* CR, flush, then the command line; the marker's two halves are apart in the echo.
Types(c) == /\ call[c].pc = "type" /\ Goes(c, "wait")
            /\ rx' = <<>> /\ stalled' = FALSE
            /\ tx' = Cr(tx)
            /\ con' = CASE con.st = "bash" -> [con EXCEPT !.st = "cmd", !.who = c]
                        [] con.st = "cmd" -> [con EXCEPT !.next = c]
                        [] OTHER -> con
            /\ UNCHANGED <<stalls, lock, long, zp, file>>

\* The line is written in pieces of 32 bytes.  A lone --clear that asks for its prompt between two of
\* them sends a ^U, which kills what bash has of the line; the rest is run as a line of its own.
TypesTorn(c) ==
    /\ call[c].pc = "type" /\ call[Lone].pc = "open" /\ con.st = "bash"
    /\ call' = [call EXCEPT ![c].pc = "wait", ![Lone].pc = "first"]
    /\ rx' = <<>> /\ stalled' = FALSE
    /\ tx' = Prompted(tx, 2)
    /\ con' = [con EXCEPT !.st = "cmd", !.who = c, !.torn = c]
    /\ UNCHANGED <<stalls, lock, long, zp, file>>

\* Mutant: a marker of an earlier call counts.
Marker_Any(c, t) == t.k = "end"

\* The end marker with the tag of this call.  Nothing ends its digits: a read that stops among them
\* matches with the ones that have come.
Marker(c, t) == t.k = "end" /\ t.id = c
Leading(code) == {code} \union ({code \div 10, code \div 100} \ {0})
Reads(c) == /\ call[c].pc = "wait" /\ rx # <<>> /\ rx' = Tail(rx)
            /\ IF Marker(c, Head(rx))
               THEN /\ \E code \in Leading(Head(rx).code) : Exits(c, code, Head(rx).id)
                    /\ lock' = IF lock = c THEN Nobody ELSE lock
               ELSE UNCHANGED <<call, lock>>
            /\ UNCHANGED <<con, tx, stalled, stalls, long, zp, file>>
\* Three seconds of silence: a lone CR restarts a stalled transmitter.
Nudge(c) == call[c].pc = "wait" /\ rx = <<>>
Nudges(c) == /\ Nudge(c) /\ stalled' = FALSE /\ tx' = Cr(tx) /\ con' = [con EXCEPT !.pend = CrPend]
             /\ UNCHANGED <<rx, stalls, lock, long, call, zp, file>>
Marked(c) == \E i \in 1 .. Len(rx \o tx) : Marker(c, (rx \o tx)[i])
TimesOut(c) == /\ call[c].pc = "wait"
               /\ IF c \in {con.who, con.next} THEN c \in long \/ con.who \in long ELSE ~Marked(c)
               /\ Exits(c, 124, Nobody) /\ lock' = IF lock = c THEN Nobody ELSE lock
               /\ UNCHANGED <<con, tx, rx, stalled, stalls, long, zp, file>>

CallStep(c) == \/ Start(c) \/ Ask(c, "open", "first") \/ Ready(c) \/ Quits(c) \/ Again(c)
               \/ GivesUp(c) \/ Types(c) \/ TypesTorn(c) \/ Reads(c) \/ TimesOut(c)

-----------------------------------------------------------------------------
(* tt_zput.sh. *)

Zgoes(pc) == zp' = [zp EXCEPT !.pc = pc]
Zends(code) == zp' = [pc |-> "ended", exit |-> code] /\ lock' = Nobody
Elsewhere == UNCHANGED <<stalls, lock, long, call, file>>

Zlock == /\ zp.pc = "lock" /\ lock = Nobody /\ lock' = Zput /\ Zgoes("clear")
         /\ call' = [call EXCEPT ![Clear].pc = "start"]
         /\ UNCHANGED <<con, tx, rx, stalled, stalls, long, file>>
Zcleared == /\ zp.pc = "clear" /\ call[Clear].exit # -1
            /\ IF call[Clear].exit = 0 THEN Zgoes("rz") /\ UNCHANGED lock ELSE Zends(1)
            /\ UNCHANGED <<con, tx, rx, stalled, stalls, long, call, file>>
\* The port is held open; rz is started at the prompt and its ZRINIT awaited.
ZstartRz == /\ zp.pc = "rz" /\ Zgoes("init") /\ rx' = <<>> /\ stalled' = FALSE
            /\ con' = IF con.st = "bash" THEN [con EXCEPT !.st = "rz"] ELSE con
            /\ tx' = IF con.st = "bash" THEN Append(tx, Token("zrinit", Nobody, 0)) ELSE tx
            /\ Elsewhere
Zinit == /\ zp.pc = "init" /\ rx # <<>> /\ rx' = Tail(rx)
         /\ IF Head(rx).k = "zrinit" THEN Zgoes("send") ELSE UNCHANGED zp
         /\ UNCHANGED <<con, tx, stalled>> /\ Elsewhere
\* No ZRINIT within TT_RZWAIT (rz sends it again, but not while its output is stalled): five CANs.
ZnoInit == /\ zp.pc = "init" /\ rx = <<>> /\ (stalled \/ (tx = <<>> /\ con.st # "rz"))
           /\ Zends(1) /\ stalled' = FALSE
           /\ con' = IF con.st = "rz" THEN [con EXCEPT !.st = "bash"] ELSE con
           /\ tx' = IF con.st = "rz" THEN Prompted(tx, 1) ELSE tx
           /\ UNCHANGED <<rx, stalls, long, call, file>>
\* sz: the file arrives, whole or not, or the transfer fails.
Zsend == /\ zp.pc = "send"
         /\ \/ file' \in {"good", "bad"} /\ Zgoes("digest") /\ UNCHANGED lock
               /\ con' = [con EXCEPT !.st = "bash"] /\ tx' = Prompted(tx, 1)
               /\ call' = [call EXCEPT ![Digest].pc = "start"]
            \/ file' = "bad" /\ Zends(1) /\ UNCHANGED <<con, tx, call>>
         /\ UNCHANGED <<rx, stalled, stalls, long>>
\* The digest over the same line; no output compares as unequal.
Same(code) == code = 0
Zcompare == /\ zp.pc = "digest" /\ call[Digest].exit # -1
            /\ Zends(IF Same(call[Digest].exit) THEN 0 ELSE 1)
            /\ UNCHANGED <<con, tx, rx, stalled, stalls, long, call, file>>

ZputStep == Zlock \/ Zcleared \/ ZstartRz \/ Zinit \/ ZnoInit \/ Zsend \/ Zcompare

TTStep == CmdEnds \/ Respawn \/ RzGivesUp \/ RzAgain \/ Transmit
ConNext == \/ \E c \in Calls : CallStep(c) \/ Nudges(c)
           \/ ZputStep \/ TTStep \/ Stall

-----------------------------------------------------------------------------
ConTypeOK ==
    /\ con.st \in {"bash", "cmd", "rz", "kbd", "exited"} /\ con.pend \in 0 .. MaxPend
    /\ long \subseteq Long /\ stalls \in 0 .. MaxStalls
    /\ lock \in Runs \union {Zput, Nobody} /\ file \in {"none", "bad", "good"}

\* A run that got an end marker got its own, after its command's end, never that of an earlier command
\* which outlasted its timeout and reports late on the same line; what it returns is the code, or the
\* first digits of it where a read stopped among them, so 0 only for 0.  (Not of a line that a lone
\* --clear tore while it was typed: that returns the code of what was left of it.)
OwnCode == \A c \in Runs : call[c].exit \notin {-1, 124}
                            => /\ call[c].of = c /\ ~(con.st = "cmd" /\ con.who = c)
                               /\ con.torn = c \/ call[c].exit \in Leading(RunCode)

\* While rz receives, no run types on the line (a status command written in mid-ZMODEM corrupted an
\* upload on 2026-09-26): only a --clear called by itself can, which does not ask for the lock.
LineAlone == zp.pc \in {"init", "send"}
             => \A c \in Calls \ {Lone} :
                   call[c].pc \notin {"open", "first", "quit", "second", "type", "wait"}

ConEnded == zp.exit # -1 /\ \A c \in Runs : call[c].exit # -1 \/ call[c].pc = "idle"

\* Where no command outlasts its timeout, the upload did not break off and no --clear was called by
\* itself, every run that has ended has its command's code, over an orphaned ttkbdd or a transmitter
\* that stalls.  (Not over both: prompt() asks once and does not nudge, so a stall after the orphan's
\* end makes run give up.  And not beside a lone --clear, which takes prompts and end markers away.)
AnswerComes == ConEnded /\ zp.exit = 0 /\ long = {} /\ call[Lone].pc = "idle" /\ ~(con.orphan /\ stalls > 0)
               => \A c \in Runs : call[c].of = c

\* tt_zput ends with 0 only when the file on the TT is the one that was sent, whatever a lone --clear
\* did to the line meanwhile.
Verified == zp.exit = 0 => file = "good"

=============================================================================
