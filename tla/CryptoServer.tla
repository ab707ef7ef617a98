---------------------------- MODULE CryptoServer ----------------------------
(***************************************************************************)
(* The X25519 and Ed25519 server on the T425 and the programs that use it  *)
(* over the link: xserv2.c, which waits for an operation, its operands and *)
(* nothing else; atwxserv.c, which boots it at system start; and           *)
(* Dropbear's client (src/staging/DROPBEAR/atwx25519.c, called from        *)
(* curve25519-monocypher.c), which boots it again when it does not answer  *)
(* and stays on the 68030 when that fails too; the next process tries the  *)
(* link again.  xclient.c is the same dialogue with the older requests.    *)
(*                                                                         *)
(* down and up are the link's two streams.  A unit is the smallest thing   *)
(* the driver may send by itself; a call's operands and answer carry the   *)
(* call's number, so that a byte of another call can be told apart.  The   *)
(* lock on the board is in T4Lock, the choice of the path in Offload.      *)
(***************************************************************************)
EXTENDS Integers, Sequences, SequencesExt

CONSTANTS MsgMax,       \* longest message the server takes (1024 bytes)
          MsgLens,      \* lengths of the messages to verify
          MaxCalls,     \* bound: calls made
          MaxFaults     \* bound: faults that may happen

(* host.left: the last dialogue ended in a read that gave up on a T425     *)
(* which was not dead, and nothing has been reset since.                   *)
VARIABLES host, t4, down, up

linkVars == <<host, t4, down, up>>

Units(c, names) == [i \in 1..Len(names) |-> <<c, names[i]>>]
Msg(c, n)       == [i \in 1..n |-> <<c, "m">>]

(* The runtime's start-up questions, in order.                             *)
Asks == <<"GETENV", "ID", "COMMAND", "COMMAND">>
Fresh == [pc |-> "ask", asks |-> Asks, in |-> <<>>, need |-> 0, op |-> "none"]

----------------------------------------------------------------------------
(* The T425.                                                               *)

Fewer(n) == [t4 EXCEPT !.need = n, !.in = <<>>]

(* The INMOS runtime asks, and waits for a reply of the right shape.       *)
Ask == /\ t4.pc = "ask"
       /\ \/ /\ t4.asks /= <<>>
             /\ up' = up \o Units(0, <<"lo", "hi", Head(t4.asks)>>)
             /\ t4' = [Fewer(3) EXCEPT !.pc = "answer"]
          \/ /\ t4.asks = <<>>
             /\ up' = up \o Units(0, <<"R", "D", "Y", "0">>)
             /\ t4' = [Fewer(1) EXCEPT !.pc = "op"]
       /\ UNCHANGED <<host, down>>

TakeUnit == /\ t4.pc \in {"answer", "op", "len", "args"}
            /\ t4.need > 0 /\ down /= <<>>
            /\ t4' = [t4 EXCEPT !.in = Append(@, Head(down)), !.need = @ - 1]
            /\ down' = Tail(down)
            /\ UNCHANGED <<host, up>>

(* What it does with anything else is the runtime's (external): here it is *)
(* lost until a reset.                                                     *)
Answered == /\ t4.pc = "answer" /\ t4.need = 0
            /\ t4' = IF t4.in = Units(0, <<"lo", "hi", Head(t4.asks)>>)
                     THEN [t4 EXCEPT !.pc = "ask", !.asks = Tail(@), !.in = <<>>]
                     ELSE [t4 EXCEPT !.pc = "dead"]
            /\ UNCHANGED <<host, down, up>>

(* xserv2's main loop: an unknown operation is ignored.                    *)
Op == /\ t4.pc = "op" /\ t4.need = 0
      /\ LET op == t4.in[1][2]
         IN  t4' = CASE op = "X" -> [Fewer(2) EXCEPT !.pc = "args", !.op = "X"]
                     [] op = "V" -> [Fewer(1) EXCEPT !.pc = "len"]
                     [] OTHER    -> Fewer(1)
      /\ UNCHANGED <<host, down, up>>

(* A length the server does not take counts as 0; a unit that was not sent *)
(* as a length may be any.                                                 *)
IsLength(u) == Len(u) = 3
Operands == /\ t4.pc = "len" /\ t4.need = 0
            /\ \E n \in IF IsLength(t4.in[1]) THEN {t4.in[1][3]} ELSE 0..MsgMax :
                 t4' = [Fewer(2 + IF n > MsgMax THEN 0 ELSE n)
                            EXCEPT !.pc = "args", !.op = "V"]
            /\ UNCHANGED <<host, down, up>>

(* The answer, of the call all of whose operands these are.                *)
Reply(c, op) == Units(c, IF op = "X" THEN <<"q", "q">> ELSE <<"v">>)

Compute == /\ t4.pc = "args" /\ t4.need = 0
           /\ LET c == t4.in[1][1]
                  n == Len(t4.in) - 2
                  own == IF t4.op = "X" THEN Units(c, <<"n", "p">>)
                         ELSE Units(c, <<"sig", "pub">>) \o Msg(c, n)
              IN  up' = up \o Reply(IF t4.in = own THEN c ELSE 0, t4.op)
           /\ t4' = [Fewer(1) EXCEPT !.pc = "op"]
           /\ UNCHANGED <<host, down>>

----------------------------------------------------------------------------
(* The host's side.                                                        *)

Writing == host.out /= <<>>
Reading == host.want > 0

(* Mutant: a short write taken for a full one.                             *)
Unsent_Assumed(k) == <<>>

(* link_write, atw_write: the driver took k units; the rest is sent again. *)
(* What a dead T425 does not take is noticed by the read that follows.     *)
Unsent(k) == SubSeq(host.out, k + 1, Len(host.out))

Write == /\ Writing
         /\ \E k \in 1..Len(host.out) :
              /\ down' = IF t4.pc = "dead" THEN down ELSE down \o SubSeq(host.out, 1, k)
              /\ host' = [host EXCEPT !.out = Unsent(k)]
         /\ UNCHANGED <<t4, up>>

Read == /\ ~Writing /\ Reading /\ up /= <<>>
        /\ host' = [host EXCEPT !.in = Append(@, Head(up)), !.want = @ - 1]
        /\ up' = Tail(up)
        /\ UNCHANGED <<t4, down>>

Wait(pc, n) == [host EXCEPT !.pc = pc, !.want = n, !.in = <<>>]
Say(pc, units) == [host EXCEPT !.pc = pc, !.out = units, !.in = <<>>]

(* Reset, the image, then the dialogue.  Resetting the board empties the   *)
(* link's buffers (external).                                              *)
Boot == /\ host.pc = "boot"
        /\ t4' = Fresh /\ down' = <<>> /\ up' = <<>>
        /\ host' = [Wait("pkt", 2) EXCEPT !.left = FALSE]

(* What follows a finished read or write.                                  *)
Done == ~Writing /\ ~Reading

Packet == /\ host.pc = "pkt" /\ Done
          /\ host' = CASE host.in = Units(0, <<"R", "D">>)   -> Wait("rdy", 2)
                       [] host.in = Units(0, <<"lo", "hi">>) -> Wait("body", 1)
                       [] OTHER -> [host EXCEPT !.pc = "off", !.left = TRUE]
          /\ UNCHANGED <<t4, down, up>>

Answer == /\ host.pc = "body" /\ Done
          /\ host' = Say("reply", Units(0, <<"lo", "hi", host.in[1][2]>>))
          /\ UNCHANGED <<t4, down, up>>

NextPacket == /\ host.pc = "reply" /\ Done
              /\ host' = Wait("pkt", 2)
              /\ UNCHANGED <<t4, down, up>>

Request == IF host.op = "X" THEN Units(host.n, <<"X", "n", "p">>)
           ELSE <<<<host.n, "V">>, <<host.n, "len", host.len>>>> \o Units(host.n, <<"sig", "pub">>)
                \o Msg(host.n, host.len)

(* "RDY0": atwxserv is done; a client that booted sends its request again. *)
Ready == /\ host.pc = "rdy" /\ Done
         /\ host' = IF host.op = "none" THEN [host EXCEPT !.pc = "idle"]
                    ELSE Say("req", Request)
         /\ UNCHANGED <<t4, down, up>>

(* atw_verify_request leaves a longer message to the 68030.                *)
TooLong(n) == n > MsgMax

Call == /\ host.pc = "idle" /\ host.n < MaxCalls
        /\ \E op \in {"X", "V"}, n \in MsgLens :
             /\ op = "X" => n = 0
             /\ LET call == [host EXCEPT !.n = @ + 1, !.op = op, !.len = n, !.tries = 0]
                IN  host' = IF op = "V" /\ TooLong(n)
                            THEN [call EXCEPT !.pc = "idle", !.op = "none"]
                            ELSE [call EXCEPT !.pc = "send"]
        /\ UNCHANGED <<t4, down, up>>

Send == /\ host.pc = "send"
        /\ host' = Say("req", Request)
        /\ UNCHANGED <<t4, down, up>>

Await == /\ host.pc = "req" /\ Done
         /\ host' = Wait("ans", Len(Reply(host.n, host.op)))
         /\ UNCHANGED <<t4, down, up>>

Result == /\ host.pc = "ans" /\ Done
          /\ host' = [host EXCEPT !.pc = "idle", !.op = "none",
                                  !.good = @ /\ (host.left \/ host.in = Reply(host.n, host.op))]
          /\ UNCHANGED <<t4, down, up>>

(* No answer in time: boot and try once more, then stay on the 68030.      *)
Again == "boot"

(* A read that gives up, anywhere: on a T425 that is dead or waits for     *)
(* bytes that nobody sends, or on one that is only late.  atwxserv does    *)
(* not look whether the second half of "RDY0" came.                        *)
Stuck == t4.pc = "dead" \/ (t4.need > 0 /\ down = <<>>)
Timeout ==
  /\ ~Writing /\ Reading /\ up = <<>>
  /\ Stuck \/ host.faults < MaxFaults
  /\ LET h == [host EXCEPT !.want = 0, !.in = <<>>, !.left = @ \/ t4.pc /= "dead",
                           !.faults = IF Stuck THEN @ ELSE @ + 1]
     IN  host' = CASE host.pc = "rdy" /\ host.op = "none"  -> [h EXCEPT !.pc = "idle"]
                   [] host.pc = "ans" /\ host.tries = 0    -> [h EXCEPT !.pc = Again, !.tries = 1]
                   [] OTHER                                -> [h EXCEPT !.pc = "off"]
  /\ UNCHANGED <<t4, down, up>>

(* The next process after one that gave up: the offload is untried again,  *)
(* and it sends its first request down the link as that was left, for the  *)
(* marker names this server, or there is none.  (A marker that names       *)
(* another has it boot first.)                                             *)
NextProcess ==
  /\ host.pc = "off"
  /\ host' = [host EXCEPT !.pc = "idle", !.op = "none", !.want = 0, !.in = <<>>]
  /\ UNCHANGED <<t4, down, up>>

(* The T425 stops (a power dip, another program's reset).                  *)
Die == /\ host.faults < MaxFaults /\ t4.pc /= "dead"
       /\ host' = [host EXCEPT !.faults = @ + 1, !.left = @ /\ host.pc \notin {"idle", "off"}]
       /\ t4' = [t4 EXCEPT !.pc = "dead"] /\ down' = <<>> /\ up' = <<>>

ServerInit(pc) ==
              /\ host = [pc |-> pc, out |-> <<>>, want |-> 0, in |-> <<>>, op |-> "none",
                         len |-> 0, n |-> 0, tries |-> 0, good |-> TRUE, faults |-> 0, left |-> FALSE]
              /\ t4 = [Fresh EXCEPT !.pc = "dead"]
              /\ down = <<>> /\ up = <<>>

ServerNext == \/ Ask \/ TakeUnit \/ Answered \/ Op \/ Operands \/ Compute
              \/ Write \/ Read \/ Boot \/ Packet \/ Answer \/ NextPacket \/ Ready
              \/ Call \/ Send \/ Await \/ Result \/ Timeout \/ NextProcess \/ Die

----------------------------------------------------------------------------
(* Whenever no call is under way the two sides agree: the server waits for *)
(* an operation and nothing is left on the link, after short writes, late  *)
(* answers, a boot in the middle of a call, a dead T425, a new process and *)
(* messages of every length; and every answer a client took was that of    *)
(* its own request (xserv2.c:49-50, xclient.c:30-33, atwx25519.c:203-204). *)
(* The one way to lose step is host.left: the second half of atwxserv's    *)
(* "RDY0", or what a client gave up on with nothing reset, comes late and  *)
(* is the first thing the next client reads; until the next boot.          *)
InStep == /\ host.pc = "idle" => \/ host.left
                                 \/ t4.pc = "dead" /\ up = <<>>
                                 \/ t4.pc = "op" /\ t4.need = 1 /\ down = <<>> /\ up = <<>>
          /\ host.good

(* The two sides never wait for each other: while the host waits for a     *)
(* byte that is not there, a living T425 is not itself waiting for one, and *)
(* the runtime has the answer it asked for.                                *)
NoMutualWait ==
  host.left \/
  /\ ~Writing /\ Reading /\ up = <<>> /\ t4.pc /= "dead" => t4.need = 0 \/ down /= <<>>
  /\ t4.pc = "answer" /\ t4.need = 0 => t4.in = Units(0, <<"lo", "hi", Head(t4.asks)>>)
============================================================================
