---------------------------- MODULE RemoteAdmin ----------------------------
(***************************************************************************)
(* The tools by which the management host and the TT keep in touch, side   *)
(* by side: telemetry and MQTT requests (TTMqtt), the serial console       *)
(* (SerialConsole), the HTTP client and the TLS proxy (HttpClient) and the *)
(* package database edited off line (RpmDb).  They share no state, so each *)
(* behaviour is of one of them.                                            *)
(***************************************************************************)
EXTENDS TTMqtt, SerialConsole, HttpClient, RpmDb

VARIABLE
    subject     \* which of them this behaviour is about

vars == <<subject, monVars, subVars, conVars, httpVars, proxyVars, rpmVars>>

Subjects == {"telemetry", "mqtt", "console", "http", "proxy", "rpmdb"}

\* A component the behaviour is not about stays in one of its initial states.
Init ==
    /\ subject \in Subjects
    /\ MonInit
    /\ SubInit /\ (subject # "mqtt" => ~opt.keep /\ ~opt.stop /\ kept = <<>>)
    /\ ConInit /\ (subject # "console" => con.st = "bash" /\ long = {} /\ call[Lone].pc = "idle")
    /\ call[Lone].pc = "start" => long = {} /\ ~con.orphan
    /\ HttpInit /\ (subject # "http" => answer = <<>>)
    /\ ProxyInit /\ (subject # "proxy" => ask = [scheme |-> "http", upgrade |-> TRUE, tls |-> "ok", plain |-> "ok"])
    /\ RpmInit /\ (subject # "rpmdb" => old = <<>> /\ args = <<>>)

Telemetry(A) == subject = "telemetry" /\ A /\ UNCHANGED <<subject, subVars, conVars, httpVars, proxyVars, rpmVars>>
Mqtt(A) == subject = "mqtt" /\ A /\ UNCHANGED <<subject, monVars, conVars, httpVars, proxyVars, rpmVars>>
Console(A) == subject = "console" /\ A /\ UNCHANGED <<subject, monVars, subVars, httpVars, proxyVars, rpmVars>>
Http(A) == subject = "http" /\ A /\ UNCHANGED <<subject, monVars, subVars, conVars, proxyVars, rpmVars>>
Proxy(A) == subject = "proxy" /\ A /\ UNCHANGED <<subject, monVars, subVars, conVars, httpVars, rpmVars>>
Rpm(A) == subject = "rpmdb" /\ A /\ UNCHANGED <<subject, monVars, subVars, conVars, httpVars, proxyVars>>

Next == \/ Telemetry(MonNext) \/ Mqtt(SubNext) \/ Console(ConNext)
        \/ Http(HttpNext) \/ Proxy(ProxyNext) \/ Rpm(RpmNext)

Spec == Init /\ [][Next]_vars

\* Programs go on being scheduled and TCP notices a peer that is gone; the broker's keep-alive runs
\* out; an install and a command come to their end; the probe's timer comes round.
FairSpec ==
    /\ Spec
    /\ WF_vars(Telemetry(MonStep)) /\ WF_vars(Telemetry(Deliver)) /\ WF_vars(Telemetry(Expire))
    /\ WF_vars(Telemetry(Noticed)) /\ WF_vars(Telemetry(InstallWrite)) /\ WF_vars(Telemetry(InstallEnd))
    /\ SF_vars(Telemetry(Probe))
    /\ WF_vars(Mqtt(SubStep)) /\ WF_vars(Mqtt(Admit)) /\ WF_vars(Mqtt(PubStep))
    /\ \A c \in Calls : /\ WF_vars(Console(CallStep(c))) /\ WF_vars(Console(Nudges(c)))
                         /\ WF_vars(Console(TimesOut(c)))
    /\ WF_vars(Console(ZputStep)) /\ WF_vars(Console(CmdEnds)) /\ WF_vars(Console(Respawn))
    /\ WF_vars(Console(RzGivesUp)) /\ WF_vars(Console(RzAgain)) /\ WF_vars(Console(Transmit))

-----------------------------------------------------------------------------
\* The variables keep their ranges; the CPU figure of a status is a percentage although the process
\* times it is made of fall when a process ends.
TypeOK == subject \in Subjects /\ MonTypeOK /\ ConTypeOK

\* Once the TT, its way out and the broker stay up, the retained status is READY and tt_versions'
\* verdict on the retained frame is the truth.
Reported == tt = "up" /\ Reaches /\ sys.ver \notin TooLong
            => ret.status = "READY" /\ Evaluate(ret.frame, mir) = Truth

\* A TT that is gone is not READY: the will says OFFLINE.  (A status that a broker kept in its file
\* over a restart has no session whose will could replace it.)
GoneIsSeen == broker /\ (tt = "off" \/ ~lan.out) => ret.status # "READY" \/ ret.old

\* The failure that only comes in: READY and UNREACHABLE together, as tt_reach_probe's header names it.
InboundNamed == tt = "up" /\ Reaches /\ ~lan.in => ret.status = "READY" /\ ret.reach = "UNREACHABLE"

\* A ttmon that hangs in its read for a CONNACK never reports again: the broker has the will out.
Silenced == mon.pc = "connack" /\ (ret.status # "READY" \/ ret.old)

\* Telemetry comes to tell the truth and keeps telling it: when faults, installs and restarts have
\* ended, whatever state they left, Reported, GoneIsSeen and InboundNamed hold for good.  The one state
\* that is not left is Silenced: after a connection that died silently between CONNECT and CONNACK the
\* TT is told to be OFFLINE although it is up, until it is restarted.
Converges == <>[](subject = "telemetry" => GoneIsSeen /\ (Silenced \/ (Reported /\ InboundNamed)))

\* The tools end.  ttmqtt sub: by its last message, by -W, or by an error; pub: written or by an error;
\* but neither while it reads, without a time-out, for a CONNACK, a SUBACK or the rest of a packet on a
\* connection that died silently.  Those of the serial line: over an orphaned ttkbdd, a stalled
\* transmitter, a command that is still running, tt_zput's calls of tt_serial.py inside its own lock,
\* and a lone --clear that takes their answers.
ToolsEnd == <>(/\ subject = "mqtt" => /\ sub.exit # -1 \/ SubHangs
                                      /\ sub.said => pub.exit # -1 \/ pub.pc = "connack"
               /\ subject = "console" => ConEnded)

\* Broker and telemetry: what was sent is what was seen, and a tool's exit code says what happened.
MessagesTrue == TypeOK /\ SeenIsSent /\ NoneMissed /\ ExitTrue

\* The serial line carries one user's dialogue at a time: a command gets its own exit code, an
\* answer comes whatever was on the line before, and an upload that is reported is on the disk.
LineSafe == OwnCode /\ AnswerComes /\ LineAlone /\ Verified

\* What is fetched is what was served, kept inside its buffer; after a certificate that does not verify
\* nothing goes out in the clear, and a request is repeated only as FetchedOnce says.  What tt_rpmdb
\* writes reads back, all of it or none, and a half-written database is seen.
FetchedTrue ==
    /\ InBuffer /\ AsAnswered /\ NothingHeld /\ NoDowngrade /\ FetchedOnce
    /\ RoundTrip /\ AllOrRefused /\ HalfIsSeen

\* The telemetry comes to the truth and the tools come to their end.
SettlesAndEnds == Converges /\ ToolsEnd
=============================================================================
