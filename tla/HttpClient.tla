----------------------------- MODULE HttpClient -----------------------------
(***************************************************************************)
(* The TT-Bridge client: tt_http_execute, one request and its answer over  *)
(* a connection that the server closes, and the program around it, which   *)
(* saves the body.  Bytes are units: "h" a byte of the head, "e" the empty *)
(* line, "b" a byte of the body, "0" a NUL.  Requests fit the buffer they  *)
(* are formatted in.                                                       *)
(***************************************************************************)
EXTENDS Integers, Sequences, SequencesExt

CONSTANTS
    Buf,        \* BUFFER_SIZE
    Answers,    \* what the server may send: sequences of units
    MaxBad      \* bound on failing calls

VARIABLES
    answer,     \* the whole answer
    rest,       \* the part of it still to come
    http,       \* the call: pc, cap (raw_capacity), raw (raw_data), head, body, code
    held,       \* what it holds: a subset of {"socket", "raw"}
    out,        \* the program: file (what -o holds), exit
    bad,        \* failing calls so far
    early       \* the connection broke before the answer's end

httpVars == <<answer, rest, http, held, out, bad, early>>

HttpInit ==
    /\ answer \in Answers /\ rest = answer
    /\ http = [pc |-> "resolve", cap |-> 0, raw |-> <<>>, head |-> <<>>, body |-> <<>>, code |-> "none"]
    /\ held = {} /\ out = [file |-> <<>>, exit |-> -1] /\ bad = 0 /\ early = FALSE

Fails == bad < MaxBad /\ bad' = bad + 1
Returns(code) == http' = [http EXCEPT !.pc = "returned", !.code = code]
Fixed == UNCHANGED <<answer, out, early>>

\* Each call of the set-up succeeds or ends the function with its own error, the socket closed.
Setup(from, to, code, hold) ==
    /\ http.pc = from
    /\ \/ http' = [http EXCEPT !.pc = to] /\ held' = held \union hold /\ UNCHANGED bad
       \/ Fails /\ Returns(code) /\ held' = {}
    /\ UNCHANGED rest /\ Fixed
Resolve == Setup("resolve", "socket", "RESOLVE", {})
Socket == Setup("socket", "connect", "SOCKET", {"socket"})
Connects == Setup("connect", "send", "CONNECT", {})
\* A short send is an error too.
Send == Setup("send", "alloc", "SEND", {})

Alloc == /\ http.pc = "alloc"
         /\ \/ http' = [http EXCEPT !.pc = "recv", !.cap = Buf] /\ held' = held \union {"raw"} /\ UNCHANGED bad
            \/ Fails /\ Returns("BUFFER") /\ held' = {}
         /\ UNCHANGED rest /\ Fixed

\* Mutant: the buffer grows one read late.
Capacity_Past(len, n, cap) == IF len + n > cap + 1 THEN 2 * cap ELSE cap

\* The capacity for a read of n bytes: doubled when the buffer would be full.
Capacity(len, n, cap) == IF len + n >= cap THEN 2 * cap ELSE cap
\* A realloc that fails gives everything back.
GivenBack == {}
Recv ==
    /\ http.pc = "recv"
    /\ \E n \in 1 .. IF Len(rest) < Buf THEN Len(rest) ELSE Buf :
          LET c == Capacity(Len(http.raw), n, http.cap) IN
          \/ /\ http' = [http EXCEPT !.cap = c, !.raw = @ \o SubSeq(rest, 1, n)]
             /\ rest' = SubSeq(rest, n + 1, Len(rest)) /\ UNCHANGED <<held, bad>>
          \/ c > http.cap /\ Fails /\ Returns("BUFFER") /\ held' = GivenBack /\ UNCHANGED rest
    /\ Fixed

\* The end of the stream, or an error of recv, which the loop does not tell apart; an answer of no bytes
\* is an error of its own.
Closed == held \ {"socket"}
EndOfStream ==
    /\ http.pc = "recv"
    /\ \/ rest = <<>> /\ UNCHANGED <<bad, early>>
       \/ rest # <<>> /\ Fails /\ early' = TRUE
    /\ IF http.raw = <<>> THEN Returns("RECV") /\ held' = {}
       ELSE http' = [http EXCEPT !.pc = "parse"] /\ held' = Closed
    /\ UNCHANGED <<answer, rest, out>>

\* strstr for the empty line: the first one, unless a NUL comes before it.
Boundary(raw) == LET E == {i \in 1 .. Len(raw) : raw[i] = "e" /\ \A j \in 1 .. i - 1 : raw[j] \notin {"e", "0"}}
                 IN IF E = {} THEN 0 ELSE CHOOSE i \in E : TRUE
BodyFrom(raw) == SubSeq(raw, Boundary(raw) + 1, Len(raw))
Parse ==
    /\ http.pc = "parse"
    /\ http' = [http EXCEPT !.pc = "returned", !.code = "OK",
                            !.head = SubSeq(http.raw, 1, Boundary(http.raw) - 1), !.body = BodyFrom(http.raw)]
    /\ held' = {} /\ UNCHANGED <<rest, bad>> /\ Fixed

\* main: exit 1 on an error; else the body goes to the file, if that can be opened.
Main == /\ http.pc = "returned" /\ out.exit = -1
        /\ \/ /\ out' = [file |-> IF http.code = "OK" THEN http.body ELSE <<>>,
                         exit |-> IF http.code = "OK" THEN 0 ELSE 1]
              /\ UNCHANGED bad
           \/ http.code = "OK" /\ Fails /\ out' = [file |-> <<>>, exit |-> 0]
        /\ UNCHANGED <<answer, rest, http, held, early>>

HttpNext == Resolve \/ Socket \/ Connects \/ Send \/ Alloc \/ Recv \/ EndOfStream \/ Parse \/ Main

-----------------------------------------------------------------------------
\* What is received fits the buffer, with room for the NUL that is written behind it.
InBuffer == http.cap > 0 => Len(http.raw) < http.cap

\* However the answer is cut into reads, the head and the body are the server's, and the file is the
\* body: nothing is lost or doubled where the buffer grew.
AsAnswered ==
    out.exit = 0 /\ ~early
    => /\ IF Boundary(answer) > 0 THEN http.head \o <<"e">> \o http.body = answer
          ELSE http.body = answer
       /\ bad = 0 => out.file = http.body

\* Every way out of tt_http_execute has given back the socket and the buffer.
NothingHeld == http.pc = "returned" => held = {}

-----------------------------------------------------------------------------
(* The TLS proxy, tt_tlsproxy.py: the TT asks in plain HTTP, the proxy asks upstream over verified *)
(* TLS, and in plain HTTP only when that is allowed.  Each request has a handler of its own and    *)
(* they share nothing.                                                                             *)

\* What a fetch upstream (external) may do: answer; answer and break off in a body whose length it
\* gave ("cut"), or in one that only the end of the connection ends ("short"); answer with something
\* that is not HTTP; refuse or fail the connection or the handshake; present a certificate that does
\* not verify; take the request and then fail.
Plain == {"ok", "cut", "short", "nonsense", "refused", "late"}
Tls == Plain \union {"badcert"}
Begun == {"ok", "cut", "short"}

VARIABLES
    ask,      \* the request: scheme, upgrade (the option), and what upstream does: tls, plain
    px,       \* the handler: pc, via (how the answer was fetched), status (0 until answered)
    sent      \* how often upstream was given the request, by tls and by plain

proxyVars == <<ask, px, sent>>

ProxyInit ==
    /\ ask \in [scheme : {"http", "https", "other"}, upgrade : BOOLEAN, tls : Tls, plain : Plain]
    /\ px = [pc |-> "parse", via |-> "none", status |-> 0]
    /\ sent = [tls |-> 0, plain |-> 0]

Respond(n) == px' = [px EXCEPT !.pc = "answered", !.status = n]

\* An absolute http(s) URI, or 400; an http one is tried over TLS first where upgrading is on.
Route == IF ask.scheme = "https" \/ ask.upgrade THEN "tls" ELSE "plain"
ProxyParse ==
    /\ px.pc = "parse"
    /\ IF ask.scheme = "other" THEN Respond(400) ELSE px' = [px EXCEPT !.pc = Route]
    /\ UNCHANGED <<ask, sent>>

\* Does upstream have the request when the fetch ends?
Gets(what) == IF what \in Begun \union {"nonsense", "late"} THEN 1 ELSE 0

\* A failed upgrade is asked again in plain HTTP, whether the connection failed or the answer to a
\* request that had gone out, but never after a certificate that did not verify.
Fallback == ask.scheme = "http" /\ ask.tls \in {"refused", "late"}
FetchTls ==
    /\ px.pc = "tls"
    /\ sent' = [sent EXCEPT !.tls = @ + Gets(ask.tls)]
    /\ IF ask.tls \in Begun THEN px' = [px EXCEPT !.pc = "read", !.via = "tls"]
       ELSE IF Fallback THEN px' = [px EXCEPT !.pc = "plain"] ELSE Respond(502)
    /\ UNCHANGED ask
FetchPlain ==
    /\ px.pc = "plain"
    /\ sent' = [sent EXCEPT !.plain = @ + Gets(ask.plain)]
    /\ IF ask.plain \in Begun THEN px' = [px EXCEPT !.pc = "read", !.via = "plain"] ELSE Respond(502)
    /\ UNCHANGED ask
\* The body is read to its end before anything is answered; one that is shorter than its length is a 502
\* and not asked for again.  Without a length the end of the connection, or a TLS stream that stops
\* without its goodbye, is the body's end.
Came == IF px.via = "tls" THEN ask.tls ELSE ask.plain
Whole == Came \in {"ok", "short"}
ReadBody == /\ px.pc = "read" /\ Respond(IF Whole THEN 200 ELSE 502) /\ UNCHANGED <<ask, sent>>

ProxyNext == ProxyParse \/ FetchTls \/ FetchPlain \/ ReadBody

-----------------------------------------------------------------------------
\* A failed verify is a 502, never a silent downgrade, and a request for https never goes out plain.
NoDowngrade == /\ sent.plain > 0 \/ px.via = "plain" => ask.scheme = "http"
               /\ ask.tls = "badcert" /\ Route = "tls" => sent.plain = 0 /\ px.status \in {0, 400, 502}

\* A body whose length upstream gave is answered whole or not at all.  Upstream is given a request a
\* second time, in the clear, where it took the encrypted one and the answer failed (the program's
\* header says "plain HTTP only if the TLS connect fails"), and in no other case: not after an answer
\* that had begun and broke off, and never more than that once.
FetchedOnce == /\ px.status = 200 => px.via # "none" /\ Came # "cut"
               /\ sent.tls <= 1 /\ sent.plain <= 1
               /\ sent.tls + sent.plain > 1 => ask.tls = "late" /\ px.via # "tls"
=============================================================================
