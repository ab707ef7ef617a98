------------------------------- MODULE TTJobd -------------------------------
(***************************************************************************)
(* ttjobd (sam-job-tt/ttjobd.c): the one process that owns the ATW800/2    *)
(* link.  It is single-threaded: a main loop that selects, accepts, serves *)
(* each readable client, dispatches queued jobs to idle nodes, polls the   *)
(* link for replies, and runs the watchdog.  Clients (their end of the     *)
(* socket) and the card (the booted transputer network) run beside it.     *)
(*                                                                         *)
(* `pc' is the point the main loop has reached; every call the loop makes  *)
(* is one atomic action, except that send_jobs and poll_link are taken one *)
(* job and one reply at a time because clients and nodes move in between.  *)
(* fd and client slot are one number: the kernel and accept's loop both    *)
(* hand out the lowest free one.                                           *)
(***************************************************************************)
EXTENDS JobSched, SequencesExt

CONSTANTS
  MAXCL,            \* size of the client table cl[]
  QMAX,             \* capacity of queue[]
  CLIENT_MAX_JOBS,  \* jobs one client may have outstanding
  SockCap,          \* replies a client's socket buffer holds
  WIDS,             \* number of wire ids (2^16)
  Requests,         \* the requests clients make: records [op, node, n]
  Images,           \* node counts of the images the hardware can boot
  Caps,             \* node 0's answers to OP_CAPS (0: an image that does not know it)
  Dues,             \* deadlines a job can get (epoch seconds, never 0)
  Left,             \* shares of the T425's current job still to run, in percent
  Faults,           \* which of "stall", "oom", "linkfail", "bootfail" happen
  MaxConn, MaxReq, MaxBootFails   \* bounds on what the environment does

ASSUME BoundsAssumption ==
  /\ MAXCL \in Nat \ {0} /\ QMAX \in Nat \ {0} /\ CLIENT_MAX_JOBS \in Nat /\ SockCap \in Nat \ {0}
  /\ WIDS \in Nat \ {0} /\ MaxConn \in Nat /\ MaxReq \in Nat /\ MaxBootFails \in Nat
ASSUME InputsAssumption ==
  /\ Requests \subseteq [op : STRING, node : Nat, n : Int]
  /\ Images \subseteq 1..NODES
  /\ Caps \subseteq Nat /\ Dues \subseteq Nat \ {0} /\ Left \subseteq 0..100

VARIABLES
  pc,         \* where the main loop is
  ready,      \* slots select found readable and the loop has not served yet
  up,         \* an image is booted
  leased,     \* slot holding the T425 lease, or -1
  armed,      \* down_since # 0: boot retries are due
  present,    \* nodes of the last image booted: absent[k] iff k >= present
  big_max,    \* node 0's payload cap
  queue,      \* queue[0..nq-1]
  inflight,   \* inflight[0..nin-1]
  busy,       \* busy[]
  nextwid,    \* the last wire id used
  rgot,       \* the reply buffer: "none", part of the reply now arriving ("cur"), bytes from before a boot ("stale")
  due,        \* contents of /var/run/ttjob.due
  oq,         \* replies waiting for each client's socket
  conn,       \* connection number at each slot, 0 = free (cl[i] = -1)
  sock,       \* replies in each client's socket buffer
  inq,        \* request bytes each client has written: whole headers and payloads
  pend,       \* the client has written a header and not yet its payload
  gone,       \* the client has closed its end
  net,        \* jobs the card has taken and not answered
  link,       \* replies on their way to the host
  nconn, nreq, bootfails,   \* connections made, requests made, boots failed
  owner,      \* open connection each request was made on, else 0
  got         \* requests of open connections whose reply the client has read

daemon == <<pc, ready, up, leased, armed, present, big_max, queue, inflight, busy, nextwid, rgot, due, oq>>
clients == <<conn, sock, inq, pend, gone, nconn, nreq, owner, got>>
card == <<net, link, bootfails>>
vars == <<daemon, clients, card>>

Slots == 0..MAXCL-1
NoFd == -1
Open(i) == conn[i] # 0
CapsJob == [fd |-> NoFd, cid |-> 0, op |-> "K", node |-> 0, n |-> 0]
Reply(cid, st) == [cid |-> cid, st |-> st]

-----------------------------------------------------------------------------
(***************************************************************************)
(* Helpers of the daemon.                                                  *)
(***************************************************************************)

\* How many waiting replies flush_out can hand to a socket that already holds `s'.
Fits(o, s) == IF Len(o) < SockCap - Len(s) THEN Len(o) ELSE SockCap - Len(s)

\* flush_out on slot i with `o' waiting: a client that is gone loses what waits for it.
WaitingAfter(o, i) == IF gone[i] THEN <<>> ELSE SubSeq(o, Fits(o, sock[i]) + 1, Len(o))
SocketAfter(o, i) == IF gone[i] THEN sock[i] ELSE sock[i] \o SubSeq(o, 1, Fits(o, sock[i]))

\* flush_out on the slots in S; those in `fresh' start with nothing queued.
Flush(S, fresh) ==
  /\ oq' = [i \in Slots |-> IF i \in fresh THEN <<>>
                            ELSE IF i \in S THEN WaitingAfter(oq[i], i) ELSE oq[i]]
  /\ sock' = [i \in Slots |-> IF i \in S THEN SocketAfter(oq[i], i) ELSE sock[i]]

\* wr: queue the replies out[i] for each slot i and send what fits.
Answer(out) ==
  /\ oq' = [i \in Slots |-> IF out[i] = <<>> THEN oq[i] ELSE WaitingAfter(oq[i] \o out[i], i)]
  /\ sock' = [i \in Slots |-> IF out[i] = <<>> THEN sock[i] ELSE SocketAfter(oq[i] \o out[i], i)]

Only(fd, reply) == [i \in Slots |-> IF i = fd THEN <<reply>> ELSE <<>>]
Silence == UNCHANGED <<oq, sock>>

\* Mutant: the queue is forgotten.
Downs_InFlightOnly(q, i) ==
  LET wr[k \in 0..Len(inflight)] ==
        IF k = 0 THEN <<>>
        ELSE IF inflight[k].fd = i THEN Append(wr[k-1], Reply(inflight[k].cid, "DOWN"))
        ELSE wr[k-1]
  IN  wr[Len(inflight)]

\* The ST_DOWN answers go_down gives slot i: in-flight jobs first, then those queued in q.
Downs(q, i) ==
  LET jobs == inflight \o q
      wr[k \in 0..Len(jobs)] ==
        IF k = 0 THEN <<>>
        ELSE IF jobs[k].fd = i THEN Append(wr[k-1], Reply(jobs[k].cid, "DOWN"))
        ELSE wr[k-1]
  IN  wr[Len(jobs)]

\* Mutant: go_down leaves busy[] as it was.
AllIdle_Kept == busy

\* memset(busy, 0, sizeof busy)
AllIdle == [k \in Nodes |-> FALSE]

\* go_down with q queued: fail every job to the 68030; `extra' is answered after them.
GoDown(q, extra) ==
  /\ Answer([i \in Slots |-> Downs(q, i) \o extra[i]])
  /\ inflight' = <<>>
  /\ busy' = AllIdle
  /\ due' = 0

\* Mutant: nq is not reset.
Fallen_KeepsQueue == UNCHANGED queue /\ up' = FALSE

\* The rest of go_down, where no boot follows: nothing is queued and the network is down.
Fallen == queue' = <<>> /\ up' = FALSE

Nothing == [i \in Slots |-> <<>>]

\* boot_network onto a queue q: reset the card, load the largest image that starts and
\* put an OP_CAPS job in the queue (unless its 13 bytes cannot be allocated).
Boot(q) ==
  /\ net' = {} /\ link' = <<>>
  /\ \/ /\ up' = TRUE
        /\ present' \in Images
        /\ big_max' = JOB_MAX
        /\ \/ Len(q) < QMAX /\ queue' = Append(q, CapsJob)
           \/ (Len(q) >= QMAX \/ "oom" \in Faults) /\ queue' = q
        /\ UNCHANGED bootfails
     \/ /\ "bootfail" \in Faults /\ bootfails < MaxBootFails
        /\ bootfails' = bootfails + 1
        /\ up' = FALSE
        /\ queue' = q
        /\ UNCHANGED <<present, big_max>>
NoBoot == UNCHANGED <<present, big_max, net, link, bootfails>>

\* What a boot leaves of a half-read reply when the caller does not clear rgot.
Outlived == IF rgot = "none" THEN "none" ELSE "stale"

\* Mutant: due_note keeps the old deadline when the last job leaves the table.
Earliest_NotLast(jobs) ==
  IF jobs = <<>> THEN due
  ELSE CHOOSE d \in {jobs[k].due : k \in DOMAIN jobs} : \A k \in DOMAIN jobs : d <= jobs[k].due

\* due_note: the earliest deadline among `jobs', 0 if there is none.
Earliest(jobs) ==
  IF jobs = <<>> THEN 0
  ELSE CHOOSE d \in {jobs[k].due : k \in DOMAIN jobs} : \A k \in DOMAIN jobs : d <= jobs[k].due

\* Mutant: drop_client leaves the fds of the client's jobs alone.
Orphan_Kept(s, i) == s

\* drop_client on queue[] or inflight[]: the replies of slot i's jobs go nowhere.
Orphan(s, i) == [k \in DOMAIN s |-> IF s[k].fd = i THEN [s[k] EXCEPT !.fd = NoFd] ELSE s[k]]

\* inflight[i] = inflight[--nin]
Vacate(s, i) == [k \in 1..Len(s)-1 |-> IF k = i THEN s[Len(s)] ELSE s[k]]

Mine(i) == Cardinality({k \in DOMAIN queue : queue[k].fd = i})
           + Cardinality({k \in DOMAIN inflight : inflight[k].fd = i})

-----------------------------------------------------------------------------
(***************************************************************************)
(* The clients' end of the sockets.  A client may close (or crash) at any  *)
(* moment; one that is still writing a request does not read replies.      *)
(***************************************************************************)
Submit(i, r) ==
  /\ Open(i) /\ ~gone[i] /\ ~pend[i] /\ nreq < MaxReq
  /\ nreq' = nreq + 1
  /\ owner' = [owner EXCEPT ![nreq + 1] = conn[i]]
  /\ inq' = [inq EXCEPT ![i] =
               Append(@, [t |-> "header", cid |-> nreq + 1, op |-> r.op, node |-> r.node, n |-> r.n])]
  /\ pend' = [pend EXCEPT ![i] = r.n > 0]
  /\ UNCHANGED <<daemon, card, conn, sock, gone, nconn, got>>

SendPayload(i) ==
  /\ Open(i) /\ ~gone[i] /\ pend[i]
  /\ pend' = [pend EXCEPT ![i] = FALSE]
  /\ inq' = [inq EXCEPT ![i] = Append(@, [t |-> "payload", cid |-> 0, op |-> "", node |-> 0, n |-> 0])]
  /\ UNCHANGED <<daemon, card, conn, sock, gone, nconn, nreq, owner, got>>

Receive(i) ==
  /\ Open(i) /\ ~gone[i] /\ ~pend[i] /\ sock[i] # <<>>
  /\ got' = got \union {Head(sock[i]).cid}
  /\ sock' = [sock EXCEPT ![i] = Tail(@)]
  /\ UNCHANGED <<daemon, card, conn, inq, pend, gone, nconn, nreq, owner>>

Close(i) ==
  /\ Open(i) /\ ~gone[i]
  /\ gone' = [gone EXCEPT ![i] = TRUE]
  /\ UNCHANGED <<daemon, card, conn, sock, inq, pend, nconn, nreq, owner, got>>

(***************************************************************************)
(* The card: a node finishes a job and its reply goes on the link, in any  *)
(* order.  A node may also hang: nothing makes this step happen.           *)
(***************************************************************************)
NodeReply(j, caps) ==
  /\ j \in net
  /\ net' = net \ {j}
  /\ link' = Append(link, [wid |-> j.wid, caps |-> IF j.op = "K" THEN caps ELSE 0])
  /\ UNCHANGED <<daemon, clients, bootfails>>

-----------------------------------------------------------------------------

Readable(i) == Open(i) /\ (inq[i] # <<>> \/ gone[i])
Writable(i) == Open(i) /\ oq[i] # <<>> /\ (Len(sock[i]) < SockCap \/ gone[i])

\* The lowest free slot, if there is one.
FreeSlot == {i \in Slots : ~Open(i) /\ \A k \in Slots : k < i => Open(k)}

\* accept into the slots given; with the table full the connection is closed at once.
Accept(slots) ==
  /\ nconn < MaxConn
  /\ nconn' = nconn + 1
  /\ conn' = [i \in Slots |-> IF i \in slots THEN nconn + 1 ELSE conn[i]]

\* What the loop does when select returns; `connects' says that a connection is waiting.
Selected(connects) ==
  /\ pc = "select"
  /\ IF connects THEN Accept(FreeSlot) ELSE UNCHANGED <<conn, nconn>>
  /\ Flush({i \in Slots : Writable(i)}, IF connects THEN FreeSlot ELSE {})
  /\ ready' = {i \in Slots : Readable(i)}
  /\ pc' = IF ready' = {} THEN "send" ELSE "serve"
  /\ UNCHANGED <<up, leased, armed, present, big_max, queue, inflight, busy, nextwid, rgot, due,
                 inq, pend, gone, nreq, owner, got, card>>

\* Mutant: the clients with replies waiting are not in the write set.
Wakes_NoWriteSet == inflight # <<>> \/ queue # <<>> \/ \E i \in Slots : Readable(i)

\* select waits without a timeout when nothing is in flight and nothing is queued.
Wakes == inflight # <<>> \/ queue # <<>> \/ \E i \in Slots : Readable(i) \/ Writable(i)

Select == Wakes /\ Selected(FALSE)

SelectConnect == Selected(TRUE)

\* For 20 ms after link activity the loop polls the link alone.
Spin ==
  /\ pc = "select" /\ inflight # <<>>
  /\ pc' = "spinpoll"
  /\ UNCHANGED <<ready, up, leased, armed, present, big_max, queue, inflight, busy, nextwid, rgot,
                 due, oq, clients, card>>

-----------------------------------------------------------------------------
(***************************************************************************)
(* One readable client: read a request header and act on it.  The daemon   *)
(* waits here for the payload, so the request is taken in one step.        *)
(***************************************************************************)
Serving(i) == pc = "serve" /\ i \in ready /\ \A k \in ready : i <= k
Served(i) == /\ ready' = ready \ {i}
             /\ pc' = IF ready = {i} THEN "send" ELSE "serve"

\* The next 13 bytes as a header.  Payload bytes read as a header can say anything.
Headers(i) ==
  IF inq[i] = <<>> THEN {}
  ELSE IF Head(inq[i]).t = "header" THEN {Head(inq[i])}
  ELSE {[t |-> "header", cid |-> 0, op |-> r.op, node |-> r.node, n |-> r.n] : r \in Requests}

\* rd of the n payload bytes: read whole, or cut short by the client's end or by a 5 s stall.
Payloads(i, h) ==
  LET rest == Tail(inq[i])
  IN  IF h.n = 0 THEN {[ok |-> TRUE, rest |-> rest]}
      ELSE IF rest # <<>> THEN {[ok |-> TRUE, rest |-> Tail(rest)]}
      ELSE IF gone[i] \/ "stall" \in Faults THEN {[ok |-> FALSE, rest |-> <<>>]}
      ELSE {}

\* drop_client: the client's jobs go on without it; a lease holder gives the T425 back.
DropClient(i) ==
  /\ conn' = [conn EXCEPT ![i] = 0]
  /\ oq' = [oq EXCEPT ![i] = <<>>]
  /\ sock' = [sock EXCEPT ![i] = <<>>]
  /\ inq' = [inq EXCEPT ![i] = <<>>]
  /\ pend' = [pend EXCEPT ![i] = FALSE]
  /\ gone' = [gone EXCEPT ![i] = FALSE]
  /\ inflight' = Orphan(inflight, i)
  /\ IF i = leased
     THEN /\ leased' = -1
          /\ rgot' = "none"
          /\ Boot(Orphan(queue, i))
          /\ armed' = (armed \/ ~up')
     ELSE /\ queue' = Orphan(queue, i)
          /\ NoBoot
          /\ UNCHANGED <<leased, rgot, up, armed>>
  /\ owner' = [c \in DOMAIN owner |-> IF owner[c] = conn[i] THEN 0 ELSE owner[c]]
  /\ got' = {c \in got : owner[c] # conn[i]}
  /\ UNCHANGED <<busy, nextwid, due, nconn, nreq>>

ClientGone(i) ==
  /\ Serving(i) /\ inq[i] = <<>> /\ gone[i]
  /\ DropClient(i) /\ Served(i)

TooBigFor(h) == h.n < 0 \/ h.n > big_max \/ (h.n > JOB_MAX /\ h.node \notin {NODE_ANY, 0})

\* Too big a request, or a lease request with a payload: the client is dropped
\* (the ST_TOOBIG answer goes down with the socket buffers).
BadRequest(i, h) ==
  /\ Serving(i) /\ h \in Headers(i)
  /\ TooBigFor(h) \/ (h.op = "L" /\ h.n # 0)
  /\ DropClient(i) /\ Served(i)

\* A step that answers one request and changes nothing else of the daemon.
OnlyAnswers(i, h, rest, st) ==
  /\ Answer(Only(i, Reply(h.cid, st)))
  /\ inq' = [inq EXCEPT ![i] = rest]
  /\ Served(i)
  /\ UNCHANGED <<up, leased, armed, present, big_max, queue, inflight, busy, nextwid, rgot, due,
                 conn, pend, gone, nconn, nreq, owner, got, card>>

Fine(h) == ~TooBigFor(h) /\ (h.op = "L" => h.n = 0)

LeaseRefused(i, h) ==
  /\ Serving(i) /\ h \in Headers(i) /\ Fine(h)
  /\ h.op = "L" /\ leased >= 0
  /\ OnlyAnswers(i, h, Tail(inq[i]), "DOWN")

LeaseGranted(i, h) ==
  /\ Serving(i) /\ h \in Headers(i) /\ Fine(h)
  /\ h.op = "L" /\ leased < 0
  /\ GoDown(queue, Only(i, Reply(h.cid, "OK")))
  /\ Fallen
  /\ armed' = FALSE
  /\ leased' = i
  /\ inq' = [inq EXCEPT ![i] = Tail(@)]
  /\ Served(i) /\ NoBoot
  /\ UNCHANGED <<nextwid, rgot, conn, pend, gone, nconn, nreq, owner, got>>

\* Mutant: only the table size is checked, not the booted image.
Absent_AnyImage(h) == h.node # NODE_ANY /\ h.node >= NODES

Absent(h) == h.node # NODE_ANY /\ (h.node >= NODES \/ h.node >= present)

\* An absent node: the payload is drained (however much of it comes) and refused.
NoNode(i, h) ==
  /\ Serving(i) /\ h \in Headers(i) /\ Fine(h) /\ h.op # "L"
  /\ Absent(h)
  /\ \E p \in Payloads(i, h) : OnlyAnswers(i, h, p.rest, "NONODE")

Full(i) == ~up \/ Len(queue) >= QMAX \/ Mine(i) >= CLIENT_MAX_JOBS

\* Down, queue full or too many jobs of this client: drained and left to the 68030.
Refused(i, h) ==
  /\ Serving(i) /\ h \in Headers(i) /\ Fine(h) /\ h.op # "L"
  /\ ~Absent(h) /\ Full(i)
  /\ \E p \in Payloads(i, h) : OnlyAnswers(i, h, p.rest, "DOWN")

\* No memory for the payload, or it does not arrive: ST_DOWN, and the connection stays.
NotTaken(i, h) ==
  /\ Serving(i) /\ h \in Headers(i) /\ Fine(h) /\ h.op # "L"
  /\ ~Absent(h) /\ ~Full(i)
  /\ \/ "oom" \in Faults /\ OnlyAnswers(i, h, Tail(inq[i]), "DOWN")
     \/ \E p \in Payloads(i, h) : ~p.ok /\ OnlyAnswers(i, h, p.rest, "DOWN")

Enqueue(i, h) ==
  /\ Serving(i) /\ h \in Headers(i) /\ Fine(h) /\ h.op # "L"
  /\ ~Absent(h) /\ ~Full(i)
  /\ \E p \in Payloads(i, h) : p.ok /\ inq' = [inq EXCEPT ![i] = p.rest]
  /\ queue' = Append(queue, [fd |-> i, cid |-> h.cid, op |-> h.op, node |-> h.node, n |-> h.n])
  /\ Served(i)
  /\ UNCHANGED <<up, leased, armed, present, big_max, inflight, busy, nextwid, rgot, due, oq,
                 conn, sock, pend, gone, nconn, nreq, owner, got, card>>

-----------------------------------------------------------------------------
(***************************************************************************)
(* send_jobs: the loop takes one job per step.                             *)
(***************************************************************************)
Sending == {"send", "resend", "spinsend"}

\* Milliseconds the clock may still give the T425's current job (end0 - clock()).
T425Left ==
  IF ~busy[0] THEN {0}
  ELSE {(EstMs(inflight[k].op, inflight[k].n, FALSE) * p) \div 100 :
          k \in {x \in DOMAIN inflight : inflight[x].node = 0}, p \in Left}

SendPossible == up /\ queue # <<>> /\ Len(inflight) < NODES

\* Mutant: the wire id is not advanced.
NextWid_Same == nextwid

\* ++nextwid in an unsigned short
NextWid == IF nextwid + 1 = WIDS THEN 0 ELSE nextwid + 1

\* The job as it goes on the link: its node byte overwritten, its wire id and deadline set.
Wired(j, k, d) == [fd |-> j.fd, cid |-> j.cid, op |-> j.op, node |-> k, n |-> j.n,
                   wid |-> NextWid, due |-> d]

\* The root's dispatcher drops a job above JOB_MAX for a TRAM: no node ever answers it.
Answerable(j) == j.node = 0 \/ j.n <= JOB_MAX

SendOne(q, k) ==
  /\ pc \in Sending /\ SendPossible
  /\ \E left \in T425Left : <<q, k>> \in Pick(queue, busy, present, left)
  /\ \E d \in Dues :
       LET j == Wired(queue[q], k, d)
       IN  /\ inflight' = Append(inflight, j)
           /\ due' = Earliest(Append(inflight, j))
           /\ net' = net \union (IF Answerable(j) THEN {[wid |-> j.wid, op |-> j.op]} ELSE {})
  /\ queue' = RemoveAt(queue, q)
  /\ busy' = [busy EXCEPT ![k] = TRUE]
  /\ nextwid' = NextWid
  /\ UNCHANGED <<pc, ready, up, leased, armed, present, big_max, rgot, oq, clients, link, bootfails>>

\* Mutant: the link is polled with nothing in flight.
AfterSend_Always(p) == IF p = "spinsend" THEN "select" ELSE IF p = "send" THEN "poll" ELSE "watch"

\* Where the loop goes once send_jobs returns (poll_link only with jobs in flight).
AfterSend(p) == IF p = "spinsend" THEN "select"
                ELSE IF p = "send" /\ inflight' # <<>> THEN "poll"
                ELSE "watch"

\* link_write fails: the job is out of the queue, everything else gets ST_DOWN.
SendFails(q, k) ==
  /\ pc \in Sending /\ SendPossible /\ "linkfail" \in Faults
  /\ \E left \in T425Left : <<q, k>> \in Pick(queue, busy, present, left)
  /\ GoDown(RemoveAt(queue, q), Nothing)
  /\ Fallen /\ armed' = TRUE
  /\ nextwid' = NextWid
  /\ pc' = AfterSend(pc)
  /\ NoBoot
  /\ UNCHANGED <<ready, leased, rgot, conn, inq, pend, gone, nconn, nreq, owner, got>>

\* Nothing (more) to send; the spinning loop then flushes every client.
SendDone ==
  /\ pc \in Sending
  /\ SendPossible => \E left \in T425Left : Pick(queue, busy, present, left) = {}
  /\ IF pc = "spinsend" THEN Flush({i \in Slots : Open(i)}, {}) ELSE Silence
  /\ UNCHANGED inflight
  /\ pc' = AfterSend(pc)
  /\ UNCHANGED <<ready, up, leased, armed, present, big_max, queue, busy, nextwid, rgot, due,
                 conn, inq, pend, gone, nconn, nreq, owner, got, card>>

-----------------------------------------------------------------------------
(***************************************************************************)
(* poll_link: the loop takes one reply, or a part of one, per step.        *)
(***************************************************************************)
Polling == {"poll", "spinpoll"}
AfterPoll(p) == IF p = "poll" THEN "resend" ELSE "spinsend"

\* Mutant: the lower bound is missing.
Clamp_NoFloor(caps) == IF caps > JOB_BIG THEN JOB_BIG ELSE caps

\* node 0's answer to OP_CAPS, between JOB_MAX and JOB_BIG; 0 stands for ST_BADOP.
Clamp(caps) == IF caps > JOB_BIG THEN JOB_BIG ELSE IF caps < JOB_MAX THEN JOB_MAX ELSE caps

\* A whole reply for in-flight job x: answer its client, free its node.
Finish(x, caps) ==
  LET j == inflight[x]
  IN  /\ Answer(Only(j.fd, Reply(j.cid, "RAN")))
      /\ busy' = [busy EXCEPT ![j.node] = FALSE]
      /\ inflight' = Vacate(inflight, x)
      /\ due' = Earliest(Vacate(inflight, x))
      /\ big_max' = IF j.op = "K" THEN Clamp(caps) ELSE big_max

Drop == Silence /\ UNCHANGED <<busy, inflight, due, big_max>>

\* The in-flight jobs with this wire id; the loop takes the first.
Matching(w) == {x \in DOMAIN inflight : inflight[x].wid = w}

PollReply ==
  /\ pc \in Polling /\ link # <<>> /\ rgot # "stale"
  /\ LET r == Head(link)
     IN  \/ \E x \in Matching(r.wid) : (\A y \in Matching(r.wid) : x <= y) /\ Finish(x, r.caps)
         \/ Matching(r.wid) = {} /\ Drop
  /\ link' = Tail(link)
  /\ rgot' = "none"
  /\ UNCHANGED <<pc, ready, up, leased, armed, present, queue, nextwid,
                 conn, inq, pend, gone, nconn, nreq, owner, got, net, bootfails>>

\* Old bytes in front of a reply shift the header: its wire id and length are anything.
PollOutOfStep ==
  /\ pc \in Polling /\ link # <<>> /\ rgot = "stale"
  /\ (\E x \in DOMAIN inflight, c \in Caps : Finish(x, c)) \/ Drop
  /\ link' = Tail(link)
  /\ UNCHANGED <<pc, ready, up, leased, armed, present, queue, nextwid, rgot,
                 conn, inq, pend, gone, nconn, nreq, owner, got, net, bootfails>>

PollBadLength ==
  /\ pc \in Polling /\ link # <<>> /\ rgot = "stale"
  /\ GoDown(queue, Nothing)
  /\ Fallen /\ armed' = TRUE
  /\ rgot' = "none"
  /\ pc' = AfterPoll(pc)
  /\ NoBoot
  /\ UNCHANGED <<ready, leased, nextwid, conn, inq, pend, gone, nconn, nreq, owner, got>>

\* link_read_some has no more: the link is quiet, or the rest of a reply is still to come.
PollDone ==
  /\ pc \in Polling
  /\ \/ link = <<>> /\ UNCHANGED rgot
     \/ link # <<>> /\ rgot # "stale" /\ rgot' = "cur"
  /\ pc' = AfterPoll(pc)
  /\ UNCHANGED <<ready, up, leased, armed, present, big_max, queue, inflight, busy, nextwid, due, oq,
                 clients, card>>

-----------------------------------------------------------------------------
(***************************************************************************)
(* The watchdog and the boot retry at the end of the loop.                 *)
(***************************************************************************)

\* A job in flight is past its deadline: fail everything, reset and boot again.
WatchFire ==
  /\ pc = "watch" /\ inflight # <<>>
  /\ GoDown(queue, Nothing)
  /\ armed' = TRUE
  /\ rgot' = "none"
  /\ Boot(<<>>)
  /\ pc' = "select"
  /\ UNCHANGED <<ready, leased, nextwid, conn, inq, pend, gone, nconn, nreq, owner, got>>

\* Mutant: down_since is not consulted.
RetryDue_Unarmed == ~up

RetryDue == ~up /\ armed

\* REBOOT_RETRY_S after the network went down.
Retry ==
  /\ pc = "watch" /\ RetryDue
  /\ Boot(queue)
  /\ armed' = ~up'
  /\ rgot' = Outlived
  /\ pc' = "select"
  /\ UNCHANGED <<ready, leased, inflight, busy, nextwid, due, oq, clients>>

WatchQuiet ==
  /\ pc = "watch"
  /\ pc' = "select"
  /\ UNCHANGED <<ready, up, leased, armed, present, big_max, queue, inflight, busy, nextwid, rgot,
                 due, oq, clients, card>>

-----------------------------------------------------------------------------
\* main up to the loop: the lock is held and the first boot has been tried.
Init ==
  /\ pc = "select" /\ ready = {}
  /\ leased = -1 /\ big_max = JOB_MAX
  /\ inflight = <<>> /\ busy = [k \in Nodes |-> FALSE]
  /\ nextwid = 0 /\ rgot = "none" /\ due = 0
  /\ \/ up = TRUE /\ armed = FALSE /\ present \in Images /\ queue = <<CapsJob>>
     \/ "bootfail" \in Faults /\ up = FALSE /\ armed = TRUE /\ present = NODES /\ queue = <<>>
  /\ conn = [i \in Slots |-> 0]
  /\ oq = [i \in Slots |-> <<>>] /\ sock = oq /\ inq = oq
  /\ pend = [i \in Slots |-> FALSE] /\ gone = pend
  /\ net = {} /\ link = <<>>
  /\ nconn = 0 /\ nreq = 0 /\ bootfails = 0
  /\ owner = [c \in 0..MaxReq |-> 0]
  /\ got = {}

ServeRequest(i) ==
  \/ ClientGone(i)
  \/ \E h \in Headers(i) :
       \/ BadRequest(i, h) \/ LeaseRefused(i, h) \/ LeaseGranted(i, h) \/ NoNode(i, h)
       \/ Refused(i, h) \/ NotTaken(i, h) \/ Enqueue(i, h)

SendJobs ==
  \/ \E q \in DOMAIN queue, k \in Nodes : SendOne(q, k) \/ SendFails(q, k)
  \/ SendDone

PollLink == PollReply \/ PollOutOfStep \/ PollBadLength \/ PollDone

Daemon ==
  \/ Select \/ Spin
  \/ \E i \in Slots : ServeRequest(i)
  \/ SendJobs \/ PollLink
  \/ WatchFire \/ Retry \/ WatchQuiet

Client(i) ==
  \/ \E r \in Requests : Submit(i, r)
  \/ SendPayload(i) \/ Receive(i) \/ Close(i)

Next ==
  \/ Daemon \/ SelectConnect
  \/ \E i \in Slots : Client(i)
  \/ \E j \in net, caps \in Caps : NodeReply(j, caps)

Spec == Init /\ [][Next]_vars

(***************************************************************************)
(* Fairness: the daemon's process is scheduled; the 20 ms of spinning and  *)
(* a job's deadline pass (the clock runs); a client that stays writes the  *)
(* payload it announced and reads its replies.  Nodes owe nothing.         *)
(***************************************************************************)
Fairness ==
  /\ WF_vars(Daemon) /\ SF_vars(Select) /\ SF_vars(WatchFire) /\ SF_vars(Retry)
  /\ \A i \in Slots : WF_vars(SendPayload(i)) /\ WF_vars(Receive(i))

FairSpec == Spec /\ Fairness

-----------------------------------------------------------------------------
(***************************************************************************)
(* Properties.                                                             *)
(***************************************************************************)
OpBytes == {"K", ""} \union {r.op : r \in Requests}
Token == [t : {"header", "payload"}, cid : 0..MaxReq, op : OpBytes, node : Nat, n : Int]
QueuedJob == [fd : Slots \union {NoFd}, cid : 0..MaxReq, op : OpBytes, node : Nat, n : Nat]
WiredJob == [fd : Slots \union {NoFd}, cid : 0..MaxReq, op : OpBytes, node : Nodes, n : Nat,
             wid : Nat, due : Dues]

DaemonTypeOK ==
  /\ pc \in {"select", "serve", "watch"} \union Sending \union Polling
  /\ ready \subseteq Slots
  /\ up \in BOOLEAN /\ armed \in BOOLEAN /\ leased \in Slots \union {-1}
  /\ present \in 1..NODES /\ big_max \in JOB_MAX..JOB_BIG
  /\ queue \in Seq(QueuedJob) /\ Len(queue) <= QMAX
  /\ inflight \in Seq(WiredJob) /\ Len(inflight) <= NODES
  /\ busy \in [Nodes -> BOOLEAN] /\ nextwid \in 0..WIDS-1
  /\ rgot \in {"none", "cur", "stale"} /\ due \in Dues \union {0}

ClientTypeOK ==
  /\ conn \in [Slots -> 0..MaxConn] /\ nconn \in 0..MaxConn
  /\ inq \in [Slots -> Seq(Token)]
  /\ pend \in [Slots -> BOOLEAN] /\ gone \in [Slots -> BOOLEAN]
  /\ nreq \in 0..MaxReq /\ owner \in [0..MaxReq -> 0..MaxConn]

\* The type invariant: each table keeps its shape and its limit (QMAX jobs queued, one job
\* per node in flight, a payload cap between JOB_MAX and JOB_BIG).
TypeOK == DaemonTypeOK /\ ClientTypeOK

\* busy[] and inflight[] agree: a node is busy exactly when one job in flight, and only
\* one, is on it.  send_jobs, poll_link's swap-remove and go_down keep them apart; a node
\* left busy is never used again, a node freed early gets a second job.
BusyMatches ==
  /\ \A x \in DOMAIN inflight : busy[inflight[x].node]
  /\ \A k \in Nodes : busy[k] => \E x \in DOMAIN inflight : inflight[x].node = k
  /\ \A x, y \in DOMAIN inflight : inflight[x].node = inflight[y].node => x = y

\* While the network is down nothing is queued and nothing is in flight, so every boot
\* starts from an empty queue and the image's OP_CAPS job is always the first one sent.
DownIsEmpty == ~up => queue = <<>> /\ inflight = <<>>

\* The lease: its holder is a connected client, the network is not in use and no boot
\* retry is armed, so ttjobd leaves the holder's own image alone.
LeaseExclusive == leased >= 0 => Open(leased) /\ ~up /\ ~armed

\* Request c came over the connection now at slot i.  0 is no request's id: it stands for
\* OP_CAPS and for whatever a stalled client's late payload bytes say when read as a header.
From(c, i) == Open(i) /\ (c # 0 => owner[c] = conn[i])

\* A job is answered to the connection that sent it: a live fd in queue[] or inflight[]
\* still belongs to the job's own connection, although fds and slots are reused.
OwnersMatch ==
  /\ \A k \in DOMAIN queue : queue[k].fd # NoFd => From(queue[k].cid, queue[k].fd)
  /\ \A x \in DOMAIN inflight : inflight[x].fd # NoFd => From(inflight[x].cid, inflight[x].fd)

\* Every reply waiting for a client or in its socket answers a request of that connection.
RepliesRouted ==
  \A i \in Slots : \A r \in ToSet(oq[i]) \union ToSet(sock[i]) : From(r.cid, i)

\* Every request of an open connection is in exactly one place: still to be read, queued,
\* in flight, answered and waiting, or received.  None is lost and none answered twice.
Count(s, c) == Cardinality({k \in DOMAIN s : s[k].cid = c})
Places(i, c) == Count(inq[i], c) + Count(queue, c) + Count(inflight, c) + Count(oq[i], c)
                + Count(sock[i], c) + (IF c \in got THEN 1 ELSE 0)
Conservation ==
  \A c \in 1..MaxReq : \A i \in Slots : Open(i) /\ ~gone[i] /\ owner[c] = conn[i] => Places(i, c) = 1

\* /var/run/ttjob.due holds the earliest deadline in flight, and 0 exactly when nothing is:
\* ttjobd-watch restarts a daemon that outlives it.
DueFile ==
  /\ due = 0 <=> inflight = <<>>
  /\ \A x \in DOMAIN inflight : due <= inflight[x].due
  /\ due # 0 => \E x \in DOMAIN inflight : due = inflight[x].due

\* A queued job for an explicit node waits for a node the booted image has: nothing is
\* stranded behind a node that an intervening boot lost.
NoStranded == \A k \in DOMAIN queue : queue[k].node = NODE_ANY \/ queue[k].node < present

\* Every reply the card owes or has sent belongs to exactly one job in flight, and no two
\* jobs in flight share a wire id: no reply can be given to another client's job.
LinkMatches ==
  up /\ rgot # "stale" =>
    /\ \A x, y \in DOMAIN inflight : inflight[x].wid = inflight[y].wid => x = y
    /\ \A j \in net : Cardinality(Matching(j.wid)) = 1 /\ \A k \in DOMAIN link : link[k].wid # j.wid
    /\ \A k, l \in DOMAIN link : /\ Cardinality(Matching(link[k].wid)) = 1
                                 /\ link[k].wid = link[l].wid => k = l

\* The daemon's view of the card is the card the resident image implements (see JobNet): it
\* gives the card no wire id that is still in use there, and a boot forgets the old jobs.
Card == INSTANCE JobCard WITH
  Ids  <- 0..WIDS-1,
  net  <- {j.wid : j \in net},
  link <- [k \in DOMAIN link |-> link[k].wid]
UsesCard == Card!Spec

\* While a client holds the lease no step boots the card, sends a job or reads the link.
LeaseRespected ==
  [][leased >= 0 /\ leased' = leased =>
       UNCHANGED <<up, present, nextwid, rgot, bootfails>>]_vars

\* A client that stays connected gets an answer to every request, whatever the nodes do,
\* and a lease ends once its holder's connection has closed.
Waiting(c) == owner[c] # 0 /\ c \notin got /\ \E i \in Slots : conn[i] = owner[c] /\ ~gone[i]
Answered ==
  /\ \A c \in 1..MaxReq : Waiting(c) ~> ~Waiting(c)
  /\ \A i \in Slots : (leased = i /\ gone[i]) ~> (leased # i)

====
