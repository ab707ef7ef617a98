---------------------------- MODULE TTJobd_proofs ----------------------------
(***************************************************************************)
(* Proofs about TTJobd, for every number of clients, nodes, queue slots,   *)
(* requests and faults.                                                    *)
(***************************************************************************)
EXTENDS TTJobd, SequenceTheorems, WellFoundedInduction, TLAPS

USE DEF Slots, NoFd, Nodes

\* Every non-empty set of naturals has a least element (for Earliest's CHOOSE).
LEMMA LeastNatural ==
  ASSUME NEW T, T \subseteq Nat, T # {}
  PROVE  \E x \in T : \A y \in T : x <= y
<1>1. IsWellFoundedOn(OpToRel(<, Nat), Nat)
  BY NatLessThanWellFounded
<1>2. \A x, y \in Nat : y < x => <<y, x>> \in OpToRel(<, Nat)
  BY DEF OpToRel
<1>3. PICK L : IsWellFoundedOn(L, Nat) /\ \A x, y \in Nat : y < x => <<y, x>> \in L
  BY <1>1, <1>2
<1>4. PICK x \in T : \A y \in T : ~(<<y, x>> \in L)
  BY <1>3, WFMin
<1>5. \A y \in T : ~(y < x)
  BY <1>3, <1>4
<1>6. \A y \in T : x <= y
  BY <1>5
<1>7. QED
  BY <1>6

\* due_note shows 0 with nothing in flight and otherwise the least deadline.
LEMMA EarliestFact ==
  ASSUME NEW s \in Seq(WiredJob)
  PROVE  /\ Earliest(s) \in Dues \union {0}
         /\ Earliest(s) = 0 <=> s = <<>>
         /\ \A x \in DOMAIN s : Earliest(s) <= s[x].due
         /\ s # <<>> => \E x \in DOMAIN s : Earliest(s) = s[x].due
<1>1. CASE s = <<>>
  BY <1>1 DEF Earliest
<1>2. CASE s # <<>>
  <2> DEFINE T == {s[k].due : k \in DOMAIN s}
  <2>0. 1 \in DOMAIN s /\ \A k \in DOMAIN s : s[k] \in WiredJob
    BY <1>2
  <2>1. T # {} /\ T \subseteq Dues
    BY <2>0 DEF WiredJob
  <2>2. PICK d \in T : \A y \in T : d <= y
    BY <2>1, LeastNatural, InputsAssumption
  <2>3. \A k \in DOMAIN s : d <= s[k].due
    BY <2>2
  <2>4. Earliest(s) \in T /\ \A k \in DOMAIN s : Earliest(s) <= s[k].due
    BY <1>2, <2>2, <2>3 DEF Earliest
  <2>5. QED
    BY <1>2, <2>1, <2>4, InputsAssumption
<1>3. QED
  BY <1>1, <1>2

-----------------------------------------------------------------------------
(***************************************************************************)
(* What the edits of queue[] and inflight[] do.                            *)
(***************************************************************************)

\* The memmove of send_jobs: one job leaves the queue, the others stay.
LEMMA RemoveAtFact ==
  ASSUME NEW S, NEW s \in Seq(S), NEW q \in 1..Len(s)
  PROVE  /\ RemoveAt(s, q) \in Seq(S)
         /\ Len(RemoveAt(s, q)) = Len(s) - 1
         /\ \A k \in DOMAIN RemoveAt(s, q) : \E m \in DOMAIN s : RemoveAt(s, q)[k] = s[m]
<1> DEFINE a == SubSeq(s, 1, q-1)
           b == SubSeq(s, q+1, Len(s))
<1>1. /\ a \in Seq(S) /\ Len(a) = q - 1
      /\ \A i \in 1..q-1 : a[i] = s[i]
  BY SubSeqProperties
<1>2. /\ b \in Seq(S) /\ Len(b) = Len(s) - q
      /\ \A i \in 1..Len(s)-q : b[i] = s[q+i]
  BY SubSeqProperties
<1>3. RemoveAt(s, q) = a \o b
  BY DEF RemoveAt
<1> HIDE DEF a, b
<1>4. /\ a \o b \in Seq(S) /\ Len(a \o b) = Len(s) - 1
      /\ \A i \in 1..Len(s)-1 : (a \o b)[i] = IF i <= q-1 THEN a[i] ELSE b[i - (q-1)]
  BY <1>1, <1>2, ConcatProperties
<1>5. ASSUME NEW k \in 1..Len(s)-1
      PROVE  \E m \in DOMAIN s : (a \o b)[k] = s[m]
  <2>0. k \in Int /\ q \in Int /\ Len(s) \in Nat /\ DOMAIN s = 1..Len(s)
    OBVIOUS
  <2>1. CASE k <= q-1
    <3>1. (a \o b)[k] = a[k] /\ k \in 1..q-1
      BY <2>0, <2>1, <1>4
    <3>2. a[k] = s[k] /\ k \in DOMAIN s
      BY <2>0, <3>1, <1>1
    <3>3. QED
      BY <3>1, <3>2
  <2>2. CASE k > q-1
    <3>1. (a \o b)[k] = b[k - (q-1)] /\ k - (q-1) \in 1..Len(s)-q
      BY <2>0, <2>2, <1>4
    <3>2. b[k - (q-1)] = s[k+1] /\ k+1 \in DOMAIN s
      BY <2>0, <3>1, <1>2
    <3>3. QED
      BY <3>1, <3>2
  <2>3. k <= q-1 \/ k > q-1
    BY <2>0
  <2>4. QED
    BY <2>1, <2>2, <2>3, Zenon
<1>6. Len(s) - 1 \in Nat
  OBVIOUS
<1>7. DOMAIN (a \o b) = 1..Len(s)-1
  BY <1>4, <1>6
<1>8. QED
  BY <1>3, <1>4, <1>5, <1>7

\* poll_link's swap-remove: exactly job x leaves.
LEMMA VacateFact ==
  ASSUME NEW S, NEW s \in Seq(S), NEW x \in 1..Len(s)
  PROVE  /\ Vacate(s, x) \in Seq(S)
         /\ Len(Vacate(s, x)) = Len(s) - 1
         /\ DOMAIN Vacate(s, x) = 1..Len(s)-1
         /\ \A k \in 1..Len(s)-1 : Vacate(s, x)[k] = s[IF k = x THEN Len(s) ELSE k]
  BY DEF Vacate

\* drop_client keeps every job and changes at most its fd.
LEMMA OrphanFact ==
  ASSUME NEW i, NEW s
  PROVE  /\ s \in Seq(QueuedJob) => Orphan(s, i) \in Seq(QueuedJob)
         /\ s \in Seq(WiredJob) => Orphan(s, i) \in Seq(WiredJob)
         /\ s \in Seq(QueuedJob) \/ s \in Seq(WiredJob) =>
              /\ Len(Orphan(s, i)) = Len(s)
              /\ DOMAIN Orphan(s, i) = DOMAIN s
              /\ \A k \in DOMAIN s : Orphan(s, i)[k].node = s[k].node
         /\ s \in Seq(WiredJob) => \A k \in DOMAIN s : Orphan(s, i)[k].due = s[k].due
         /\ s = <<>> => Orphan(s, i) = <<>>
<1>1. ASSUME NEW S, S = QueuedJob \/ S = WiredJob, s \in Seq(S)
      PROVE  /\ Orphan(s, i) \in Seq(S) /\ Len(Orphan(s, i)) = Len(s) /\ DOMAIN Orphan(s, i) = DOMAIN s
             /\ \A k \in DOMAIN s : Orphan(s, i)[k].node = s[k].node
             /\ S = WiredJob => \A k \in DOMAIN s : Orphan(s, i)[k].due = s[k].due
  <2>a. \A j \in QueuedJob : [j EXCEPT !.fd = NoFd] \in QueuedJob /\ [j EXCEPT !.fd = NoFd].node = j.node
    BY DEF QueuedJob
  <2>b. \A j \in WiredJob : [j EXCEPT !.fd = NoFd] \in WiredJob /\ [j EXCEPT !.fd = NoFd].node = j.node
    BY DEF WiredJob
  <2>1. \A j \in S : [j EXCEPT !.fd = NoFd] \in S /\ [j EXCEPT !.fd = NoFd].node = j.node
    BY <1>1, <2>a, <2>b
  <2>2. S = WiredJob => \A j \in S : [j EXCEPT !.fd = NoFd].due = j.due
    BY DEF WiredJob
  <2>3. \A k \in 1..Len(s) : s[k] \in S
    BY <1>1
  <2>4. Orphan(s, i) = [k \in 1..Len(s) |-> IF s[k].fd = i THEN [s[k] EXCEPT !.fd = NoFd] ELSE s[k]]
    BY <1>1 DEF Orphan
  <2>5. Len(s) \in Nat
    BY <1>1
  <2>6. \A k \in 1..Len(s) : (IF s[k].fd = i THEN [s[k] EXCEPT !.fd = NoFd] ELSE s[k]) \in S
    BY <2>1, <2>3
  <2>7. Orphan(s, i) \in Seq(S) /\ Len(Orphan(s, i)) = Len(s) /\ DOMAIN Orphan(s, i) = DOMAIN s
    BY <1>1, <2>4, <2>5, <2>6
  <2>8. QED
    BY <1>1, <2>1, <2>2, <2>3, <2>4, <2>7
<1>2. QED
  BY <1>1 DEF Orphan

-----------------------------------------------------------------------------
(***************************************************************************)
(* The inductive invariant.  BusyMatches is what send_jobs and poll_link   *)
(* rely on; DownIsEmpty is needed because every boot starts from the queue *)
(* as it is, and LeaseExclusive needs it when the lease is handed back.    *)
(***************************************************************************)
\* The client loop only serves open slots: nothing closes a slot select found readable
\* before its turn comes.
ReadyOpen == \A i \in ready : Open(i)

\* The link is polled only while an image is up.
PollingUp == pc \in Polling => up

Inv ==
  /\ TypeOK /\ BusyMatches /\ DownIsEmpty /\ NoStranded /\ LeaseExclusive /\ DueFile
  /\ ReadyOpen /\ PollingUp

\* The tables the clauses other than the types and the lease speak of.
tables == <<up, present, queue, inflight, busy, due>>

\* An empty queue[] and inflight[] satisfy every clause about them.
LEMMA EmptyTables ==
  ASSUME NodesAssumption, inflight' = <<>>, busy' = AllIdle, due' = 0
  PROVE  /\ BusyMatches' /\ DueFile'
         /\ inflight' \in Seq(WiredJob) /\ Len(inflight') <= NODES
         /\ busy' \in [Nodes -> BOOLEAN] /\ due' \in Dues \union {0}
  BY DEF BusyMatches, DueFile, AllIdle

\* The payload caps are ordered (their values matter nowhere else).
LEMMA JobSizes == JOB_MAX \in Nat /\ JOB_BIG \in Nat /\ JOB_MAX <= JOB_BIG
  BY SMT DEF JOB_MAX, JOB_BIG

\* The OP_CAPS job as boot_network queues it, in a queue that has room for one.
LEMMA CapsJobFact ==
  /\ CapsJob \in QueuedJob /\ CapsJob.node = 0
  /\ <<CapsJob>> \in Seq(QueuedJob) /\ Len(<<CapsJob>>) <= QMAX
  /\ \A k \in DOMAIN <<CapsJob>> : <<CapsJob>>[k].node = 0
<1>1. CapsJob \in QueuedJob /\ CapsJob.node = 0
  <2>1. "K" \in OpBytes /\ 0 \in 0..MaxReq
    BY BoundsAssumption DEF OpBytes
  <2>2. QED
    BY <2>1 DEF CapsJob, QueuedJob
<1> HIDE DEF CapsJob
<1>2. QED
  BY <1>1, BoundsAssumption

\* A boot from an empty queue leaves at most the OP_CAPS job in it.
LEMMA BootFact ==
  ASSUME NEW q, q = <<>>, Boot(q), present \in 1..NODES, big_max \in JOB_MAX..JOB_BIG
  PROVE  /\ up' \in BOOLEAN /\ present' \in 1..NODES /\ big_max' \in JOB_MAX..JOB_BIG
         /\ queue' \in Seq(QueuedJob) /\ Len(queue') <= QMAX
         /\ NoStranded'
         /\ ~up' => queue' = <<>>
<1>1. <<>> \in Seq(QueuedJob) /\ Len(<<>>) = 0 /\ DOMAIN <<>> = {}
  OBVIOUS
<1>2. queue' = <<>> \/ queue' = <<CapsJob>>
  BY DEF Boot
<1>3. up' \in BOOLEAN /\ present' \in 1..NODES /\ (~up' => queue' = <<>>)
  BY InputsAssumption DEF Boot
<1>4. big_max' \in JOB_MAX..JOB_BIG
  BY JobSizes, SMT DEF Boot
<1>5. queue' \in Seq(QueuedJob) /\ Len(queue') <= QMAX
  <2>1. CASE queue' = <<>>
    BY <2>1, BoundsAssumption
  <2>2. CASE queue' = <<CapsJob>>
    BY <2>2, CapsJobFact, Zenon
  <2>3. QED
    BY <1>2, <2>1, <2>2
<1>6. NoStranded'
  BY <1>1, <1>2, <1>3, CapsJobFact DEF NoStranded
<1>7. QED
  BY <1>3, <1>4, <1>5, <1>6

\* main reaches its loop with consistent tables, booted or not.
LEMMA InitInv == Init => Inv
<1> SUFFICES ASSUME Init PROVE Inv
  OBVIOUS
<1>1. queue = <<>> \/ queue = <<CapsJob>>
  BY DEF Init
<1>b. present \in Images \/ present = NODES
  BY DEF Init
<1>2. present \in 1..NODES
  <2>1. CASE present \in Images
    BY <2>1, InputsAssumption
  <2>2. CASE present = NODES
    BY <2>2, NodesAssumption
  <2>3. QED
    BY <1>b, <2>1, <2>2
<1>a. up \in BOOLEAN /\ armed \in BOOLEAN
  BY DEF Init
<1>3. queue \in Seq(QueuedJob) /\ Len(queue) <= QMAX /\ NoStranded
  <2>1. CASE queue = <<>>
    BY <2>1, BoundsAssumption DEF NoStranded
  <2>2. CASE queue = <<CapsJob>>
    <3>1. queue \in Seq(QueuedJob) /\ Len(queue) <= QMAX /\ \A k \in DOMAIN queue : queue[k].node = 0
      BY <2>2, CapsJobFact, Zenon
    <3>2. QED
      BY <3>1, <1>2 DEF NoStranded
  <2>3. QED
    BY <1>1, <2>1, <2>2
<1>4. inflight \in Seq(WiredJob) /\ Len(inflight) <= NODES /\ busy \in [Nodes -> BOOLEAN]
  BY NodesAssumption DEF Init
<1>5. nextwid \in 0..WIDS-1 /\ big_max \in JOB_MAX..JOB_BIG
  BY JobSizes, BoundsAssumption DEF Init
<1>6. DaemonTypeOK
  BY <1>2, <1>a, <1>3, <1>4, <1>5 DEF Init, DaemonTypeOK
<1>7. ClientTypeOK
  BY BoundsAssumption DEF Init, ClientTypeOK
<1>8. BusyMatches /\ DueFile /\ LeaseExclusive /\ DownIsEmpty /\ ReadyOpen /\ PollingUp
  BY NodesAssumption DEF Init, ReadyOpen, PollingUp, Polling, BusyMatches, DueFile, LeaseExclusive, DownIsEmpty
<1>9. QED
  BY <1>3, <1>6, <1>7, <1>8 DEF Inv, TypeOK

-----------------------------------------------------------------------------
(***************************************************************************)
(* Steps that leave the tables alone.                                      *)
(***************************************************************************)

\* A step that leaves the tables alone can only disturb the rest of the invariant.
LEMMA FrameInv ==
  ASSUME Inv, TypeOK', UNCHANGED tables, LeaseExclusive', ReadyOpen', PollingUp'
  PROVE  Inv'
  BY DEF Inv, tables, BusyMatches, DownIsEmpty, NoStranded, DueFile

\* A step of a client or of the card changes nothing of the daemon.
LEMMA EnvironmentInv ==
  ASSUME Inv,
         \/ \E i \in Slots : Client(i)
         \/ \E j \in net, caps \in Caps : NodeReply(j, caps)
  PROVE  Inv'
<1>1. UNCHANGED <<daemon, conn>>
  BY DEF Client, Submit, SendPayload, Receive, Close, NodeReply, clients
<1>2. DaemonTypeOK'
  BY <1>1 DEF Inv, TypeOK, DaemonTypeOK, daemon
<1>3. ClientTypeOK'
  <2>1. ASSUME NEW i \in Slots, NEW r \in Requests, Submit(i, r) PROVE ClientTypeOK'
    <3>1. [t |-> "header", cid |-> nreq + 1, op |-> r.op, node |-> r.node, n |-> r.n] \in Token
      <4>1. r.op \in OpBytes /\ r.node \in Nat /\ r.n \in Int
        BY InputsAssumption DEF OpBytes
      <4>2. nreq + 1 \in 0..MaxReq
        BY <2>1, BoundsAssumption DEF Submit, Inv, TypeOK, ClientTypeOK
      <4>3. QED
        BY <4>1, <4>2 DEF Token
    <3>2. inq' \in [Slots -> Seq(Token)]
      BY <2>1, <3>1 DEF Submit, Inv, TypeOK, ClientTypeOK
    <3>3. nreq' \in 0..MaxReq /\ owner' \in [0..MaxReq -> 0..MaxConn]
      <4>1. nreq' = nreq + 1 /\ nreq + 1 \in 0..MaxReq
        BY <2>1, BoundsAssumption DEF Submit, Inv, TypeOK, ClientTypeOK
      <4>2. owner \in [0..MaxReq -> 0..MaxConn] /\ conn[i] \in 0..MaxConn
        BY DEF Inv, TypeOK, ClientTypeOK
      <4>3. owner' = [owner EXCEPT ![nreq + 1] = conn[i]]
        BY <2>1 DEF Submit
      <4>4. QED
        BY <4>1, <4>2, <4>3
    <3>4. pend' \in [Slots -> BOOLEAN]
      BY <2>1, InputsAssumption DEF Submit, Inv, TypeOK, ClientTypeOK
    <3>5. QED
      BY <2>1, <3>2, <3>3, <3>4 DEF Submit, Inv, TypeOK, ClientTypeOK
  <2>2. ASSUME NEW i \in Slots, SendPayload(i) PROVE ClientTypeOK'
    <3>1. [t |-> "payload", cid |-> 0, op |-> "", node |-> 0, n |-> 0] \in Token
      BY BoundsAssumption DEF Token, OpBytes
    <3>2. inq' \in [Slots -> Seq(Token)]
      <4>1. \A tok \in Token : [inq EXCEPT ![i] = Append(@, tok)] \in [Slots -> Seq(Token)]
        BY DEF Inv, TypeOK, ClientTypeOK
      <4>2. QED
        BY <2>2, <3>1, <4>1 DEF SendPayload
    <3>3. pend' \in [Slots -> BOOLEAN]
      BY <2>2 DEF SendPayload, Inv, TypeOK, ClientTypeOK
    <3>4. QED
      BY <2>2, <3>2, <3>3 DEF SendPayload, Inv, TypeOK, ClientTypeOK
  <2>3. ASSUME NEW i \in Slots, Receive(i) \/ Close(i) PROVE ClientTypeOK'
    BY <2>3 DEF Receive, Close, Inv, TypeOK, ClientTypeOK
  <2>4. ASSUME NEW j, NEW caps, NodeReply(j, caps) PROVE ClientTypeOK'
    BY <2>4 DEF NodeReply, clients, Inv, TypeOK, ClientTypeOK
  <2>5. QED
    BY <2>1, <2>2, <2>3, <2>4 DEF Client
<1>4. LeaseExclusive' /\ ReadyOpen' /\ PollingUp' /\ UNCHANGED tables
  BY <1>1 DEF Inv, PollingUp, LeaseExclusive, ReadyOpen, daemon, tables, Open
<1>5. QED
  BY <1>2, <1>3, <1>4, FrameInv DEF TypeOK

\* The parts of the loop that only move its pc, answer, or read part of a reply.
LEMMA LoopInv ==
  ASSUME Inv, Selected(FALSE) \/ Selected(TRUE) \/ Spin \/ SendDone \/ PollDone \/ WatchQuiet
  PROVE  Inv'
<1>1. UNCHANGED <<up, leased, armed, present, big_max, queue, inflight, busy, nextwid, due>>
  BY DEF Selected, Spin, SendDone, PollDone, WatchQuiet
<1>2. pc' \in {"select", "serve", "watch"} \union Sending \union Polling /\ ready' \subseteq Slots
      /\ rgot' \in {"none", "cur", "stale"}
  BY DEF Selected, Spin, SendDone, PollDone, WatchQuiet, AfterSend, AfterPoll, Sending, Polling,
         Inv, TypeOK, DaemonTypeOK
<1>3. DaemonTypeOK'
  BY <1>1, <1>2 DEF Inv, TypeOK, DaemonTypeOK
<1>4. ClientTypeOK' /\ \A i \in Slots : conn[i] # 0 => conn'[i] # 0
  <2>1. CASE UNCHANGED <<conn, nconn>>
    BY <2>1 DEF Selected, Spin, SendDone, PollDone, WatchQuiet, clients, Inv, TypeOK, ClientTypeOK
  <2>2. CASE Selected(TRUE)
    <3>1. /\ nconn + 1 \in 1..MaxConn /\ nconn' = nconn + 1
          /\ conn' = [i \in Slots |-> IF i \in FreeSlot THEN nconn + 1 ELSE conn[i]]
      BY <2>2, BoundsAssumption DEF Selected, Accept, Inv, TypeOK, ClientTypeOK
    <3>2. conn' \in [Slots -> 0..MaxConn] /\ \A i \in Slots : conn[i] # 0 => conn'[i] # 0
      BY <3>1 DEF Inv, TypeOK, ClientTypeOK
    <3>3. QED
      BY <2>2, <3>1, <3>2 DEF Selected, Inv, TypeOK, ClientTypeOK
  <2>3. QED
    BY <2>1, <2>2 DEF Selected, Spin, SendDone, PollDone, WatchQuiet, clients
<1>5. LeaseExclusive'
  BY <1>1, <1>4 DEF Inv, TypeOK, DaemonTypeOK, LeaseExclusive, Open
<1>6. ReadyOpen'
  <2>1. \A i \in ready' : i \in Slots /\ Open(i)
    BY DEF Selected, Readable, Spin, SendDone, PollDone, WatchQuiet, Inv, ReadyOpen, TypeOK, DaemonTypeOK
  <2>2. QED
    BY <1>4, <2>1 DEF ReadyOpen, Open
<1>7. PollingUp'
  <2>1. pc' \in Polling => inflight # <<>> \/ pc \in Polling
    BY <1>1 DEF Selected, Spin, SendDone, PollDone, WatchQuiet, AfterSend, AfterPoll, Polling
  <2>2. QED
    BY <1>1, <2>1 DEF Inv, PollingUp, DownIsEmpty
<1>8. QED
  BY <1>1, <1>3, <1>4, <1>5, <1>6, <1>7, FrameInv DEF TypeOK, tables

-----------------------------------------------------------------------------
(***************************************************************************)
(* Serving a client.                                                       *)
(***************************************************************************)

\* After a client is served the loop goes on to the next one or to send_jobs.
LEMMA ServedFact ==
  ASSUME Inv, NEW i \in Slots, Served(i)
  PROVE  /\ pc' \in {"select", "serve", "watch"} \union Sending \union Polling
         /\ ready' \subseteq Slots
         /\ pc' \notin Polling
  BY DEF Served, Inv, TypeOK, DaemonTypeOK, Sending, Polling

\* What is left of a client's bytes holds nothing that was not there before.
LEMMA RestIn ==
  ASSUME NEW T, NEW i \in Slots, inq[i] \in Seq(T), NEW h \in Headers(i)
  PROVE  /\ inq[i] # <<>> /\ Tail(inq[i]) \in Seq(T)
         /\ \A p \in Payloads(i, h) : p.rest \in Seq(T)
<1>2. inq[i] # <<>>
  BY DEF Headers
<1>3. Tail(inq[i]) \in Seq(T)
  BY <1>2
<1>4. ASSUME NEW p \in Payloads(i, h) PROVE p.rest \in Seq(T)
  <2> DEFINE rest == Tail(inq[i])
  <2> HIDE DEF rest
  <2>1. \/ p = [ok |-> TRUE, rest |-> rest]
        \/ rest # <<>> /\ p = [ok |-> TRUE, rest |-> Tail(rest)]
        \/ p = [ok |-> FALSE, rest |-> <<>>]
    BY DEF Payloads, rest
  <2>2. rest \in Seq(T)
    BY <1>3 DEF rest
  <2>3. rest # <<>> => Tail(rest) \in Seq(T)
    BY <2>2
  <2>4. p.rest = rest \/ (rest # <<>> /\ p.rest = Tail(rest)) \/ p.rest = <<>>
    BY <2>1
  <2>5. <<>> \in Seq(T)
    OBVIOUS
  <2>6. QED
    BY <2>2, <2>3, <2>4, <2>5, Zenon
<1>5. QED
  BY <1>2, <1>3, <1>4

\* ... and it is well-typed.
LEMMA RestFact ==
  ASSUME Inv, NEW i \in Slots, NEW h \in Headers(i)
  PROVE  /\ inq[i] # <<>> /\ Tail(inq[i]) \in Seq(Token)
         /\ \A p \in Payloads(i, h) : p.rest \in Seq(Token)
  BY RestIn DEF Inv, TypeOK, ClientTypeOK

\* A header is well-typed, whoever wrote the bytes.
LEMMA HeaderFact ==
  ASSUME Inv, NEW i \in Slots, NEW h \in Headers(i)
  PROVE  h.cid \in 0..MaxReq /\ h.op \in OpBytes /\ h.node \in Nat /\ h.n \in Int
<1>1. inq[i] \in Seq(Token)
  BY DEF Inv, TypeOK, ClientTypeOK
<1>2. CASE inq[i] # <<>> /\ Head(inq[i]).t = "header"
  <2>1. h = Head(inq[i])
    BY <1>2 DEF Headers
  <2>2. Head(inq[i]) \in Token
    BY <1>1, <1>2
  <2>3. QED
    BY <2>1, <2>2 DEF Token
<1>3. CASE inq[i] # <<>> /\ Head(inq[i]).t # "header"
  <2>1. PICK r \in Requests : h = [t |-> "header", cid |-> 0, op |-> r.op, node |-> r.node, n |-> r.n]
    BY <1>3 DEF Headers
  <2>2. r.op \in OpBytes /\ r.node \in Nat /\ r.n \in Int
    BY InputsAssumption DEF OpBytes
  <2>3. QED
    BY <2>1, <2>2, BoundsAssumption
<1>4. QED
  BY <1>2, <1>3 DEF Headers

\* A request that is only answered.
LEMMA OnlyAnswersInv ==
  ASSUME Inv, NEW i \in Slots, NEW h, NEW st, NEW rest \in Seq(Token), OnlyAnswers(i, h, rest, st)
  PROVE  Inv'
<1>1. DaemonTypeOK'
  BY ServedFact DEF OnlyAnswers, Inv, TypeOK, DaemonTypeOK
<1>2. inq' \in [Slots -> Seq(Token)]
  BY DEF OnlyAnswers, Inv, TypeOK, ClientTypeOK
<1>3. ClientTypeOK'
  BY <1>2 DEF OnlyAnswers, Inv, TypeOK, ClientTypeOK
<1>4. LeaseExclusive' /\ ReadyOpen' /\ PollingUp' /\ UNCHANGED tables
  BY ServedFact DEF OnlyAnswers, Served, PollingUp, Inv, LeaseExclusive, ReadyOpen, Open, tables
<1>5. QED
  BY <1>1, <1>3, <1>4, FrameInv DEF TypeOK

\* Requests refused, drained or found too large to store.
LEMMA RefusalInv ==
  ASSUME Inv, NEW i \in Slots, NEW h \in Headers(i),
         LeaseRefused(i, h) \/ NoNode(i, h) \/ Refused(i, h) \/ NotTaken(i, h)
  PROVE  Inv'
<1>1. \E rest \in Seq(Token), st \in {"DOWN", "NONODE"} : OnlyAnswers(i, h, rest, st)
  BY RestFact DEF LeaseRefused, NoNode, Refused, NotTaken
<1>2. QED
  BY <1>1, OnlyAnswersInv

\* drop_client orphans the client's jobs and, for the lease holder, boots again.
LEMMA DropClientInv ==
  ASSUME Inv, NEW i \in Slots, DropClient(i), Served(i)
  PROVE  Inv'
<1>1. inflight' = Orphan(inflight, i) /\ inflight \in Seq(WiredJob) /\ queue \in Seq(QueuedJob)
  BY DEF DropClient, Inv, TypeOK, DaemonTypeOK
<1>2. /\ inflight' \in Seq(WiredJob) /\ Len(inflight') = Len(inflight) /\ DOMAIN inflight' = DOMAIN inflight
      /\ \A k \in DOMAIN inflight : inflight'[k].node = inflight[k].node /\ inflight'[k].due = inflight[k].due
      /\ inflight = <<>> <=> inflight' = <<>>
  <2>1. /\ inflight' \in Seq(WiredJob) /\ Len(inflight') = Len(inflight) /\ DOMAIN inflight' = DOMAIN inflight
        /\ \A k \in DOMAIN inflight : inflight'[k].node = inflight[k].node /\ inflight'[k].due = inflight[k].due
    BY <1>1, OrphanFact
  <2>2. QED
    BY <1>1, <2>1
<1>3. BusyMatches' /\ DueFile' /\ Len(inflight') <= NODES
  <2>1. UNCHANGED <<busy, due>>
    BY DEF DropClient
  <2>2. BusyMatches'
    BY <1>2, <2>1 DEF Inv, BusyMatches
  <2>3. DueFile'
    BY <1>2, <2>1 DEF Inv, DueFile
  <2>4. QED
    BY <1>2, <2>2, <2>3 DEF Inv, TypeOK, DaemonTypeOK
<1>4. ClientTypeOK'
  <2>1. conn' \in [Slots -> 0..MaxConn] /\ owner' \in [0..MaxReq -> 0..MaxConn]
    BY BoundsAssumption DEF DropClient, Inv, TypeOK, ClientTypeOK
  <2>2. inq' \in [Slots -> Seq(Token)]
    BY DEF DropClient, Inv, TypeOK, ClientTypeOK
  <2>3. pend' \in [Slots -> BOOLEAN] /\ gone' \in [Slots -> BOOLEAN]
    BY DEF DropClient, Inv, TypeOK, ClientTypeOK
  <2>4. QED
    BY <2>1, <2>2, <2>3 DEF DropClient, Inv, TypeOK, ClientTypeOK
<1>5. /\ queue' \in Seq(QueuedJob) /\ Len(queue') <= QMAX /\ up' \in BOOLEAN
      /\ present' \in 1..NODES /\ big_max' \in JOB_MAX..JOB_BIG
      /\ rgot' \in {"none", "cur", "stale"} /\ leased' \in Slots \union {-1}
      /\ armed' \in BOOLEAN
      /\ NoStranded' /\ DownIsEmpty' /\ LeaseExclusive'
  <2>1. CASE i = leased
    <3>1. queue = <<>> /\ inflight = <<>> /\ ~up
      BY <2>1 DEF Inv, LeaseExclusive, DownIsEmpty
    <3>2. Orphan(queue, i) = <<>>
      BY <3>1, OrphanFact
    <3>3. /\ Boot(Orphan(queue, i)) /\ leased' = -1 /\ rgot' = "none"
          /\ armed' \in BOOLEAN
      BY <2>1 DEF DropClient
    <3>4. /\ up' \in BOOLEAN /\ present' \in 1..NODES /\ big_max' \in JOB_MAX..JOB_BIG
          /\ queue' \in Seq(QueuedJob) /\ Len(queue') <= QMAX
          /\ NoStranded' /\ (~up' => queue' = <<>>)
      BY <3>2, <3>3, BootFact DEF Inv, TypeOK, DaemonTypeOK
    <3>5. DownIsEmpty' /\ LeaseExclusive'
      BY <3>1, <3>3, <3>4, <1>2 DEF DownIsEmpty, LeaseExclusive
    <3>6. QED
      BY <3>3, <3>4, <3>5
  <2>2. CASE i # leased
    <3>1. queue' = Orphan(queue, i) /\ UNCHANGED <<up, leased, armed, rgot, present, big_max>>
      BY <2>2 DEF DropClient, NoBoot
    <3>2. /\ queue' \in Seq(QueuedJob) /\ Len(queue') = Len(queue) /\ DOMAIN queue' = DOMAIN queue
          /\ \A k \in DOMAIN queue : queue'[k].node = queue[k].node
          /\ queue = <<>> => queue' = <<>>
      BY <1>1, <3>1, OrphanFact
    <3>3. NoStranded' /\ DownIsEmpty'
      BY <3>1, <3>2, <1>2 DEF Inv, NoStranded, DownIsEmpty
    <3>4. \A k \in Slots : k # i => conn'[k] = conn[k]
      BY DEF DropClient, Inv, TypeOK, ClientTypeOK
    <3>5. LeaseExclusive'
      BY <2>2, <3>1, <3>4 DEF Inv, TypeOK, DaemonTypeOK, LeaseExclusive, Open
    <3>6. QED
      BY <3>1, <3>2, <3>3, <3>5 DEF Inv, TypeOK, DaemonTypeOK
  <2>3. QED
    BY <2>1, <2>2
<1>6. UNCHANGED <<busy, nextwid, due>>
  BY DEF DropClient
<1>7. DaemonTypeOK'
  BY <1>2, <1>3, <1>5, <1>6, ServedFact DEF Inv, TypeOK, DaemonTypeOK
<1>8. ReadyOpen'
  BY DEF DropClient, Served, ReadyOpen, Open, Inv, TypeOK, DaemonTypeOK, ClientTypeOK
<1>9. QED
  BY <1>3, <1>4, <1>5, <1>7, <1>8, ServedFact DEF Inv, TypeOK, PollingUp

\* A job is queued: there is room, the network is up and the node is in the image.
LEMMA EnqueueInv ==
  ASSUME Inv, NEW i \in Slots, NEW h \in Headers(i), Enqueue(i, h)
  PROVE  Inv'
<1> DEFINE j == [fd |-> i, cid |-> h.cid, op |-> h.op, node |-> h.node, n |-> h.n]
<1>1. queue' = Append(queue, j)
  BY DEF Enqueue
<1>2. j \in QueuedJob
  <2>1. h.n \in Nat
    BY HeaderFact DEF Enqueue, Fine, TooBigFor
  <2>2. QED
    BY <2>1, HeaderFact DEF QueuedJob
<1>3. j.node = NODE_ANY \/ j.node < present
  BY HeaderFact DEF Enqueue, Absent, Inv, TypeOK, DaemonTypeOK
<1>4. up /\ Len(queue) < QMAX
  BY BoundsAssumption DEF Enqueue, Full, Inv, TypeOK, DaemonTypeOK
<1> HIDE DEF j
<1>5. queue \in Seq(QueuedJob)
  BY DEF Inv, TypeOK, DaemonTypeOK
<1>6. /\ queue' \in Seq(QueuedJob) /\ Len(queue') = Len(queue) + 1
      /\ \A k \in 1..Len(queue) : queue'[k] = queue[k]
      /\ queue'[Len(queue) + 1] = j
  BY <1>1, <1>2, <1>5, AppendProperties
<1>7. UNCHANGED <<up, leased, armed, present, big_max, inflight, busy, nextwid, rgot, due, conn>>
  BY DEF Enqueue
<1>8. NoStranded'
  <2>1. DOMAIN queue = 1..Len(queue) /\ DOMAIN queue' = 1..Len(queue)+1 /\ Len(queue) \in Nat
    BY <1>5, <1>6
  <2>2. ASSUME NEW k \in DOMAIN queue' PROVE queue'[k].node = NODE_ANY \/ queue'[k].node < present
    <3>1. CASE k \in 1..Len(queue)
      BY <3>1, <2>1, <1>6 DEF Inv, NoStranded
    <3>2. CASE k = Len(queue) + 1
      BY <3>2, <1>3, <1>6
    <3>3. QED
      BY <2>1, <3>1, <3>2
  <2>3. QED
    BY <2>2, <1>7 DEF NoStranded
<1>9. Len(queue') <= QMAX
  BY <1>4, <1>5, <1>6, BoundsAssumption
<1>10. DaemonTypeOK'
  <2>1. Served(i)
    BY DEF Enqueue
  <2>2. QED
    BY <2>1, <1>6, <1>7, <1>9, ServedFact DEF Inv, TypeOK, DaemonTypeOK
<1>11. ClientTypeOK'
  <2>1. PICK p \in Payloads(i, h) : inq' = [inq EXCEPT ![i] = p.rest]
    BY DEF Enqueue
  <2>2. p.rest \in Seq(Token)
    BY RestFact
  <2>3. inq' \in [Slots -> Seq(Token)]
    BY <2>1, <2>2 DEF Inv, TypeOK, ClientTypeOK
  <2>4. QED
    BY <2>3 DEF Enqueue, Inv, TypeOK, ClientTypeOK
<1>12. BusyMatches' /\ DueFile' /\ LeaseExclusive' /\ DownIsEmpty' /\ ReadyOpen'
  BY <1>4, <1>7 DEF Enqueue, Served, ReadyOpen, Inv, BusyMatches, DueFile, LeaseExclusive, DownIsEmpty, Open
<1>13. PollingUp'
  BY <1>4, <1>7 DEF PollingUp
<1>14. QED
  BY <1>8, <1>10, <1>11, <1>12, <1>13 DEF Inv, TypeOK

-----------------------------------------------------------------------------
(***************************************************************************)
(* Steps that bring the network down or boot it again.                     *)
(***************************************************************************)

\* go_down with no boot after it, whatever the caller does with the lease and the retry.
LEMMA FallenInv ==
  ASSUME Inv, NEW q, NEW extra, GoDown(q, extra), Fallen, NoBoot,
         pc' \in {"select", "serve", "watch"} \union Sending \union Polling, ready' \subseteq Slots,
         armed' \in BOOLEAN, leased' \in Slots \union {-1}, nextwid' \in 0..WIDS-1,
         rgot' \in {"none", "cur", "stale"}, ClientTypeOK', LeaseExclusive', ReadyOpen', pc' \notin Polling
  PROVE  Inv'
<1>1. inflight' = <<>> /\ busy' = AllIdle /\ due' = 0 /\ queue' = <<>> /\ up' = FALSE
      /\ present' = present /\ big_max' = big_max
  BY DEF GoDown, Fallen, NoBoot
<1>2. /\ BusyMatches' /\ DueFile'
      /\ inflight' \in Seq(WiredJob) /\ Len(inflight') <= NODES
      /\ busy' \in [Nodes -> BOOLEAN] /\ due' \in Dues \union {0}
  BY <1>1, EmptyTables, NodesAssumption
<1>3. queue' \in Seq(QueuedJob) /\ Len(queue') <= QMAX /\ up' \in BOOLEAN /\ NoStranded' /\ DownIsEmpty'
  <2>1. queue' \in Seq(QueuedJob) /\ Len(queue') <= QMAX
    BY <1>1, BoundsAssumption
  <2>2. NoStranded'
    BY <1>1 DEF NoStranded
  <2>3. QED
    BY <1>1, <2>1, <2>2 DEF DownIsEmpty
<1>4. DaemonTypeOK'
  BY <1>1, <1>2, <1>3 DEF Inv, TypeOK, DaemonTypeOK
<1>5. QED
  BY <1>2, <1>3, <1>4 DEF Inv, TypeOK, PollingUp

\* The lease: go_down first, then the holder owns the card.
LEMMA LeaseGrantedInv ==
  ASSUME Inv, NEW i \in Slots, NEW h \in Headers(i), LeaseGranted(i, h)
  PROVE  Inv'
<1>1. /\ GoDown(queue, Only(i, Reply(h.cid, "OK"))) /\ Fallen /\ NoBoot /\ Served(i)
      /\ armed' = FALSE /\ leased' = i /\ UNCHANGED <<nextwid, rgot, conn>>
  BY DEF LeaseGranted
<1>2. inq' \in [Slots -> Seq(Token)]
  BY RestFact DEF LeaseGranted, Inv, TypeOK, ClientTypeOK
<1>3. ClientTypeOK'
  BY <1>2 DEF LeaseGranted, Inv, TypeOK, ClientTypeOK
<1>4. Open(i)'
  <2>1. Open(i)
    BY DEF LeaseGranted, Serving, Inv, ReadyOpen
  <2>2. QED
    BY <1>1, <2>1 DEF Open
<1>5. LeaseExclusive'
  BY <1>1, <1>4 DEF LeaseExclusive, Fallen
<1>6. ReadyOpen'
  BY <1>1 DEF Served, ReadyOpen, Inv, Open
<1>7. QED
  BY <1>1, <1>3, <1>5, <1>6, ServedFact, FallenInv DEF Inv, TypeOK, DaemonTypeOK

\* ++nextwid stays a wire id.
LEMMA NextWidFact == Inv => NextWid \in 0..WIDS-1
  BY BoundsAssumption DEF NextWid, Inv, TypeOK, DaemonTypeOK

\* go_down after a failed link write or a reply with an impossible length.
LEMMA LinkTroubleInv ==
  ASSUME Inv, PollBadLength \/ \E q \in DOMAIN queue, k \in Nodes : SendFails(q, k)
  PROVE  Inv'
<1>1. \E q : GoDown(q, Nothing)
  BY DEF PollBadLength, SendFails
<1>2. /\ Fallen /\ NoBoot /\ armed' = TRUE
      /\ UNCHANGED <<ready, leased, conn, inq, pend, gone, nconn, nreq, owner>>
  BY DEF PollBadLength, SendFails
<1>3. /\ pc' \in {"select", "serve", "watch"} \union Sending \union Polling
      /\ pc' \notin Polling
      /\ rgot' \in {"none", "cur", "stale"}
  BY DEF PollBadLength, SendFails, GoDown, AfterSend, AfterPoll, Sending, Polling, Inv, TypeOK, DaemonTypeOK
<1>4. nextwid' \in 0..WIDS-1
  BY NextWidFact DEF PollBadLength, SendFails, Inv, TypeOK, DaemonTypeOK
<1>5. up
  BY DEF PollBadLength, SendFails, SendPossible, Inv, PollingUp
<1>6. QED
  BY <1>1, <1>2, <1>3, <1>4, <1>5, FallenInv
     DEF Inv, TypeOK, DaemonTypeOK, ClientTypeOK, LeaseExclusive, ReadyOpen, Open

\* The watchdog: everything is failed before the boot.
LEMMA WatchFireInv ==
  ASSUME Inv, WatchFire
  PROVE  Inv'
<1>1. /\ GoDown(queue, Nothing) /\ Boot(<<>>) /\ armed' = TRUE /\ rgot' = "none" /\ pc' = "select"
      /\ UNCHANGED <<ready, leased, nextwid, conn, inq, pend, gone, nconn, nreq, owner>>
  BY DEF WatchFire
<1>2. leased = -1
  BY DEF WatchFire, Inv, DownIsEmpty, LeaseExclusive, TypeOK, DaemonTypeOK
<1>3. /\ up' \in BOOLEAN /\ present' \in 1..NODES /\ big_max' \in JOB_MAX..JOB_BIG
      /\ queue' \in Seq(QueuedJob) /\ Len(queue') <= QMAX
      /\ NoStranded' /\ (~up' => queue' = <<>>)
  BY <1>1, BootFact DEF Inv, TypeOK, DaemonTypeOK
<1>4. /\ BusyMatches' /\ DueFile' /\ inflight' = <<>>
      /\ inflight' \in Seq(WiredJob) /\ Len(inflight') <= NODES
      /\ busy' \in [Nodes -> BOOLEAN] /\ due' \in Dues \union {0}
  BY <1>1, EmptyTables, NodesAssumption DEF GoDown
<1>5. DaemonTypeOK' /\ ClientTypeOK'
  BY <1>1, <1>3, <1>4 DEF Inv, TypeOK, DaemonTypeOK, ClientTypeOK
<1>6. DownIsEmpty' /\ LeaseExclusive' /\ ReadyOpen' /\ PollingUp'
  BY <1>1, <1>2, <1>3, <1>4 DEF DownIsEmpty, LeaseExclusive, ReadyOpen, PollingUp, Polling, Inv, Open
<1>7. QED
  BY <1>3, <1>4, <1>5, <1>6 DEF Inv, TypeOK

\* A boot retry starts from empty tables and without a lease.
LEMMA RetryInv ==
  ASSUME Inv, Retry
  PROVE  Inv'
<1>1. /\ Boot(queue) /\ rgot' = Outlived /\ pc' = "select" /\ armed' \in BOOLEAN
      /\ UNCHANGED <<ready, leased, inflight, busy, nextwid, due, conn, inq, pend, gone, nconn, nreq, owner>>
  BY DEF Retry, clients
<1>2. leased = -1 /\ queue = <<>> /\ inflight = <<>>
  BY DEF Retry, RetryDue, Inv, DownIsEmpty, LeaseExclusive, TypeOK, DaemonTypeOK
<1>3. /\ up' \in BOOLEAN /\ present' \in 1..NODES /\ big_max' \in JOB_MAX..JOB_BIG
      /\ queue' \in Seq(QueuedJob) /\ Len(queue') <= QMAX
      /\ NoStranded' /\ (~up' => queue' = <<>>)
  BY <1>1, <1>2, BootFact DEF Inv, TypeOK, DaemonTypeOK
<1>4. DaemonTypeOK' /\ ClientTypeOK'
  BY <1>1, <1>3 DEF Inv, TypeOK, DaemonTypeOK, ClientTypeOK, Outlived
<1>5. DownIsEmpty' /\ LeaseExclusive' /\ ReadyOpen' /\ PollingUp' /\ BusyMatches' /\ DueFile'
  BY <1>1, <1>2, <1>3
     DEF DownIsEmpty, LeaseExclusive, ReadyOpen, PollingUp, Polling, BusyMatches, DueFile, Inv, Open
<1>6. QED
  BY <1>3, <1>4, <1>5 DEF Inv, TypeOK

-----------------------------------------------------------------------------
(***************************************************************************)
(* Jobs in and out of flight.                                              *)
(***************************************************************************)

\* pick only names a queued job and an idle node.
LEMMA PickFact ==
  ASSUME Inv, NEW q \in DOMAIN queue, NEW k \in Nodes, NEW left,
         <<q, k>> \in Pick(queue, busy, present, left)
  PROVE  ~busy[k]
<1>1. Goes(q, k, queue, busy, present, left)
  BY DEF Pick
<1>2. CASE queue[q].node # NODE_ANY
  BY <1>1, <1>2 DEF Goes, Idle
<1>3. CASE queue[q].node = NODE_ANY
  <2> DEFINE backlog == Reserved(queue, left)[q-1]
  <2>1. CASE ~busy[0] /\ backlog = 0
    BY <1>1, <1>3, <2>1 DEF Goes
  <2>2. CASE ~(~busy[0] /\ backlog = 0)
    BY <1>1, <1>3, <2>2 DEF Goes, FasterTrams, Idle
  <2>3. QED
    BY <2>1, <2>2
<1>4. QED
  BY <1>2, <1>3

\* Every job in flight is on a node of the table.
LEMMA OnNodes == Inv => \A x \in DOMAIN inflight : inflight[x].node \in Nodes /\ busy[inflight[x].node]
<1> SUFFICES ASSUME Inv, NEW x \in DOMAIN inflight PROVE inflight[x].node \in Nodes /\ busy[inflight[x].node]
  OBVIOUS
<1>1. inflight \in Seq(WiredJob)
  BY DEF Inv, TypeOK, DaemonTypeOK
<1>2. inflight[x] \in WiredJob
  BY <1>1
<1>3. inflight[x].node \in Nodes
  BY <1>2 DEF WiredJob
<1>4. QED
  BY <1>3 DEF Inv, BusyMatches

\* send_jobs sends one job: it leaves the queue and its node becomes busy with it alone.
LEMMA SendOneInv ==
  ASSUME Inv, NEW q \in DOMAIN queue, NEW k \in Nodes, SendOne(q, k)
  PROVE  Inv'
<1>1. PICK d \in Dues : /\ inflight' = Append(inflight, Wired(queue[q], k, d))
                        /\ due' = Earliest(Append(inflight, Wired(queue[q], k, d)))
  BY DEF SendOne
<1>2. /\ queue' = RemoveAt(queue, q) /\ busy' = [busy EXCEPT ![k] = TRUE] /\ nextwid' = NextWid
      /\ up /\ Len(inflight) < NODES /\ ~busy[k]
      /\ UNCHANGED <<pc, ready, up, leased, armed, present, big_max, rgot, clients>>
  BY PickFact DEF SendOne, SendPossible
<1> DEFINE j == Wired(queue[q], k, d)
<1>3. queue \in Seq(QueuedJob) /\ inflight \in Seq(WiredJob) /\ queue[q] \in QueuedJob
      /\ q \in 1..Len(queue)
  BY DEF Inv, TypeOK, DaemonTypeOK
<1>4. j \in WiredJob /\ j.node = k
  BY <1>3, NextWidFact, BoundsAssumption DEF Wired, WiredJob, QueuedJob
<1> HIDE DEF j
<1>5. /\ inflight' \in Seq(WiredJob) /\ Len(inflight') = Len(inflight) + 1
      /\ DOMAIN inflight' = 1..Len(inflight)+1 /\ DOMAIN inflight = 1..Len(inflight) /\ Len(inflight) \in Nat
      /\ \A x \in 1..Len(inflight) : inflight'[x] = inflight[x]
      /\ inflight'[Len(inflight)+1] = j
  BY <1>1, <1>3, <1>4 DEF j
<1>6. /\ queue' \in Seq(QueuedJob) /\ Len(queue') = Len(queue) - 1
      /\ \A m \in DOMAIN queue' : \E x \in DOMAIN queue : queue'[m] = queue[x]
  BY <1>2, <1>3, RemoveAtFact
<1>7. busy' \in [Nodes -> BOOLEAN] /\ busy'[k] /\ \A m \in Nodes \ {k} : busy'[m] = busy[m]
  BY <1>2 DEF Inv, TypeOK, DaemonTypeOK
<1>8. BusyMatches'
  <2>1. \A x \in 1..Len(inflight) : inflight[x].node \in Nodes /\ inflight[x].node # k /\ busy[inflight[x].node]
    BY <1>2, <1>5, OnNodes
  <2>2. \A x \in DOMAIN inflight' : busy'[inflight'[x].node]
    BY <2>1, <1>4, <1>5, <1>7
  <2>3. \A m \in Nodes : busy'[m] => \E x \in DOMAIN inflight' : inflight'[x].node = m
    BY <1>4, <1>5, <1>7 DEF Inv, BusyMatches
  <2>4. \A x, y \in DOMAIN inflight' : inflight'[x].node = inflight'[y].node => x = y
    BY <2>1, <1>4, <1>5 DEF Inv, BusyMatches
  <2>5. QED
    BY <2>2, <2>3, <2>4 DEF BusyMatches
<1>9. due' = Earliest(inflight')
  BY <1>1
<1>10. DueFile' /\ due' \in Dues \union {0}
  BY <1>5, <1>9, EarliestFact, InputsAssumption DEF DueFile
<1>11. NoStranded'
  BY <1>2, <1>6 DEF Inv, NoStranded
<1>12. DaemonTypeOK'
  <2>1. Len(queue') <= QMAX /\ Len(inflight') <= NODES
    BY <1>2, <1>3, <1>5, <1>6, BoundsAssumption, NodesAssumption DEF Inv, TypeOK, DaemonTypeOK
  <2>2. QED
    BY <2>1, <1>2, <1>5, <1>6, <1>7, <1>10, NextWidFact DEF Inv, TypeOK, DaemonTypeOK
<1>13. ClientTypeOK'
  BY <1>2 DEF Inv, TypeOK, ClientTypeOK, clients
<1>14. DownIsEmpty' /\ LeaseExclusive' /\ ReadyOpen' /\ PollingUp'
  BY <1>2 DEF Inv, DownIsEmpty, LeaseExclusive, ReadyOpen, PollingUp, Open, clients
<1>15. QED
  BY <1>8, <1>10, <1>11, <1>12, <1>13, <1>14 DEF Inv, TypeOK

\* A reply frees exactly its own job's node.
LEMMA FinishFact ==
  ASSUME Inv, NEW x \in DOMAIN inflight, NEW caps \in Nat, Finish(x, caps)
  PROVE  /\ BusyMatches' /\ DueFile'
         /\ inflight' \in Seq(WiredJob) /\ Len(inflight') <= NODES
         /\ busy' \in [Nodes -> BOOLEAN] /\ due' \in Dues \union {0} /\ big_max' \in JOB_MAX..JOB_BIG
<1> DEFINE k == inflight[x].node
           last == Len(inflight)
<1>1. /\ busy' = [busy EXCEPT ![k] = FALSE] /\ inflight' = Vacate(inflight, x)
      /\ due' = Earliest(inflight')
      /\ big_max' = IF inflight[x].op = "K" THEN Clamp(caps) ELSE big_max
  BY DEF Finish
<1>2. inflight \in Seq(WiredJob) /\ last \in Nat /\ DOMAIN inflight = 1..last /\ x \in 1..last
  BY DEF Inv, TypeOK, DaemonTypeOK
<1>11. k \in Nodes
  BY OnNodes
<1>3. /\ inflight' \in Seq(WiredJob) /\ Len(inflight') = last - 1 /\ DOMAIN inflight' = 1..last-1
      /\ \A y \in 1..last-1 : inflight'[y] = inflight[IF y = x THEN last ELSE y]
  BY <1>1, <1>2, VacateFact
<1> HIDE DEF last, k
<1>4. busy' \in [Nodes -> BOOLEAN] /\ ~busy'[k] /\ \A m \in Nodes \ {k} : busy'[m] = busy[m]
  BY <1>1, <1>11 DEF Inv, TypeOK, DaemonTypeOK
<1>5. \A y \in 1..last : inflight[y].node = k => y = x
  BY <1>2 DEF Inv, BusyMatches, k
<1>6. BusyMatches'
  <2> DEFINE was(y) == IF y = x THEN last ELSE y
  <2>1. \A y \in 1..last-1 : was(y) \in 1..last /\ was(y) # x /\ inflight'[y] = inflight[was(y)]
    BY <1>2, <1>3
  <2>2. \A y, z \in 1..last-1 : was(y) = was(z) => y = z
    BY <1>2
  <2>3. \A z \in 1..last : z # x => \E y \in 1..last-1 : was(y) = z
    <3> SUFFICES ASSUME NEW z \in 1..last, z # x PROVE \E y \in 1..last-1 : was(y) = z
      OBVIOUS
    <3>1. CASE z = last
      <4>1. x \in 1..last-1 /\ was(x) = z
        BY <1>2, <3>1
      <4>2. QED
        BY <4>1
    <3>2. CASE z # last
      <4>1. z \in 1..last-1 /\ was(z) = z
        BY <1>2, <3>2
      <4>2. QED
        BY <4>1
    <3>3. QED
      BY <3>1, <3>2
  <2> HIDE DEF was
  <2>4. \A y \in DOMAIN inflight' : busy'[inflight'[y].node]
    <3>1. \A y \in 1..last-1 : inflight[was(y)].node # k /\ busy[inflight[was(y)].node]
                               /\ inflight[was(y)].node \in Nodes
      BY <2>1, <1>2, <1>5, OnNodes
    <3>2. QED
      BY <3>1, <2>1, <1>3, <1>4
  <2>5. \A m \in Nodes : busy'[m] => \E y \in DOMAIN inflight' : inflight'[y].node = m
    <3> SUFFICES ASSUME NEW m \in Nodes, busy'[m] PROVE \E y \in DOMAIN inflight' : inflight'[y].node = m
      OBVIOUS
    <3>1. m # k /\ busy[m]
      BY <1>4
    <3>2. PICK z \in 1..last : inflight[z].node = m
      BY <3>1, <1>2 DEF Inv, BusyMatches
    <3>3. PICK y \in 1..last-1 : was(y) = z
      BY <2>3, <3>1, <3>2 DEF k
    <3>4. QED
      BY <3>2, <3>3, <2>1, <1>3
  <2>6. \A y, z \in DOMAIN inflight' : inflight'[y].node = inflight'[z].node => y = z
    BY <2>1, <2>2, <1>2, <1>3 DEF Inv, BusyMatches
  <2>7. QED
    BY <2>4, <2>5, <2>6 DEF BusyMatches
<1>7. DueFile' /\ due' \in Dues \union {0}
  BY <1>1, <1>3, EarliestFact, InputsAssumption DEF DueFile
<1>8. big_max' \in JOB_MAX..JOB_BIG
  BY <1>1, JobSizes DEF Clamp, Inv, TypeOK, DaemonTypeOK
<1>9. Len(inflight') <= NODES
  BY <1>2, <1>3, NodesAssumption DEF Inv, TypeOK, DaemonTypeOK, last
<1>10. QED
  BY <1>3, <1>4, <1>6, <1>7, <1>8, <1>9
\* What travels between the card and the host: node 0's answer to OP_CAPS is a number.
CardOK ==
  /\ net \subseteq [wid : Nat, op : OpBytes]
  /\ link \in Seq([wid : Nat, caps : Nat])

\* The card's side is well-typed from the start and stays so: a boot empties it, a job sent
\* adds to it and a reply moves through it.
LEMMA CardStep ==
  ASSUME Inv, CardOK, [Next]_vars
  PROVE  CardOK'
<1> DEFINE Out == [wid : Nat, caps : Nat]
           In == [wid : Nat, op : OpBytes]
<1>1. ASSUME NEW q, Boot(q) PROVE CardOK'
  BY <1>1 DEF Boot, CardOK
<1>2. CASE UNCHANGED <<net, link>>
  BY <1>2 DEF CardOK
<1>3. ASSUME NEW i \in Slots, DropClient(i) PROVE CardOK'
  <2>1. UNCHANGED <<net, link>> \/ \E q : Boot(q)
    BY <1>3 DEF DropClient, NoBoot, card
  <2>2. QED
    BY <2>1, <1>1, <1>2
<1>4. ASSUME NEW q \in DOMAIN queue, NEW k \in Nodes, SendOne(q, k) PROVE CardOK'
  <2>1. queue[q] \in QueuedJob
    BY DEF Inv, TypeOK, DaemonTypeOK
  <2>2. queue[q].op \in OpBytes /\ NextWid \in Nat
    BY <2>1, NextWidFact, BoundsAssumption DEF QueuedJob
  <2>3. PICK d : net' = net \union (IF Answerable(Wired(queue[q], k, d))
                                    THEN {[wid |-> NextWid, op |-> queue[q].op]} ELSE {})
    BY <1>4 DEF SendOne, Wired
  <2>4. [wid |-> NextWid, op |-> queue[q].op] \in In
    BY <2>2
  <2>5. net' \subseteq In
    BY <2>3, <2>4 DEF CardOK
  <2>6. QED
    BY <1>4, <2>5 DEF SendOne, CardOK
<1>5. ASSUME NEW j \in net, NEW caps \in Caps, NodeReply(j, caps) PROVE CardOK'
  <2>1. j \in In /\ caps \in Nat
    BY InputsAssumption DEF CardOK
  <2>2. [wid |-> j.wid, caps |-> IF j.op = "K" THEN caps ELSE 0] \in Out
    BY <2>1
  <2>3. \A r \in Out : Append(link, r) \in Seq(Out)
    BY DEF CardOK
  <2>4. link' \in Seq(Out)
    BY <1>5, <2>2, <2>3 DEF NodeReply
  <2>5. QED
    BY <1>5, <2>4 DEF NodeReply, CardOK
<1>6. CASE PollReply \/ PollOutOfStep
  <2>1. link # <<>> /\ link' = Tail(link) /\ net' = net
    BY <1>6 DEF PollReply, PollOutOfStep
  <2>2. QED
    BY <2>1 DEF CardOK
<1>7. CASE \E i \in Slots : ServeRequest(i)
  <2> PICK i \in Slots : ServeRequest(i)
    BY <1>7
  <2>1. DropClient(i) \/ UNCHANGED <<net, link>>
    BY DEF ServeRequest, ClientGone, BadRequest, LeaseRefused, LeaseGranted, NoNode, Refused,
           NotTaken, Enqueue, OnlyAnswers, NoBoot, card
  <2>2. QED
    BY <2>1, <1>2, <1>3
<1>8. CASE SendJobs
  <2>1. ASSUME NEW q \in DOMAIN queue, NEW k \in Nodes, SendFails(q, k) PROVE CardOK'
    BY <2>1, <1>2 DEF SendFails, NoBoot
  <2>2. CASE SendDone
    BY <2>2, <1>2 DEF SendDone, card
  <2>3. QED
    BY <1>8, <1>4, <2>1, <2>2 DEF SendJobs
<1>9. CASE PollLink
  BY <1>9, <1>2, <1>6 DEF PollLink, PollBadLength, PollDone, NoBoot, card
<1>10. CASE Select \/ SelectConnect \/ Spin \/ WatchQuiet \/ UNCHANGED vars
  BY <1>10, <1>2 DEF Select, SelectConnect, Selected, Spin, WatchQuiet, card, vars
<1>11. CASE WatchFire \/ Retry
  BY <1>11, <1>1 DEF WatchFire, Retry
<1>12. CASE \E i \in Slots : Client(i)
  BY <1>12, <1>2 DEF Client, Submit, SendPayload, Receive, Close, card
<1>13. QED
  BY <1>5, <1>7, <1>8, <1>9, <1>10, <1>11, <1>12 DEF Next, Daemon

\* poll_link takes a whole reply, in step with the stream or out of it.
LEMMA PollInv ==
  ASSUME Inv, CardOK, PollReply \/ PollOutOfStep
  PROVE  Inv'
<1>1. UNCHANGED <<pc, ready, up, leased, armed, present, queue, nextwid, conn, inq, pend, gone, nconn,
                  nreq, owner>>
  BY DEF PollReply, PollOutOfStep
<1>2. rgot' \in {"none", "cur", "stale"} /\ up
  BY DEF PollReply, PollOutOfStep, Inv, PollingUp, TypeOK, DaemonTypeOK
<1>3. (\E x \in DOMAIN inflight, c \in Nat : Finish(x, c)) \/ Drop
  <2>1. CASE PollReply
    <3>1. Head(link) \in [wid : Nat, caps : Nat]
      <4>1. \A S : \A s \in Seq(S) : s # <<>> => Head(s) \in S
        OBVIOUS
      <4>2. QED
        BY <2>1, <4>1 DEF PollReply, CardOK
    <3>2. Head(link).caps \in Nat
      BY <3>1
    <3>3. (\E x \in DOMAIN inflight : Finish(x, Head(link).caps)) \/ Drop
      BY <2>1 DEF PollReply, Matching
    <3>4. QED
      BY <3>2, <3>3
  <2>2. CASE PollOutOfStep
    BY <2>2, InputsAssumption DEF PollOutOfStep
  <2>3. QED
    BY <2>1, <2>2
<1>4. /\ BusyMatches' /\ DueFile'
      /\ inflight' \in Seq(WiredJob) /\ Len(inflight') <= NODES
      /\ busy' \in [Nodes -> BOOLEAN] /\ due' \in Dues \union {0} /\ big_max' \in JOB_MAX..JOB_BIG
  <2>1. CASE Drop
    BY <2>1 DEF Drop, Inv, TypeOK, DaemonTypeOK, BusyMatches, DueFile
  <2>2. QED
    BY <1>3, <2>1, FinishFact
<1>5. DaemonTypeOK' /\ ClientTypeOK'
  BY <1>1, <1>2, <1>4 DEF Inv, TypeOK, DaemonTypeOK, ClientTypeOK
<1>6. DownIsEmpty' /\ NoStranded' /\ LeaseExclusive' /\ ReadyOpen' /\ PollingUp'
  BY <1>1, <1>2 DEF Inv, DownIsEmpty, NoStranded, LeaseExclusive, ReadyOpen, PollingUp, Open
<1>7. QED
  BY <1>4, <1>5, <1>6 DEF Inv, TypeOK

-----------------------------------------------------------------------------
(***************************************************************************)
(* The theorems.                                                           *)
(***************************************************************************)

\* No step of the daemon, of a client or of the card breaks the inductive invariant.
LEMMA NextInv ==
  ASSUME Inv, CardOK, [Next]_vars
  PROVE  Inv'
<1>1. CASE Select \/ SelectConnect \/ Spin \/ WatchQuiet
  BY <1>1, LoopInv DEF Select, SelectConnect
<1>2. CASE \E i \in Slots : ServeRequest(i)
  <2> PICK i \in Slots : ServeRequest(i)
    BY <1>2
  <2>1. CASE ClientGone(i)
    BY <2>1, DropClientInv DEF ClientGone
  <2>2. ASSUME NEW h \in Headers(i), BadRequest(i, h) PROVE Inv'
    BY <2>2, DropClientInv DEF BadRequest
  <2>3. ASSUME NEW h \in Headers(i), LeaseGranted(i, h) PROVE Inv'
    BY <2>3, LeaseGrantedInv
  <2>4. ASSUME NEW h \in Headers(i), Enqueue(i, h) PROVE Inv'
    BY <2>4, EnqueueInv
  <2>5. ASSUME NEW h \in Headers(i), LeaseRefused(i, h) \/ NoNode(i, h) \/ Refused(i, h) \/ NotTaken(i, h)
        PROVE  Inv'
    BY <2>5, RefusalInv
  <2>6. QED
    BY <2>1, <2>2, <2>3, <2>4, <2>5 DEF ServeRequest
<1>3. CASE SendJobs
  <2>1. ASSUME NEW q \in DOMAIN queue, NEW k \in Nodes, SendOne(q, k) PROVE Inv'
    BY <2>1, SendOneInv
  <2>2. ASSUME NEW q \in DOMAIN queue, NEW k \in Nodes, SendFails(q, k) PROVE Inv'
    BY <2>2, LinkTroubleInv
  <2>3. CASE SendDone
    BY <2>3, LoopInv
  <2>4. QED
    BY <1>3, <2>1, <2>2, <2>3 DEF SendJobs
<1>4. CASE PollLink
  BY <1>4, PollInv, LinkTroubleInv, LoopInv DEF PollLink
<1>5. CASE WatchFire \/ Retry
  BY <1>5, WatchFireInv, RetryInv
<1>6. CASE \/ \E i \in Slots : Client(i)
           \/ \E j \in net, caps \in Caps : NodeReply(j, caps)
  BY <1>6, EnvironmentInv
<1>7. CASE UNCHANGED vars
  <2>1. UNCHANGED <<daemon, clients>>
    BY <1>7 DEF vars
  <2>2. TypeOK' /\ UNCHANGED tables
    BY <2>1 DEF daemon, clients, tables, Inv, TypeOK, DaemonTypeOK, ClientTypeOK
  <2>3. LeaseExclusive' /\ ReadyOpen' /\ PollingUp'
    BY <2>1 DEF daemon, clients, Inv, LeaseExclusive, ReadyOpen, PollingUp, Open
  <2>4. QED
    BY <2>2, <2>3, FrameInv
<1>8. QED
  BY <1>1, <1>2, <1>3, <1>4, <1>5, <1>6, <1>7 DEF Next, Daemon

\* The inductive invariant holds in every reachable state.
THEOREM Invariance == Spec => [](Inv /\ CardOK)
<1>1. Init => Inv /\ CardOK
  <2>1. Init => CardOK
    BY DEF Init, CardOK
  <2>2. QED
    BY <2>1, InitInv
<1>2. (Inv /\ CardOK) /\ [Next]_vars => (Inv /\ CardOK)'
  BY NextInv, CardStep
<1>3. QED
  BY <1>1, <1>2, PTL DEF Spec

\* ttjobd's tables keep their shapes and their limits: queue[] never holds more than QMAX
\* jobs and inflight[] never more than one per node, whatever clients, nodes and faults do.
THEOREM TypeCorrect == Spec => []TypeOK
<1>1. Inv => TypeOK
  BY DEF Inv
<1>2. QED
  BY <1>1, Invariance, PTL

\* busy[] and inflight[] never disagree: one job per busy node, no node busy without one.
THEOREM BusyCorrect == Spec => []BusyMatches
<1>1. Inv => BusyMatches
  BY DEF Inv
<1>2. QED
  BY <1>1, Invariance, PTL

\* go_down, refusals while down and the lease leave nothing outstanding while the network
\* is down, so every boot_network starts from an empty queue.
THEOREM DownCorrect == Spec => []DownIsEmpty
<1>1. Inv => DownIsEmpty
  BY DEF Inv
<1>2. QED
  BY <1>1, Invariance, PTL

\* No queued job waits for a node that the booted image does not have.
THEOREM StrandedCorrect == Spec => []NoStranded
<1>1. Inv => NoStranded
  BY DEF Inv
<1>2. QED
  BY <1>1, Invariance, PTL

\* A lease is held by a connected client only, with the network down and no retry armed.
THEOREM LeaseCorrect == Spec => []LeaseExclusive
<1>1. Inv => LeaseExclusive
  BY DEF Inv
<1>2. QED
  BY <1>1, Invariance, PTL

\* The due file always shows the earliest deadline in flight to ttjobd-watch.
THEOREM DueCorrect == Spec => []DueFile
<1>1. Inv => DueFile
  BY DEF Inv
<1>2. QED
  BY <1>1, Invariance, PTL

\* While a client holds the lease the daemon leaves the card alone: no boot, no job sent,
\* no reply read, in any step.
THEOREM LeaseKept == Spec => LeaseRespected
<1> DEFINE Same == UNCHANGED <<up, present, nextwid, rgot, bootfails>>
<1>1. ASSUME Inv, CardOK, [Next]_vars, leased >= 0, leased' = leased PROVE Same
  <2>1. ~up /\ ~armed /\ inflight = <<>> /\ pc \notin Polling
    BY <1>1 DEF Inv, LeaseExclusive, DownIsEmpty, PollingUp
  <2>2. CASE Select \/ SelectConnect \/ Spin \/ WatchQuiet \/ SendDone \/ UNCHANGED vars
    BY <2>2 DEF Select, SelectConnect, Selected, Spin, WatchQuiet, SendDone, card, vars, daemon
  <2>3. ASSUME NEW i \in Slots, DropClient(i) PROVE Same
    <3>1. i # leased
      BY <1>1, <2>3 DEF DropClient
    <3>2. QED
      BY <2>3, <3>1 DEF DropClient, NoBoot
  <2>4. CASE \E i \in Slots : ServeRequest(i)
    <3> PICK i \in Slots : ServeRequest(i)
      BY <2>4
    <3>1. CASE ClientGone(i)
      BY <3>1, <2>3 DEF ClientGone
    <3>2. ASSUME NEW h, BadRequest(i, h) PROVE Same
      BY <3>2, <2>3 DEF BadRequest
    <3>3. ASSUME NEW h, LeaseGranted(i, h) PROVE Same
      BY <3>3, <1>1 DEF LeaseGranted, Inv, TypeOK, DaemonTypeOK
    <3>4. ASSUME NEW h, LeaseRefused(i, h) \/ NoNode(i, h) \/ Refused(i, h) \/ NotTaken(i, h) \/ Enqueue(i, h)
          PROVE  Same
      BY <3>4 DEF LeaseRefused, NoNode, Refused, NotTaken, Enqueue, OnlyAnswers, card
    <3>5. QED
      BY <3>1, <3>2, <3>3, <3>4 DEF ServeRequest
  <2>5. CASE SendJobs
    BY <2>1, <2>2, <2>5 DEF SendJobs, SendOne, SendFails, SendPossible
  <2>6. ~PollLink /\ ~WatchFire /\ ~Retry
    BY <2>1 DEF PollLink, PollReply, PollOutOfStep, PollBadLength, PollDone, WatchFire, Retry, RetryDue
  <2>7. CASE \/ \E i \in Slots : Client(i)
             \/ \E j \in net, caps \in Caps : NodeReply(j, caps)
    BY <2>7 DEF Client, Submit, SendPayload, Receive, Close, NodeReply, daemon, card
  <2>8. QED
    BY <1>1, <2>2, <2>4, <2>5, <2>6, <2>7 DEF Next, Daemon
<1>2. Inv /\ CardOK /\ [Next]_vars => [leased >= 0 /\ leased' = leased => Same]_vars
  BY <1>1
<1>3. QED
  BY <1>2, Invariance, PTL DEF Spec, LeaseRespected

-----------------------------------------------------------------------------
(***************************************************************************)
(* Routing of replies.  First the answers of go_down, a loop over both     *)
(* tables; then the invariant, preserved by every step.                    *)
(***************************************************************************)
\* The replies clients get.
Statuses == {"DOWN", "OK", "RAN", "NONODE"}
ReplyType == [cid : 0..MaxReq, st : Statuses]

\* go_down's loop, spelled out: wr is called for the jobs of slot i, in their order.
DownLoop(jobs, i, f, n) ==
  [k \in 0..n |-> IF k = 0 THEN <<>>
                  ELSE IF jobs[k].fd = i THEN Append(f[k-1], Reply(jobs[k].cid, "DOWN"))
                  ELSE f[k-1]]

\* The loop has a result for every number of jobs (so that the CHOOSE of a recursive
\* function definition chooses it).
LEMMA DownLoopRuns ==
  ASSUME NEW jobs, NEW i, NEW n \in Nat
  PROVE  \E f : f = DownLoop(jobs, i, f, n)
<1> DEFINE Stuck == {m \in Nat : ~\E f : f = DownLoop(jobs, i, f, m)}
<1>1. SUFFICES ASSUME Stuck # {} PROVE FALSE
  OBVIOUS
<1>2. PICK m \in Stuck : \A k \in Stuck : m <= k
  BY <1>1, LeastNatural
<1>3. m \in Nat /\ ~\E f : f = DownLoop(jobs, i, f, m)
  OBVIOUS
<1>4. CASE m = 0
  <2> DEFINE g == [k \in 0..0 |-> <<>>]
  <2>1. g = DownLoop(jobs, i, g, 0)
    BY DEF DownLoop
  <2>2. QED
    BY <1>3, <1>4, <2>1
<1>5. CASE m # 0
  <2>1. m-1 \in Nat /\ m-1 \notin Stuck
    BY <1>2, <1>3, <1>5
  <2>2. PICK f : f = DownLoop(jobs, i, f, m-1)
    BY <2>1
  <2> DEFINE next == IF jobs[m].fd = i THEN Append(f[m-1], Reply(jobs[m].cid, "DOWN")) ELSE f[m-1]
             g == [k \in 0..m |-> IF k = m THEN next ELSE f[k]]
  <2>3. \A k \in 0..m-1 : f[k] = IF k = 0 THEN <<>>
                                 ELSE IF jobs[k].fd = i THEN Append(f[k-1], Reply(jobs[k].cid, "DOWN"))
                                 ELSE f[k-1]
    BY <2>2 DEF DownLoop
  <2> HIDE DEF next
  <2>4. \A k \in 0..m : k # m => g[k] = f[k]
    OBVIOUS
  <2>5. \A k \in 0..m : k # 0 => g[k-1] = f[k-1]
    BY <1>3
  <2>6. g[m] = next
    BY <1>3
  <2>7. \A k \in 0..m : g[k] = IF k = 0 THEN <<>>
                               ELSE IF jobs[k].fd = i THEN Append(g[k-1], Reply(jobs[k].cid, "DOWN"))
                               ELSE g[k-1]
    <3> SUFFICES ASSUME NEW k \in 0..m
                 PROVE  g[k] = IF k = 0 THEN <<>>
                               ELSE IF jobs[k].fd = i THEN Append(g[k-1], Reply(jobs[k].cid, "DOWN"))
                               ELSE g[k-1]
      OBVIOUS
    <3> HIDE DEF g
    <3>1. CASE k = m
      BY <3>1, <1>5, <2>5, <2>6 DEF next
    <3>2. CASE k # m
      <4>1. k \in 0..m-1
        BY <3>2, <1>3
      <4>2. QED
        BY <3>2, <4>1, <2>3, <2>4, <2>5
    <3>3. QED
      BY <3>1, <3>2
  <2>8. g = [k \in 0..m |-> g[k]]
    OBVIOUS
  <2> HIDE DEF g
  <2>9. DownLoop(jobs, i, g, m) = [k \in 0..m |-> g[k]]
    BY <2>7 DEF DownLoop
  <2>10. QED
    BY <1>3, <2>8, <2>9
<1>6. QED
  BY <1>4, <1>5

\* The answers of go_down to slot i are about jobs of slot i.
LEMMA DownsFact ==
  ASSUME NEW q, NEW i, NEW J, NEW R, inflight \o q \in Seq(J),
         \A j \in J : j.fd = i => Reply(j.cid, "DOWN") \in R
  PROVE  Downs(q, i) \in Seq(R)
<1> DEFINE jobs == inflight \o q
           n == Len(jobs)
           f == CHOOSE g : g = DownLoop(jobs, i, g, n)
<1>1. n \in Nat /\ \A k \in 1..n : jobs[k] \in J
  OBVIOUS
<1>2. Downs(q, i) = f[n]
  BY DEF Downs, DownLoop
<1> HIDE DEF jobs, n
<1>3. f = DownLoop(jobs, i, f, n)
  BY <1>1, DownLoopRuns
<1> HIDE DEF f
<1>4. \A k \in 0..n : f[k] = IF k = 0 THEN <<>>
                             ELSE IF jobs[k].fd = i THEN Append(f[k-1], Reply(jobs[k].cid, "DOWN"))
                             ELSE f[k-1]
  BY <1>3 DEF DownLoop
<1> DEFINE Bad == {k \in 0..n : f[k] \notin Seq(R)}
<1>5. CASE Bad # {}
  <2>1. PICK m \in Bad : \A k \in Bad : m <= k
    <3>1. Bad \subseteq Nat
      BY <1>1
    <3> HIDE DEF Bad
    <3>2. QED
      BY <3>1, <1>5, LeastNatural
  <2>2. m \in 0..n /\ f[m] \notin Seq(R)
    OBVIOUS
  <2>3. m # 0
    <3>1. <<>> \in Seq(R)
      OBVIOUS
    <3>2. m = 0 => f[m] = <<>>
      BY <2>2, <1>4
    <3>3. QED
      BY <2>2, <3>1, <3>2
  <2>4. m \in 1..n /\ m-1 \in 0..n /\ m-1 \notin Bad
    BY <1>1, <2>1, <2>2, <2>3
  <2>5. f[m-1] \in Seq(R) /\ jobs[m] \in J
    BY <1>1, <2>4
  <2>6. f[m] = IF jobs[m].fd = i THEN Append(f[m-1], Reply(jobs[m].cid, "DOWN")) ELSE f[m-1]
    BY <1>4, <2>2, <2>3
  <2>7. f[m] \in Seq(R)
    <3>1. CASE jobs[m].fd = i
      <4>1. Reply(jobs[m].cid, "DOWN") \in R
        BY <2>5, <3>1
      <4> HIDE DEF Reply
      <4>2. QED
        BY <2>5, <2>6, <3>1, <4>1
    <3>2. CASE jobs[m].fd # i
      BY <2>5, <2>6, <3>2
    <3>3. QED
      BY <3>1, <3>2
  <2>8. QED
    BY <2>2, <2>7
<1>6. CASE Bad = {}
  <2>1. n \in 0..n
    BY <1>1
  <2>2. QED
    BY <1>2, <1>6, <2>1
<1>7. QED
  BY <1>5, <1>6

-----------------------------------------------------------------------------
(***************************************************************************)
(* Whose request is whose: the invariant behind OwnersMatch and            *)
(* RepliesRouted.                                                          *)
(***************************************************************************)

\* Request c has been made, over the connection now at slot i.
Ours(c, i) == c <= nreq /\ From(c, i)

OwnTokens(i) == {t \in Token : Ours(t.cid, i)}
OwnReplies(i) == {r \in ReplyType : Ours(r.cid, i)}
OwnJobs(J) == {j \in J : j.fd # NoFd => Ours(j.cid, j.fd)}

\* No two open slots have one connection, and connections are numbered as they come.
ConnsOK ==
  /\ \A i \in Slots : conn[i] <= nconn
  /\ \A i, k \in Slots : Open(i) /\ conn[i] = conn[k] => i = k

TokensOK(q) == \A i \in Slots : q[i] \in Seq(OwnTokens(i))
JobsOK(q, f) == q \in Seq(OwnJobs(QueuedJob)) /\ f \in Seq(OwnJobs(WiredJob))
BoxesOK(o, s) ==
  /\ o \in [Slots -> Seq(ReplyType)] /\ s \in [Slots -> Seq(ReplyType)]
  /\ \A i \in Slots : o[i] \in Seq(OwnReplies(i)) /\ s[i] \in Seq(OwnReplies(i)) /\ Len(s[i]) <= SockCap

\* Bytes a client has written, jobs with a live fd and replies on their way all belong to
\* the connection they are found at.
Routing == ConnsOK /\ TokensOK(inq) /\ JobsOK(queue, inflight) /\ BoxesOK(oq, sock)

\* What belongs to a slot now still does after the step.
Keeps == \A c \in 0..MaxReq, i \in Slots : Ours(c, i) => Ours(c, i)'

\* Sequences over a set are sequences over any larger one.
LEMMA SeqMonotone == ASSUME NEW S, NEW T, S \subseteq T PROVE Seq(S) \subseteq Seq(T)
  OBVIOUS

\* Routing is preserved when everything now in a table belongs there already.
LEMMA RouteStep ==
  ASSUME Keeps, ConnsOK', TokensOK(inq') \/ TokensOK(inq)', JobsOK(queue', inflight'), BoxesOK(oq', sock')
  PROVE  Routing'
<1>1. \A i \in Slots : OwnTokens(i) \subseteq OwnTokens(i)' /\ OwnReplies(i) \subseteq OwnReplies(i)'
  BY DEF Keeps, OwnTokens, OwnReplies, Token, ReplyType
<1>2. OwnJobs(QueuedJob) \subseteq OwnJobs(QueuedJob)' /\ OwnJobs(WiredJob) \subseteq OwnJobs(WiredJob)'
  BY DEF Keeps, OwnJobs, QueuedJob, WiredJob
<1>3. TokensOK(inq)'
  <2>1. \A i \in Slots : Seq(OwnTokens(i)) \subseteq Seq(OwnTokens(i)')
    BY <1>1, SeqMonotone
  <2>2. QED
    BY <2>1 DEF TokensOK
<1>4. JobsOK(queue, inflight)'
  <2>1. /\ Seq(OwnJobs(QueuedJob)) \subseteq Seq(OwnJobs(QueuedJob)')
        /\ Seq(OwnJobs(WiredJob)) \subseteq Seq(OwnJobs(WiredJob)')
    BY <1>2, SeqMonotone
  <2>2. QED
    BY <2>1 DEF JobsOK
<1>5. BoxesOK(oq, sock)'
  <2>1. \A i \in Slots : Seq(OwnReplies(i)) \subseteq Seq(OwnReplies(i)')
    BY <1>1, SeqMonotone
  <2>2. QED
    BY <2>1 DEF BoxesOK
<1>6. QED
  BY <1>3, <1>4, <1>5 DEF Routing

\* While no connection is made or dropped and no request is made, all stays where it belongs.
LEMMA StillOurs ==
  ASSUME UNCHANGED <<conn, nreq, owner>>
  PROVE  Keeps
  BY DEF Keeps, Ours, From, Open

\* flush_out moves replies from the waiting list to the socket and loses none of their order.
LEMMA FlushFact ==
  ASSUME NEW S, NEW o \in Seq(S), NEW i \in Slots, sock[i] \in Seq(S), Len(sock[i]) <= SockCap
  PROVE  WaitingAfter(o, i) \in Seq(S) /\ SocketAfter(o, i) \in Seq(S) /\ Len(SocketAfter(o, i)) <= SockCap
<1> DEFINE n == Fits(o, sock[i])
<1>0. Len(o) \in Nat /\ Len(sock[i]) \in Nat
  OBVIOUS
<1>1. n \in 0..Len(o) /\ Len(sock[i]) + n <= SockCap /\ Len(o) \in Nat /\ Len(sock[i]) \in Nat
  <2>1. \A a, b, c \in Nat : b <= c => /\ (IF a < c - b THEN a ELSE c - b) \in 0..a
                                       /\ b + (IF a < c - b THEN a ELSE c - b) <= c
    OBVIOUS
  <2>2. n = IF Len(o) < SockCap - Len(sock[i]) THEN Len(o) ELSE SockCap - Len(sock[i])
    BY DEF Fits
  <2> HIDE DEF n
  <2>3. QED
    BY <1>0, <2>1, <2>2, BoundsAssumption
<1> HIDE DEF n
<1>2. SubSeq(o, 1, n) \in Seq(S) /\ Len(SubSeq(o, 1, n)) = n
  BY <1>1, SubSeqProperties
<1>3. SubSeq(o, n+1, Len(o)) \in Seq(S)
  BY <1>1, SubSeqProperties
<1>4. sock[i] \o SubSeq(o, 1, n) \in Seq(S) /\ Len(sock[i] \o SubSeq(o, 1, n)) = Len(sock[i]) + n
  BY <1>2, ConcatProperties
<1>5. QED
  BY <1>1, <1>3, <1>4 DEF WaitingAfter, SocketAfter, n

\* wr puts a reply of slot i's connection in slot i's boxes.
LEMMA AnswerFact ==
  ASSUME BoxesOK(oq, sock), NEW out, \A i \in Slots : out[i] \in Seq(OwnReplies(i)), Answer(out)
  PROVE  BoxesOK(oq', sock')
<1>1. ASSUME NEW i \in Slots
      PROVE  /\ oq'[i] \in Seq(OwnReplies(i)) /\ sock'[i] \in Seq(OwnReplies(i))
             /\ Len(sock'[i]) <= SockCap
  <2>1. oq[i] \in Seq(OwnReplies(i)) /\ sock[i] \in Seq(OwnReplies(i)) /\ Len(sock[i]) <= SockCap
    BY DEF BoxesOK
  <2>2. oq[i] \o out[i] \in Seq(OwnReplies(i))
    BY <2>1, ConcatProperties
  <2>3. /\ WaitingAfter(oq[i] \o out[i], i) \in Seq(OwnReplies(i))
        /\ SocketAfter(oq[i] \o out[i], i) \in Seq(OwnReplies(i))
        /\ Len(SocketAfter(oq[i] \o out[i], i)) <= SockCap
    BY <2>1, <2>2, FlushFact
  <2>4. /\ oq'[i] = IF out[i] = <<>> THEN oq[i] ELSE WaitingAfter(oq[i] \o out[i], i)
        /\ sock'[i] = IF out[i] = <<>> THEN sock[i] ELSE SocketAfter(oq[i] \o out[i], i)
    BY DEF Answer
  <2>5. QED
    BY <2>1, <2>3, <2>4
<1>2. \A i \in Slots : Seq(OwnReplies(i)) \subseteq Seq(ReplyType)
  BY SeqMonotone DEF OwnReplies
<1>3. oq' \in [Slots -> Seq(ReplyType)] /\ sock' \in [Slots -> Seq(ReplyType)]
  <2>1. \A i \in Slots : oq'[i] \in Seq(ReplyType) /\ sock'[i] \in Seq(ReplyType)
    BY <1>1, <1>2
  <2>2. oq' = [i \in Slots |-> oq'[i]] /\ sock' = [i \in Slots |-> sock'[i]]
    BY DEF Answer
  <2>3. QED
    BY <2>1, <2>2
<1>4. QED
  BY <1>1, <1>3 DEF BoxesOK

\* A flush of some slots, while others start afresh.
LEMMA FlushedFact ==
  ASSUME BoxesOK(oq, sock), NEW S, NEW fresh, Flush(S, fresh)
  PROVE  BoxesOK(oq', sock')
<1>1. ASSUME NEW i \in Slots
      PROVE  /\ oq'[i] \in Seq(OwnReplies(i)) /\ sock'[i] \in Seq(OwnReplies(i))
             /\ Len(sock'[i]) <= SockCap
  <2>1. oq[i] \in Seq(OwnReplies(i)) /\ sock[i] \in Seq(OwnReplies(i)) /\ Len(sock[i]) <= SockCap
    BY DEF BoxesOK
  <2>2. /\ WaitingAfter(oq[i], i) \in Seq(OwnReplies(i))
        /\ SocketAfter(oq[i], i) \in Seq(OwnReplies(i))
        /\ Len(SocketAfter(oq[i], i)) <= SockCap
    BY <2>1, FlushFact
  <2>3. /\ oq'[i] \in {<<>>, oq[i], WaitingAfter(oq[i], i)}
        /\ sock'[i] \in {sock[i], SocketAfter(oq[i], i)}
    BY DEF Flush
  <2>4. <<>> \in Seq(OwnReplies(i))
    OBVIOUS
  <2>5. QED
    BY <2>1, <2>2, <2>3, <2>4, Zenon
<1>2. \A i \in Slots : Seq(OwnReplies(i)) \subseteq Seq(ReplyType)
  BY SeqMonotone DEF OwnReplies
<1>3. oq' \in [Slots -> Seq(ReplyType)] /\ sock' \in [Slots -> Seq(ReplyType)]
  <2>1. \A i \in Slots : oq'[i] \in Seq(ReplyType) /\ sock'[i] \in Seq(ReplyType)
    BY <1>1, <1>2
  <2>2. oq' = [i \in Slots |-> oq'[i]] /\ sock' = [i \in Slots |-> sock'[i]]
    BY DEF Flush
  <2>3. QED
    BY <2>1, <2>2
<1>4. QED
  BY <1>1, <1>3 DEF BoxesOK


\* The OP_CAPS job answers nobody.
LEMMA CapsJobOwn == CapsJob \in OwnJobs(QueuedJob)
  BY CapsJobFact DEF OwnJobs, CapsJob

\* The loop is entered with every box empty and at most the OP_CAPS job queued.
LEMMA RoutingInit == Init => Routing
<1> SUFFICES ASSUME Init PROVE Routing
  OBVIOUS
<1>1. ConnsOK
  BY DEF Init, ConnsOK, Open
<1>2. \A S : <<>> \in Seq(S) /\ Len(<<>>) = 0
  OBVIOUS
<1>3. TokensOK(inq) /\ BoxesOK(oq, sock)
  BY <1>2, BoundsAssumption DEF Init, TokensOK, BoxesOK
<1>4. JobsOK(queue, inflight)
  <2>1. queue = <<>> \/ queue = <<CapsJob>>
    BY DEF Init
  <2>2. \A j : \A S : j \in S => <<j>> \in Seq(S)
    OBVIOUS
  <2>3. queue \in Seq(OwnJobs(QueuedJob))
    BY <2>1, <2>2, <1>2, CapsJobOwn
  <2>4. QED
    BY <2>3, <1>2 DEF Init, JobsOK
<1>5. QED
  BY <1>1, <1>3, <1>4 DEF Routing

\* A client writes under its own connection; the card knows no clients.
LEMMA RoutingEnvironment ==
  ASSUME Inv, Routing,
         \/ \E i \in Slots : Client(i)
         \/ \E j \in net, caps \in Caps : NodeReply(j, caps)
  PROVE  Routing'
<1>1. ASSUME NEW i \in Slots, NEW r \in Requests, Submit(i, r) PROVE Routing'
  <2>1. /\ nreq' = nreq + 1 /\ owner' = [owner EXCEPT ![nreq + 1] = conn[i]]
        /\ UNCHANGED <<conn, nconn, queue, inflight, oq, sock>> /\ Open(i)
        /\ nreq \in Nat /\ nreq + 1 \in 0..MaxReq
    BY <1>1, BoundsAssumption DEF Submit, daemon, Inv, TypeOK, ClientTypeOK
  <2>2. Keeps
    BY <2>1 DEF Keeps, Ours, From, Open, Inv, TypeOK, ClientTypeOK
  <2>3. ConnsOK'
    BY <2>1 DEF Routing, ConnsOK, Open
  <2>4. \A c : c = nreq + 1 => Ours(c, i)'
    BY <2>1 DEF Ours, From, Open, Inv, TypeOK, ClientTypeOK
  <2> DEFINE tok == [t |-> "header", cid |-> nreq + 1, op |-> r.op, node |-> r.node, n |-> r.n]
  <2>5. tok \in OwnTokens(i)'
    <3>1. r.op \in OpBytes /\ r.node \in Nat /\ r.n \in Int
      BY InputsAssumption DEF OpBytes
    <3>2. tok \in Token /\ tok.cid = nreq + 1
      BY <2>1, <3>1 DEF Token
    <3> HIDE DEF tok
    <3>3. QED
      BY <2>4, <3>2 DEF OwnTokens
  <2>6. \A k \in Slots : Seq(OwnTokens(k)) \subseteq Seq(OwnTokens(k)')
    <3>1. \A k \in Slots : OwnTokens(k) \subseteq OwnTokens(k)'
      BY <2>2 DEF Keeps, OwnTokens, Token
    <3>2. QED
      BY <3>1, SeqMonotone
  <2>7. \A k \in Slots : inq[k] \in Seq(OwnTokens(k)')
    BY <2>6 DEF Routing, TokensOK
  <2>8. inq \in [Slots -> Seq(Token)] /\ inq' = [inq EXCEPT ![i] = Append(@, tok)]
    BY <1>1 DEF Submit, Inv, TypeOK, ClientTypeOK
  <2> HIDE DEF tok
  <2>9. Append(inq[i], tok) \in Seq(OwnTokens(i)')
    BY <2>5, <2>7
  <2>10. TokensOK(inq)'
    BY <2>7, <2>8, <2>9 DEF TokensOK
  <2>11. JobsOK(queue', inflight') /\ BoxesOK(oq', sock')
    BY <2>1 DEF Routing
  <2>12. QED
    BY <2>2, <2>3, <2>10, <2>11, RouteStep
<1>2. ASSUME NEW i \in Slots, SendPayload(i) PROVE Routing'
  <2>1. UNCHANGED <<conn, nconn, nreq, owner, queue, inflight, oq, sock>> /\ Open(i)
    BY <1>2 DEF SendPayload, daemon
  <2>2. Keeps /\ ConnsOK' /\ JobsOK(queue', inflight') /\ BoxesOK(oq', sock')
    BY <2>1, StillOurs DEF Routing, ConnsOK, Open
  <2> DEFINE tok == [t |-> "payload", cid |-> 0, op |-> "", node |-> 0, n |-> 0]
  <2>3. tok \in Token /\ tok.cid = 0
    BY BoundsAssumption DEF Token, OpBytes
  <2>4. inq \in [Slots -> Seq(Token)] /\ inq' = [inq EXCEPT ![i] = Append(@, tok)]
    BY <1>2 DEF SendPayload, Inv, TypeOK, ClientTypeOK
  <2> HIDE DEF tok
  <2>5. tok \in OwnTokens(i)
    BY <2>1, <2>3 DEF OwnTokens, Ours, From, Inv, TypeOK, ClientTypeOK
  <2>6. Append(inq[i], tok) \in Seq(OwnTokens(i))
    BY <2>5 DEF Routing, TokensOK
  <2>7. TokensOK(inq')
    BY <2>4, <2>6 DEF Routing, TokensOK
  <2>8. QED
    BY <2>2, <2>7, RouteStep
<1>3. ASSUME NEW i \in Slots, Receive(i) PROVE Routing'
  <2>1. UNCHANGED <<conn, nconn, nreq, owner, queue, inflight, oq, inq>>
        /\ sock' = [sock EXCEPT ![i] = Tail(@)] /\ sock[i] # <<>>
    BY <1>3 DEF Receive, daemon
  <2>2. Keeps /\ ConnsOK' /\ JobsOK(queue', inflight') /\ TokensOK(inq')
    BY <2>1, StillOurs DEF Routing, ConnsOK, Open
  <2>3. /\ sock \in [Slots -> Seq(ReplyType)]
        /\ sock[i] \in Seq(OwnReplies(i)) /\ sock[i] \in Seq(ReplyType) /\ Len(sock[i]) <= SockCap
    BY DEF Routing, BoxesOK
  <2>4. /\ Tail(sock[i]) \in Seq(OwnReplies(i)) /\ Tail(sock[i]) \in Seq(ReplyType)
        /\ Len(Tail(sock[i])) <= SockCap
    <3>1. \A S : \A s \in Seq(S) : s # <<>> =>
            Tail(s) \in Seq(S) /\ Len(Tail(s)) = Len(s) - 1 /\ Len(s) \in Nat
      OBVIOUS
    <3>2. QED
      BY <2>1, <2>3, <3>1, BoundsAssumption
  <2>5. BoxesOK(oq', sock')
    BY <2>1, <2>3, <2>4 DEF Routing, BoxesOK
  <2>6. QED
    BY <2>2, <2>5, RouteStep
<1>4. CASE (\E i \in Slots : Close(i)) \/ (\E j \in net, caps \in Caps : NodeReply(j, caps))
  <2>1. UNCHANGED <<conn, nconn, nreq, owner, queue, inflight, oq, sock, inq>>
    BY <1>4 DEF Close, NodeReply, daemon, clients
  <2>2. Keeps /\ ConnsOK' /\ JobsOK(queue', inflight') /\ TokensOK(inq') /\ BoxesOK(oq', sock')
    BY <2>1, StillOurs DEF Routing, ConnsOK, Open
  <2>3. QED
    BY <2>2, RouteStep
<1>5. QED
  BY <1>1, <1>2, <1>3, <1>4 DEF Client

\* A new connection gets a slot nothing refers to, and a number nobody has had.
LEMMA RoutingLoop ==
  ASSUME Inv, Routing, Selected(FALSE) \/ Selected(TRUE) \/ Spin \/ SendDone \/ PollDone \/ WatchQuiet
  PROVE  Routing'
<1>1. UNCHANGED <<queue, inflight, inq, nreq, owner>>
  BY DEF Selected, Spin, SendDone, PollDone, WatchQuiet, clients
<1>2. BoxesOK(oq', sock')
  <2>1. UNCHANGED <<oq, sock>> \/ \E S, fresh : Flush(S, fresh)
    BY DEF Selected, Spin, SendDone, PollDone, WatchQuiet, clients, Silence
  <2>2. QED
    BY <2>1, FlushedFact DEF Routing
<1>3. CASE UNCHANGED <<conn, nconn>>
  <2>1. Keeps /\ ConnsOK' /\ JobsOK(queue', inflight') /\ TokensOK(inq')
    BY <1>1, <1>3, StillOurs DEF Routing, ConnsOK, Open
  <2>2. QED
    BY <2>1, <1>2, RouteStep
<1>4. CASE Selected(TRUE)
  <2>1. /\ nconn' = nconn + 1 /\ nconn \in Nat
        /\ conn' = [i \in Slots |-> IF i \in FreeSlot THEN nconn + 1 ELSE conn[i]]
        /\ \A i \in Slots : conn[i] \in Nat
    BY <1>4 DEF Selected, Accept, Inv, TypeOK, ClientTypeOK
  <2>2. \A i, k \in FreeSlot : i \in Slots /\ ~Open(i) /\ i = k
    <3>1. \A i, k \in Slots : i < k \/ k < i \/ i = k
      BY BoundsAssumption
    <3>2. QED
      BY <3>1 DEF FreeSlot
  <2>3. Keeps
    BY <1>1, <2>1, <2>2 DEF Keeps, Ours, From, Open
  <2>4. ConnsOK'
    <3>1. \A i \in Slots : conn'[i] <= nconn'
      BY <2>1 DEF Routing, ConnsOK
    <3>2. ASSUME NEW i \in Slots, NEW k \in Slots, conn'[i] # 0, conn'[i] = conn'[k] PROVE i = k
      <4>1. conn[i] <= nconn /\ conn[k] <= nconn
        BY DEF Routing, ConnsOK
      <4>2. CASE i \in FreeSlot
        BY <3>2, <2>1, <2>2, <4>1, <4>2
      <4>3. CASE i \notin FreeSlot
        <5>1. k \notin FreeSlot /\ conn[i] # 0 /\ conn[i] = conn[k]
          BY <3>2, <2>1, <4>1, <4>3
        <5>2. QED
          BY <5>1 DEF Routing, ConnsOK, Open
      <4>4. QED
        BY <4>2, <4>3
    <3>3. QED
      BY <3>1, <3>2 DEF ConnsOK, Open
  <2>5. JobsOK(queue', inflight') /\ TokensOK(inq')
    BY <1>1 DEF Routing
  <2>6. QED
    BY <2>3, <2>4, <2>5, <1>2, RouteStep
<1>5. QED
  BY <1>3, <1>4 DEF Selected, Spin, SendDone, PollDone, WatchQuiet, clients


-----------------------------------------------------------------------------
\* The header the daemon acts on is one the slot's own connection sent (or no request's).
LEMMA HeaderOurs ==
  ASSUME Inv, Routing, NEW i \in Slots, Serving(i), NEW h \in Headers(i)
  PROVE  /\ h.cid \in 0..MaxReq /\ Ours(h.cid, i)
         /\ Tail(inq[i]) \in Seq(OwnTokens(i))
         /\ \A p \in Payloads(i, h) : p.rest \in Seq(OwnTokens(i))
<1>1. inq[i] \in Seq(OwnTokens(i))
  BY DEF Routing, TokensOK
<1>2. Open(i) /\ nreq \in Nat
  BY DEF Serving, Inv, ReadyOpen, TypeOK, ClientTypeOK
<1>3. h = Head(inq[i]) \/ h.cid = 0
  BY DEF Headers
<1>4. Ours(h.cid, i)
  <2>1. CASE h = Head(inq[i])
    <3>1. \A S : \A s \in Seq(S) : s # <<>> => Head(s) \in S
      OBVIOUS
    <3>2. Head(inq[i]) \in OwnTokens(i)
      BY <1>1, <3>1 DEF Headers
    <3>3. QED
      BY <2>1, <3>2 DEF OwnTokens
  <2>2. CASE h.cid = 0
    BY <1>2, <2>2 DEF Ours, From
  <2>3. QED
    BY <1>3, <2>1, <2>2
<1>5. QED
  BY <1>1, <1>4, RestIn, HeaderFact

\* One reply for slot i, if it is to go anywhere.
LEMMA OnlyFact ==
  ASSUME NEW fd, NEW cid, NEW st \in Statuses, fd \in Slots => cid \in 0..MaxReq /\ Ours(cid, fd)
  PROVE  \A i \in Slots : Only(fd, Reply(cid, st))[i] \in Seq(OwnReplies(i))
<1>1. ASSUME NEW i \in Slots PROVE Only(fd, Reply(cid, st))[i] \in Seq(OwnReplies(i))
  <2>1. CASE i = fd
    <3>1. Reply(cid, st) \in OwnReplies(i)
      <4>1. cid \in 0..MaxReq /\ Ours(cid, i)
        BY <2>1
      <4>2. [cid |-> cid, st |-> st] \in ReplyType
        BY <4>1 DEF ReplyType
      <4>3. QED
        BY <4>1, <4>2 DEF OwnReplies, Reply
    <3>2. \A r \in OwnReplies(i) : <<r>> \in Seq(OwnReplies(i))
      OBVIOUS
    <3>3. Only(fd, Reply(cid, st))[i] = <<Reply(cid, st)>>
      BY <2>1 DEF Only
    <3>4. QED
      BY <3>1, <3>2, <3>3
  <2>2. CASE i # fd
    BY <2>2 DEF Only
  <2>3. QED
    BY <2>1, <2>2
<1>2. QED
  BY <1>1

\* A request that is refused is refused to the connection it came over.
LEMMA RoutingRefusal ==
  ASSUME Inv, Routing, NEW i \in Slots, NEW h \in Headers(i),
         LeaseRefused(i, h) \/ NoNode(i, h) \/ Refused(i, h) \/ NotTaken(i, h)
  PROVE  Routing'
<1>1. Serving(i)
  BY DEF LeaseRefused, NoNode, Refused, NotTaken
<1>2. PICK rest \in Seq(OwnTokens(i)), st \in {"DOWN", "NONODE"} : OnlyAnswers(i, h, rest, st)
  <2>1. /\ Tail(inq[i]) \in Seq(OwnTokens(i))
        /\ \A p \in Payloads(i, h) : p.rest \in Seq(OwnTokens(i))
    BY <1>1, HeaderOurs
  <2>2. QED
    BY <2>1 DEF LeaseRefused, NoNode, Refused, NotTaken
<1>3. /\ UNCHANGED <<conn, nconn, nreq, owner, queue, inflight>>
      /\ Answer(Only(i, Reply(h.cid, st))) /\ inq' = [inq EXCEPT ![i] = rest]
  BY <1>2 DEF OnlyAnswers
<1>4. Keeps /\ ConnsOK' /\ JobsOK(queue', inflight')
  BY <1>3, StillOurs DEF Routing, ConnsOK, Open
<1>5. TokensOK(inq')
  BY <1>3 DEF Routing, TokensOK, Inv, TypeOK, ClientTypeOK
<1>6. BoxesOK(oq', sock')
  <2>1. \A k \in Slots : Only(i, Reply(h.cid, st))[k] \in Seq(OwnReplies(k))
    <3>1. st \in Statuses /\ h.cid \in 0..MaxReq /\ Ours(h.cid, i)
      BY <1>1, HeaderOurs DEF Statuses
    <3>2. QED
      BY <3>1, OnlyFact
  <2>2. QED
    BY <1>3, <2>1, AnswerFact DEF Routing
<1>7. QED
  BY <1>4, <1>5, <1>6, RouteStep

\* A job is queued under the slot its request came over.
LEMMA RoutingEnqueue ==
  ASSUME Inv, Routing, NEW i \in Slots, NEW h \in Headers(i), Enqueue(i, h)
  PROVE  Routing'
<1> DEFINE j == [fd |-> i, cid |-> h.cid, op |-> h.op, node |-> h.node, n |-> h.n]
<1>1. Serving(i) /\ queue' = Append(queue, j) /\ UNCHANGED <<conn, nconn, nreq, owner, inflight, oq, sock>>
  BY DEF Enqueue
<1>2. j \in QueuedJob /\ j.fd = i /\ j.cid = h.cid
  <2>1. h.n \in Nat
    BY HeaderFact DEF Enqueue, Fine, TooBigFor
  <2>2. QED
    BY <2>1, HeaderFact DEF QueuedJob
<1> HIDE DEF j
<1>3. j \in OwnJobs(QueuedJob)
  BY <1>1, <1>2, HeaderOurs DEF OwnJobs
<1>4. JobsOK(queue', inflight')
  BY <1>1, <1>3 DEF Routing, JobsOK
<1>5. TokensOK(inq')
  <2>1. PICK p \in Payloads(i, h) : inq' = [inq EXCEPT ![i] = p.rest]
    BY DEF Enqueue
  <2>2. p.rest \in Seq(OwnTokens(i))
    BY <1>1, HeaderOurs
  <2>3. QED
    BY <2>1, <2>2 DEF Routing, TokensOK, Inv, TypeOK, ClientTypeOK
<1>6. Keeps /\ ConnsOK' /\ BoxesOK(oq', sock')
  BY <1>1, StillOurs DEF Routing, ConnsOK, Open
<1>7. QED
  BY <1>4, <1>5, <1>6, RouteStep


-----------------------------------------------------------------------------
\* go_down answers each job, in flight or queued, at the connection that asked for it.
LEMMA GoDownFact ==
  ASSUME Routing, NEW q \in Seq(OwnJobs(QueuedJob)), NEW extra, GoDown(q, extra),
         \A i \in Slots : extra[i] \in Seq(OwnReplies(i))
  PROVE  BoxesOK(oq', sock')
<1> DEFINE J == OwnJobs(QueuedJob) \union OwnJobs(WiredJob)
<1>1. inflight \o q \in Seq(J)
  <2>1. inflight \in Seq(J) /\ q \in Seq(J)
    BY SeqMonotone DEF Routing, JobsOK
  <2> HIDE DEF J
  <2>2. QED
    BY <2>1, ConcatProperties
<1>2. ASSUME NEW i \in Slots PROVE Downs(q, i) \in Seq(OwnReplies(i))
  <2>1. ASSUME NEW j \in J, j.fd = i PROVE Reply(j.cid, "DOWN") \in OwnReplies(i)
    <3>1. j.cid \in 0..MaxReq /\ Ours(j.cid, i)
      BY <2>1 DEF OwnJobs, QueuedJob, WiredJob
    <3>2. [cid |-> j.cid, st |-> "DOWN"] \in ReplyType
      BY <3>1 DEF ReplyType, Statuses
    <3>3. QED
      BY <3>1, <3>2 DEF OwnReplies, Reply
  <2> HIDE DEF J
  <2>2. QED
    BY <1>1, <2>1, DownsFact
<1>3. \A i \in Slots : Downs(q, i) \o extra[i] \in Seq(OwnReplies(i))
  BY <1>2, ConcatProperties
<1> DEFINE out == [i \in Slots |-> Downs(q, i) \o extra[i]]
<1>4. Answer(out) /\ \A i \in Slots : out[i] \in Seq(OwnReplies(i))
  BY <1>3 DEF GoDown
<1> HIDE DEF out
<1>5. QED
  BY <1>4, AnswerFact DEF Routing

\* A boot queues nothing but the OP_CAPS job.
LEMMA BootOwn ==
  ASSUME NEW q \in Seq(OwnJobs(QueuedJob)), Boot(q)
  PROVE  queue' \in Seq(OwnJobs(QueuedJob))
<1>1. queue' = q \/ queue' = Append(q, CapsJob)
  BY DEF Boot
<1>2. \A S : \A j \in S : \A s \in Seq(S) : Append(s, j) \in Seq(S)
  OBVIOUS
<1>3. QED
  BY <1>1, <1>2, CapsJobOwn

\* go_down outside a client's turn: the failed send, the impossible length, the watchdog.
LEMMA RoutingDown ==
  ASSUME Inv, Routing, NEW q \in Seq(OwnJobs(QueuedJob)), GoDown(q, Nothing), Fallen \/ Boot(<<>>),
         UNCHANGED <<conn, nconn, nreq, owner, inq>>
  PROVE  Routing'
<1>1. BoxesOK(oq', sock')
  <2>1. \A i \in Slots : Nothing[i] \in Seq(OwnReplies(i))
    BY DEF Nothing
  <2>2. QED
    BY <2>1, GoDownFact
<1>2. <<>> \in Seq(OwnJobs(QueuedJob)) /\ <<>> \in Seq(OwnJobs(WiredJob))
  OBVIOUS
<1>3. JobsOK(queue', inflight')
  BY <1>2, BootOwn DEF GoDown, Fallen, JobsOK
<1>4. Keeps /\ ConnsOK' /\ TokensOK(inq')
  BY StillOurs DEF Routing, ConnsOK, Open
<1>5. QED
  BY <1>1, <1>3, <1>4, RouteStep

\* The lease: everything is failed first, then the holder is told it has it.
LEMMA RoutingLease ==
  ASSUME Inv, Routing, NEW i \in Slots, NEW h \in Headers(i), LeaseGranted(i, h)
  PROVE  Routing'
<1>1. /\ Serving(i) /\ GoDown(queue, Only(i, Reply(h.cid, "OK"))) /\ Fallen
      /\ inq' = [inq EXCEPT ![i] = Tail(@)] /\ UNCHANGED <<conn, nconn, nreq, owner>>
  BY DEF LeaseGranted
<1>2. \A k \in Slots : Only(i, Reply(h.cid, "OK"))[k] \in Seq(OwnReplies(k))
  <2>1. "OK" \in Statuses /\ h.cid \in 0..MaxReq /\ Ours(h.cid, i)
    BY <1>1, HeaderOurs DEF Statuses
  <2>2. QED
    BY <2>1, OnlyFact
<1>3. BoxesOK(oq', sock')
  BY <1>1, <1>2, GoDownFact DEF Routing, JobsOK
<1>4. TokensOK(inq')
  BY <1>1, HeaderOurs DEF Routing, TokensOK, Inv, TypeOK, ClientTypeOK
<1>5. <<>> \in Seq(OwnJobs(QueuedJob)) /\ <<>> \in Seq(OwnJobs(WiredJob))
  OBVIOUS
<1>6. JobsOK(queue', inflight')
  BY <1>1, <1>5 DEF GoDown, Fallen, JobsOK
<1>7. Keeps /\ ConnsOK'
  BY <1>1, StillOurs DEF Routing, ConnsOK, Open
<1>8. QED
  BY <1>3, <1>4, <1>6, <1>7, RouteStep

\* drop_client on a table: slot i's jobs go on for nobody, the others for whom they were.
LEMMA OrphanOwn ==
  ASSUME NEW J, J = QueuedJob \/ J = WiredJob, NEW i \in Slots, NEW s \in Seq(OwnJobs(J)),
         \A c \in 0..MaxReq, k \in Slots : k # i /\ Ours(c, k) => Ours(c, k)'
  PROVE  Orphan(s, i) \in Seq(OwnJobs(J)')
<1>1. Orphan(s, i) = [k \in 1..Len(s) |-> IF s[k].fd = i THEN [s[k] EXCEPT !.fd = NoFd] ELSE s[k]]
      /\ Len(s) \in Nat /\ \A k \in 1..Len(s) : s[k] \in OwnJobs(J)
  BY DEF Orphan
<1>2. ASSUME NEW j \in OwnJobs(J) PROVE (IF j.fd = i THEN [j EXCEPT !.fd = NoFd] ELSE j) \in OwnJobs(J)'
  <2>a. \A x \in QueuedJob : /\ x.cid \in 0..MaxReq /\ x.fd \in Slots \union {NoFd}
                             /\ [x EXCEPT !.fd = NoFd] \in QueuedJob /\ [x EXCEPT !.fd = NoFd].fd = NoFd
    BY DEF QueuedJob
  <2>b. \A x \in WiredJob : /\ x.cid \in 0..MaxReq /\ x.fd \in Slots \union {NoFd}
                            /\ [x EXCEPT !.fd = NoFd] \in WiredJob /\ [x EXCEPT !.fd = NoFd].fd = NoFd
    BY DEF WiredJob
  <2>c. j \in J /\ (j.fd # NoFd => Ours(j.cid, j.fd))
    BY DEF OwnJobs
  <2>0. /\ j \in J /\ (j.fd # NoFd => Ours(j.cid, j.fd)) /\ j.cid \in 0..MaxReq /\ j.fd \in Slots \union {NoFd}
        /\ [j EXCEPT !.fd = NoFd] \in J /\ [j EXCEPT !.fd = NoFd].fd = NoFd
    BY <2>a, <2>b, <2>c
  <2>1. CASE j.fd = i
    <3>1. [j EXCEPT !.fd = NoFd] \in J /\ [j EXCEPT !.fd = NoFd].fd = NoFd
      BY <2>0
    <3>2. QED
      BY <2>1, <3>1 DEF OwnJobs
  <2>2. CASE j.fd # i
    <3>1. j.fd # NoFd => Ours(j.cid, j.fd)'
      BY <2>0, <2>2
    <3>2. QED
      BY <2>0, <2>2, <3>1 DEF OwnJobs
  <2>3. QED
    BY <2>1, <2>2
<1>3. QED
  BY <1>1, <1>2

\* A client that goes takes its bytes, its replies and its requests with it.
LEMMA RoutingDrop ==
  ASSUME Inv, Routing, NEW i \in Slots, Serving(i), DropClient(i)
  PROVE  Routing'
<1>1. /\ conn' = [conn EXCEPT ![i] = 0] /\ UNCHANGED <<nconn, nreq>>
      /\ oq' = [oq EXCEPT ![i] = <<>>] /\ sock' = [sock EXCEPT ![i] = <<>>]
      /\ inq' = [inq EXCEPT ![i] = <<>>] /\ inflight' = Orphan(inflight, i)
      /\ owner' = [c \in DOMAIN owner |-> IF owner[c] = conn[i] THEN 0 ELSE owner[c]]
  BY DEF DropClient
<1>2. /\ conn \in [Slots -> 0..MaxConn] /\ owner \in [0..MaxReq -> 0..MaxConn]
      /\ inq \in [Slots -> Seq(Token)] /\ nconn \in Nat
      /\ oq \in [Slots -> Seq(ReplyType)] /\ sock \in [Slots -> Seq(ReplyType)]
  BY DEF Inv, TypeOK, ClientTypeOK, Routing, BoxesOK
<1>3. \A c \in 0..MaxReq, k \in Slots : k # i /\ Ours(c, k) => Ours(c, k)'
  <2>1. \A k \in Slots : k # i /\ Open(k) => conn[k] # conn[i]
    BY DEF Routing, ConnsOK
  <2>2. QED
    BY <1>1, <1>2, <2>1 DEF Ours, From, Open
<1>4. ConnsOK'
  BY <1>1, <1>2 DEF Routing, ConnsOK, Open
<1>5. \A k \in Slots : k # i => OwnTokens(k) \subseteq OwnTokens(k)' /\ OwnReplies(k) \subseteq OwnReplies(k)'
  BY <1>3 DEF OwnTokens, OwnReplies, Token, ReplyType
<1>6. \A k \in Slots : k # i => /\ Seq(OwnTokens(k)) \subseteq Seq(OwnTokens(k)')
                               /\ Seq(OwnReplies(k)) \subseteq Seq(OwnReplies(k)')
  BY <1>5, SeqMonotone
<1>7. \A S : <<>> \in Seq(S) /\ Len(<<>>) = 0
  OBVIOUS
<1>8. TokensOK(inq)'
  BY <1>1, <1>2, <1>6, <1>7 DEF Routing, TokensOK
<1>9. BoxesOK(oq, sock)'
  <2>1. oq' \in [Slots -> Seq(ReplyType)] /\ sock' \in [Slots -> Seq(ReplyType)]
    BY <1>1, <1>2, <1>7
  <2>2. ASSUME NEW k \in Slots
        PROVE  oq'[k] \in Seq(OwnReplies(k)') /\ sock'[k] \in Seq(OwnReplies(k)') /\ Len(sock'[k]) <= SockCap
    <3>1. CASE k = i
      BY <3>1, <1>1, <1>2, <1>7, BoundsAssumption
    <3>2. CASE k # i
      BY <3>2, <1>1, <1>2, <1>6 DEF Routing, BoxesOK
    <3>3. QED
      BY <3>1, <3>2
  <2>3. QED
    BY <2>1, <2>2 DEF BoxesOK
<1>10. JobsOK(queue, inflight)'
  <2>1. inflight' \in Seq(OwnJobs(WiredJob)')
    BY <1>1, <1>3, OrphanOwn DEF Routing, JobsOK
  <2>2. Orphan(queue, i) \in Seq(OwnJobs(QueuedJob)')
    BY <1>3, OrphanOwn DEF Routing, JobsOK
  <2>3. queue' \in {Orphan(queue, i), Append(Orphan(queue, i), CapsJob)}
    BY DEF DropClient, Boot
  <2>4. CapsJob \in OwnJobs(QueuedJob)'
    BY CapsJobFact DEF OwnJobs, CapsJob
  <2>5. \A S : \A j \in S : \A s \in Seq(S) : Append(s, j) \in Seq(S)
    OBVIOUS
  <2>6. queue' \in Seq(OwnJobs(QueuedJob)')
    BY <2>2, <2>3, <2>4, <2>5
  <2>7. QED
    BY <2>1, <2>6 DEF JobsOK
<1>11. QED
  BY <1>4, <1>8, <1>9, <1>10 DEF Routing


-----------------------------------------------------------------------------
\* A boot retry queues the OP_CAPS job and touches no client.
LEMMA RoutingRetry ==
  ASSUME Inv, Routing, Retry
  PROVE  Routing'
<1>1. Boot(queue) /\ UNCHANGED <<inflight, oq, sock, inq, conn, nconn, nreq, owner>>
  BY DEF Retry, clients
<1>2. JobsOK(queue', inflight')
  BY <1>1, BootOwn DEF Routing, JobsOK
<1>3. QED
  BY <1>1, <1>2, StillOurs, RouteStep DEF Routing, ConnsOK, Open

\* A job on the link keeps its client and its request id, whatever node and wire id it gets.
LEMMA RoutingSend ==
  ASSUME Inv, Routing, NEW q \in DOMAIN queue, NEW k \in Nodes, SendOne(q, k) \/ SendFails(q, k)
  PROVE  Routing'
<1>1. queue \in Seq(OwnJobs(QueuedJob)) /\ inflight \in Seq(OwnJobs(WiredJob)) /\ q \in 1..Len(queue)
  BY DEF Routing, JobsOK
<1>2. RemoveAt(queue, q) \in Seq(OwnJobs(QueuedJob))
  BY <1>1, RemoveAtFact
<1>3. CASE SendFails(q, k)
  <2>1. GoDown(RemoveAt(queue, q), Nothing) /\ Fallen /\ UNCHANGED <<conn, nconn, nreq, owner, inq>>
    BY <1>3 DEF SendFails
  <2>2. QED
    BY <1>2, <2>1, RoutingDown
<1>4. CASE SendOne(q, k)
  <2>1. PICK d \in Dues : inflight' = Append(inflight, Wired(queue[q], k, d))
    BY <1>4 DEF SendOne
  <2>2. queue' = RemoveAt(queue, q) /\ UNCHANGED <<conn, nconn, nreq, owner, inq, oq, sock>>
    BY <1>4 DEF SendOne, clients
  <2>3. queue[q] \in OwnJobs(QueuedJob)
    BY <1>1
  <2>4. Wired(queue[q], k, d) \in WiredJob /\ Wired(queue[q], k, d).fd = queue[q].fd
        /\ Wired(queue[q], k, d).cid = queue[q].cid
    BY <2>3, NextWidFact, BoundsAssumption DEF Wired, WiredJob, OwnJobs, QueuedJob
  <2>5. Wired(queue[q], k, d) \in OwnJobs(WiredJob)
    BY <2>3, <2>4 DEF OwnJobs
  <2>6. \A S : \A j \in S : \A s \in Seq(S) : Append(s, j) \in Seq(S)
    OBVIOUS
  <2>7. JobsOK(queue', inflight')
    BY <1>1, <1>2, <2>1, <2>2, <2>5, <2>6 DEF JobsOK
  <2>8. QED
    BY <2>2, <2>7, StillOurs, RouteStep DEF Routing, ConnsOK, Open
<1>5. QED
  BY <1>3, <1>4

\* A reply goes to the connection of the job it ends, whichever job that is.
LEMMA RoutingPoll ==
  ASSUME Inv, Routing, PollReply \/ PollOutOfStep
  PROVE  Routing'
<1>1. UNCHANGED <<queue, inq, conn, nconn, nreq, owner>>
  BY DEF PollReply, PollOutOfStep
<1>2. (\E x \in DOMAIN inflight : \E c : Finish(x, c)) \/ Drop
  BY DEF PollReply, PollOutOfStep, Matching
<1>3. Keeps /\ ConnsOK' /\ TokensOK(inq')
  BY <1>1, StillOurs DEF Routing, ConnsOK, Open
<1>4. CASE Drop
  <2>1. JobsOK(queue', inflight') /\ BoxesOK(oq', sock')
    BY <1>1, <1>4 DEF Drop, Silence, Routing
  <2>2. QED
    BY <1>3, <2>1, RouteStep
<1>5. ASSUME NEW x \in DOMAIN inflight, NEW c, Finish(x, c) PROVE Routing'
  <2>1. /\ Answer(Only(inflight[x].fd, Reply(inflight[x].cid, "RAN")))
        /\ inflight' = Vacate(inflight, x)
    BY <1>5 DEF Finish
  <2>2. inflight \in Seq(OwnJobs(WiredJob)) /\ x \in 1..Len(inflight)
    BY DEF Routing, JobsOK
  <2>3. inflight' \in Seq(OwnJobs(WiredJob))
    BY <2>1, <2>2, VacateFact
  <2>4. inflight[x] \in OwnJobs(WiredJob)
    BY <2>2
  <2>5. inflight[x].fd \in Slots => inflight[x].cid \in 0..MaxReq /\ Ours(inflight[x].cid, inflight[x].fd)
    <3>1. -1 \notin Slots
      BY BoundsAssumption
    <3>2. QED
      BY <2>4, <3>1 DEF OwnJobs, WiredJob
  <2>6. \A i \in Slots : Only(inflight[x].fd, Reply(inflight[x].cid, "RAN"))[i] \in Seq(OwnReplies(i))
    <3>1. "RAN" \in Statuses
      BY DEF Statuses
    <3>2. QED
      BY <2>5, <3>1, OnlyFact
  <2>7. BoxesOK(oq', sock')
    BY <2>1, <2>6, AnswerFact DEF Routing
  <2>8. JobsOK(queue', inflight')
    BY <1>1, <2>3 DEF Routing, JobsOK
  <2>9. QED
    BY <1>3, <2>7, <2>8, RouteStep
<1>6. QED
  BY <1>2, <1>4, <1>5

\* No step takes anything to another connection.
LEMMA RoutingNext ==
  ASSUME Inv, Routing, [Next]_vars
  PROVE  Routing'
<1>1. CASE Select \/ SelectConnect \/ Spin \/ WatchQuiet
  BY <1>1, RoutingLoop DEF Select, SelectConnect
<1>2. CASE \E i \in Slots : ServeRequest(i)
  <2> PICK i \in Slots : ServeRequest(i)
    BY <1>2
  <2>1. CASE ClientGone(i)
    BY <2>1, RoutingDrop DEF ClientGone
  <2>2. ASSUME NEW h \in Headers(i), BadRequest(i, h) PROVE Routing'
    BY <2>2, RoutingDrop DEF BadRequest
  <2>3. ASSUME NEW h \in Headers(i), LeaseGranted(i, h) PROVE Routing'
    BY <2>3, RoutingLease
  <2>4. ASSUME NEW h \in Headers(i), Enqueue(i, h) PROVE Routing'
    BY <2>4, RoutingEnqueue
  <2>5. ASSUME NEW h \in Headers(i), LeaseRefused(i, h) \/ NoNode(i, h) \/ Refused(i, h) \/ NotTaken(i, h)
        PROVE  Routing'
    BY <2>5, RoutingRefusal
  <2>6. QED
    BY <2>1, <2>2, <2>3, <2>4, <2>5 DEF ServeRequest
<1>3. CASE SendJobs
  <2>1. ASSUME NEW q \in DOMAIN queue, NEW k \in Nodes, SendOne(q, k) \/ SendFails(q, k) PROVE Routing'
    BY <2>1, RoutingSend
  <2>2. CASE SendDone
    BY <2>2, RoutingLoop
  <2>3. QED
    BY <1>3, <2>1, <2>2 DEF SendJobs
<1>4. CASE PollBadLength \/ WatchFire
  <2>1. /\ GoDown(queue, Nothing) /\ (Fallen \/ Boot(<<>>))
        /\ UNCHANGED <<conn, nconn, nreq, owner, inq>> /\ queue \in Seq(OwnJobs(QueuedJob))
    BY <1>4 DEF PollBadLength, WatchFire, Routing, JobsOK
  <2>2. QED
    BY <2>1, RoutingDown
<1>5. CASE PollReply \/ PollOutOfStep \/ PollDone \/ Retry
  BY <1>5, RoutingPoll, RoutingLoop, RoutingRetry
<1>6. CASE \/ \E i \in Slots : Client(i)
           \/ \E j \in net, caps \in Caps : NodeReply(j, caps)
  BY <1>6, RoutingEnvironment
<1>7. CASE UNCHANGED vars
  BY <1>7, StillOurs, RouteStep DEF vars, daemon, clients, Routing, ConnsOK, Open
<1>8. QED
  BY <1>1, <1>2, <1>3, <1>4, <1>5, <1>6, <1>7 DEF Next, Daemon, PollLink

\* Routing holds in every reachable state.
THEOREM RoutingKept == Spec => [](Inv /\ Routing)
<1>1. Init => Routing
  BY RoutingInit
<1>2. Inv /\ Routing /\ [Next]_vars => Routing'
  BY RoutingNext
<1>3. QED
  BY <1>1, <1>2, Invariance, PTL DEF Spec

\* A job queued or in flight is answered to the connection that sent it, however slots and
\* fds are reused, and even when a stalled client's bytes are misread.
THEOREM OwnersCorrect == Spec => []OwnersMatch
<1>1. Routing => OwnersMatch
  <2> SUFFICES ASSUME Routing PROVE OwnersMatch
    OBVIOUS
  <2>1. /\ \A k \in DOMAIN queue : queue[k] \in OwnJobs(QueuedJob)
        /\ \A x \in DOMAIN inflight : inflight[x] \in OwnJobs(WiredJob)
    BY DEF Routing, JobsOK
  <2>2. QED
    BY <2>1 DEF OwnJobs, Ours, OwnersMatch
<1>2. QED
  BY <1>1, RoutingKept, PTL

\* Every reply on its way to a client answers a request made over that connection.
THEOREM RepliesCorrect == Spec => []RepliesRouted
<1>1. Routing => RepliesRouted
  <2> SUFFICES ASSUME Routing, NEW i \in Slots, NEW r \in ToSet(oq[i]) \union ToSet(sock[i])
               PROVE  From(r.cid, i)
    BY DEF RepliesRouted
  <2>1. \A s \in Seq(OwnReplies(i)) : \A x \in ToSet(s) : x \in OwnReplies(i)
    BY DEF ToSet
  <2>2. r \in OwnReplies(i)
    BY <2>1 DEF Routing, BoxesOK
  <2>3. QED
    BY <2>2 DEF OwnReplies, Ours
<1>2. QED
  BY <1>1, RoutingKept, PTL
=============================================================================
