---------------------------- MODULE JobNet_proofs ----------------------------
(***************************************************************************)
(* Proofs about the resident image, for any number of TRAMs, any jobs and  *)
(* any number of them.                                                     *)
(*                                                                         *)
(* A reply is whole because each buffer on its way is in the hands of one  *)
(* process at a time: host claims a node only when its flag in busy[] is   *)
(* clear, mux clears it only after the node's last reply is out, and in    *)
(* between the node's job is at one place of a fixed path.  The invariant  *)
(* says where on that path a job is (Places), which headers, requests and  *)
(* jobs the daemon waits for belong to it there (Copies), and what its     *)
(* buffers and node 0's heap hold (BuffersOK, HeapOK).  From it follow     *)
(* RepliesWhole and HeapSafe, and that the image implements JobCard.       *)
(***************************************************************************)
EXTENDS JobNet, SequenceTheorems, TLAPS

-----------------------------------------------------------------------------
(***************************************************************************)
(* The inductive invariant.                                                *)
(***************************************************************************)
\* The job of node k: with host, or with mux on its way out.
HostAt(k) == node = k /\ hpc \notin {"alt", "claim"}
MuxAt(k) == mnode = k /\ mpc \in {"first", "rest", "release", "free"}

\* The processes that share a channel operation of two parts are in it together.
InStep ==
  /\ hpc = "relaypayload" <=> rpc = "payload"
  /\ rpc = "relaypayload" <=> w2pc = "payload"
  /\ w2pc = "rest" <=> m1pc = "read2"
  /\ m1pc \in {"rest1", "restm"} <=> mpc = "read"
  /\ mpc = "release" => mnode = 0

\* A node's job is in one process, and the node is busy until mux has reported it free.
OneAt0 ==
  /\ HostAt(0) => w0pc = "wait" /\ ~MuxAt(0)
  /\ w0pc # "wait" => ~MuxAt(0)
  /\ HostAt(0) \/ w0pc # "wait" \/ MuxAt(0) => busy[0]

With1 == m1pc \in {"first1", "rest1"}
OneAt1 ==
  /\ HostAt(1) => rpc # "go" /\ w1pc = "wait" /\ ~With1 /\ ~MuxAt(1)
  /\ rpc = "go" => w1pc = "wait" /\ ~With1 /\ ~MuxAt(1)
  /\ w1pc # "wait" => ~With1 /\ ~MuxAt(1)
  /\ With1 => ~MuxAt(1)
  /\ HostAt(1) \/ rpc = "go" \/ w1pc # "wait" \/ With1 \/ MuxAt(1) => busy[1]

Relay2 == rpc \in {"relay", "relaypayload"}
Work2 == w2pc \in {"exec", "first", "rest"}
With2 == m1pc \in {"firstm", "restm"}
OneAt2 ==
  /\ HostAt(2) => ~Relay2 /\ ~Work2 /\ ~With2 /\ ~MuxAt(2)
  /\ Relay2 => ~Work2 /\ ~With2 /\ ~MuxAt(2)
  /\ Work2 => ~With2 /\ ~MuxAt(2)
  /\ With2 => ~MuxAt(2)
  /\ HostAt(2) \/ Relay2 \/ Work2 \/ With2 \/ MuxAt(2) => busy[2]

\* The jobs whose header host has read.
Sent == IF tpc = "header" THEN Len(job) - 1 ELSE Len(job)

\* Headers are of jobs sent, and no job is in two places.
HeadersOK ==
  /\ tpc = "header" => tj = Len(job) /\ tj # None
  /\ hj \in 0..Sent /\ rj \in 0..Sent /\ hdr0 \in 0..Sent /\ hdr1 \in 0..Sent /\ hdr2 \in 0..Sent
  /\ unread \subseteq 1..Sent
  /\ hdr0 # None => hdr0 # hdr1 /\ hdr0 # hdr2
  /\ hdr1 # None => hdr1 # hdr2

\* Where host's and route's request has been copied to, and that it goes where it was sent.
HostOK ==
  /\ hpc # "alt" => hj \in unread
  /\ hpc \notin {"alt", "claim"} => job[hj].node \in {node, NODE_ANY}
  /\ hpc \in {"claim", "relay"} \/ (hpc = "payload" /\ node > 0) => hj \notin {hdr0, hdr1, hdr2, rj}
  /\ HostAt(0) => hpc \in {"payload", "go"} /\ hj = hdr0
  /\ hpc = "go" => node = 0
  /\ hpc \in {"relay", "relaypayload"} => node > 0 /\ Relayed(node)
  /\ hpc = "relaypayload" => rj = hj /\ hj # hdr0 /\ hj # hdr2 /\ (hdr1 = hj <=> node = 1)

RouteOK ==
  /\ rpc = "go" => rj = hdr1
  /\ rpc = "relay" => /\ rj \in unread /\ rj \notin {hdr0, hdr1, hdr2}
                      /\ Trams = 2 /\ job[rj].size < 2 /\ job[rj].node \in {2, NODE_ANY}
  /\ rpc = "relaypayload" => rj = hdr2

\* A node has the jobs that name it, or none; a TRAM has those that fit.
NodesOK ==
  /\ hdr0 # None => job[hdr0].node \in {0, NODE_ANY}
  /\ hdr1 # None => job[hdr1].node \in {1, NODE_ANY} /\ job[hdr1].size < 2 /\ Trams > 0
  /\ hdr2 # None => job[hdr2].node \in {2, NODE_ANY} /\ job[hdr2].size < 2 /\ Trams = 2

\* The daemon waits for a node's last job exactly while it is in the image.
UnreadOK ==
  /\ hdr0 \in unread <=> HostAt(0) \/ w0pc # "wait" \/ (Out /\ mnode = 0)
  /\ hdr1 \in unread <=> (hpc = "relaypayload" /\ node = 1) \/ rpc = "go" \/ w1pc # "wait" \/ With1 \/ (Out /\ mnode = 1)
  /\ hdr2 \in unread <=> rpc = "relaypayload" \/ Work2 \/ With2 \/ (Out /\ mnode = 2)

\* What the buffers hold.
BuffersOK ==
  /\ hpc = "go" \/ w0pc \in {"run", "exec"} => mem0 = "null" \/ ~Payload(hdr0) \/ in0 = hdr0
  /\ w0pc = "done" \/ (Out /\ mnode = 0) => rep0 = <<hdr0, hdr0>>
  /\ rpc = "go" \/ w1pc = "exec" => ~Payload(hdr1) \/ in1 = hdr1
  /\ w1pc = "done" \/ With1 => rep1 = <<hdr1, hdr1>>
  /\ w2pc = "exec" => ~Payload(hdr2) \/ in2 = hdr2
  /\ w2pc \in {"first", "rest"} => rep2 = <<hdr2, hdr2>>
  /\ m1pc = "read2" => repm1[1] = hdr2
  /\ With2 => repm1 = <<hdr2, hdr2>>
  /\ mpc = "read" => repm[1] = IF m1pc = "rest1" THEN hdr1 ELSE hdr2
  /\ Out /\ mnode # 0 => repm = IF mnode = 1 THEN <<hdr1, hdr1>> ELSE <<hdr2, hdr2>>
  /\ mpc = "rest" => half = Outgoing[1]

\* Node 0's blocks: what is allocated at each stage of its job.
PayloadBlock == IF mem0 = "in" THEN {"in"} ELSE {}
HeapOK ==
  /\ ~HostAt(0) /\ w0pc = "wait" /\ ~(mnode = 0 /\ mpc \in {"first", "rest", "release"}) => heap = {}
  /\ HostAt(0) \/ w0pc = "run" => heap = PayloadBlock
  /\ w0pc = "exec" => /\ buf0 \in {"in", "rep", "err"} /\ (buf0 # "err" => mem0 = "in")
                      /\ heap = PayloadBlock \union (IF buf0 = "rep" THEN {"rep"} ELSE {})
  /\ w0pc = "done" \/ (mnode = 0 /\ mpc \in {"first", "rest", "release"}) =>
       buf0 \in {"in", "rep", "err"} /\ heap = {buf0} \ {"err"}

Places == InStep /\ OneAt0 /\ OneAt1 /\ OneAt2
Copies == HeadersOK /\ HostOK /\ RouteOK /\ NodesOK /\ UnreadOK
Inv == TypeOK /\ Places /\ Copies /\ BuffersOK /\ HeapOK

-----------------------------------------------------------------------------
(***************************************************************************)
(* Facts about single steps.                                               *)
(***************************************************************************)
\* A node host claims is idle, and the request may go to it.
LEMMA ClaimFact ==
  ASSUME TypeOK, HeadersOK, HostOK, hpc = "claim", NEW k \in Claims
  PROVE  k \in 0..2 /\ ~busy[k] /\ job[hj].node \in {k, NODE_ANY}
<1>1. hj \in 1..Len(job) /\ job[hj] \in Kinds
  BY DEF TypeOK, HeadersOK, HostOK, Sent
<1>2. job[hj].node \in Nodes \union {NODE_ANY}
  BY <1>1, KindsAssumption
<1>3. QED
  BY <1>2 DEF Claims, FirstIdle, Nodes, NODES, NODE_ANY

\* Only ttjobd sends jobs: the others stay what they are.
LEMMA WriteFact ==
  ASSUME TypeOK, NEW k \in Kinds, Write(k)
  PROVE  /\ job' \in Seq(Kinds) /\ Len(job') = Len(job) + 1 /\ tj' = Len(job')
         /\ \A j \in 1..Len(job) : job'[j] = job[j]
         /\ Len(job) \in Nat /\ Len(job') <= MaxJobs
BY ImageAssumption DEF TypeOK, Write

\* Claiming a node: the other nodes' flags stay, and host keeps no request for an idle node.
LEMMA ClaimBusy ==
  ASSUME TypeOK, NEW k \in 0..2, Claim(k)
  PROVE  /\ \A m \in 0..2 : m # k => busy'[m] = busy[m]
         /\ hpc' # "alt" => busy'[k]
<1>1. k \in Nodes /\ busy \in [Nodes -> BOOLEAN]
  BY DEF TypeOK, Nodes, NODES
<1>2. busy'[k] = (k = 0 \/ Relayed(k) \/ Payload(hj))
  BY <1>1 DEF Claim
<1>3. hpc' # "alt" => k = 0 \/ Relayed(k) \/ Payload(hj)
  BY DEF Claim
<1>4. \A m \in 0..2 : m # k => busy'[m] = busy[m]
  BY <1>1 DEF Claim, Nodes, NODES
<1>5. QED
  BY <1>2, <1>3, <1>4

\* Writing the second half of a reply buffer keeps the first.
LEMMA PairFact == \A r \in Halves : \A b : [r EXCEPT ![2] = b] = <<r[1], b>>
BY DEF Halves

\* What mux and mux1 have when the second part of a reply is in.
LEMMA ReadsFact ==
  ASSUME TypeOK
  PROVE  /\ MuxReads => repm' = <<repm[1], Upward[2]>>
         /\ Mux1Reads2 => repm1' = <<repm1[1], rep2[2]>>
<1>1. repm \in Halves /\ repm1 \in Halves
  BY DEF TypeOK
<1>2. QED
  BY <1>1, PairFact DEF MuxReads, Mux1Reads2

\* The header host reads is that of the job sent last.
LEMMA HeaderFact ==
  ASSUME TypeOK, HeadersOK, HostHeader
  PROVE  /\ tj \in 1..Len(job) /\ tj \notin unread /\ unread' \subseteq 1..Len(job)
         /\ 0..Sent \subseteq 0..Len(job) /\ Sent' = Len(job)
<1>1. Len(job) \in Nat /\ tj = Len(job) /\ tj # None /\ unread \subseteq 1..Sent
  BY DEF TypeOK, HeadersOK, HostHeader, HeaderRead
<1>2. Sent = Len(job) - 1 /\ Sent' = Len(job) /\ unread' = unread \union {tj}
  BY DEF Sent, HostHeader, HeaderRead, Payload
<1>3. tj \in 1..Len(job) /\ tj \notin unread
  BY <1>1, <1>2 DEF None
<1>4. unread \subseteq 1..Len(job) /\ 0..Sent \subseteq 0..Len(job)
  BY <1>1, <1>2
<1>5. QED
  BY <1>2, <1>3, <1>4

\* The header host reads is of a job nobody has.
LEMMA HeadersTaken == ASSUME TypeOK, HeadersOK, HostHeader PROVE HeadersOK'
<1>1. UNCHANGED <<rj, hdr0, hdr1, hdr2>> /\ hj' = tj /\ tpc' # "header"
  BY DEF HostHeader, HeaderRead, Payload, route, node0, worker2
<1>2. rj \in 0..Sent /\ hdr0 \in 0..Sent /\ hdr1 \in 0..Sent /\ hdr2 \in 0..Sent
  BY DEF HeadersOK
<1>3. /\ hj' \in 0..Sent' /\ rj' \in 0..Sent' /\ hdr0' \in 0..Sent'
      /\ hdr1' \in 0..Sent' /\ hdr2' \in 0..Sent' /\ unread' \subseteq 1..Sent'
  BY <1>1, <1>2, HeaderFact
<1>4. QED
  BY <1>1, <1>3 DEF HeadersOK

\* Numbers of jobs, and pairs of them in the halves of a reply buffer.
LEMMA RefFact ==
  /\ None \in Ref /\ Blank \in Halves
  /\ \A a, b \in Ref : <<a, b>> \in Halves
  /\ \A r \in Halves : r[1] \in Ref /\ r[2] \in Ref
  /\ \A a, b \in Ref : Whole(a, b) \in Halves
BY ImageAssumption DEF Ref, Jobs, None, Halves, Blank, Whole

\* The three nodes.
LEMMA NodesFact == Nodes = 0..2
BY DEF Nodes, NODES

\* The replies mux takes and passes on.
LEMMA UpwardFact == ASSUME TypeOK PROVE Upward \in Halves
BY DEF TypeOK, Upward

\* The reply mux writes to the link.
LEMMA OutgoingFact == ASSUME TypeOK PROVE Outgoing \in Halves
BY DEF TypeOK, Outgoing

-----------------------------------------------------------------------------
(***************************************************************************)
(* Every step keeps each part of the invariant.                            *)
(***************************************************************************)
\* TypeOK is inductive, given that headers are of jobs sent.
LEMMA TypeKept ==
  ASSUME TypeOK, Places, HeadersOK, HostOK, RouteOK, Next
  PROVE  TypeOK'
<1> USE DEF tt, host, node0, mux, route, worker1, worker2, TypeOK
<1>1. CASE HostHeader \/ NodeFree \/ HostPayload \/ Go0
  <2>1. CASE HostHeader
    <3>1. unread' \subseteq Jobs
      BY <2>1 DEF HostHeader, HeaderRead, HeadersOK, Ref, Jobs
    <3>2. QED
      BY <2>1, <3>1 DEF HostHeader, HeaderRead
  <2>2. CASE NodeFree
    <3>1. busy' \in [Nodes -> BOOLEAN]
      BY <2>2 DEF NodeFree
    <3>2. QED
      BY <2>2, <3>1 DEF NodeFree
  <2>3. CASE HostPayload
    <3>1. busy' \in [Nodes -> BOOLEAN]
      BY <2>3 DEF HostPayload
    <3>2. QED
      BY <2>3, <3>1 DEF HostPayload, PayloadRead
  <2>4. CASE Go0
    BY <2>4 DEF Go0
  <2>5. QED
    BY <1>1, <2>1, <2>2, <2>3, <2>4
<1>2. CASE Work0
  <2>1. CASE Work0Starts
    <3>1. buf0' \in {"in", "rep", "err", "none"} /\ heap' \subseteq {"in", "rep"}
      BY <2>1 DEF Work0Starts, Allocate
    <3>2. QED
      BY <2>1, <3>1 DEF Work0Starts
  <2>2. CASE Work0Ends
    <3>1. rep0' \in Halves
      BY <2>2, RefFact DEF Work0Ends
    <3>2. heap' \subseteq {"in", "rep"} /\ in0' \in Ref
      BY <2>2, RefFact DEF Work0Ends
    <3>3. QED
      BY <2>2, <3>1, <3>2 DEF Work0Ends
  <2>3. QED
    BY <1>2, <2>1, <2>2 DEF Work0
<1>3. CASE Mux
  <2>1. CASE MuxTakes0
    BY <2>1, NodesFact DEF MuxTakes0
  <2>2. CASE MuxTakes1
    BY <2>2, UpwardFact, RefFact DEF MuxTakes1, Upward
  <2>3. CASE MuxReads
    <3>1. repm' \in Halves
      BY <2>3, ReadsFact, UpwardFact, RefFact
    <3>2. QED
      BY <2>3, <3>1, NodesFact DEF MuxReads
  <2>4. CASE MuxFirst
    BY <2>4, OutgoingFact, RefFact DEF MuxFirst
  <2>5. CASE MuxRest
    BY <2>5, RefFact DEF MuxRest
  <2>6. CASE MuxReleases
    BY <2>6, RefFact DEF MuxReleases
  <2>7. QED
    BY <1>3, <2>1, <2>2, <2>3, <2>4, <2>5, <2>6 DEF Mux
<1>4. CASE Route
  <2>1. CASE RouteHeader
    BY <2>1 DEF RouteHeader
  <2>2. CASE RoutePayload
    BY <2>2 DEF RoutePayload, To1
  <2>3. CASE Go1
    BY <2>3 DEF Go1
  <2>4. QED
    BY <1>4, <2>1, <2>2, <2>3 DEF Route
<1>5. CASE Work1Ends \/ Mux1
  <2>1. CASE Work1Ends
    BY <2>1, RefFact DEF Work1Ends
  <2>2. CASE Mux1Takes
    BY <2>2 DEF Mux1Takes
  <2>3. CASE Mux1Takes2
    BY <2>3, RefFact DEF Mux1Takes2
  <2>4. CASE Mux1Reads2
    <3>1. repm1' \in Halves
      BY <2>4, ReadsFact, RefFact
    <3>2. QED
      BY <2>4, <3>1 DEF Mux1Reads2
  <2>5. QED
    BY <1>5, <2>1, <2>2, <2>3, <2>4 DEF Mux1
<1>6. CASE Worker2
  <2>1. CASE Worker2Header
    BY <2>1 DEF Worker2Header
  <2>2. CASE Worker2Payload
    BY <2>2 DEF Worker2Payload
  <2>3. CASE Worker2Ends
    BY <2>3, RefFact DEF Worker2Ends
  <2>4. QED
    BY <1>6, <2>1, <2>2, <2>3 DEF Worker2
<1>7. ASSUME NEW k \in Claims, hpc = "claim", Claim(k)
      PROVE  TypeOK'
  <2>1. k \in 0..2 /\ ~busy[k] /\ job[hj].node \in {k, NODE_ANY}
    BY <1>7, ClaimFact
  <2>2. k \in Nodes /\ busy' \in [Nodes -> BOOLEAN]
    BY <1>7, <2>1, NodesFact DEF Claim
  <2>3. heap' \subseteq {"in", "rep"} /\ mem0' \in {"in", "null"} /\ hdr0' \in Ref
    BY <1>7 DEF Claim, Allocate
  <2>4. QED
    BY <1>7, <2>2, <2>3 DEF Claim
<1>8. ASSUME NEW k \in Kinds, Write(k)
      PROVE  TypeOK'
  <2>1. tj' \in Ref
    BY <1>8, WriteFact DEF Ref, Jobs
  <2>2. QED
    BY <1>8, <2>1, WriteFact DEF Write
<1>9. QED
  BY <1>1, <1>2, <1>3, <1>4, <1>5, <1>6, <1>7, <1>8 DEF Next, Host

\* Two processes in a channel operation of two parts enter and leave it together.
LEMMA InStepKept ==
  ASSUME TypeOK, Places, HeadersOK, HostOK, RouteOK, Next
  PROVE  InStep'
<1> USE DEF tt, host, node0, mux, route, worker1, worker2, InStep, OneAt0, OneAt1, OneAt2, HostAt,
            MuxAt, With1, With2, Relay2, Work2, Places, TypeOK, HostOK, RouteOK, Nodes, NODES,
            Relayed, NODE_ANY, None
<1>1. CASE HostHeader \/ NodeFree \/ HostPayload \/ Go0
  BY <1>1 DEF HostHeader, HeaderRead, NodeFree, HostPayload, PayloadRead, Go0
<1>2. CASE Work0
  BY <1>2 DEF Work0, Work0Starts, Work0Ends
<1>3. CASE Mux
  BY <1>3 DEF Mux, MuxTakes0, MuxTakes1, Upward, MuxReads, MuxFirst, MuxRest, MuxReleases
<1>4. CASE Route
  BY <1>4 DEF Route, RouteHeader, RoutePayload, To1, Go1
<1>5. CASE Work1Ends \/ Mux1
  BY <1>5 DEF Mux1, Work1Ends, Mux1Takes, Mux1Takes2, Mux1Reads2
<1>6. CASE Worker2
  BY <1>6 DEF Worker2, Worker2Header, Worker2Payload, Worker2Ends
<1>7. ASSUME NEW k \in Claims, hpc = "claim", Claim(k)
      PROVE  InStep'
  <2>1. k \in 0..2 /\ ~busy[k] /\ job[hj].node \in {k, NODE_ANY}
    BY <1>7, ClaimFact
  <2>2. CASE k = 0
    BY <1>7, <2>1, <2>2 DEF Claim, Allocate
  <2>3. CASE k # 0
    BY <1>7, <2>1, <2>3 DEF Claim
  <2>4. QED
    BY <2>2, <2>3
<1>8. ASSUME NEW k \in Kinds, Write(k)
      PROVE  InStep'
  BY <1>8, WriteFact DEF Write
<1>9. QED
  BY <1>1, <1>2, <1>3, <1>4, <1>5, <1>6, <1>7, <1>8 DEF Next, Host

\* Node k's job is in one process at a time: host claims idle nodes only, and busy[k] is cleared
\* by mux's free message, its job's last step.
LEMMA OneKept ==
  ASSUME TypeOK, Places, HeadersOK, HostOK, RouteOK, Next
  PROVE  (OneAt0 /\ OneAt1 /\ OneAt2)'
<1> USE DEF tt, host, node0, mux, route, worker1, worker2, InStep, OneAt0, OneAt1, OneAt2, HostAt,
            MuxAt, With1, With2, Relay2, Work2, Places, TypeOK, HostOK, RouteOK, Nodes, NODES,
            Relayed, NODE_ANY, None
<1>1. CASE HostHeader \/ NodeFree \/ HostPayload \/ Go0
  BY <1>1 DEF HostHeader, HeaderRead, NodeFree, HostPayload, PayloadRead, Go0
<1>2. CASE Work0
  BY <1>2 DEF Work0, Work0Starts, Work0Ends
<1>3. CASE Mux
  BY <1>3 DEF Mux, MuxTakes0, MuxTakes1, Upward, MuxReads, MuxFirst, MuxRest, MuxReleases
<1>4. CASE Route
  BY <1>4 DEF Route, RouteHeader, RoutePayload, To1, Go1
<1>5. CASE Work1Ends \/ Mux1
  BY <1>5 DEF Mux1, Work1Ends, Mux1Takes, Mux1Takes2, Mux1Reads2
<1>6. CASE Worker2
  BY <1>6 DEF Worker2, Worker2Header, Worker2Payload, Worker2Ends
<1>7. ASSUME NEW k \in Claims, hpc = "claim", Claim(k)
      PROVE  (OneAt0 /\ OneAt1 /\ OneAt2)'
  <2>1. k \in 0..2 /\ ~busy[k] /\ job[hj].node \in {k, NODE_ANY}
    BY <1>7, ClaimFact
  <2>2. /\ hpc' # "alt" => busy'[k]
        /\ \A m \in 0..2 : m # k => busy'[m] = busy[m]
    BY <1>7, <2>1, ClaimBusy
  <2>3. node' = k /\ UNCHANGED <<w0pc, mpc, mnode, rpc, w1pc, m1pc, w2pc>>
    BY <1>7 DEF Claim
  <2>4. CASE k = 0
    BY <2>1, <2>2, <2>3, <2>4
  <2>5. CASE k = 1
    BY <2>1, <2>2, <2>3, <2>5
  <2>6. CASE k = 2
    BY <2>1, <2>2, <2>3, <2>6
  <2>7. QED
    BY <2>1, <2>4, <2>5, <2>6
<1>8. ASSUME NEW k \in Kinds, Write(k)
      PROVE  (OneAt0 /\ OneAt1 /\ OneAt2)'
  BY <1>8, WriteFact DEF Write
<1>9. QED
  BY <1>1, <1>2, <1>3, <1>4, <1>5, <1>6, <1>7, <1>8 DEF Next, Host

\* Every header is of a job whose header host has read, and no two nodes have the same.
LEMMA HeadersKept ==
  ASSUME TypeOK, Places, HeadersOK, HostOK, RouteOK, Next
  PROVE  HeadersOK'
<1> USE DEF tt, host, node0, mux, route, worker1, worker2, HostAt, Places, InStep, TypeOK,
            HeadersOK, Sent, HostOK, RouteOK, Nodes, NODES, Relayed, NODE_ANY, None
<1>1. CASE HostHeader \/ NodeFree \/ HostPayload \/ Go0
  <2>1. CASE HostHeader
    BY <2>1, HeadersTaken
  <2>2. CASE NodeFree
    BY <2>2 DEF NodeFree
  <2>3. CASE HostPayload
    BY <2>3 DEF HostPayload, PayloadRead
  <2>4. CASE Go0
    BY <2>4 DEF Go0
  <2>5. QED
    BY <1>1, <2>1, <2>2, <2>3, <2>4
<1>2. CASE Work0
  <2>1. UNCHANGED <<job, tpc, tj, unread, hj, rj, hdr0, hdr1, hdr2>>
    BY <1>2 DEF Work0, Work0Starts, Work0Ends
  <2>2. QED
    BY <2>1
<1>3. CASE Mux
  BY <1>3 DEF Mux, MuxTakes0, MuxTakes1, Upward, MuxReads, MuxFirst, MuxRest, MuxReleases
<1>4. CASE Route
  <2>1. CASE RouteHeader
    BY <2>1 DEF RouteHeader
  <2>2. CASE RoutePayload
    BY <2>2 DEF RoutePayload, To1
  <2>3. CASE Go1
    BY <2>3 DEF Go1
  <2>4. QED
    BY <1>4, <2>1, <2>2, <2>3 DEF Route
<1>5. CASE Work1Ends \/ Mux1
  <2>1. UNCHANGED <<job, tpc, tj, unread, hj, rj, hdr0, hdr1, hdr2>>
    BY <1>5 DEF Mux1, Work1Ends, Mux1Takes, Mux1Takes2, Mux1Reads2
  <2>2. QED
    BY <2>1
<1>6. CASE Worker2
  <2>1. CASE Worker2Header
    BY <2>1 DEF Worker2Header
  <2>2. CASE Worker2Payload
    BY <2>2 DEF Worker2Payload
  <2>3. CASE Worker2Ends
    BY <2>3 DEF Worker2Ends
  <2>4. QED
    BY <1>6, <2>1, <2>2, <2>3 DEF Worker2
<1>7. ASSUME NEW k \in Claims, hpc = "claim", Claim(k)
      PROVE  HeadersOK'
  <2>1. k \in 0..2 /\ ~busy[k] /\ job[hj].node \in {k, NODE_ANY}
    BY <1>7, ClaimFact
  <2>2. CASE k = 0
    BY <1>7, <2>1, <2>2 DEF Claim, Allocate
  <2>3. CASE k # 0
    BY <1>7, <2>1, <2>3 DEF Claim
  <2>4. QED
    BY <2>2, <2>3
<1>8. ASSUME NEW k \in Kinds, Write(k)
      PROVE  HeadersOK'
  BY <1>8, WriteFact DEF Write
<1>9. QED
  BY <1>1, <1>2, <1>3, <1>4, <1>5, <1>6, <1>7, <1>8 DEF Next, Host

\* host relays a request only to the node it is for, and its header is nobody else's yet.
LEMMA HostKept ==
  ASSUME TypeOK, Places, HeadersOK, HostOK, RouteOK, UnreadOK, BuffersOK, Next
  PROVE  HostOK'
<1> USE DEF tt, host, node0, mux, route, worker1, worker2, InStep, OneAt0, OneAt1, OneAt2, HostAt,
            MuxAt, With1, With2, Relay2, Work2, Places, TypeOK, HeadersOK, Sent, HostOK, RouteOK,
            UnreadOK, BuffersOK, Out, Outgoing, Nodes, NODES, Relayed, NODE_ANY, None
<1>1. CASE HostHeader \/ NodeFree \/ HostPayload \/ Go0
  BY <1>1 DEF HostHeader, HeaderRead, NodeFree, HostPayload, PayloadRead, Go0
<1>2. CASE Work0
  <2>1. UNCHANGED <<job, unread, hpc, hj, node, rj, hdr0, hdr1, hdr2>>
    BY <1>2 DEF Work0, Work0Starts, Work0Ends
  <2>2. QED
    BY <2>1
<1>3. CASE Mux
  BY <1>3 DEF Mux, MuxTakes0, MuxTakes1, Upward, MuxReads, MuxFirst, MuxRest, MuxReleases
<1>4. CASE Route
  <2>1. CASE RouteHeader
    BY <2>1 DEF RouteHeader
  <2>2. CASE RoutePayload
    BY <2>2 DEF RoutePayload, To1
  <2>3. CASE Go1
    BY <2>3 DEF Go1
  <2>4. QED
    BY <1>4, <2>1, <2>2, <2>3 DEF Route
<1>5. CASE Work1Ends \/ Mux1
  <2>1. UNCHANGED <<job, unread, hpc, hj, node, rj, hdr0, hdr1, hdr2>>
    BY <1>5 DEF Mux1, Work1Ends, Mux1Takes, Mux1Takes2, Mux1Reads2
  <2>2. QED
    BY <2>1
<1>6. CASE Worker2
  <2>1. CASE Worker2Header
    BY <2>1 DEF Worker2Header
  <2>2. CASE Worker2Payload
    BY <2>2 DEF Worker2Payload
  <2>3. CASE Worker2Ends
    BY <2>3 DEF Worker2Ends
  <2>4. QED
    BY <1>6, <2>1, <2>2, <2>3 DEF Worker2
<1>7. ASSUME NEW k \in Claims, hpc = "claim", Claim(k)
      PROVE  HostOK'
  <2>1. k \in 0..2 /\ ~busy[k] /\ job[hj].node \in {k, NODE_ANY}
    BY <1>7, ClaimFact
  <2>2. CASE k = 0
    BY <1>7, <2>1, <2>2 DEF Claim, Allocate
  <2>3. CASE k # 0
    BY <1>7, <2>1, <2>3 DEF Claim
  <2>4. QED
    BY <2>2, <2>3
<1>8. ASSUME NEW k \in Kinds, Write(k)
      PROVE  HostOK'
  BY <1>8, WriteFact DEF Write
<1>9. QED
  BY <1>1, <1>2, <1>3, <1>4, <1>5, <1>6, <1>7, <1>8 DEF Next, Host

\* route passes on to TRAM 2 only what TRAM 2 can run.
LEMMA RouteKept ==
  ASSUME TypeOK, Places, HeadersOK, HostOK, RouteOK, UnreadOK, BuffersOK, Next
  PROVE  RouteOK'
<1> USE DEF tt, host, node0, mux, route, worker1, worker2, InStep, OneAt0, OneAt1, OneAt2, HostAt,
            MuxAt, With1, With2, Relay2, Work2, Places, TypeOK, HeadersOK, Sent, HostOK, RouteOK,
            UnreadOK, BuffersOK, Out, Outgoing, Nodes, NODES, Relayed, NODE_ANY, None
<1>1. CASE HostHeader \/ NodeFree \/ HostPayload \/ Go0
  <2>1. CASE HostHeader
    BY <2>1 DEF HostHeader, HeaderRead
  <2>2. CASE NodeFree
    BY <2>2 DEF NodeFree
  <2>3. CASE HostPayload
    BY <2>3 DEF HostPayload, PayloadRead
  <2>4. CASE Go0
    BY <2>4 DEF Go0
  <2>5. QED
    BY <1>1, <2>1, <2>2, <2>3, <2>4
<1>2. CASE Work0
  <2>1. UNCHANGED <<job, unread, rpc, rj, hdr0, hdr1, hdr2>>
    BY <1>2 DEF Work0, Work0Starts, Work0Ends
  <2>2. QED
    BY <2>1
<1>3. CASE Mux
  BY <1>3 DEF Mux, MuxTakes0, MuxTakes1, Upward, MuxReads, MuxFirst, MuxRest, MuxReleases
<1>4. CASE Route
  <2>1. CASE RouteHeader
    BY <2>1 DEF RouteHeader
  <2>2. CASE RoutePayload
    BY <2>2 DEF RoutePayload, To1
  <2>3. CASE Go1
    BY <2>3 DEF Go1
  <2>4. QED
    BY <1>4, <2>1, <2>2, <2>3 DEF Route
<1>5. CASE Work1Ends \/ Mux1
  <2>1. UNCHANGED <<job, unread, rpc, rj, hdr0, hdr1, hdr2>>
    BY <1>5 DEF Mux1, Work1Ends, Mux1Takes, Mux1Takes2, Mux1Reads2
  <2>2. QED
    BY <2>1
<1>6. CASE Worker2
  <2>1. CASE Worker2Header
    BY <2>1 DEF Worker2Header
  <2>2. CASE Worker2Payload
    BY <2>2 DEF Worker2Payload
  <2>3. CASE Worker2Ends
    BY <2>3 DEF Worker2Ends
  <2>4. QED
    BY <1>6, <2>1, <2>2, <2>3 DEF Worker2
<1>7. ASSUME NEW k \in Claims, hpc = "claim", Claim(k)
      PROVE  RouteOK'
  <2>1. k \in 0..2 /\ ~busy[k] /\ job[hj].node \in {k, NODE_ANY}
    BY <1>7, ClaimFact
  <2>2. CASE k = 0
    BY <1>7, <2>1, <2>2 DEF Claim, Allocate
  <2>3. CASE k # 0
    BY <1>7, <2>1, <2>3 DEF Claim
  <2>4. QED
    BY <2>2, <2>3
<1>8. ASSUME NEW k \in Kinds, Write(k)
      PROVE  RouteOK'
  BY <1>8, WriteFact DEF Write
<1>9. QED
  BY <1>1, <1>2, <1>3, <1>4, <1>5, <1>6, <1>7, <1>8 DEF Next, Host

\* A node's header is of a job for it.
LEMMA NodesKept ==
  ASSUME TypeOK, Places, HeadersOK, HostOK, RouteOK, NodesOK, Next
  PROVE  NodesOK'
<1> USE DEF tt, host, node0, mux, route, worker1, worker2, TypeOK, HeadersOK, Sent, HostOK,
            RouteOK, NodesOK, Nodes, NODES, Relayed, NODE_ANY, None
<1>1. CASE HostHeader \/ NodeFree \/ HostPayload \/ Go0
  BY <1>1 DEF HostHeader, HeaderRead, NodeFree, HostPayload, PayloadRead, Go0
<1>2. CASE Work0
  <2>1. UNCHANGED <<job, hdr0, hdr1, hdr2>>
    BY <1>2 DEF Work0, Work0Starts, Work0Ends
  <2>2. QED
    BY <2>1
<1>3. CASE Mux
  <2>1. UNCHANGED <<job, hdr0, hdr1, hdr2>>
    BY <1>3 DEF Mux, MuxTakes0, MuxTakes1, Upward, MuxReads, MuxFirst, MuxRest, MuxReleases
  <2>2. QED
    BY <2>1
<1>4. CASE Route
  <2>1. CASE RouteHeader
    BY <2>1 DEF RouteHeader
  <2>2. CASE RoutePayload
    BY <2>2 DEF RoutePayload, To1
  <2>3. CASE Go1
    BY <2>3 DEF Go1
  <2>4. QED
    BY <1>4, <2>1, <2>2, <2>3 DEF Route
<1>5. CASE Work1Ends \/ Mux1
  <2>1. UNCHANGED <<job, hdr0, hdr1, hdr2>>
    BY <1>5 DEF Mux1, Work1Ends, Mux1Takes, Mux1Takes2, Mux1Reads2
  <2>2. QED
    BY <2>1
<1>6. CASE Worker2
  <2>1. CASE Worker2Header
    BY <2>1 DEF Worker2Header
  <2>2. CASE Worker2Payload
    BY <2>2 DEF Worker2Payload
  <2>3. CASE Worker2Ends
    BY <2>3 DEF Worker2Ends
  <2>4. QED
    BY <1>6, <2>1, <2>2, <2>3 DEF Worker2
<1>7. ASSUME NEW k \in Claims, hpc = "claim", Claim(k)
      PROVE  NodesOK'
  <2>1. k \in 0..2 /\ ~busy[k] /\ job[hj].node \in {k, NODE_ANY}
    BY <1>7, ClaimFact
  <2>2. CASE k = 0
    BY <1>7, <2>1, <2>2 DEF Claim, Allocate
  <2>3. CASE k # 0
    BY <1>7, <2>1, <2>3 DEF Claim
  <2>4. QED
    BY <2>2, <2>3
<1>8. ASSUME NEW k \in Kinds, Write(k)
      PROVE  NodesOK'
  BY <1>8, WriteFact DEF Write
<1>9. QED
  BY <1>1, <1>2, <1>3, <1>4, <1>5, <1>6, <1>7, <1>8 DEF Next, Host

\* The daemon waits for exactly the jobs that are somewhere between host and the link.
LEMMA UnreadKept ==
  ASSUME TypeOK, Places, HeadersOK, HostOK, RouteOK, UnreadOK, BuffersOK, Next
  PROVE  UnreadOK'
<1> USE DEF tt, host, node0, mux, route, worker1, worker2, InStep, OneAt0, OneAt1, OneAt2, HostAt,
            MuxAt, With1, With2, Relay2, Work2, Places, TypeOK, HeadersOK, Sent, HostOK, RouteOK,
            UnreadOK, BuffersOK, Out, Outgoing, Nodes, NODES, Relayed, NODE_ANY, None
<1>1. CASE HostHeader \/ NodeFree \/ HostPayload \/ Go0
  BY <1>1 DEF HostHeader, HeaderRead, NodeFree, HostPayload, PayloadRead, Go0
<1>2. CASE Work0
  BY <1>2 DEF Work0, Work0Starts, Work0Ends
<1>3. CASE Mux
  BY <1>3 DEF Mux, MuxTakes0, MuxTakes1, Upward, MuxReads, MuxFirst, MuxRest, MuxReleases
<1>4. CASE Route
  <2>1. CASE RouteHeader
    BY <2>1 DEF RouteHeader
  <2>2. CASE RoutePayload
    BY <2>2 DEF RoutePayload, To1
  <2>3. CASE Go1
    BY <2>3 DEF Go1
  <2>4. QED
    BY <1>4, <2>1, <2>2, <2>3 DEF Route
<1>5. CASE Work1Ends \/ Mux1
  BY <1>5 DEF Mux1, Work1Ends, Mux1Takes, Mux1Takes2, Mux1Reads2
<1>6. CASE Worker2
  <2>1. CASE Worker2Header
    BY <2>1 DEF Worker2Header
  <2>2. CASE Worker2Payload
    BY <2>2 DEF Worker2Payload
  <2>3. CASE Worker2Ends
    BY <2>3 DEF Worker2Ends
  <2>4. QED
    BY <1>6, <2>1, <2>2, <2>3 DEF Worker2
<1>7. ASSUME NEW k \in Claims, hpc = "claim", Claim(k)
      PROVE  UnreadOK'
  <2>1. k \in 0..2 /\ ~busy[k] /\ job[hj].node \in {k, NODE_ANY}
    BY <1>7, ClaimFact
  <2>2. CASE k = 0
    BY <1>7, <2>1, <2>2 DEF Claim, Allocate
  <2>3. CASE k # 0
    BY <1>7, <2>1, <2>3 DEF Claim
  <2>4. QED
    BY <2>2, <2>3
<1>8. ASSUME NEW k \in Kinds, Write(k)
      PROVE  UnreadOK'
  BY <1>8, WriteFact DEF Write
<1>9. QED
  BY <1>1, <1>2, <1>3, <1>4, <1>5, <1>6, <1>7, <1>8 DEF Next, Host

\* No buffer is refilled while its last contents are still to be used.
LEMMA BuffersKept ==
  ASSUME TypeOK, Places, HeadersOK, HostOK, RouteOK, UnreadOK, BuffersOK, HeapOK, Next
  PROVE  BuffersOK'
<1> USE DEF tt, host, node0, mux, route, worker1, worker2, InStep, OneAt0, OneAt1, OneAt2, HostAt,
            MuxAt, With1, With2, Relay2, Work2, Places, TypeOK, HeadersOK, Sent, HostOK, RouteOK,
            BuffersOK, HeapOK, Out, Outgoing, Payload, Whole, Blank, Nodes, NODES, Relayed,
            NODE_ANY, None
<1>1. CASE HostHeader \/ NodeFree \/ HostPayload \/ Go0
  BY <1>1 DEF HostHeader, HeaderRead, NodeFree, HostPayload, PayloadRead, Go0
<1>2. CASE Work0
  BY <1>2 DEF Work0, Work0Starts, Work0Ends
<1>3. CASE Mux
  <2>1. CASE MuxTakes0
    BY <2>1 DEF MuxTakes0
  <2>2. CASE MuxTakes1
    BY <2>2 DEF MuxTakes1, Upward
  <2>3. CASE MuxReads
    <3>1. repm' = <<repm[1], Upward[2]>>
      BY <2>3, ReadsFact
    <3>2. CASE m1pc = "rest1"
      BY <2>3, <3>1, <3>2 DEF MuxReads, Upward
    <3>3. CASE m1pc = "restm"
      BY <2>3, <3>1, <3>3 DEF MuxReads, Upward
    <3>4. QED
      BY <2>3, <3>2, <3>3 DEF MuxReads
  <2>4. CASE MuxFirst
    BY <2>4 DEF MuxFirst
  <2>5. CASE MuxRest
    BY <2>5 DEF MuxRest
  <2>6. CASE MuxReleases
    BY <2>6 DEF MuxReleases
  <2>7. QED
    BY <1>3, <2>1, <2>2, <2>3, <2>4, <2>5, <2>6 DEF Mux
<1>4. CASE Route
  <2>1. CASE RouteHeader
    BY <2>1 DEF RouteHeader
  <2>2. CASE RoutePayload
    BY <2>2 DEF RoutePayload, To1
  <2>3. CASE Go1
    BY <2>3 DEF Go1
  <2>4. QED
    BY <1>4, <2>1, <2>2, <2>3 DEF Route
<1>5. CASE Work1Ends \/ Mux1
  <2>1. CASE Work1Ends
    BY <2>1 DEF Work1Ends
  <2>2. CASE Mux1Takes
    BY <2>2 DEF Mux1Takes
  <2>3. CASE Mux1Takes2
    BY <2>3 DEF Mux1Takes2
  <2>4. CASE Mux1Reads2
    <3>1. repm1' = <<repm1[1], rep2[2]>>
      BY <2>4, ReadsFact
    <3>2. QED
      BY <2>4, <3>1 DEF Mux1Reads2
  <2>5. QED
    BY <1>5, <2>1, <2>2, <2>3, <2>4 DEF Mux1
<1>6. CASE Worker2
  <2>1. CASE Worker2Header
    BY <2>1 DEF Worker2Header
  <2>2. CASE Worker2Payload
    BY <2>2 DEF Worker2Payload
  <2>3. CASE Worker2Ends
    BY <2>3 DEF Worker2Ends
  <2>4. QED
    BY <1>6, <2>1, <2>2, <2>3 DEF Worker2
<1>7. ASSUME NEW k \in Claims, hpc = "claim", Claim(k)
      PROVE  BuffersOK'
  <2>1. k \in 0..2 /\ ~busy[k] /\ job[hj].node \in {k, NODE_ANY}
    BY <1>7, ClaimFact
  <2>2. CASE k = 0
    BY <1>7, <2>1, <2>2 DEF Claim, Allocate
  <2>3. CASE k # 0
    BY <1>7, <2>1, <2>3 DEF Claim
  <2>4. QED
    BY <2>2, <2>3
<1>8. ASSUME NEW k \in Kinds, Write(k)
      PROVE  BuffersOK'
  <2>1. \A j \in 1..Len(job) : job'[j] = job[j]
    BY <1>8, WriteFact
  <2>2. /\ hdr0 # None => Payload(hdr0)' = Payload(hdr0)
        /\ hdr1 # None => Payload(hdr1)' = Payload(hdr1)
        /\ hdr2 # None => Payload(hdr2)' = Payload(hdr2)
    BY <1>8, <2>1 DEF Write
  <2>3. QED
    BY <1>8, <2>2 DEF Write, UnreadOK
<1>9. QED
  BY <1>1, <1>2, <1>3, <1>4, <1>5, <1>6, <1>7, <1>8 DEF Next, Host

\* Node 0's blocks are freed by the process that uses them last.
LEMMA HeapKept ==
  ASSUME TypeOK, Places, HeadersOK, HostOK, RouteOK, HeapOK, Next
  PROVE  HeapOK'
<1> USE DEF tt, host, node0, mux, route, worker1, worker2, InStep, OneAt0, OneAt1, OneAt2, HostAt,
            MuxAt, With1, With2, Relay2, Work2, Places, TypeOK, HostOK, HeapOK, PayloadBlock,
            Allocate, Kept, Nodes, NODES, Relayed, NODE_ANY, None
<1>1. CASE HostHeader \/ NodeFree \/ HostPayload \/ Go0
  <2>1. CASE HostHeader
    BY <2>1 DEF HostHeader, HeaderRead
  <2>2. CASE NodeFree
    BY <2>2 DEF NodeFree
  <2>3. CASE HostPayload
    BY <2>3 DEF HostPayload, PayloadRead
  <2>4. CASE Go0
    BY <2>4 DEF Go0
  <2>5. QED
    BY <1>1, <2>1, <2>2, <2>3, <2>4
<1>2. CASE Work0
  <2>1. CASE Work0Starts
    <3>1. w0pc = "run" /\ heap = PayloadBlock /\ ~HostAt(0) /\ ~MuxAt(0)
      BY <2>1 DEF Work0Starts
    <3>2. /\ buf0' \in {"in", "rep", "err"} /\ (buf0' # "err" => mem0 = "in")
          /\ heap' = PayloadBlock \union (IF buf0' = "rep" THEN {"rep"} ELSE {})
      BY <2>1, <3>1 DEF Work0Starts
    <3>3. w0pc' = "exec" /\ UNCHANGED <<mem0, hpc, node, mpc, mnode>>
      BY <2>1 DEF Work0Starts
    <3>4. QED
      BY <3>1, <3>2, <3>3
  <2>2. CASE Work0Ends
    BY <2>2 DEF Work0Ends
  <2>3. QED
    BY <1>2, <2>1, <2>2 DEF Work0
<1>3. CASE Mux
  BY <1>3 DEF Mux, MuxTakes0, MuxTakes1, Upward, MuxReads, MuxFirst, MuxRest, MuxReleases
<1>4. CASE Route
  <2>1. CASE RouteHeader
    BY <2>1 DEF RouteHeader
  <2>2. CASE RoutePayload
    BY <2>2 DEF RoutePayload, To1
  <2>3. CASE Go1
    BY <2>3 DEF Go1
  <2>4. QED
    BY <1>4, <2>1, <2>2, <2>3 DEF Route
<1>5. CASE Work1Ends \/ Mux1
  BY <1>5 DEF Mux1, Work1Ends, Mux1Takes, Mux1Takes2, Mux1Reads2
<1>6. CASE Worker2
  <2>1. CASE Worker2Header
    BY <2>1 DEF Worker2Header
  <2>2. CASE Worker2Payload
    BY <2>2 DEF Worker2Payload
  <2>3. CASE Worker2Ends
    BY <2>3 DEF Worker2Ends
  <2>4. QED
    BY <1>6, <2>1, <2>2, <2>3 DEF Worker2
<1>7. ASSUME NEW k \in Claims, hpc = "claim", Claim(k)
      PROVE  HeapOK'
  <2>1. k \in 0..2 /\ ~busy[k] /\ job[hj].node \in {k, NODE_ANY}
    BY <1>7, ClaimFact
  <2>2. CASE k = 0
    <3>1. heap = {}
      BY <1>7, <2>1, <2>2
    <3>2. heap' = PayloadBlock'
      BY <1>7, <2>2, <3>1 DEF Claim, Allocate
    <3>3. node' = 0 /\ hpc' \in {"payload", "go"} /\ UNCHANGED <<w0pc, mpc, mnode, buf0>>
      BY <1>7, <2>2 DEF Claim
    <3>4. w0pc = "wait" /\ ~MuxAt(0)
      BY <1>7, <2>1, <2>2
    <3>5. QED
      BY <3>2, <3>3, <3>4
  <2>3. CASE k # 0
    <3>1. node' = k /\ UNCHANGED <<w0pc, mpc, mnode, mem0, buf0, heap>>
      BY <1>7, <2>3 DEF Claim
    <3>2. QED
      BY <1>7, <2>3, <3>1
  <2>4. QED
    BY <2>2, <2>3
<1>8. ASSUME NEW k \in Kinds, Write(k)
      PROVE  HeapOK'
  BY <1>8, WriteFact DEF Write
<1>9. QED
  BY <1>1, <1>2, <1>3, <1>4, <1>5, <1>6, <1>7, <1>8 DEF Next, Host

-----------------------------------------------------------------------------
(***************************************************************************)
(* The theorems.                                                           *)
(***************************************************************************)
\* The image waiting for its first job has the invariant.
LEMMA InvInit == Init => Inv
<1> SUFFICES ASSUME Init PROVE Inv
  OBVIOUS
<1> USE DEF Init
<1>1. TypeOK
  BY ImageAssumption DEF TypeOK, Ref, Halves, Blank, None, Nodes, NODES
<1>2. Places
  BY DEF Places, InStep, OneAt0, OneAt1, OneAt2, HostAt, MuxAt, With1, Relay2, Work2, With2
<1>3. Copies
  BY DEF Copies, HeadersOK, HostOK, RouteOK, NodesOK, UnreadOK, Sent, HostAt, With1, Work2, With2,
         Out, None
<1>4. BuffersOK /\ HeapOK
  BY DEF BuffersOK, HeapOK, HostAt, With1, With2, Out, PayloadBlock
<1>5. QED
  BY <1>1, <1>2, <1>3, <1>4 DEF Inv

\* Every step keeps the invariant.
LEMMA InvStep == Inv /\ [Next]_vars => Inv'
<1> SUFFICES ASSUME Inv, [Next]_vars PROVE Inv'
  OBVIOUS
<1>1. CASE Next
  <2>1. TypeOK /\ Places /\ HeadersOK /\ HostOK /\ RouteOK /\ NodesOK /\ UnreadOK /\ BuffersOK /\ HeapOK
    BY DEF Inv, Copies
  <2>2. TypeOK'
    BY <1>1, <2>1, TypeKept
  <2>3. Places'
    BY <1>1, <2>1, InStepKept, OneKept DEF Places
  <2>4. Copies'
    BY <1>1, <2>1, HeadersKept, HostKept, RouteKept, NodesKept, UnreadKept DEF Copies
  <2>5. BuffersOK' /\ HeapOK'
    BY <1>1, <2>1, BuffersKept, HeapKept
  <2>6. QED
    BY <2>2, <2>3, <2>4, <2>5 DEF Inv
<1>2. CASE UNCHANGED vars
  <2> USE <1>2 DEF vars, tt, host, node0, mux, route, worker1, worker2
  <2>1. TypeOK'
    BY DEF Inv, TypeOK
  <2>2. Places'
    BY DEF Inv, Places, InStep, OneAt0, OneAt1, OneAt2, HostAt, MuxAt, With1, Relay2, Work2, With2
  <2>3. Copies'
    BY DEF Inv, Copies, HeadersOK, HostOK, RouteOK, NodesOK, UnreadOK, Sent, HostAt, With1,
           Relay2, Work2,
           With2, Out, Relayed
  <2>4. BuffersOK' /\ HeapOK'
    BY DEF Inv, BuffersOK, HeapOK, HostAt, With1, With2, Out, Outgoing, Payload, PayloadBlock
  <2>5. QED
    BY <2>1, <2>2, <2>3, <2>4 DEF Inv
<1>3. QED
  BY <1>1, <1>2

\* The processes, the headers and buffers they hand on and node 0's heap keep to the invariant,
\* whatever the number of TRAMs, the jobs sent and the order in which the processes run.
THEOREM ImageInvariant == Spec => []Inv
BY InvInit, InvStep, PTL DEF Spec

\* Every variable of root.c, worker1.c and worker2.c keeps its type.
THEOREM TypeCorrect == Spec => []TypeOK
<1>1. Inv => TypeOK
  BY DEF Inv
<1>2. QED
  BY <1>1, ImageInvariant, PTL

\* The jobs the daemon waits for have been sent, and the reply on the link is one of them's.
LEMMA UnreadFact ==
  ASSUME Inv
  PROVE  /\ unread \subseteq DOMAIN job /\ unread \subseteq Jobs /\ Len(job) \in Nat
         /\ Out => Outgoing[1] = (IF mnode = 0 THEN hdr0 ELSE IF mnode = 1 THEN hdr1 ELSE hdr2)
         /\ Out => Outgoing[2] = Outgoing[1] /\ Outgoing[1] \in unread
<1>1. Len(job) \in Nat /\ Len(job) <= MaxJobs /\ DOMAIN job = 1..Len(job)
  BY DEF Inv, TypeOK
<1>2. unread \subseteq 1..Len(job)
  BY <1>1 DEF Inv, Copies, HeadersOK, Sent
<1>3. Out /\ mnode = 0 => Outgoing = <<hdr0, hdr0>> /\ hdr0 \in unread
  BY DEF Inv, Copies, UnreadOK, BuffersOK, Outgoing
<1>4. Out /\ mnode = 1 => Outgoing = <<hdr1, hdr1>> /\ hdr1 \in unread
  BY DEF Inv, Copies, UnreadOK, BuffersOK, Outgoing
<1>5. Out /\ mnode = 2 => Outgoing = <<hdr2, hdr2>> /\ hdr2 \in unread
  BY DEF Inv, Copies, UnreadOK, BuffersOK, Outgoing
<1>6. mnode \in 0..2
  BY DEF Inv, TypeOK, Nodes, NODES
<1>7. unread \subseteq Jobs
  BY <1>1, <1>2, ImageAssumption DEF Jobs
<1>8. QED
  BY <1>1, <1>2, <1>3, <1>4, <1>5, <1>6, <1>7

\* rep_write sends whole replies, of jobs the daemon waits for: no buffer on the way is filled
\* with the next job's bytes while work0, mux1, mux or a TRAM still has the last reply in it.
THEOREM RepliesCorrect == Spec => []RepliesWhole
<1>1. Inv => RepliesWhole
  BY UnreadFact DEF Inv, BuffersOK, RepliesWhole, Out
<1>2. QED
  BY <1>1, ImageInvariant, PTL

\* work0 and mux free each block of node 0 once, after its last use, and leave none behind.
THEOREM HeapCorrect == Spec => []HeapSafe
<1>1. Inv => HeapSafe
  BY DEF Inv, Places, OneAt0, HostAt, MuxAt, HeapOK, PayloadBlock, HeapSafe
<1>2. QED
  BY <1>1, ImageInvariant, PTL

-----------------------------------------------------------------------------
(***************************************************************************)
(* The image implements JobCard.                                           *)
(***************************************************************************)
\* The daemon's view of the image: jobs taken and not answered, and the reply on the link.
CardNet == {j \in unread : Answerable(j) /\ ~(Out /\ j = Outgoing[1])}
CardLink == IF Out THEN <<Outgoing[1]>> ELSE <<>>

\* A step that leaves the link as it is, and every job as answerable as it was, is none of the card's.
LEMMA QuietStep ==
  ASSUME unread \subseteq unread', \A j \in unread' \ unread : ~Answerable(j)',
         Out' = Out, Out => Outgoing' = Outgoing,
         \A j \in unread : Answerable(j)' = Answerable(j)
  PROVE  UNCHANGED Card!vars
<1>1. UNCHANGED CardLink
  BY DEF CardLink
<1>2. UNCHANGED CardNet
  BY DEF CardNet
<1>3. QED
  BY <1>1, <1>2 DEF Card!vars, CardNet, CardLink

\* A job becomes one the image answers, and nothing else changes.
LEMMA TakeStep ==
  ASSUME NEW i \in Jobs, i \notin CardNet, Out => Outgoing[1] # i,
         unread' = unread \union {i}, Out' = Out, Out => Outgoing' = Outgoing,
         \A j \in unread : j # i => Answerable(j)' = Answerable(j), Answerable(i)'
  PROVE  Card!Next
<1>1. UNCHANGED CardLink /\ i \notin Card!ToSet(CardLink)
  BY DEF CardLink, Card!ToSet
<1>2. CardNet' = CardNet \union {i}
  BY DEF CardNet
<1>3. Card!Take(i)
  BY <1>1, <1>2 DEF Card!Take, CardNet, CardLink
<1>4. QED
  BY <1>3 DEF Card!Next

\* A job's reply starts on the link.
LEMMA ReplyStep ==
  ASSUME NEW i \in Jobs, i \in unread, Answerable(i), ~Out, Out', Outgoing'[1] = i, UNCHANGED unread,
         \A j \in unread : Answerable(j)' = Answerable(j)
  PROVE  Card!Next
<1>1. i \in CardNet /\ CardLink = <<>> /\ CardLink' = <<i>>
  BY DEF CardNet, CardLink
<1>2. CardNet' = CardNet \ {i}
  BY DEF CardNet
<1>3. Card!Reply(i)
  BY <1>1, <1>2 DEF Card!Reply, CardNet, CardLink
<1>4. QED
  BY <1>3 DEF Card!Next

\* The reply on the link ends.
LEMMA DeliverStep ==
  ASSUME Out, ~Out', unread' = unread \ {Outgoing[1]},
         \A j \in unread : Answerable(j)' = Answerable(j)
  PROVE  Card!Next
<1>1. CardLink # <<>> /\ CardLink' = Tail(CardLink)
  BY DEF CardLink
<1>2. UNCHANGED CardNet
  BY DEF CardNet
<1>3. Card!Deliver
  BY <1>1, <1>2 DEF Card!Deliver, CardNet, CardLink
<1>4. QED
  BY <1>3 DEF Card!Next

\* What is answerable depends on the jobs and on the headers the nodes have.
LEMMA AnswerableFact ==
  ASSUME UNCHANGED <<hdr0, hdr1, hdr2>>, NEW j \in DOMAIN job, job'[j] = job[j]
  PROVE  Answerable(j)' = Answerable(j)
BY DEF Answerable

\* The steps that take no job over and neither start nor end a reply.
LEMMA QuietActions ==
  ASSUME Inv,
         \/ NodeFree \/ HostPayload \/ Go0 \/ Work0 \/ MuxTakes1 \/ MuxFirst \/ MuxReleases
         \/ RoutePayload \/ Go1 \/ Work1Ends \/ Mux1 \/ Worker2Payload \/ Worker2Ends
  PROVE  UNCHANGED Card!vars
<1> USE DEF tt, host, node0, mux, route, worker1, worker2
<1>1. UNCHANGED <<job, unread, hdr0, hdr1, hdr2>>
  BY DEF NodeFree, HostPayload, PayloadRead, Go0, Work0, Work0Starts, Work0Ends, MuxTakes1,
         MuxFirst,
         MuxReleases, RoutePayload, Go1, Work1Ends, Mux1, Mux1Takes, Mux1Takes2, Mux1Reads2,
         Worker2Payload, Worker2Ends
<1>2. Out' = Out /\ (Out => Outgoing' = Outgoing)
  <2>1. CASE Work0
    <3>1. Out => mnode # 0
      BY <2>1 DEF Inv, Places, OneAt0, MuxAt, Out, Work0, Work0Starts, Work0Ends
    <3>2. UNCHANGED mux
      BY <2>1 DEF Work0, Work0Starts, Work0Ends
    <3>3. QED
      BY <3>1, <3>2 DEF Out, Outgoing
  <2>2. CASE NodeFree \/ MuxTakes1 \/ MuxReleases
    BY <2>2 DEF Out, NodeFree, MuxTakes1, MuxReleases
  <2>3. CASE MuxFirst
    BY <2>3 DEF Out, Outgoing, MuxFirst
  <2>4. CASE \/ HostPayload \/ Go0 \/ RoutePayload \/ Go1 \/ Work1Ends \/ Mux1
             \/ Worker2Payload \/ Worker2Ends
    <3>1. UNCHANGED <<mux, rep0>>
      BY <2>4 DEF HostPayload, PayloadRead, Go0, RoutePayload, Go1, Work1Ends, Mux1, Mux1Takes,
                  Mux1Takes2, Mux1Reads2, Worker2Payload, Worker2Ends
    <3>2. QED
      BY <3>1 DEF Out, Outgoing
  <2>5. QED
    BY <2>1, <2>2, <2>3, <2>4
<1>3. \A j \in unread : Answerable(j)' = Answerable(j)
  BY <1>1, UnreadFact, AnswerableFact
<1>4. QED
  BY <1>1, <1>2, <1>3, QuietStep

\* host reads a header: the card takes the job if the image answers it.
LEMMA HostHeaderStep == ASSUME Inv, HostHeader PROVE Card!Next \/ UNCHANGED Card!vars
<1> USE DEF tt, host, node0, mux, route, worker1, worker2
<1>1. UNCHANGED <<job, hdr0, hdr1, hdr2, mux, rep0>> /\ unread' = unread \union {tj}
  BY DEF HostHeader, HeaderRead
<1>2. tj \in Jobs /\ tj \notin unread
  <2>1. tj = Len(job) /\ tj # None /\ tj \in Ref /\ unread \subseteq 1..(Len(job) - 1)
    BY DEF Inv, TypeOK, Copies, HeadersOK, Sent, HostHeader, HeaderRead
  <2>2. QED
    BY <2>1, UnreadFact DEF Ref
<1>3. Out' = Out /\ (Out => Outgoing' = Outgoing)
  BY <1>1 DEF Out, Outgoing
<1>4. \A j \in unread : Answerable(j)' = Answerable(j)
  BY <1>1, UnreadFact, AnswerableFact
<1>5. PICK i \in Jobs : i = tj
  BY <1>2
<1>6. CASE Answerable(i)'
  BY <1>1, <1>2, <1>3, <1>4, <1>5, <1>6, UnreadFact, TakeStep DEF CardNet
<1>7. CASE ~Answerable(i)'
  <2>1. \A j \in unread' \ unread : j = i
    BY <1>1, <1>5
  <2>2. \A j \in unread' \ unread : ~Answerable(j)'
    BY <1>7, <2>1
  <2>3. QED
    BY <1>1, <1>3, <1>4, <2>2, QuietStep
<1>8. QED
  BY <1>6, <1>7

\* A node gets the header of a job: a NODE_ANY job may only now be one the image answers.
LEMMA HeaderGiven ==
  ASSUME Inv, NEW i \in unread, i \notin {hdr0, hdr1, hdr2},
         UNCHANGED <<job, unread, mnode, mpc, repm, rep0>>, Answerable(i)',
         \A j \in unread \ {i} : j \in {hdr0, hdr1, hdr2}' <=> j \in {hdr0, hdr1, hdr2}
  PROVE  Card!Next \/ UNCHANGED Card!vars
<1>1. Out' = Out /\ (Out => Outgoing' = Outgoing) /\ (Out => Outgoing[1] # i)
  BY UnreadFact DEF Out, Outgoing
<1>2. \A j \in unread : j # i => Answerable(j)' = Answerable(j)
  BY DEF Answerable
<1>3. CASE Answerable(i)
  <2>1. \A j \in unread : Answerable(j)' = Answerable(j)
    BY <1>2, <1>3 DEF Answerable
  <2>2. QED
    BY <1>1, <2>1, QuietStep
<1>4. CASE ~Answerable(i)
  BY <1>1, <1>2, <1>4, UnreadFact, TakeStep DEF CardNet
<1>5. QED
  BY <1>3, <1>4

\* host gives a job to a node.
LEMMA ClaimStep ==
  ASSUME Inv, hpc = "claim", NEW k \in Claims, Claim(k)
  PROVE  Card!Next \/ UNCHANGED Card!vars
<1> USE DEF tt, host, node0, mux, route, worker1, worker2
<1>1. k \in 0..2 /\ ~busy[k] /\ job[hj].node \in {k, NODE_ANY}
  BY ClaimFact DEF Inv, Copies
<1>2. UNCHANGED <<job, unread, mnode, mpc, repm, rep0, hdr1, hdr2>>
  BY DEF Claim
<1>3. CASE k = 0
  <2>1. PICK i \in unread : i = hj
    BY DEF Inv, Copies, HostOK
  <2>2. i \notin {hdr0, hdr1, hdr2} /\ hdr0 \notin unread
    BY <1>1, <1>3, <2>1 DEF Inv, Copies, HostOK, UnreadOK, Places, OneAt0, MuxAt, Out
  <2>3. hdr0' = i
    BY <1>3, <2>1 DEF Claim
  <2>4. Answerable(i)'
    BY <1>1, <1>2, <1>3, <2>1, <2>3 DEF Answerable
  <2>5. QED
    BY <1>2, <2>2, <2>3, <2>4, HeaderGiven
<1>4. CASE k # 0
  <2>1. UNCHANGED hdr0
    BY <1>4 DEF Claim
  <2>2. Out' = Out /\ (Out => Outgoing' = Outgoing)
    BY <1>2 DEF Out, Outgoing
  <2>3. \A j \in unread : Answerable(j)' = Answerable(j)
    BY <1>2, <2>1, UnreadFact, AnswerableFact
  <2>4. QED
    BY <1>2, <2>2, <2>3, QuietStep
<1>5. QED
  BY <1>3, <1>4

\* route reads a relayed header; for TRAM 1 it goes to hdr1.
LEMMA RouteHeaderStep == ASSUME Inv, RouteHeader PROVE Card!Next \/ UNCHANGED Card!vars
<1> USE DEF tt, host, node0, mux, route, worker1, worker2
<1>1. UNCHANGED <<job, unread, mnode, mpc, repm, rep0, hdr0, hdr2>>
  BY DEF RouteHeader
<1>2. CASE node = 1
  <2>1. /\ hj \in unread /\ hj \notin {hdr0, hdr1, hdr2}
        /\ job[hj].node \in {1, NODE_ANY} /\ job[hj].size < 2 /\ Trams > 0
    BY <1>2 DEF Inv, Copies, HostOK, Relayed, RouteHeader
  <2>2. hdr1 \notin unread
    BY <1>2 DEF Inv, Copies, UnreadOK, Places, OneAt1, HostAt, MuxAt, Out, RouteHeader
  <2>3. PICK i \in unread : i = hj
    BY <2>1
  <2>4. hdr1' = i
    BY <1>2, <2>3 DEF RouteHeader
  <2>5. Answerable(i)'
    BY <1>1, <2>1, <2>3, <2>4, ImageAssumption DEF Answerable
  <2>6. QED
    BY <1>1, <2>1, <2>2, <2>3, <2>4, <2>5, HeaderGiven
<1>3. CASE node # 1
  <2>1. UNCHANGED hdr1
    BY <1>3 DEF RouteHeader
  <2>2. Out' = Out /\ (Out => Outgoing' = Outgoing)
    BY <1>1 DEF Out, Outgoing
  <2>3. \A j \in unread : Answerable(j)' = Answerable(j)
    BY <1>1, <2>1, UnreadFact, AnswerableFact
  <2>4. QED
    BY <1>1, <2>2, <2>3, QuietStep
<1>4. QED
  BY <1>2, <1>3

\* TRAM 2 reads a header: a job it can run.
LEMMA Worker2HeaderStep == ASSUME Inv, Worker2Header PROVE Card!Next \/ UNCHANGED Card!vars
<1> USE DEF tt, host, node0, mux, route, worker1, worker2
<1>1. UNCHANGED <<job, unread, mnode, mpc, repm, rep0, hdr0, hdr1>>
  BY DEF Worker2Header
<1>2. /\ rj \in unread /\ rj \notin {hdr0, hdr1, hdr2}
      /\ job[rj].node \in {2, NODE_ANY} /\ job[rj].size < 2 /\ Trams = 2
  BY DEF Inv, Copies, RouteOK, Worker2Header
<1>3. hdr2 \notin unread
  BY DEF Inv, Copies, UnreadOK, Places, InStep, OneAt2, Relay2, MuxAt, Out, Worker2Header
<1>4. PICK i \in unread : i = rj
  BY <1>2
<1>5. hdr2' = i
  BY <1>4 DEF Worker2Header
<1>6. Answerable(i)'
  BY <1>1, <1>2, <1>4, <1>5 DEF Answerable
<1>7. QED
  BY <1>1, <1>2, <1>3, <1>4, <1>5, <1>6, HeaderGiven

\* mux takes node 0's reply: its first half goes onto the link.
LEMMA MuxTakes0Step == ASSUME Inv, MuxTakes0 PROVE Card!Next
<1> USE DEF tt, host, node0, mux, route, worker1, worker2
<1>1. UNCHANGED <<job, unread, hdr0, hdr1, hdr2>>
  BY DEF MuxTakes0
<1>2. hdr0 \in unread /\ rep0 = <<hdr0, hdr0>>
  BY DEF Inv, Copies, UnreadOK, BuffersOK, MuxTakes0
<1>3. PICK i \in Jobs : i = hdr0
  BY <1>2, UnreadFact
<1>4. Answerable(i)
  BY <1>2, <1>3 DEF Inv, Copies, NodesOK, Answerable, Jobs, None
<1>5. ~Out /\ Out' /\ Outgoing'[1] = i
  BY <1>2, <1>3 DEF MuxTakes0, Out, Outgoing
<1>6. \A j \in unread : Answerable(j)' = Answerable(j)
  BY <1>1, UnreadFact, AnswerableFact
<1>7. QED
  BY <1>1, <1>2, <1>3, <1>4, <1>5, <1>6, ReplyStep

\* mux has a TRAM's reply whole and sends it on.
LEMMA MuxReadsStep == ASSUME Inv, MuxReads PROVE Card!Next
<1> USE DEF tt, host, node0, mux, route, worker1, worker2
<1>1. UNCHANGED <<job, unread, hdr0, hdr1, hdr2>>
  BY DEF MuxReads
<1>2. \A j \in unread : Answerable(j)' = Answerable(j)
  BY <1>1, UnreadFact, AnswerableFact
<1>3. ~Out /\ Out' /\ mnode' # 0 /\ repm' = <<repm[1], Upward[2]>>
  BY ReadsFact DEF Inv, MuxReads, Out
<1>4. Outgoing'[1] = repm[1]
  BY <1>3 DEF Outgoing
<1>5. CASE m1pc = "rest1"
  <2>1. hdr1 \in unread /\ repm[1] = hdr1
    BY <1>5 DEF Inv, Copies, UnreadOK, With1, BuffersOK, MuxReads
  <2>2. PICK i \in Jobs : i = hdr1
    BY <2>1, UnreadFact
  <2>3. Answerable(i)
    BY <2>1, <2>2, ImageAssumption DEF Inv, Copies, NodesOK, Answerable, Jobs, None
  <2>4. QED
    BY <1>1, <1>2, <1>3, <1>4, <2>1, <2>2, <2>3, ReplyStep
<1>6. CASE m1pc = "restm"
  <2>1. hdr2 \in unread /\ repm[1] = hdr2
    BY <1>6 DEF Inv, Copies, UnreadOK, With2, BuffersOK, MuxReads
  <2>2. PICK i \in Jobs : i = hdr2
    BY <2>1, UnreadFact
  <2>3. Answerable(i)
    BY <2>1, <2>2, ImageAssumption DEF Inv, Copies, NodesOK, Answerable, Jobs, None
  <2>4. QED
    BY <1>1, <1>2, <1>3, <1>4, <2>1, <2>2, <2>3, ReplyStep
<1>7. QED
  BY <1>5, <1>6 DEF MuxReads

\* The reply's last byte is on the link.
LEMMA MuxRestStep == ASSUME Inv, MuxRest PROVE Card!Next
<1> USE DEF tt, host, node0, mux, route, worker1, worker2
<1>1. UNCHANGED <<job, hdr0, hdr1, hdr2>> /\ Out /\ ~Out'
  BY DEF MuxRest, Out
<1>2. half = Outgoing[1] /\ Outgoing[2] = Outgoing[1]
  BY <1>1, UnreadFact DEF Inv, BuffersOK, MuxRest
<1>3. unread' = unread \ {Outgoing[1]}
  BY <1>2 DEF MuxRest
<1>4. \A j \in unread : Answerable(j)' = Answerable(j)
  BY <1>1, UnreadFact, AnswerableFact
<1>5. QED
  BY <1>1, <1>3, <1>4, DeliverStep

\* A job the daemon starts to write is none of the card's yet.
LEMMA WriteStep == ASSUME Inv, NEW k \in Kinds, Write(k) PROVE UNCHANGED Card!vars
<1> USE DEF tt, host, node0, mux, route, worker1, worker2
<1>1. UNCHANGED <<unread, mux, rep0, hdr0, hdr1, hdr2>>
  BY DEF Write
<1>2. Out' = Out /\ (Out => Outgoing' = Outgoing)
  BY <1>1 DEF Out, Outgoing
<1>3. DOMAIN job = 1..Len(job) /\ \A j \in 1..Len(job) : job'[j] = job[j]
  BY WriteFact DEF Inv, TypeOK
<1>4. \A j \in unread : Answerable(j)' = Answerable(j)
  BY <1>1, <1>3, UnreadFact, AnswerableFact
<1>5. QED
  BY <1>1, <1>2, <1>4, QuietStep

\* The waiting image is an empty card.
LEMMA CardInit == Init => Card!Init
<1> SUFFICES ASSUME Init PROVE Card!Init
  OBVIOUS
<1>1. CardNet = {} /\ CardLink = <<>>
  BY DEF Init, CardNet, CardLink, Out
<1>2. QED
  BY <1>1 DEF Card!Init, CardNet, CardLink

\* Every step of the image is a step of the card or none.
LEMMA CardStep == Inv /\ [Next]_vars => [Card!Next]_Card!vars
<1> SUFFICES ASSUME Inv, [Next]_vars PROVE Card!Next \/ UNCHANGED Card!vars
  OBVIOUS
<1>1. ASSUME NEW k \in Kinds, Write(k) PROVE Card!Next \/ UNCHANGED Card!vars
  BY <1>1, WriteStep
<1>2. CASE Host
  <2>1. CASE HostHeader
    BY <2>1, HostHeaderStep
  <2>2. ASSUME hpc = "claim", NEW k \in Claims, Claim(k) PROVE Card!Next \/ UNCHANGED Card!vars
    BY <2>2, ClaimStep
  <2>3. QED
    BY <1>2, <2>1, <2>2, QuietActions DEF Host
<1>3. CASE Work0
  BY <1>3, QuietActions
<1>4. CASE Mux
  BY <1>4, QuietActions, MuxTakes0Step, MuxReadsStep, MuxRestStep DEF Mux
<1>5. CASE Route
  BY <1>5, QuietActions, RouteHeaderStep DEF Route
<1>6. CASE Work1Ends \/ Mux1
  BY <1>6, QuietActions
<1>7. CASE Worker2
  BY <1>7, QuietActions, Worker2HeaderStep DEF Worker2
<1>8. CASE UNCHANGED vars
  <2>1. UNCHANGED <<job, unread, hdr0, hdr1, hdr2, mpc, mnode, repm, rep0>>
    BY <1>8 DEF vars, tt, host, node0, mux, route, worker1, worker2
  <2>2. Out' = Out /\ (Out => Outgoing' = Outgoing)
    BY <2>1 DEF Out, Outgoing
  <2>3. \A j \in unread : Answerable(j)' = Answerable(j)
    BY <2>1, UnreadFact, AnswerableFact
  <2>4. QED
    BY <2>1, <2>2, <2>3, QuietStep
<1>9. QED
  BY <1>1, <1>2, <1>3, <1>4, <1>5, <1>6, <1>7, <1>8 DEF Next

\* The image is the card ttjobd relies on: a job is taken once, answered at most once and only if
\* it was taken, and the replies leave in the order they were started.
THEOREM ImageIsCard == Spec => Card!Spec
BY CardInit, CardStep, ImageInvariant, PTL DEF Spec, Card!Spec

=============================================================================
