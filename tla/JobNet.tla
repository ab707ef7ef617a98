------------------------------- MODULE JobNet -------------------------------
(***************************************************************************)
(* The resident image (sam-job-tt/llvm): the processes of root.c on the    *)
(* T425, of worker1.c on TRAM 1 and of worker2.c on TRAM 2, which talk     *)
(* over synchronous channels and links, and ttjobd at the other end of the *)
(* host link.  A channel operation is one step of both its ends; a reply   *)
(* goes over a link in two parts, because its buffer is shared with the    *)
(* process that fills it.                                                  *)
(*                                                                         *)
(* A job is its number, its node, its payload length class (0 none, 1 up   *)
(* to JOB_MAX, 2 above) and whether it runs in place (op 'q').  A buffer   *)
(* holds the number of the job whose bytes are in it, a reply buffer the   *)
(* numbers in its two halves.                                              *)
(***************************************************************************)
EXTENDS Naturals, Sequences, FiniteSets

CONSTANTS
  Trams,      \* TRAMs in the image: 2 (jobfull), 1 (NO_T2) or 0 (SOLO)
  Kinds,      \* jobs ttjobd sends: records [node, size, inplace]
  HeapFails,  \* whether an allocation on node 0 may fail
  MaxJobs     \* jobs sent since the boot

NODES == 3
NODE_ANY == 255
Nodes == 0..NODES-1
None == 0                         \* no job, an empty buffer, NULL
Jobs == 1..MaxJobs

ASSUME ImageAssumption == Trams \in 0..2 /\ MaxJobs \in Nat /\ HeapFails \in BOOLEAN
ASSUME KindsAssumption ==
  Kinds \subseteq [node : Nodes \union {NODE_ANY}, size : 0..2, inplace : BOOLEAN]

VARIABLES
  job,        \* what each job sent so far is
  tpc, tj,    \* ttjobd: "idle" or writing the "header" or "payload" of job tj
  unread,     \* jobs ttjobd has written and not had the whole reply of
  half,       \* first half of the reply ttjobd is reading
  hpc, hj, node, busy,            \* host
  hdr0, in0, mem0,                \* node 0's request: header, payload, where the payload is ("in", None)
  w0pc, rep0, buf0, heap,         \* work0, its reply, the block rep0 points to, the blocks allocated
  mpc, repm, mnode,               \* mux
  rpc, rj, hdr1, in1,             \* route, node 1's request
  w1pc, rep1,                     \* work1
  m1pc, repm1,                    \* mux1
  w2pc, hdr2, in2, rep2           \* worker 2

tt == <<job, tpc, tj, unread, half>>
host == <<hpc, hj, node, busy>>
node0 == <<hdr0, in0, mem0, w0pc, rep0, buf0, heap>>
mux == <<mpc, repm, mnode>>
route == <<rpc, rj, hdr1, in1>>
worker1 == <<w1pc, rep1, m1pc, repm1>>
worker2 == <<w2pc, hdr2, in2, rep2>>
vars == <<tt, host, node0, mux, route, worker1, worker2>>

Payload(j) == job[j].size > 0
Blank == <<None, None>>

\* job_reply: the checksum tells whether the payload belongs to the header.
Whole(h, in) == IF ~Payload(h) \/ in = h THEN <<h, h>> ELSE Blank

-----------------------------------------------------------------------------
(***************************************************************************)
(* ttjobd, as TTJobd models it: at most one job per node, no read while it *)
(* writes.  It names every node itself; a daemon that leaves the choice to *)
(* the image must leave it for every job, since a job for a named node     *)
(* whose last job was a NODE_ANY one can block the link both ways.         *)
(***************************************************************************)
Free(k) ==
  /\ \A j \in DOMAIN job : (job[j].node = NODE_ANY) <=> (k = NODE_ANY)
  /\ IF k = NODE_ANY THEN Cardinality(unread) < NODES ELSE \A j \in unread : job[j].node # k

Write(k) ==
  /\ tpc = "idle" /\ Len(job) < MaxJobs /\ Free(k.node)
  /\ job' = Append(job, k)
  /\ tpc' = "header" /\ tj' = Len(job) + 1
  /\ UNCHANGED <<unread, half, host, node0, mux, route, worker1, worker2>>

\* ttjobd's end of ChanIn(hin): the header, then the payload.
HeaderRead ==
  /\ tpc = "header"
  /\ tpc' = IF Payload(tj) THEN "payload" ELSE "idle"
  /\ unread' = unread \union {tj}
  /\ UNCHANGED <<job, tj, half>>

PayloadRead ==
  /\ tpc = "payload"
  /\ tpc' = "idle"
  /\ UNCHANGED <<job, tj, unread, half>>

-----------------------------------------------------------------------------
(***************************************************************************)
(* root.c: host.                                                           *)
(***************************************************************************)
\* ProcAlt takes the header of the next request.
HostHeader ==
  /\ hpc = "alt" /\ HeaderRead
  /\ hj' = tj
  /\ hpc' = "claim"
  /\ UNCHANGED <<node, busy, node0, mux, route, worker1, worker2>>

FirstIdle == {k \in Nodes : ~busy[k] /\ \A m \in 0..k-1 : busy[m]}

\* Mutant: a request for an explicit node does not wait for it.
Claims_NoWait == IF job[hj].node # NODE_ANY THEN {job[hj].node} ELSE FirstIdle

\* The node the request goes to, once it is idle: the one it names, or for NODE_ANY the first.
Claims ==
  IF job[hj].node # NODE_ANY THEN {job[hj].node} \ {k \in Nodes : busy[k]}
  ELSE FirstIdle

\* Mutant: host does not take free messages while it waits for a node.
Waits_Deaf == FALSE

\* host waits for a node: it takes free messages and nothing else.
Waits == hpc = "claim" /\ Claims = {}

\* mux reports a node free.
NodeFree ==
  /\ mpc = "free" /\ (hpc = "alt" \/ Waits)
  /\ busy' = [busy EXCEPT ![mnode] = FALSE]
  /\ mpc' = "alt"
  /\ UNCHANGED <<tt, hpc, hj, node, node0, repm, mnode, route, worker1, worker2>>

\* A request host passes on to TRAM 1.
Relayed(k) == k > 0 /\ Trams > 0 /\ job[hj].size < 2

\* malloc on node 0.
Allocate(b, fits) == heap' = IF fits THEN heap \union {b} ELSE heap

\* The node is claimed: node 0's request goes into its buffers, a TRAM's is relayed, anything
\* else is drained.
Claim(k) ==
  /\ node' = k
  /\ busy' = [busy EXCEPT ![k] = k = 0 \/ Relayed(k) \/ Payload(hj)]
  /\ hpc' = IF Payload(hj) THEN "payload"
            ELSE IF k = 0 THEN "go" ELSE IF Relayed(k) THEN "relay" ELSE "alt"
  /\ IF k = 0
     THEN /\ hdr0' = hj
          /\ \E fits \in {TRUE} \union {~HeapFails} :
               /\ Allocate("in", fits)
               /\ mem0' = IF fits THEN "in" ELSE "null"
     ELSE UNCHANGED <<hdr0, mem0, heap>>
  /\ UNCHANGED <<tt, hj, in0, w0pc, rep0, buf0, mux, route, worker1, worker2>>

HostPayload ==
  /\ hpc = "payload" /\ PayloadRead
  /\ in0' = IF node = 0 /\ mem0 = "in" THEN hj ELSE in0
  /\ hpc' = IF node = 0 THEN "go" ELSE IF Relayed(node) THEN "relay" ELSE "alt"
  /\ busy' = [busy EXCEPT ![node] = node = 0 \/ Relayed(node)]
  /\ UNCHANGED <<hj, node, hdr0, mem0, w0pc, rep0, buf0, heap, mux, route, worker1, worker2>>

\* ChanOutInt(go0): work0 takes node 0's job.
Go0 ==
  /\ hpc = "go" /\ w0pc = "wait"
  /\ hpc' = "alt" /\ w0pc' = "run"
  /\ UNCHANGED <<tt, hj, node, busy, hdr0, in0, mem0, rep0, buf0, heap, mux, route, worker1, worker2>>

-----------------------------------------------------------------------------
(***************************************************************************)
(* root.c: work0 and mux.                                                  *)
(***************************************************************************)
\* work0 finds room for the reply: behind the payload, on the heap, or only for an error.
Work0Starts ==
  /\ w0pc = "run"
  /\ \E fits \in {TRUE} \union {~HeapFails} :
       LET inplace == mem0 = "in" /\ job[hdr0].inplace /\ Payload(hdr0)
           alone   == mem0 = "in" /\ ~inplace
       IN  /\ buf0' = IF inplace THEN "in" ELSE IF alone /\ fits THEN "rep" ELSE "err"
           /\ Allocate("rep", alone /\ fits)
  /\ w0pc' = "exec"
  /\ UNCHANGED <<tt, host, hdr0, in0, mem0, rep0, mux, route, worker1, worker2>>

\* Mutant: the payload of a job that does not run in place is not freed.
Kept_Always == {"in"}

\* The block work0 leaves for mux to free.
Kept == IF buf0 = "in" THEN {"in"} ELSE {}

\* The job has run; its payload is freed unless the reply shares the block.
Work0Ends ==
  /\ w0pc = "exec"
  /\ rep0' = IF buf0 = "err" THEN <<hdr0, hdr0>> ELSE Whole(hdr0, in0)
  /\ heap' = heap \ ({"in"} \ Kept)
  /\ in0' = None /\ mem0' = "null"
  /\ w0pc' = "done"
  /\ UNCHANGED <<tt, host, hdr0, buf0, mux, route, worker1, worker2>>

\* mux takes node 0's reply from work0.
MuxTakes0 ==
  /\ mpc = "alt" /\ w0pc = "done"
  /\ mpc' = "first" /\ mnode' = 0
  /\ w0pc' = "wait"
  /\ UNCHANGED <<tt, host, hdr0, in0, mem0, rep0, buf0, heap, repm, route, worker1, worker2>>

\* rep_read from TRAM 1: the header with the node that ran the job, then the rest.
Upward == IF m1pc \in {"first1", "rest1"} THEN rep1 ELSE repm1
MuxTakes1 ==
  /\ mpc = "alt" /\ m1pc \in {"first1", "firstm"}
  /\ mpc' = "read"
  /\ repm' = <<Upward[1], None>>
  /\ m1pc' = IF m1pc = "first1" THEN "rest1" ELSE "restm"
  /\ UNCHANGED <<tt, host, node0, mnode, route, w1pc, rep1, repm1, worker2>>

MuxReads ==
  /\ mpc = "read" /\ m1pc \in {"rest1", "restm"}
  /\ mpc' = "first"
  /\ repm' = [repm EXCEPT ![2] = Upward[2]]
  /\ mnode' = IF m1pc = "rest1" THEN 1 ELSE 2
  /\ m1pc' = "alt"
  /\ UNCHANGED <<tt, host, node0, route, w1pc, rep1, repm1, worker2>>

Outgoing == IF mnode = 0 THEN rep0 ELSE repm

\* ttjobd reads the first bytes of a reply, and may go and write a job before the others.
MuxFirst ==
  /\ mpc = "first" /\ tpc = "idle"
  /\ half' = Outgoing[1]
  /\ mpc' = "rest"
  /\ UNCHANGED <<job, tpc, tj, unread, host, node0, repm, mnode, route, worker1, worker2>>

\* The reply is out: the daemon has it and may send the node's next job at once.
MuxRest ==
  /\ mpc = "rest" /\ tpc = "idle"
  /\ unread' = unread \ {j \in unread : j = half /\ j = Outgoing[2]}
  /\ half' = None
  /\ mpc' = IF mnode = 0 THEN "release" ELSE "free"
  /\ UNCHANGED <<job, tpc, tj, host, node0, repm, mnode, route, worker1, worker2>>

\* Node 0's reply block is freed; only then is the node reported free.
MuxReleases ==
  /\ mpc = "release"
  /\ heap' = heap \ {buf0}
  /\ buf0' = "none" /\ rep0' = Blank
  /\ mpc' = "free"
  /\ UNCHANGED <<tt, host, hdr0, in0, mem0, w0pc, repm, mnode, route, worker1, worker2>>

-----------------------------------------------------------------------------
(***************************************************************************)
(* worker1.c: route, work1, mux1.                                          *)
(***************************************************************************)
\* The relayed header reaches route.
RouteHeader ==
  /\ hpc = "relay" /\ rpc = "wait"
  /\ rj' = hj
  /\ hdr1' = IF node = 1 THEN hj ELSE hdr1
  /\ hpc' = IF Payload(hj) THEN "relaypayload" ELSE "alt"
  /\ rpc' = IF Payload(hj) THEN "payload"
            ELSE IF node = 1 THEN "go" ELSE IF Trams = 2 THEN "relay" ELSE "wait"
  /\ UNCHANGED <<tt, hj, node, busy, node0, mux, in1, worker1, worker2>>

\* The request in route's hands is for node 1: its header went to hdr1.
To1 == hdr1 = rj

RoutePayload ==
  /\ hpc = "relaypayload" /\ rpc = "payload"
  /\ in1' = IF To1 THEN rj ELSE in1
  /\ hpc' = "alt"
  /\ rpc' = IF To1 THEN "go" ELSE IF Trams = 2 THEN "relay" ELSE "wait"
  /\ UNCHANGED <<tt, hj, node, busy, node0, mux, rj, hdr1, worker1, worker2>>

Go1 ==
  /\ rpc = "go" /\ w1pc = "wait"
  /\ rpc' = "wait" /\ w1pc' = "exec"
  /\ UNCHANGED <<tt, host, node0, mux, rj, hdr1, in1, rep1, m1pc, repm1, worker2>>

Work1Ends ==
  /\ w1pc = "exec"
  /\ rep1' = Whole(hdr1, in1)
  /\ w1pc' = "done"
  /\ UNCHANGED <<tt, host, node0, mux, route, m1pc, repm1, worker2>>

Mux1Takes ==
  /\ m1pc = "alt" /\ w1pc = "done"
  /\ m1pc' = "first1"
  /\ w1pc' = "wait"
  /\ UNCHANGED <<tt, host, node0, mux, route, rep1, repm1, worker2>>

\* rep_read from TRAM 2, in its two parts.
Mux1Takes2 ==
  /\ m1pc = "alt" /\ w2pc = "first"
  /\ m1pc' = "read2"
  /\ repm1' = <<rep2[1], None>>
  /\ w2pc' = "rest"
  /\ UNCHANGED <<tt, host, node0, mux, route, w1pc, rep1, hdr2, in2, rep2>>

Mux1Reads2 ==
  /\ m1pc = "read2" /\ w2pc = "rest"
  /\ m1pc' = "firstm"
  /\ repm1' = [repm1 EXCEPT ![2] = rep2[2]]
  /\ w2pc' = "header"
  /\ UNCHANGED <<tt, host, node0, mux, route, w1pc, rep1, hdr2, in2, rep2>>

(***************************************************************************)
(* worker2.c.                                                              *)
(***************************************************************************)
Worker2Header ==
  /\ rpc = "relay" /\ w2pc = "header"
  /\ hdr2' = rj
  /\ rpc' = IF Payload(rj) THEN "relaypayload" ELSE "wait"
  /\ w2pc' = IF Payload(rj) THEN "payload" ELSE "exec"
  /\ UNCHANGED <<tt, host, node0, mux, rj, hdr1, in1, worker1, in2, rep2>>

Worker2Payload ==
  /\ rpc = "relaypayload" /\ w2pc = "payload"
  /\ in2' = rj
  /\ rpc' = "wait" /\ w2pc' = "exec"
  /\ UNCHANGED <<tt, host, node0, mux, rj, hdr1, in1, worker1, hdr2, rep2>>

Worker2Ends ==
  /\ w2pc = "exec"
  /\ rep2' = Whole(hdr2, in2)
  /\ w2pc' = "first"
  /\ UNCHANGED <<tt, host, node0, mux, route, worker1, hdr2, in2>>

-----------------------------------------------------------------------------
\* The image has just sent RDY0: every process waits at its first channel.
Init ==
  /\ job = <<>> /\ tpc = "idle" /\ tj = None /\ unread = {} /\ half = None
  /\ hpc = "alt" /\ hj = None /\ node = 0 /\ busy = [k \in Nodes |-> FALSE]
  /\ hdr0 = None /\ in0 = None /\ mem0 = "null"
  /\ w0pc = "wait" /\ rep0 = Blank /\ buf0 = "none" /\ heap = {}
  /\ mpc = "alt" /\ repm = Blank /\ mnode = 0
  /\ rpc = "wait" /\ rj = None /\ hdr1 = None /\ in1 = None
  /\ w1pc = "wait" /\ rep1 = Blank
  /\ m1pc = "alt" /\ repm1 = Blank
  /\ w2pc = "header" /\ hdr2 = None /\ in2 = None /\ rep2 = Blank

Host == HostHeader \/ NodeFree \/ (hpc = "claim" /\ \E k \in Claims : Claim(k)) \/ HostPayload \/ Go0
Work0 == Work0Starts \/ Work0Ends
Mux == MuxTakes0 \/ MuxTakes1 \/ MuxReads \/ MuxFirst \/ MuxRest \/ MuxReleases
Route == RouteHeader \/ RoutePayload \/ Go1
Mux1 == Mux1Takes \/ Mux1Takes2 \/ Mux1Reads2
Worker2 == Worker2Header \/ Worker2Payload \/ Worker2Ends

Next == (\E k \in Kinds : Write(k)) \/ Host \/ Work0 \/ Mux \/ Route \/ Work1Ends \/ Mux1 \/ Worker2

Spec == Init /\ [][Next]_vars

(***************************************************************************)
(* Fairness: the transputer's scheduler runs every process that can go on, *)
(* a job's program ends, and ttjobd reads the link when it is not writing  *)
(* to it.  ttjobd owes no job.                                             *)
(***************************************************************************)
Fairness == /\ WF_vars(Host) /\ WF_vars(Work0) /\ WF_vars(Mux) /\ WF_vars(Route)
            /\ WF_vars(Work1Ends) /\ WF_vars(Mux1) /\ WF_vars(Worker2)
FairSpec == Spec /\ Fairness

-----------------------------------------------------------------------------
(***************************************************************************)
(* Properties.                                                             *)
(***************************************************************************)
Ref == Jobs \union {None}
Halves == Ref \X Ref

\* The type invariant.
TypeOK ==
  /\ job \in Seq(Kinds) /\ Len(job) <= MaxJobs
  /\ tpc \in {"idle", "header", "payload"} /\ tj \in Ref /\ unread \subseteq Jobs /\ half \in Ref
  /\ hpc \in {"alt", "claim", "payload", "go", "relay", "relaypayload"} /\ hj \in Ref /\ node \in Nodes
  /\ busy \in [Nodes -> BOOLEAN]
  /\ hdr0 \in Ref /\ in0 \in Ref /\ mem0 \in {"in", "null"} /\ heap \subseteq {"in", "rep"}
  /\ w0pc \in {"wait", "run", "exec", "done"} /\ rep0 \in Halves /\ buf0 \in {"in", "rep", "err", "none"}
  /\ mpc \in {"alt", "read", "first", "rest", "release", "free"} /\ repm \in Halves /\ mnode \in Nodes
  /\ rpc \in {"wait", "payload", "go", "relay", "relaypayload"} /\ rj \in Ref /\ hdr1 \in Ref /\ in1 \in Ref
  /\ w1pc \in {"wait", "exec", "done"} /\ rep1 \in Halves
  /\ m1pc \in {"alt", "first1", "rest1", "read2", "firstm", "restm"} /\ repm1 \in Halves
  /\ w2pc \in {"header", "payload", "exec", "first", "rest"}
  /\ hdr2 \in Ref /\ in2 \in Ref /\ rep2 \in Halves

Out == mpc \in {"first", "rest"}

\* A reply on the host link is the whole reply of a job the daemon is waiting for: no
\* buffer is filled with the next job's bytes while the last reply is still in it.
RepliesWhole ==
  /\ Out => Outgoing[1] \in unread /\ Outgoing[2] = Outgoing[1]
  /\ mpc = "rest" => half = Outgoing[1]

\* Node 0's heap: a block is live as long as somebody uses it, and between two jobs of
\* node 0 nothing is left allocated.
HeapSafe ==
  /\ w0pc = "exec" \/ w0pc = "done" \/ (mnode = 0 /\ mpc \in {"first", "rest", "release"}) =>
       buf0 = "err" \/ buf0 \in heap
  /\ ~busy[0] => heap = {}

\* Jobs this image answers; host and route drain the others.  A NODE_ANY job that not every node
\* can run is one of them from when a node has its header.
Answerable(j) ==
  \/ job[j].node = 0
  \/ job[j].node \in 1..Trams /\ job[j].size < 2
  \/ job[j].node = NODE_ANY /\ (j \in {hdr0, hdr1, hdr2} \/ (Trams = 2 /\ job[j].size < 2))

(***************************************************************************)
(* The image implements the card the daemon relies on: a job is taken when *)
(* host has its header, answered when its reply starts on the host link    *)
(* and delivered with the reply's last byte.                               *)
(***************************************************************************)
Card == INSTANCE JobCard WITH
  Ids  <- Jobs,
  net  <- {j \in unread : Answerable(j) /\ ~(Out /\ j = Outgoing[1])},
  link <- IF Out THEN <<Outgoing[1]>> ELSE <<>>

\* Every job is answered once, and every answerable one is answered: the processes never
\* wait for each other in a circle, not even with ttjobd writing while replies wait.
ImplementsCard == Card!FairSpec
=============================================================================
