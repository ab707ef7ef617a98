------------------------------- MODULE JobHeap ------------------------------
(***************************************************************************)
(* Node 0 of the resident image runs one job at a time on a heap of its    *)
(* own (sam-job-tt/llvm/jobheap.c): first fit, carved from the head,       *)
(* neighbours joined on free, and the leftovers of a job freed when it     *)
(* ends.  The kernels were written to run once per boot; each one's static *)
(* variables that point into the heap outlive the job: lha's hash table    *)
(* (lhaserv.c), bc's block list (bcshim.c), ppmquant's slabs (pmshim.c).   *)
(* Sizes are bytes.  The counters OP_CAPS reports are left out.            *)
(***************************************************************************)
EXTENDS Integers, Sequences, FiniteSets, SequencesExt

CONSTANTS
  HeapSize,     \* bytes between _heap_start and _heap_end, a multiple of 8
  Stacks,       \* what ProcAlloc took for host, work0 and mux
  JobSizes,     \* payload sizes
  Asks,         \* sizes kernels ask for
  MaxAsks,      \* bound on the calls a kernel makes to an allocator
  PerSlab,      \* PS_PER_SLAB
  Slabs         \* PS_SLABS

ASSUME HeapAssumption ==
  /\ HeapSize \in Nat /\ HeapSize % 8 = 0 /\ Stacks \in 1..HeapSize
  /\ JobSizes \subseteq Nat /\ Asks \subseteq Nat /\ MaxAsks \in Nat /\ PerSlab \in Nat \ {0} /\ Slabs \in Nat

VARIABLES
  heap,   \* fl, the free blocks in address order; live, the allocated ones, newest first
  on,     \* between jobheap_begin and jobheap_end
  k0,     \* the job on node 0: where it is, its request, in0, rep0 (-1: err0), and what the kernel made of it
  ker     \* the kernel: addresses it holds, calls made, and its statics hash, blks (bs_live), slab, used, nodes

HB == 16                    \* sizeof (struct hb)
NULL == -2
ERR0 == -1                  \* the static err0

Rounded(n) == ((HB + n + 7) \div 8) * 8

-----------------------------------------------------------------------------
(***************************************************************************)
(* The allocator.                                                          *)
(***************************************************************************)
Fits(h, n) == {i \in DOMAIN h.fl : h.fl[i].size >= Rounded(n)}
Fails(h, n) == n > HeapSize \/ Fits(h, n) = {}

\* The heap after __wrap_malloc(n); the block's address is that of the newest live one.
Malloc(h, n, job) ==
  LET i == CHOOSE j \in Fits(h, n) : \A l \in Fits(h, n) : j <= l
      f == h.fl[i]
      sz == Rounded(n)
      splits == f.size - sz >= HB + 8
  IN [fl |-> IF splits THEN [h.fl EXCEPT ![i] = [at |-> f.at + sz, size |-> f.size - sz]] ELSE RemoveAt(h.fl, i),
      live |-> <<[at |-> f.at, size |-> IF splits THEN sz ELSE f.size, job |-> job]>> \o h.live]
Newest(h) == h.live[1].at

Block(h, p) == CHOOSE i \in DOMAIN h.live : h.live[i].at = p

\* Mutant: the block above is not joined.
Joined_AboveNot(fl, i) ==
  IF i > 1 /\ fl[i - 1].at + fl[i - 1].size = fl[i].at
    THEN RemoveAt([fl EXCEPT ![i - 1].size = @ + fl[i].size], i) ELSE fl

\* Free block i joined with the one above it and the one below it.
Joined(fl, i) ==
  LET up == IF i < Len(fl) /\ fl[i].at + fl[i].size = fl[i + 1].at
              THEN RemoveAt([fl EXCEPT ![i].size = @ + fl[i + 1].size], i + 1) ELSE fl
  IN IF i > 1 /\ up[i - 1].at + up[i - 1].size = up[i].at
       THEN RemoveAt([up EXCEPT ![i - 1].size = @ + up[i].size], i) ELSE up

\* __wrap_free.
Free(h, p) ==
  IF p = NULL THEN h
  ELSE LET b == h.live[Block(h, p)]
           i == Cardinality({j \in DOMAIN h.fl : h.fl[j].at < p}) + 1
       IN [fl |-> Joined(InsertAt(h.fl, i, [at |-> p, size |-> b.size]), i), live |-> RemoveAt(h.live, Block(h, p))]

\* The heap with every block of ps freed, in that order.
FreeAll(h, ps) == FoldLeft(LAMBDA g, p : Free(g, p), h, ps)

\* jobheap_end: every block a job allocated and did not free.
EndOfJob(h) == FreeAll(h, [i \in 1..Len(SelectSeq(h.live, LAMBDA b : b.job)) |-> SelectSeq(h.live, LAMBDA b : b.job)[i].at])

-----------------------------------------------------------------------------
(***************************************************************************)
(* A job on node 0 (root.c host, work0, mux; JobNet has their processes).  *)
(***************************************************************************)
Kernels == {"lha", "bc", "ppmq", "jpeg", "echo"}
NoJob == [at |-> "rest", op |-> "echo", n |-> 0, in0 |-> NULL, rep0 |-> NULL, st |-> "none", id |-> 0]
\* Room in front of a ppmquant payload for the reply header and its pixels, QGAP(n).
Gap(op, n) == IF op = "ppmq" /\ n > 0 THEN 16 ELSE 0
InPlace == k0.op = "ppmq" /\ k0.n > 0
\* job_out_cap, by kernel: what a reply of this job may need.
OutCap(op, n) == CASE op = "echo" -> IF n < 8 THEN 8 ELSE n
                   [] op = "lha" -> n + 8
                   [] op = "jpeg" -> n + 8
                   [] OTHER -> 8

\* host: the payload's block, or the payload drained and n = -1.
HostTakes(id, op, n) ==
  /\ k0.at = "rest"
  /\ LET want == Gap(op, n) + (IF n > 0 THEN n ELSE 1) IN
     IF Fails(heap, want)
       THEN k0' = [NoJob EXCEPT !.at = "go", !.op = op, !.n = -1, !.id = id] /\ UNCHANGED heap
       ELSE /\ heap' = Malloc(heap, want, on)
            /\ k0' = [NoJob EXCEPT !.at = "go", !.op = op, !.n = n, !.in0 = Newest(heap'), !.id = id]
  /\ UNCHANGED <<on, ker>>

\* work0: the reply's block (in place for ppmquant); with none the reply is ST_TOOBIG from err0.
Work0Starts ==
  /\ k0.at = "go"
  /\ on' = TRUE
  /\ IF InPlace THEN k0' = [k0 EXCEPT !.at = "kernel", !.rep0 = k0.in0] /\ UNCHANGED heap
     ELSE IF k0.n < 0 \/ Fails(heap, OutCap(k0.op, k0.n))
       THEN k0' = [k0 EXCEPT !.at = "end", !.rep0 = ERR0, !.st = "TOOBIG"] /\ UNCHANGED heap
     ELSE /\ heap' = Malloc(heap, OutCap(k0.op, k0.n), on)
          /\ k0' = [k0 EXCEPT !.at = "kernel", !.rep0 = Newest(heap')]
  /\ ker' = [ker EXCEPT !.held = {}, !.calls = 0]

Work0Ends ==
  /\ k0.at = "end"
  /\ on' = FALSE
  /\ heap' = LET h == EndOfJob(heap) IN IF InPlace THEN h ELSE Free(h, k0.in0)
  /\ k0' = [k0 EXCEPT !.at = "reply", !.in0 = NULL]
  /\ ker' = [ker EXCEPT !.held = {}, !.calls = 0]

\* mux has written the reply and frees it.
MuxFrees ==
  /\ k0.at = "reply"
  /\ heap' = IF k0.rep0 = ERR0 THEN heap ELSE Free(heap, k0.rep0)
  /\ k0' = NoJob
  /\ UNCHANGED <<on, ker>>

-----------------------------------------------------------------------------
(***************************************************************************)
(* The kernels: calls of an allocator in any order, then success, an error *)
(* exit by longjmp, or no memory.                                          *)
(***************************************************************************)
Running(op) == k0.at = "kernel" /\ k0.op = op
MayAsk(op) == Running(op) /\ ker.calls < MaxAsks
Result(st) == k0' = [k0 EXCEPT !.at = "end", !.st = st]
Asked(held) == ker' = [ker EXCEPT !.calls = @ + 1, !.held = held]

\* OP_ECHO and the crypto ops allocate nothing.
Echo == Running("echo") /\ Result("OK") /\ UNCHANGED <<heap, on, ker>>

\* job_reply: the payload does not have the checksum of its header.
BadReq ==
  /\ k0.at = "kernel" /\ ker.calls = 0
  /\ Result("BADREQ") /\ UNCHANGED <<heap, on, ker>>

\* jpegserv: libjpeg's pools and jpeg_mem_dest's buffer.  The deflate, bzip2 and PNG kernels allocate and free in the same way.
JpegMalloc(n) ==
  /\ MayAsk("jpeg") /\ ~Fails(heap, n)
  /\ heap' = Malloc(heap, n, on)
  /\ Asked(ker.held \cup {Newest(heap')})
  /\ UNCHANGED <<on, k0>>

JpegFree(p) ==
  /\ Running("jpeg") /\ p \in ker.held
  /\ heap' = Free(heap, p)
  /\ ker' = [ker EXCEPT !.held = @ \ {p}]
  /\ UNCHANGED <<on, k0>>

\* The end, or t4_error_exit: jpeg_destroy and free(mem).
JpegEnds(st) ==
  /\ Running("jpeg") /\ st \in {"OK", "FAILED"}
  /\ heap' = FreeAll(heap, SetToSeq(ker.held))
  /\ ker' = [ker EXCEPT !.held = {}]
  /\ Result(st) /\ UNCHANGED on

\* lha_hash = NULL
LhaReset(h) == NULL

\* encode_alloc: the hash table is allocated unless there is one.
LhaStarts(n) ==
  /\ MayAsk("lha") /\ ker.calls = 0
  /\ IF LhaReset(ker.hash) # NULL
       THEN ker' = [ker EXCEPT !.calls = 1, !.held = {ker.hash}] /\ UNCHANGED <<heap, k0>>
     ELSE IF Fails(heap, n) THEN Result("FAILED") /\ UNCHANGED heap /\ ker' = [ker EXCEPT !.hash = NULL]
     ELSE /\ heap' = Malloc(heap, n, on)
          /\ ker' = [ker EXCEPT !.calls = 1, !.hash = Newest(heap'), !.held = {Newest(heap')}]
          /\ UNCHANGED k0
  /\ UNCHANGED on

LhaMalloc(n) ==
  /\ MayAsk("lha") /\ ker.calls > 0
  /\ IF Fails(heap, n) THEN Result("FAILED") /\ UNCHANGED <<heap, ker>>       \* fatal_error: longjmp
     ELSE heap' = Malloc(heap, n, on) /\ Asked(ker.held \cup {Newest(heap')}) /\ UNCHANGED k0
  /\ UNCHANGED on

\* encode returns, or t4_fwrite ran out of room; nothing is freed.
LhaEnds(st) == Running("lha") /\ ker.calls > 0 /\ st \in {"OK", "FAILED"} /\ Result(st) /\ UNCHANGED <<heap, on, ker>>

\* bcshim's own list on top of the heap: bs_malloc, bs_free, bs_realloc.
BcMalloc(n) ==
  /\ MayAsk("bc") /\ ~Fails(heap, HB + n)
  /\ heap' = Malloc(heap, HB + n, on)
  /\ ker' = [ker EXCEPT !.calls = @ + 1, !.blks = <<Newest(heap')>> \o @]
  /\ UNCHANGED <<on, k0>>

BcFree(p) ==
  /\ Running("bc") /\ p \in Range(ker.blks)
  /\ heap' = Free(heap, p)
  /\ ker' = [ker EXCEPT !.blks = SelectSeq(@, LAMBDA q : q # p)]
  /\ UNCHANGED <<on, k0>>

BcRealloc(p, n) ==
  /\ MayAsk("bc") /\ p \in Range(ker.blks) /\ ~Fails(heap, HB + n)
  /\ LET h == Malloc(heap, HB + n, on) IN
       /\ heap' = Free(h, p)
       /\ ker' = [ker EXCEPT !.calls = @ + 1, !.blks = <<Newest(h)>> \o SelectSeq(@, LAMBDA q : q # p)]
  /\ UNCHANGED <<on, k0>>

\* bc ended, exited, ran out of memory or of output: bs_freeall, and the globals are reset before the next run.
BcEnds(st) ==
  /\ Running("bc") /\ st \in {"OK", "FAILED"}
  /\ heap' = FreeAll(heap, ker.blks)
  /\ ker' = [ker EXCEPT !.blks = <<>>]
  /\ Result(st) /\ UNCHANGED on

\* ps_malloc of a node: the free list, the last slab, a new slab, or a block of its own.
NODE == 16                 \* PS_NODE
PsNode ==
  /\ MayAsk("ppmq")
  /\ IF ker.nodes # <<>>
       THEN /\ ker' = [ker EXCEPT !.calls = @ + 1, !.nodes = Tail(@), !.held = @ \cup {Head(ker.nodes)}]
            /\ UNCHANGED <<heap, k0>>
     ELSE IF ker.slab # <<>> /\ ker.used < PerSlab
       THEN /\ ker' = [ker EXCEPT !.calls = @ + 1, !.used = @ + 1, !.held = @ \cup {Last(ker.slab) + HB + NODE * ker.used}]
            /\ UNCHANGED <<heap, k0>>
     ELSE IF Len(ker.slab) < Slabs /\ ~Fails(heap, NODE * PerSlab)
       THEN /\ heap' = Malloc(heap, NODE * PerSlab, on)
            /\ ker' = [ker EXCEPT !.calls = @ + 1, !.slab = Append(@, Newest(heap')), !.used = 1,
                                  !.held = @ \cup {Newest(heap') + HB}]
            /\ UNCHANGED k0
     ELSE /\ ~Fails(heap, NODE)
          /\ heap' = Malloc(heap, NODE, on)
          /\ Asked(ker.held \cup {Newest(heap') + HB})
          /\ UNCHANGED k0
  /\ UNCHANGED on

InSlab(p) == \E s \in Range(ker.slab) : p \in (s + HB)..(s + HB + NODE * PerSlab - 1)

PsFree(p) ==
  /\ Running("ppmq") /\ p \in ker.held
  /\ IF InSlab(p)
       THEN ker' = [ker EXCEPT !.held = @ \ {p}, !.nodes = <<p>> \o @] /\ UNCHANGED heap
       ELSE ker' = [ker EXCEPT !.held = @ \ {p}] /\ heap' = Free(heap, p - HB)
  /\ UNCHANGED <<on, k0>>

PsStatics(k) == [k EXCEPT !.slab = <<>>, !.used = 0, !.nodes = <<>>]

\* ppmquant's main returned, or pm_error: ps_free_all.
PsEnds(st) ==
  /\ Running("ppmq") /\ st \in {"OK", "FAILED"}
  /\ heap' = FreeAll(heap, Reverse(ker.slab))
  /\ ker' = [PsStatics(ker) EXCEPT !.held = {}]
  /\ Result(st) /\ UNCHANGED on

Kernel ==
  \/ Echo \/ BadReq
  \/ \E n \in Asks : JpegMalloc(n) \/ LhaStarts(n) \/ LhaMalloc(n) \/ BcMalloc(n)
  \/ \E p \in ker.held : JpegFree(p) \/ PsFree(p)
  \/ \E p \in Range(ker.blks) : BcFree(p) \/ (\E n \in Asks : BcRealloc(p, n))
  \/ PsNode
  \/ \E st \in {"OK", "FAILED"} : JpegEnds(st) \/ LhaEnds(st) \/ BcEnds(st) \/ PsEnds(st)

HeapStep == Work0Starts \/ Kernel \/ Work0Ends

\* The image has booted: the stacks lie at the foot of the heap.
Empty == [fl |-> <<[at |-> 0, size |-> HeapSize]>>, live |-> <<>>]
HeapInit ==
  /\ heap = Malloc(Empty, Stacks, FALSE)
  /\ on = FALSE /\ k0 = NoJob
  /\ ker = [held |-> {}, calls |-> 0, hash |-> NULL, blks |-> <<>>, slab |-> <<>>, used |-> 0, nodes |-> <<>>]

-----------------------------------------------------------------------------
\* Types of the variables.
HeapTypeOK ==
  /\ \A i \in DOMAIN heap.fl : heap.fl[i].at \in 0..HeapSize /\ heap.fl[i].size \in 1..HeapSize
  /\ \A i \in DOMAIN heap.live : heap.live[i].at \in 0..HeapSize /\ heap.live[i].size \in 1..HeapSize /\ heap.live[i].job \in BOOLEAN
  /\ on \in BOOLEAN
  /\ k0.at \in {"rest", "go", "kernel", "end", "reply"} /\ k0.op \in Kernels
  /\ ker.calls \in 0..MaxAsks /\ ker.used \in 0..PerSlab /\ Len(ker.slab) <= Slabs

\* The blocks of the heap, free and live.
Blocks == {[at |-> b.at, end |-> b.at + b.size] : b \in Range(heap.fl)} \cup {[at |-> b.at, end |-> b.at + b.size] : b \in Range(heap.live)}

\* jobheap.c: free and live blocks tile the heap without a gap or an overlap, and no two free ones are neighbours.
Tiled ==
  /\ Cardinality(Blocks) = Len(heap.fl) + Len(heap.live)
  /\ {b.at : b \in Blocks} \cup {HeapSize} = {b.end : b \in Blocks} \cup {0}
  /\ \A i \in 1..Len(heap.fl) - 1 : heap.fl[i].at + heap.fl[i].size < heap.fl[i + 1].at

\* jobheap.c: "Once a job's blocks are freed the heap is the same single free block every time".
SameEveryTime == k0.at = "rest" => heap = Malloc(Empty, Stacks, FALSE)

\* lhaserv.c, bcshim.c, pmshim.c: what a running kernel holds, and the lists it takes from, lie in live blocks of this job.
OwnBlocks ==
  LET used == ker.held \cup Range(ker.blks) \cup Range(ker.slab) \cup Range(ker.nodes) IN
  k0.at = "kernel" => \A p \in used : \E b \in Range(heap.live) : b.job /\ p \in b.at..(b.at + b.size - 1)
=============================================================================
