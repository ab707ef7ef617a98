------------------------------ MODULE JobSched ------------------------------
(***************************************************************************)
(* The dispatch rule of ttjobd (sam-job-tt/ttjobd.c): the static table of  *)
(* expected run times (est_ms) and the queue-aware choice of the next job  *)
(* and its node (pick).  Both are pure, so they are operators; the clock   *)
(* enters pick only as the milliseconds left on the T425's current job.    *)
(***************************************************************************)
EXTENDS Integers, Sequences, FiniteSets

CONSTANT NODES          \* executors of the full image: node 0 is the T425, the others are TRAMs

ASSUME NodesAssumption == NODES \in Nat \ {0} /\ NODES < 255

NODE_ANY == 255         \* "any node" in a request's node byte
JOB_MAX == 409600       \* payload cap of a TRAM, and of node 0 until the image says more
JOB_BIG == 2621440      \* largest payload cap node 0 may announce
NEVER == 2147483        \* 0x7fffffff / 1000: the estimate "a TRAM cannot run this"

Nodes == 0..NODES-1

(***************************************************************************)
(* The table of est_ms: microseconds on the T425 for n payload bytes, and  *)
(* the ops priced as compression on a TRAM (2.8 times, else 2 times).      *)
(***************************************************************************)
MicrosOnT425(op, n) ==
  CASE op = "b" -> n * 63
    [] op \in {"z", "g", "r"} -> n * 50
    [] op \in {"i", "C"} -> n * 5
    [] op = "X" -> 2800000
    [] op = "V" -> 6500000 + n * 14
    [] op = "S" -> n * 14
    [] op \in {"5", "6"} -> n * 56
    [] op = "d" -> n * 45
    [] op = "p" -> n * 150
    [] op = "q" -> 55000000 + n * 300
    [] op = "c" -> 300000000
    [] op = "J" -> n * 30
    [] op = "j" -> n * 300
    [] OTHER -> n \div 2

CompressionOps == {"b", "z", "g", "r", "i", "5", "6", "d", "p", "q", "J", "j"}

\* Jobs only the T425's image can run ("K" is OP_CAPS).
T425Only(op, n) == op \in {"J", "j", "p", "q", "c", "K"} \/ n > JOB_MAX

EstMs(op, n, tram) ==
  LET us == MicrosOnT425(op, n)
  IN  IF ~tram THEN us \div 1000
      ELSE IF T425Only(op, n) THEN NEVER
      ELSE IF op \in CompressionOps THEN ((us \div 10) * 28) \div 1000
      ELSE (us * 2) \div 1000

(***************************************************************************)
(* pick.  `left' is what remains of the T425's current job (0 if idle),    *)
(* `present' the number of nodes the booted image has.  Reserved(..)[q] is *)
(* the backlog once the first q queued jobs have been passed over, every   *)
(* NODE_ANY one of them reserved for the T425.                             *)
(***************************************************************************)
Reserved(queue, left) ==
  LET R[q \in 0..Len(queue)] ==
        IF q = 0 THEN left
        ELSE R[q-1] + (IF queue[q].node = NODE_ANY
                       THEN EstMs(queue[q].op, queue[q].n, FALSE) ELSE 0)
  IN  R

Idle(k, busy, present) == k \in Nodes /\ k < present /\ ~busy[k]

\* The TRAMs that would finish job j before a T425 with this backlog could.
FasterTrams(j, backlog, busy, present) ==
  {k \in Nodes \ {0} :
     /\ Idle(k, busy, present)
     /\ EstMs(j.op, j.n, TRUE) < backlog + EstMs(j.op, j.n, FALSE)}

\* Node k is where the loop body of pick sends queue[q], if it sends it at all.
Goes(q, k, queue, busy, present, left) ==
  LET j       == queue[q]
      backlog == Reserved(queue, left)[q-1]
      trams   == FasterTrams(j, backlog, busy, present)
  IN  IF j.node # NODE_ANY THEN k = j.node /\ Idle(k, busy, present)
      ELSE IF ~busy[0] /\ backlog = 0 THEN k = 0
      ELSE k \in trams /\ \A t \in trams : k <= t

\* The (queue index, node) pair pick returns; empty when nothing should start now.
Pick(queue, busy, present, left) ==
  {p \in (1..Len(queue)) \X Nodes :
     /\ Goes(p[1], p[2], queue, busy, present, left)
     /\ \A q \in 1..p[1]-1 : \A k \in Nodes : ~Goes(q, k, queue, busy, present, left)}
=============================================================================
