------------------------------ MODULE MCJobNet ------------------------------
(***************************************************************************)
(* Instances of JobNet for TLC.                                            *)
(***************************************************************************)
EXTENDS JobNet

Job(n, s, q) == [node |-> n, size |-> s, inplace |-> q]

\* What ttjobd sends: explicit nodes, an in-place job, and a job too big for its TRAM.
DaemonKinds == {Job(0, 0, FALSE), Job(0, 2, TRUE), Job(1, 1, FALSE), Job(1, 2, FALSE), Job(2, 1, FALSE)}

\* And jobs whose node the image chooses.
AllKinds == DaemonKinds \union {Job(NODE_ANY, 0, FALSE), Job(NODE_ANY, 1, TRUE)}
=============================================================================
