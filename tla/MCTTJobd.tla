------------------------------ MODULE MCTTJobd ------------------------------
(***************************************************************************)
(* Instances of TTJobd for TLC.  Ops and sizes are real ones: a 256 KB     *)
(* bzip2 piece, bc, an echo, a lease with and without a payload.           *)
(***************************************************************************)
EXTENDS TTJobd

AnyEcho == [op |-> "E", node |-> NODE_ANY, n |-> 0]
AnyBc == [op |-> "c", node |-> NODE_ANY, n |-> 0]
TramEcho == [op |-> "E", node |-> 1, n |-> 0]
TramBzip2 == [op |-> "b", node |-> 1, n |-> 262144]
Lease == [op |-> "L", node |-> 0, n |-> 0]
LongLease == [op |-> "L", node |-> 0, n |-> 1]

JobdRequests == {TramBzip2, Lease}
LiveRequests == {AnyBc, TramEcho, Lease, LongLease}
EchoRequests == {AnyEcho}
=============================================================================
