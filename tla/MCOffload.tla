----------------------------- MODULE MCOffload ------------------------------
(***************************************************************************)
(* Offload with every program once: small jobs, jobs beyond JOB_BIG, and   *)
(* two jobs in a row of the programs that make several.                    *)
(***************************************************************************)
EXTENDS Offload

Job(prog, n, pieces) == [prog |-> prog, n |-> n, pieces |-> pieces]
AllWork ==
  {Job(p, 24, 1) : p \in {"tppmquant", "tpnmscale", "tgiftopnm", "tbc", "djpeg", "ttlease"}}
    \cup {Job(p, 400, 1) : p \in {"tpnmtopng", "cjpeg"}} \cup {Job(p, 24, 2) : p \in {"tgzip", "ssh"}}
=============================================================================
