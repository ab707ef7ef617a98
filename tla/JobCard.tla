------------------------------- MODULE JobCard -------------------------------
(***************************************************************************)
(* What the job daemon expects of the card behind the link, and what the   *)
(* resident image has to implement: a job taken is answered once, in any   *)
(* order, and replies are delivered in the order they were sent.  A reset  *)
(* forgets everything.                                                     *)
(***************************************************************************)
EXTENDS Sequences, SequencesExt

CONSTANT Ids            \* what names a job on the link

VARIABLES
  net,                  \* jobs taken and not answered
  link                  \* replies on their way

vars == <<net, link>>

Init == net = {} /\ link = <<>>

Take(j) ==
  /\ j \notin net /\ j \notin ToSet(link)
  /\ net' = net \union {j}
  /\ UNCHANGED link

Reply(j) ==
  /\ j \in net
  /\ net' = net \ {j}
  /\ link' = Append(link, j)

Deliver ==
  /\ link # <<>>
  /\ link' = Tail(link)
  /\ UNCHANGED net

Reset == net' = {} /\ link' = <<>>

Next == (\E j \in Ids : Take(j) \/ Reply(j)) \/ Deliver \/ Reset

Spec == Init /\ [][Next]_vars

\* A card whose programs terminate answers every job.
FairSpec == Spec /\ \A j \in Ids : WF_vars(Reply(j))
=============================================================================
