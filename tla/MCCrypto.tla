------------------------------ MODULE MCCrypto ------------------------------
(***************************************************************************)
(* The kernels' calls and the server's dialogue, one behaviour each.       *)
(***************************************************************************)
EXTENDS CryptoKernels, CryptoServer

Busy == [fn |-> "serving"]

Init == \/ KernelInit /\ ServerInit("off")
        \/ calc = Busy /\ ServerInit("boot")

Next == \/ calc /= Busy /\ KernelNext /\ UNCHANGED linkVars
        \/ calc = Busy /\ ServerNext /\ UNCHANGED calc

Spec == Init /\ [][Next]_<<calc, linkVars>>

(* The T425's kernels compute what their headers promise: the field, the   *)
(* curves, signatures and hashes (f25519.c, c25519.c, ed25519.c,           *)
(* edsign.c, sha512_32.c).                                                 *)
KernelsSound == FieldSound /\ CurveSound /\ SignSound /\ HashSound

(* The client and the server on the T425 never lose step and never wait    *)
(* for each other (xclient.c, xserv2.c, atwxserv.c).                       *)
LinkInStep == InStep /\ NoMutualWait

(* Limbs of 3 and 2 bits, a number of 25.                                  *)
MCChunk   == [i \in 0..10 |-> <<0, 4, 7, 9, 12, 13, 17, 19, 22, 24, 25>>[i + 1]]
MCBase    == <<20, 26>>
MCHashes  == {0, 1, 2, 5, 12, 13, 14, 168, 169, 255, 256, 4097, 65535}
MCLengths == 0..68 \cup 90..100 \cup 150..200 \cup 220..225 \cup 300..330
=============================================================================
