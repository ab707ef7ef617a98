--------------------------- MODULE Offload_proofs ----------------------------
(***************************************************************************)
(* Proofs about a program that gives its work to the T425, for any work,   *)
(* any other clients and any number of faults: JobsSafe (Offload).         *)
(***************************************************************************)
EXTENDS Offload, SequenceTheorems, FiniteSetTheorems, WellFoundedInduction, TLAPS

-----------------------------------------------------------------------------
(***************************************************************************)
(* The inductive invariant.                                                *)
(***************************************************************************)
Jpegs == {"djpeg", "cjpeg"}
InCall == {"call", "wait", "write", "half", "boot", "sent", "trap", "cpu", "have"}

\* Where each program can be.
PlacesOf(prog) ==
  {"start"} \cup Ended \cup
    (CASE prog = "tgzip" -> InCall \cup {"read", "eof", "failed", "done"}
       [] prog \in Filters -> InCall \cup {"failed"}
       [] prog \in Jpegs -> InCall \cup {"stock"}
       [] prog = "ttlease" -> {"call", "wait", "write", "half", "runs"}
       [] OTHER -> InCall)
Places == {"start", "read", "eof", "failed", "done", "stock", "runs"} \cup InCall \cup Ended

Statuses == {"none", "OK", "FAILED", "BADREQ", "TOOBIG", "BADOP", "DOWN"}
Results == [of : 0..MaxPieces, whole : BOOLEAN]
Requests == [id : 1..IdMax, of : 1..MaxPieces]
Answers == [id : 1..IdMax, st : Statuses, data : Results]
Libs == [fd : BOOLEAN, lastid : 0..IdMax, got : Seq(Answers)]
Nets == [alive : BOOLEAN, rep : Seq(Answers), half : BOOLEAN]
Servers == [up : BOOLEAN, hung : BOOLEAN, pend : SUBSET Requests, lease : BOOLEAN]
Programs == [at : Places, prog : Progs, n : JobSizes, pieces : 1..MaxPieces, call : 0..MaxPieces, id : 0..IdMax,
             tj : BOOLEAN, off : BOOLEAN, lock : BOOLEAN, t4off : BOOLEAN, err : BOOLEAN, data : Results, rc : Int]
Texts == Seq([of : Int, whole : BOOLEAN])
Disks == [input : BOOLEAN, dst : Texts, out : Texts, open : BOOLEAN]

\* Node 0's job carries the number of a call, or 0.
JobOnNode0 == {"at", "st", "id"} \subseteq DOMAIN k0 /\ k0.st \in Statuses /\ k0.id \in 0..MaxPieces

Types ==
  /\ lib \in Libs /\ net \in Nets
  /\ srv \in Servers /\ IsFiniteSet(srv.pend)
  /\ cli \in Programs /\ file \in Disks
  /\ others \in 0..MaxOther /\ trouble \in 0..MaxTrouble
  /\ JobOnNode0

\* No more replies are on the way or kept than requests were made, and each call made at most one.
Counted ==
  /\ lib.lastid <= cli.call
  /\ cli.at = "call" => lib.lastid < cli.call
  /\ Len(lib.got) + Len(net.rep) + Cardinality(srv.pend) <= lib.lastid

\* The answers in s that can be taken for that of the present call are its own.
Own(s) ==
  \A i \in DOMAIN s :
    /\ s[i].id <= lib.lastid
    /\ cli.at = "wait" /\ s[i].id = cli.id /\ s[i].st = "OK" => s[i].data.of = cli.call

\* Ids are not reused: only the call waited for has the newest one.
Paired ==
  /\ cli.at = "wait" => cli.id = lib.lastid
  /\ \A r \in srv.pend : r.id <= lib.lastid /\ (cli.at = "wait" /\ r.id = cli.id => r.of = cli.call)
  /\ Own(lib.got) /\ Own(net.rep)
  /\ \A i \in DOMAIN lib.got : lib.got[i].st = "OK" => lib.got[i].data.whole

Granted(s) == \E i \in DOMAIN s : s[i].st = "OK"

\* The lease is granted before its answer arrives, and lost only with the connection.
Leased ==
  cli.prog = "ttlease" =>
    /\ k0.id = 0
    /\ cli.at \in {"start", "call"} => ~lib.fd /\ lib.got = <<>>
    /\ cli.at = "wait" /\ lib.fd /\ net.alive /\ (Granted(lib.got) \/ Granted(net.rep)) => srv.lease
    /\ cli.at = "runs" /\ lib.fd /\ net.alive => srv.lease

\* The first k results of this program's calls.
Upto(k) == [i \in 1..k |-> Right(i)]

Placed ==
  /\ cli.at \in PlacesOf(cli.prog)
  /\ cli.prog \notin {"tgzip", "ssh"} => cli.pieces = 1
  /\ cli.call <= cli.pieces
  /\ cli.at = "start" => cli.call = 0 /\ file.out = <<>> /\ file.dst \in {NoFile, OldFile} /\ ~cli.err
  /\ cli.at \in InCall => cli.call >= 1

\* What was written, by place.
TgzipWrote ==
  cli.prog = "tgzip" =>
    /\ cli.at = "read" => ~cli.err /\ file.out = Upto(cli.call)
    /\ cli.at \in InCall => file.out = Upto(cli.call - 1)
    /\ cli.at = "eof" => cli.err \/ file.out = Whole
    /\ cli.at = "done" => file.dst = Whole
    /\ cli.at = "end" => file.dst \in {NoFile, OldFile, Whole}
    /\ ~file.input => cli.at = "end" /\ file.dst = Whole

\* tbc and the libjpeg front ends report success for a result that does not reach the file.
Unchecked == {"tbc"} \cup Jpegs
Cut == cli.prog \in Unchecked /\ file.out = <<>>

OthersWrote ==
  cli.prog # "tgzip" =>
    /\ file.input
    /\ cli.at \in InCall \cup {"stock"} => cli.call >= 1 /\ file.out = Upto(cli.call - 1)
    /\ cli.at = "end" /\ cli.rc = 0 /\ cli.prog # "ttlease" => file.out = Whole \/ Cut

Inv == Types /\ Counted /\ Paired /\ Leased /\ Placed /\ TgzipWrote /\ OthersWrote /\ OwnResult

-----------------------------------------------------------------------------
(***************************************************************************)
(* Sequences.                                                              *)
(***************************************************************************)
\* A reply read is put in front of those kept.
LEMMA ConsFact ==
  ASSUME NEW T, NEW s \in Seq(T), NEW x \in T
  PROVE  /\ <<x>> \o s \in Seq(T)
         /\ Len(<<x>> \o s) = Len(s) + 1
         /\ \A i \in DOMAIN (<<x>> \o s) : (<<x>> \o s)[i] = x \/ \E j \in DOMAIN s : (<<x>> \o s)[i] = s[j]
<1>1. <<x>> \in Seq(T) /\ Len(<<x>>) = 1 /\ <<x>>[1] = x
  OBVIOUS
<1>2. /\ Len(<<x>> \o s) = Len(s) + 1
      /\ \A i \in 1..Len(s) + 1 : (<<x>> \o s)[i] = IF i <= 1 THEN <<x>>[i] ELSE s[i - 1]
  BY <1>1, ConcatProperties
<1>3. <<x>> \o s \in Seq(T)
  BY <1>1, ConcatProperties
<1>4. QED
  BY <1>1, <1>2, <1>3

\* A reply sent is put behind those on the way.
LEMMA AppendFact ==
  ASSUME NEW T, NEW s \in Seq(T), NEW x \in T
  PROVE  /\ Append(s, x) \in Seq(T)
         /\ Len(Append(s, x)) = Len(s) + 1
         /\ \A i \in DOMAIN Append(s, x) : Append(s, x)[i] = x \/ \E j \in DOMAIN s : Append(s, x)[i] = s[j]
  BY AppendProperties

\* The reply read is the first of those on the way.
LEMMA TailFact ==
  ASSUME NEW T, NEW s \in Seq(T), s # <<>>
  PROVE  /\ Tail(s) \in Seq(T) /\ Head(s) \in T /\ Head(s) = s[1] /\ 1 \in DOMAIN s
         /\ Len(Tail(s)) = Len(s) - 1
         /\ \A i \in DOMAIN Tail(s) : \E j \in DOMAIN s : Tail(s)[i] = s[j]
<1>1. Len(s) \in Nat \ {0}
  OBVIOUS
<1>2. QED
  BY <1>1, HeadTailProperties

\* What a daemon that dies, or a program that is killed, has got out.
LEMMA PrefixFact ==
  ASSUME NEW T, NEW s \in Seq(T), NEW p \in Prefixes(s)
  PROVE  p \in Seq(T) /\ Len(p) <= Len(s) /\ \A i \in DOMAIN p : i \in DOMAIN s /\ p[i] = s[i]
<1>1. PICK l \in 0..Len(s) : p = SubSeq(s, 1, l)
  BY DEF Prefixes
<1>2. QED
  BY <1>1, SubSeqProperties

\* A reply collected leaves the list.
LEMMA RemoveFact ==
  ASSUME NEW T, NEW s \in Seq(T), NEW k \in DOMAIN s
  PROVE  /\ RemoveAt(s, k) \in Seq(T)
         /\ Len(RemoveAt(s, k)) = Len(s) - 1
         /\ \A i \in DOMAIN RemoveAt(s, k) : \E j \in DOMAIN s : RemoveAt(s, k)[i] = s[j]
<1> DEFINE a == SubSeq(s, 1, k - 1)
           b == SubSeq(s, k + 1, Len(s))
<1>1. k \in 1..Len(s) /\ Len(s) \in Nat
  OBVIOUS
<1>2. a \in Seq(T) /\ Len(a) = k - 1 /\ \A i \in 1..k - 1 : a[i] = s[i]
  BY <1>1, SubSeqProperties
<1>3. b \in Seq(T) /\ Len(b) = Len(s) - k /\ \A i \in 1..Len(s) - k : b[i] = s[k + i]
  BY <1>1, SubSeqProperties
<1> HIDE DEF a, b
<1>4. /\ a \o b \in Seq(T) /\ Len(a \o b) = Len(s) - 1
      /\ \A i \in 1..Len(s) - 1 : (a \o b)[i] = IF i <= k - 1 THEN a[i] ELSE b[i - (k - 1)]
  BY <1>1, <1>2, <1>3, ConcatProperties
<1>5. \A i \in 1..Len(s) - 1 : (a \o b)[i] = s[i] \/ (a \o b)[i] = s[i + 1]
  <2> SUFFICES ASSUME NEW i \in 1..Len(s) - 1
               PROVE  (a \o b)[i] = s[i] \/ (a \o b)[i] = s[i + 1]
    OBVIOUS
  <2>1. CASE i <= k - 1
    BY <2>1, <1>1, <1>2, <1>4
  <2>2. CASE i > k - 1
    <3>1. i - (k - 1) \in 1..Len(s) - k /\ k + (i - (k - 1)) = i + 1
      BY <2>2, <1>1
    <3>2. b[i - (k - 1)] = s[i + 1]
      BY <3>1, <1>3
    <3>3. (a \o b)[i] = IF i <= k - 1 THEN a[i] ELSE b[i - (k - 1)]
      BY <1>4
    <3>4. ~(i <= k - 1)
      BY <2>2, <1>1
    <3>5. QED
      BY <3>2, <3>3, <3>4
  <2>3. i <= k - 1 \/ i > k - 1
    BY <1>1
  <2>4. QED
    BY <2>1, <2>2, <2>3
<1>6. RemoveAt(s, k) = a \o b
  BY DEF RemoveAt, a, b
<1>7. DOMAIN RemoveAt(s, k) = 1..Len(s) - 1
  BY <1>4, <1>6, <1>1
<1>8. \A i \in 1..Len(s) - 1 : i \in DOMAIN s /\ i + 1 \in DOMAIN s
  BY <1>1
<1>9. \A i \in DOMAIN RemoveAt(s, k) : RemoveAt(s, k)[i] = s[i] \/ RemoveAt(s, k)[i] = s[i + 1]
  BY <1>5, <1>6, <1>7
<1>10. QED
  BY <1>4, <1>6, <1>7, <1>8, <1>9

\* The replies to all that was asked.
LEMMA ConcatFact ==
  ASSUME NEW T, NEW s \in Seq(T), NEW t \in Seq(T)
  PROVE  /\ s \o t \in Seq(T) /\ Len(s \o t) = Len(s) + Len(t)
         /\ \A i \in DOMAIN (s \o t) : (\E j \in DOMAIN s : (s \o t)[i] = s[j]) \/ (\E j \in DOMAIN t : (s \o t)[i] = t[j])
<1>1. /\ s \o t \in Seq(T) /\ Len(s \o t) = Len(s) + Len(t)
      /\ \A i \in 1..Len(s) + Len(t) : (s \o t)[i] = IF i <= Len(s) THEN s[i] ELSE t[i - Len(s)]
  BY ConcatProperties
<1>2. Len(s) \in Nat /\ Len(t) \in Nat /\ DOMAIN s = 1..Len(s) /\ DOMAIN t = 1..Len(t) /\ DOMAIN (s \o t) = 1..Len(s) + Len(t)
  BY <1>1
<1>3. \A i \in 1..Len(s) + Len(t) : i <= Len(s) \/ i - Len(s) \in 1..Len(t)
  BY <1>2
<1>4. QED
  BY <1>1, <1>2, <1>3

\* Setting a finite set out in a row names each of its elements.
LEMMA ToSeq ==
  ASSUME NEW T, IsFiniteSet(T)
  PROVE  Cardinality(T) \in Nat /\ SetToSeq(T) \in [1..Cardinality(T) -> T]
<1> DEFINE n == Cardinality(T)
           f == SetToSeq(T)
<1>1. n \in Nat /\ ExistsBijection(1..n, T)
  BY FS_CardinalityType
<1>2. \E g \in [1..n -> T] : IsInjective(g)
  BY <1>1 DEF ExistsBijection, Bijection, Injection
<1>3. f \in [1..n -> T] /\ IsInjective(f)
  BY <1>2 DEF SetToSeq
<1>4. QED
  BY <1>1, <1>3

\* The results of the first calls, and one more.
LEMMA UptoFact ==
  /\ Upto(0) = <<>>
  /\ \A k \in Nat : Upto(k) \in Texts /\ Len(Upto(k)) = k
  /\ \A k \in Nat \ {0} : Append(Upto(k - 1), Right(k)) = Upto(k)
  /\ <<Right(1)>> = Upto(1)
<1>1. ASSUME NEW k \in Nat
      PROVE  Upto(k) \in Texts /\ Len(Upto(k)) = k
  <2>1. \A i \in 1..k : Right(i) \in [of : Int, whole : BOOLEAN]
    BY DEF Right
  <2>2. QED
    BY <2>1 DEF Upto, Texts
<1>2. Upto(0) = <<>>
  <2>1. Upto(0) \in Texts /\ Len(Upto(0)) = 0
    BY <1>1
  <2>2. QED
    BY <2>1, EmptySeq DEF Texts
<1>3. ASSUME NEW k \in Nat \ {0}
      PROVE  Append(Upto(k - 1), Right(k)) = Upto(k)
  <2>1. Upto(k - 1) \in Texts /\ Len(Upto(k - 1)) = k - 1 /\ Upto(k) \in Texts /\ Len(Upto(k)) = k
    BY <1>1
  <2>2. Right(k) \in [of : Int, whole : BOOLEAN]
    BY DEF Right
  <2>3. /\ Append(Upto(k - 1), Right(k)) \in Texts /\ Len(Append(Upto(k - 1), Right(k))) = k
        /\ \A i \in 1..k - 1 : Append(Upto(k - 1), Right(k))[i] = Upto(k - 1)[i]
        /\ Append(Upto(k - 1), Right(k))[k] = Right(k)
    BY <2>1, <2>2, AppendProperties DEF Texts
  <2>4. \A i \in 1..k : Append(Upto(k - 1), Right(k))[i] = Upto(k)[i]
    <3> SUFFICES ASSUME NEW i \in 1..k
                 PROVE  Append(Upto(k - 1), Right(k))[i] = Right(i)
      BY DEF Upto
    <3>1. CASE i = k
      BY <3>1, <2>3
    <3>2. CASE i # k
      <4>1. i \in 1..k - 1
        BY <3>2
      <4>2. Upto(k - 1)[i] = Right(i)
        BY <4>1 DEF Upto
      <4>3. QED
        BY <4>1, <4>2, <2>3
    <3>3. QED
      BY <3>1, <3>2
  <2>5. QED
    BY <2>1, <2>3, <2>4, SeqEqual DEF Texts
<1>4. <<Right(1)>> = Upto(1)
  <2>1. 1 - 1 = 0 /\ 1 \in Nat \ {0}
    OBVIOUS
  <2>2. Append(Upto(0), Right(1)) = Upto(1)
    BY <1>3, <2>1
  <2>3. Append(<<>>, Right(1)) = <<Right(1)>>
    OBVIOUS
  <2>4. QED
    BY <2>2, <2>3, <1>2
<1>5. QED
  BY <1>1, <1>2, <1>3, <1>4

\* The ids run on as long as there are no more of them than calls.
LEMMA NextIdFact ==
  /\ \A i \in 0..IdMax : NextId(i) \in 1..IdMax
  /\ \A i \in 0..IdMax - 1 : NextId(i) = i + 1
  BY OffloadAssumption DEF NextId

-----------------------------------------------------------------------------
(***************************************************************************)
(* The job on node 0.                                                      *)
(***************************************************************************)
\* A job node 0 takes is well formed and carries the number it was given.
LEMMA JobTaken ==
  ASSUME NEW id \in 0..MaxPieces, NEW op, NEW n, HostTakes(id, op, n)
  PROVE  JobOnNode0' /\ k0'.id = id
<1>1. k0' = [NoJob EXCEPT !.at = "go", !.op = op, !.n = -1, !.id = id]
      \/ k0' = [NoJob EXCEPT !.at = "go", !.op = op, !.n = n, !.in0 = Newest(heap'), !.id = id]
  BY DEF HostTakes
<1>2. QED
  BY <1>1 DEF NoJob, JobOnNode0, Statuses

\* A rebooted node 0 has no job.
LEMMA JobNone ==
  ASSUME k0' = NoJob
  PROVE  JobOnNode0' /\ k0'.id = 0
  BY OffloadAssumption DEF NoJob, JobOnNode0, Statuses

\* A kernel changes where the job is and its status.
LEMMA KernelJob ==
  ASSUME Kernel
  PROVE  k0' = k0 \/ \E st \in {"OK", "FAILED", "BADREQ"} : k0' = [k0 EXCEPT !.at = "end", !.st = st]
<1>1. CASE Echo \/ BadReq
  BY <1>1 DEF Echo, BadReq, Result
<1>2. CASE \E n \in Asks : JpegMalloc(n) \/ LhaStarts(n) \/ LhaMalloc(n) \/ BcMalloc(n)
  BY <1>2 DEF JpegMalloc, LhaStarts, LhaMalloc, BcMalloc, Result
<1>3. CASE \E p \in ker.held : JpegFree(p) \/ PsFree(p)
  BY <1>3 DEF JpegFree, PsFree
<1>4. CASE \E p \in Range(ker.blks) : BcFree(p) \/ (\E n \in Asks : BcRealloc(p, n))
  BY <1>4 DEF BcFree, BcRealloc
<1>5. CASE PsNode
  BY <1>5 DEF PsNode
<1>6. CASE \E st \in {"OK", "FAILED"} : JpegEnds(st) \/ LhaEnds(st) \/ BcEnds(st) \/ PsEnds(st)
  BY <1>6 DEF JpegEnds, LhaEnds, BcEnds, PsEnds, Result
<1>7. QED
  BY <1>1, <1>2, <1>3, <1>4, <1>5, <1>6 DEF Kernel

\* The job on node 0 keeps its number while it runs.
LEMMA JobRuns ==
  ASSUME JobOnNode0, HeapStep
  PROVE  JobOnNode0' /\ k0'.id = k0.id
<1>1. CASE Work0Starts
  <2>1. \/ k0' = [k0 EXCEPT !.at = "kernel", !.rep0 = k0.in0]
        \/ k0' = [k0 EXCEPT !.at = "end", !.rep0 = ERR0, !.st = "TOOBIG"]
        \/ k0' = [k0 EXCEPT !.at = "kernel", !.rep0 = Newest(heap')]
    BY <1>1 DEF Work0Starts
  <2>2. QED
    BY <2>1 DEF JobOnNode0, Statuses
<1>2. CASE Kernel
  BY <1>2, KernelJob DEF JobOnNode0, Statuses
<1>3. CASE Work0Ends
  <2>1. k0' = [k0 EXCEPT !.at = "reply", !.in0 = NULL]
    BY <1>3 DEF Work0Ends
  <2>2. QED
    BY <2>1 DEF JobOnNode0, Statuses
<1>4. QED
  BY <1>1, <1>2, <1>3 DEF HeapStep

-----------------------------------------------------------------------------
(***************************************************************************)
(* The steps, by what they leave alone.                                    *)
(***************************************************************************)
\* A program other than tgzip and Dropbear begins, or refuses its arguments.
Begins ==
  /\ cli.at = "start" /\ cli.prog \notin {"tgzip", "ssh"}
  /\ Quits(1) \/ \E l \in {"call", "cpu", "stock"} \cap PlacesOf(cli.prog) : Begin(l)
  /\ UNCHANGED trouble \/ Trouble
  /\ UNCHANGED file /\ FrontEnd

TgzipStep ==
  TgzipFails \/ \E b \in BOOLEAN : TgzipOpens(b) \/ TgzipUnlinks(b) \/ TgzipReads(b) \/ TgzipWrites(b) \/ TgzipCloses(b)

\* What the program does without ttjobd.
LocalStep ==
  \/ CallDirect \/ CallPipe \/ DirectBoots \/ DirectHangs \/ DirectReads \/ OnCpu \/ Kill
  \/ Begins \/ TgzipStep \/ FilterWrites \/ FilterFails \/ JpegFallsBack \/ JpegWrites \/ Stock \/ SshCalls \/ LeaseEnds

\* What it does in libttjob.
LibStep == TakeOne \/ ReadBlocks \/ WaitLost \/ WaitTimeout \/ Call \/ CallBlocks \/ \E fits \in BOOLEAN : Collect(fits)

\* What the card and the daemon do.
AwayStep ==
  \/ Daemon
  \/ \E words \in {<<"fail">>, <<"0">>, <<"n", "adler", "body">>, <<"n", "adler", "damaged">>, <<"n">>} : T4servAnswers(words)

\* Every front end but tgzip and Dropbear begins with one call, or refuses.
LEMMA BeginsFact ==
  ASSUME NEW w \in BOOLEAN, Tppmquant(w) \/ Tpnmscale(w) \/ Tgiftopnm(w) \/ Tpnmtopng(w) \/ Tbc(w) \/ Djpeg(w) \/ Cjpeg(w) \/ LeaseAsks
  PROVE  Begins
<1> USE DEF Begins, Start, Reads, Refuses
<1>1. CASE Tppmquant(w)
  <2>1. cli.prog = "tppmquant"
    BY <1>1 DEF Tppmquant
  <2>2. {"call", "cpu"} \subseteq PlacesOf(cli.prog)
    BY <2>1 DEF PlacesOf, Filters, InCall
  <2>3. QED
    BY <1>1, <2>1, <2>2 DEF Tppmquant
<1>2. CASE Tpnmscale(w)
  <2>1. cli.prog = "tpnmscale"
    BY <1>2 DEF Tpnmscale
  <2>2. {"call", "cpu"} \subseteq PlacesOf(cli.prog)
    BY <2>1 DEF PlacesOf, Filters, InCall
  <2>3. QED
    BY <1>2, <2>1, <2>2 DEF Tpnmscale
<1>3. CASE Tgiftopnm(w)
  <2>1. cli.prog = "tgiftopnm"
    BY <1>3 DEF Tgiftopnm
  <2>2. {"call", "cpu"} \subseteq PlacesOf(cli.prog)
    BY <2>1 DEF PlacesOf, Filters, InCall
  <2>3. QED
    BY <1>3, <2>1, <2>2 DEF Tgiftopnm
<1>4. CASE Tpnmtopng(w)
  <2>1. cli.prog = "tpnmtopng"
    BY <1>4 DEF Tpnmtopng
  <2>2. {"call", "cpu"} \subseteq PlacesOf(cli.prog)
    BY <2>1 DEF PlacesOf, Filters, InCall
  <2>3. QED
    BY <1>4, <2>1, <2>2 DEF Tpnmtopng
<1>5. CASE Tbc(w)
  <2>1. cli.prog = "tbc"
    BY <1>5 DEF Tbc
  <2>2. {"call", "cpu"} \subseteq PlacesOf(cli.prog)
    BY <2>1 DEF PlacesOf, Filters, InCall
  <2>3. QED
    BY <1>5, <2>1, <2>2 DEF Tbc
<1>6. CASE Djpeg(w) \/ Cjpeg(w)
  <2>1. cli.prog \in Jpegs
    BY <1>6 DEF Djpeg, Cjpeg, JpegFrontEnd, Jpegs
  <2>2. {"call", "stock"} \subseteq PlacesOf(cli.prog)
    BY <2>1 DEF PlacesOf, Filters, Jpegs, InCall
  <2>3. cli.prog \notin {"tgzip", "ssh"}
    BY <2>1 DEF Jpegs
  <2>4. QED
    BY <1>6, <2>2, <2>3 DEF Djpeg, Cjpeg, JpegFrontEnd
<1>7. CASE LeaseAsks
  <2>1. cli.prog = "ttlease"
    BY <1>7 DEF LeaseAsks
  <2>2. "call" \in PlacesOf(cli.prog)
    BY <2>1 DEF PlacesOf, Filters, Jpegs, InCall
  <2>3. QED
    BY <1>7, <2>1, <2>2 DEF LeaseAsks
<1>8. QED
  BY <1>1, <1>2, <1>3, <1>4, <1>5, <1>6, <1>7

\* Every step is libttjob's, the program's own, or the daemon's and the card's.
LEMMA StepCases == Next => LibStep \/ LocalStep \/ AwayStep
  BY BeginsFact DEF Next, Client, LibStep, LocalStep, AwayStep, TgzipStep

\* The daemon and the card touch neither the program nor its files.
LEMMA AwayQuiet == AwayStep => UNCHANGED <<lib, cli, file>>
<1>1. ASSUME NEW r \in srv.pend, Node0Takes(r) \/ LeaseReplies(r) \/ (\E st \in {"OK", "BADOP"} : TramReplies(r, st))
      PROVE  UNCHANGED <<lib, cli, file>>
  BY <1>1 DEF Node0Takes, LeaseReplies, TramReplies, DaemonStep
<1>2. ASSUME NEW op, NEW n, Node0TakesOther(op, n)
      PROVE  UNCHANGED <<lib, cli, file>>
  BY <1>2 DEF Node0TakesOther, DaemonStep
<1>3. ASSUME NEW whole, Node0Replies(whole)
      PROVE  UNCHANGED <<lib, cli, file>>
  BY <1>3 DEF Node0Replies, DaemonStep
<1>4. Node0Works \/ CardFails \/ DaemonHangs \/ DaemonDies \/ DaemonStarts \/ ClientGone => UNCHANGED <<lib, cli, file>>
  BY DEF Node0Works, CardFails, DaemonHangs, DaemonDies, DaemonStarts, ClientGone, DaemonStep
<1>5. ASSUME NEW words, T4servAnswers(words)
      PROVE  UNCHANGED <<lib, cli, file>>
  BY <1>5 DEF T4servAnswers
<1>6. QED
  BY <1>1, <1>2, <1>3, <1>4, <1>5 DEF AwayStep, Daemon

\* What the program does without ttjobd leaves the connection, the requests and node 0.
LEMMA LocalQuiet ==
  ASSUME LocalStep
  PROVE  UNCHANGED <<net, srv, k0, others>>
<1>1. CallDirect \/ CallPipe \/ DirectBoots \/ DirectHangs \/ DirectReads \/ OnCpu => UNCHANGED <<net, srv, k0, others>>
  BY DEF CallDirect, CallPipe, DirectBoots, DirectHangs, DirectReads, OnCpu, card
<1>2. Kill \/ Begins \/ FilterWrites \/ FilterFails \/ JpegFallsBack \/ JpegWrites \/ SshCalls \/ LeaseEnds => UNCHANGED <<net, srv, k0, others>>
  BY DEF Kill, Begins, FilterWrites, FilterFails, JpegFallsBack, JpegWrites, SshCalls, LeaseEnds, FrontEnd, card
<1>3. Stock => UNCHANGED <<net, srv, k0, others>>
  BY DEF Stock, FrontEnd, card
<1>4. TgzipStep => UNCHANGED <<net, srv, k0, others>>
  BY DEF TgzipStep, TgzipFails, TgzipOpens, TgzipUnlinks, TgzipReads, TgzipWrites, TgzipCloses, FrontEnd, card
<1>5. QED
  BY <1>1, <1>2, <1>3, <1>4 DEF LocalStep

-----------------------------------------------------------------------------
(***************************************************************************)
(* Types.                                                                  *)
(***************************************************************************)
\* The values written are results and texts.
LEMMA ResultsFact ==
  /\ Nothing \in Results
  /\ \A i \in 0..MaxPieces : Right(i) \in Results
  /\ \A i \in 0..MaxPieces, w \in BOOLEAN : [of |-> i, whole |-> w] \in Results
  /\ NoFile \in Texts /\ OldFile \in Texts /\ <<>> \in Texts
  /\ Results \subseteq [of : Int, whole : BOOLEAN]
<1>1. 0 \in 0..MaxPieces
  BY OffloadAssumption
<1>2. [of |-> -1, whole |-> FALSE] \in [of : Int, whole : BOOLEAN] /\ [of |-> -2, whole |-> TRUE] \in [of : Int, whole : BOOLEAN]
  OBVIOUS
<1>3. NoFile \in Texts /\ OldFile \in Texts
  BY <1>2 DEF NoFile, OldFile, Texts
<1>4. QED
  BY <1>1, <1>3 DEF Nothing, Right, Results, Texts

\* The check of a damaged reply changes its status only.
LEMMA CheckedFact ==
  ASSUME NEW r \in Answers
  PROVE  /\ Checked(r) \in Answers /\ Checked(r).id = r.id /\ Checked(r).data = r.data
         /\ Checked(r).st = "OK" => r.st = "OK" /\ r.data.whole
  BY DEF Checked, Answers, Statuses

\* Every non-empty set of naturals has a least element.
LEMMA LeastNatural ==
  ASSUME NEW T, T \subseteq Nat, T # {}
  PROVE  \E x \in T : \A y \in T : x <= y
<1>1. IsWellFoundedOn(OpToRel(<, Nat), Nat)
  BY NatLessThanWellFounded
<1>2. \A x, y \in Nat : y < x => <<y, x>> \in OpToRel(<, Nat)
  BY DEF OpToRel
<1>3. PICK L : IsWellFoundedOn(L, Nat) /\ \A x, y \in Nat : y < x => <<y, x>> \in L
  BY <1>1, <1>2
<1>4. PICK x \in T : \A y \in T : ~(<<y, x>> \in L)
  BY <1>3, WFMin
<1>5. \A y \in T : ~(y < x)
  BY <1>3, <1>4
<1>6. QED
  BY <1>5

\* The reply collected is one of those kept, and answers the id waited for.
LEMMA CollectFact ==
  ASSUME Types, NEW fits, Collect(fits)
  PROVE  \E i \in DOMAIN lib.got :
           /\ lib.got[i].id = cli.id
           /\ lib' = [lib EXCEPT !.got = RemoveAt(@, i)]
           /\ cli' = IF lib.got[i].st = "OK" /\ fits
                       THEN [cli EXCEPT !.at = IF cli.prog = "ttlease" THEN "runs" ELSE "have", !.data = lib.got[i].data]
                       ELSE Downs
<1> DEFINE i == CHOOSE j \in Mine : \A m \in Mine : j <= m
<1>1. Mine # {} /\ Mine \subseteq Nat
  BY DEF Collect, Mine, Types, Libs
<1>2. i \in Mine
  BY <1>1, LeastNatural
<1>3. /\ lib' = [lib EXCEPT !.got = RemoveAt(@, i)]
      /\ cli' = IF lib.got[i].st = "OK" /\ fits
                  THEN [cli EXCEPT !.at = IF cli.prog = "ttlease" THEN "runs" ELSE "have", !.data = lib.got[i].data]
                  ELSE Downs
  BY DEF Collect
<1> HIDE DEF i
<1>4. i \in DOMAIN lib.got /\ lib.got[i].id = cli.id
  BY <1>2 DEF Mine, Found
<1>5. QED
  BY <1>3, <1>4

\* Giving up a call leads to the 68030, or ends ttlease.
LEMMA DownsFact ==
  ASSUME Types
  PROVE  Downs \in Programs
<1> DEFINE l == IF cli.prog = "ttlease" THEN "end" ELSE "cpu"
           rc == IF cli.prog = "ttlease" THEN 3 ELSE cli.rc
           off == cli.off \/ cli.prog # "ssh"
<1>1. cli \in Programs
  BY DEF Types
<1>2. l \in Places /\ rc \in Int
  BY <1>1 DEF Places, InCall, Ended, Programs
<1>3. off \in BOOLEAN
  OBVIOUS
<1>4. Downs = [cli EXCEPT !.at = l, !.off = off, !.rc = rc]
  BY DEF Downs
<1> HIDE DEF l, rc, off
<1>5. QED
  BY <1>1, <1>2, <1>3, <1>4 DEF Programs

\* libttjob keeps the types.
LEMMA LibTyped ==
  ASSUME Types, LibStep, cli.call >= 1 \/ cli.at # "call"
  PROVE  Types'
<1> USE DEF Types, Libs, Nets, Servers, JobOnNode0
<1>1. CASE TakeOne
  <2>1. Head(net.rep) \in Answers /\ Tail(net.rep) \in Seq(Answers)
    BY <1>1, TailFact DEF TakeOne
  <2>2. <<Checked(Head(net.rep))>> \o lib.got \in Seq(Answers)
    BY <2>1, CheckedFact, ConsFact
  <2>3. QED
    BY <1>1, <2>1, <2>2 DEF TakeOne, card
<1>2. CASE WaitLost
  <2>1. cli' \in Programs
    BY <1>2, DownsFact DEF WaitLost
  <2>2. IsFiniteSet({})
    BY FS_EmptySet
  <2>3. trouble' \in 0..MaxTrouble
    BY <1>2, OffloadAssumption DEF WaitLost, Trouble
  <2>4. lib' \in Libs
    BY <1>2 DEF WaitLost, Lost
  <2>5. net' = net \/ net' = [net EXCEPT !.alive = FALSE, !.rep = <<>>]
    BY <1>2 DEF WaitLost
  <2>6. <<>> \in Seq(Answers)
    OBVIOUS
  <2>7. net' \in Nets
    BY <2>5, <2>6
  <2>8. srv' \in Servers /\ srv'.pend = {}
    BY <1>2 DEF WaitLost
  <2>9. QED
    BY <1>2, <2>1, <2>2, <2>3, <2>4, <2>7, <2>8 DEF WaitLost, card
<1>3. CASE WaitTimeout
  BY <1>3, DownsFact DEF WaitTimeout, card
<1>4. CASE Call
  <2>1. NextId(lib.lastid) \in 1..IdMax
    BY NextIdFact
  <2>2. cli' \in Programs
    <3>1. cli' = [cli EXCEPT !.at = "wait", !.id = NextId(lib.lastid)]
      BY <1>4 DEF Call, Submits
    <3>2. "wait" \in Places /\ NextId(lib.lastid) \in 0..IdMax
      BY <2>1 DEF Places, InCall
    <3>3. QED
      BY <3>1, <3>2 DEF Programs
  <2>3. [id |-> NextId(lib.lastid), of |-> cli.call] \in Requests
    <3>1. cli.call \in 1..MaxPieces
      BY <1>4 DEF Call, Programs
    <3>2. QED
      BY <2>1, <3>1 DEF Requests
  <2>4. srv' \in Servers /\ srv'.pend = srv.pend \cup {[id |-> NextId(lib.lastid), of |-> cli.call]}
    BY <1>4, <2>3 DEF Call, Submits
  <2>5. IsFiniteSet(srv'.pend)
    <3>1. IsFiniteSet(srv.pend)
      OBVIOUS
    <3>2. \A q : IsFiniteSet(srv.pend \cup {q})
      BY ONLY <3>1, FS_AddElement
    <3>3. QED
      BY ONLY <2>4, <3>2
  <2>6. lib' \in Libs /\ net' \in Nets
    <3>1. /\ lib' = [lib EXCEPT !.fd = TRUE, !.lastid = NextId(@)]
          /\ net' = net \/ net' = Connected
      BY <1>4 DEF Call, Submits
    <3>2. <<>> \in Seq(Answers) /\ NextId(lib.lastid) \in 0..IdMax
      BY <2>1
    <3>3. lib' \in Libs
      <4>1. PICK k \in 0..IdMax : lib' = [lib EXCEPT !.fd = TRUE, !.lastid = k]
        BY <3>1, <3>2
      <4>2. lib \in Libs
        OBVIOUS
      <4>3. QED
        BY ONLY <4>1, <4>2 DEF Libs
    <3>4. Connected \in Nets
      BY ONLY <3>2 DEF Nets, Connected
    <3>5. net \in Nets
      OBVIOUS
    <3>6. net' \in Nets
      BY ONLY <3>1, <3>4, <3>5
    <3>7. QED
      BY <3>3, <3>6
  <2>7. QED
    BY <1>4, <2>2, <2>4, <2>5, <2>6 DEF Call, card
<1>5. ASSUME NEW fits \in BOOLEAN, Collect(fits)
      PROVE  Types'
  <2>1. PICK i \in DOMAIN lib.got :
           /\ lib' = [lib EXCEPT !.got = RemoveAt(@, i)]
           /\ cli' = IF lib.got[i].st = "OK" /\ fits
                       THEN [cli EXCEPT !.at = IF cli.prog = "ttlease" THEN "runs" ELSE "have", !.data = lib.got[i].data]
                       ELSE Downs
    BY <1>5, CollectFact
  <2>2. lib' \in Libs
    BY <2>1, RemoveFact
  <2>3. lib.got[i].data \in Results
    <3>1. lib.got \in Seq(Answers)
      OBVIOUS
    <3>2. lib.got[i] \in Answers
      BY ONLY <3>1, i \in DOMAIN lib.got, ElementOfSeq
    <3>3. QED
      BY <3>2 DEF Answers
  <2>4. cli' \in Programs
    BY <2>1, <2>3, DownsFact DEF Programs, Places, InCall
  <2>5. QED
    BY <1>5, <2>2, <2>4 DEF Collect, card
<1>6. CASE ReadBlocks
  <2>1. cli' \in Programs
    BY <1>6 DEF ReadBlocks, At, Programs, Places, InCall
  <2>2. QED
    BY <1>6, <2>1 DEF ReadBlocks, card
<1>7. CASE CallBlocks
  <2>1. cli' \in Programs
    BY <1>7 DEF CallBlocks, At, Programs, Places, InCall
  <2>2. NextId(lib.lastid) \in 0..IdMax
    BY NextIdFact
  <2>3. Connected \in Nets
    BY DEF Connected
  <2>4. lib' \in Libs /\ net' \in Nets
    BY <1>7, <2>2, <2>3 DEF CallBlocks
  <2>5. QED
    BY <1>7, <2>1, <2>4 DEF CallBlocks, card
<1>8. QED
  BY <1>1, <1>2, <1>3, <1>4, <1>5, <1>6, <1>7 DEF LibStep

\* The program closes its connection at most, and every step counts at most one fault.
LEMMA LocalLib ==
  ASSUME LocalStep
  PROVE  (lib' = lib \/ lib' = Lost) /\ (UNCHANGED trouble \/ Trouble)
<1>1. CallDirect \/ CallPipe \/ DirectBoots \/ DirectHangs \/ DirectReads \/ OnCpu => (lib' = lib \/ lib' = Lost) /\ (UNCHANGED trouble \/ Trouble)
  BY DEF CallDirect, SubmitFails, CallPipe, DirectBoots, DirectHangs, DirectReads, OnCpu
<1>2. Kill \/ Begins \/ FilterWrites \/ FilterFails \/ JpegFallsBack \/ JpegWrites \/ SshCalls \/ LeaseEnds
         => lib' = lib /\ (UNCHANGED trouble \/ Trouble)
  BY DEF Kill, Begins, FilterWrites, FilterFails, JpegFallsBack, JpegWrites, SshCalls, LeaseEnds, FrontEnd
<1>3. Stock => lib' = lib /\ (UNCHANGED trouble \/ Trouble)
  BY DEF Stock, FrontEnd
<1>4. TgzipStep => lib' = lib /\ (UNCHANGED trouble \/ Trouble)
  BY DEF TgzipStep, TgzipFails, TgzipOpens, TgzipUnlinks, TgzipReads, TgzipWrites, TgzipCloses, FrontEnd
<1>5. QED
  BY <1>1, <1>2, <1>3, <1>4 DEF LocalStep

\* The program moves on, may count a call, and may take a result in hand.
LEMMA ProgramMoves ==
  ASSUME cli \in Programs, NEW l \in Places
  PROVE  /\ [cli EXCEPT !.at = l] \in Programs
         /\ \A rc \in Int : [cli EXCEPT !.at = l, !.rc = rc] \in Programs
         /\ \A d \in Results : [cli EXCEPT !.at = l, !.data = d] \in Programs
         /\ [cli EXCEPT !.at = l, !.call = 1] \in Programs
         /\ \A b \in BOOLEAN : [cli EXCEPT !.at = l, !.off = b] \in Programs
         /\ \A b \in BOOLEAN : [cli EXCEPT !.at = l, !.tj = b] \in Programs
         /\ \A b \in BOOLEAN : [cli EXCEPT !.at = l, !.lock = b] \in Programs
         /\ \A b, c \in BOOLEAN : [cli EXCEPT !.at = l, !.off = b, !.lock = c] \in Programs
         /\ \A b \in BOOLEAN : [cli EXCEPT !.at = l, !.t4off = b] \in Programs
<1>1. 1 \in 0..MaxPieces
  BY OffloadAssumption
<1>2. QED
  BY <1>1 DEF Programs

\* What the programs write to their files.
LEMMA FileKept ==
  ASSUME file \in Disks
  PROVE  /\ \A t \in Texts : [file EXCEPT !.out = t] \in Disks
         /\ \A t \in Texts, b \in BOOLEAN : [file EXCEPT !.dst = t, !.open = b] \in Disks
         /\ \A t \in Texts : [file EXCEPT !.dst = t] \in Disks
         /\ \A b \in BOOLEAN : [file EXCEPT !.input = b] \in Disks
         /\ \A d \in Results : Append(file.out, d) \in Texts /\ <<d>> \in Texts
         /\ \A p \in Prefixes(file.out) : p \in Texts
         /\ file.out \in Texts /\ file.dst \in Texts
<1>1. file.out \in Seq([of : Int, whole : BOOLEAN])
  BY DEF Disks, Texts
<1>2. \A d \in Results : Append(file.out, d) \in Texts /\ <<d>> \in Texts
  BY <1>1, ResultsFact, AppendFact DEF Texts
<1>3. \A p \in Prefixes(file.out) : p \in Texts
  BY <1>1, PrefixFact DEF Texts
<1>4. QED
  BY <1>2, <1>3 DEF Disks

\* A kill leaves a prefix on disk.
LEMMA KillTypes ==
  ASSUME file \in Disks, file' \in {[file EXCEPT !.dst = IF file.open THEN p ELSE @] : p \in Prefixes(file.out)}
  PROVE  file' \in Disks
<1>1. PICK p \in Prefixes(file.out) : file' = [file EXCEPT !.dst = IF file.open THEN p ELSE file.dst]
  OBVIOUS
<1>2. (IF file.open THEN p ELSE file.dst) \in Texts
  BY FileKept
<1>3. QED
  BY <1>1, <1>2, FileKept

\* The link itself, the 68030 and a death keep the types of program and files.
LEMMA DirectTyped ==
  ASSUME Types, Placed, CallDirect \/ CallPipe \/ DirectBoots \/ DirectHangs \/ DirectReads \/ OnCpu \/ Kill
  PROVE  cli' \in Programs /\ file' \in Disks
<1>1. cli \in Programs /\ file \in Disks
  BY DEF Types
<1>2. {"runs", "cpu", "boot", "dead", "sent", "trap", "have", "failed"} \subseteq Places
  BY DEF Places, InCall, Ended
<1>3. CASE CallDirect
  <2>1. \/ cli' = [cli EXCEPT !.at = "runs"]
        \/ cli' = [cli EXCEPT !.at = "cpu", !.tj = FALSE]
        \/ cli' = [cli EXCEPT !.at = "boot", !.tj = FALSE]
    BY <1>3 DEF CallDirect
  <2>2. QED
    BY <1>3, <2>1, <1>1, <1>2, ProgramMoves DEF CallDirect
<1>4. CASE CallPipe
  BY <1>4, <1>1, <1>2, ProgramMoves, KillTypes DEF CallPipe, At
<1>5. CASE DirectBoots
  <2>1. cli.lock \in BOOLEAN
    BY <1>1 DEF Programs
  <2>2. \/ cli' = [cli EXCEPT !.at = "sent", !.lock = TRUE]
        \/ cli' = [cli EXCEPT !.at = "cpu", !.off = TRUE]
        \/ \E b \in BOOLEAN : cli' = [cli EXCEPT !.at = "cpu", !.off = TRUE, !.lock = b]
    BY <1>5, <2>1 DEF DirectBoots
  <2>3. cli' \in Programs
    <3>1. CASE cli' = [cli EXCEPT !.at = "sent", !.lock = TRUE]
      BY <3>1, <1>1, <1>2 DEF Programs
    <3>2. CASE cli' = [cli EXCEPT !.at = "cpu", !.off = TRUE]
      BY <3>2, <1>1, <1>2 DEF Programs
    <3>3. CASE \E b \in BOOLEAN : cli' = [cli EXCEPT !.at = "cpu", !.off = TRUE, !.lock = b]
      <4>1. PICK b \in BOOLEAN : cli' = [cli EXCEPT !.at = "cpu", !.off = TRUE, !.lock = b]
        BY <3>3
      <4>2. QED
        BY <4>1, <1>1, <1>2 DEF Programs
    <3>4. QED
      BY <2>2, <3>1, <3>2, <3>3
  <2>4. QED
    BY <1>5, <2>3, <1>1 DEF DirectBoots
<1>6. CASE DirectReads
  <2>1. [of |-> cli.call, whole |-> link[3] = "body"] \in Results
    BY <1>1 DEF Programs, Results
  <2>2. \/ \E d \in Results : cli' = [cli EXCEPT !.at = "have", !.data = d]
        \/ cli' = [cli EXCEPT !.at = "cpu", !.off = TRUE]
    BY <1>6, <2>1 DEF DirectReads
  <2>3. cli' \in Programs
    <3>1. CASE \E d \in Results : cli' = [cli EXCEPT !.at = "have", !.data = d]
      <4>1. PICK d \in Results : cli' = [cli EXCEPT !.at = "have", !.data = d]
        BY <3>1
      <4>2. QED
        BY <4>1, <1>1, <1>2 DEF Programs
    <3>2. CASE cli' = [cli EXCEPT !.at = "cpu", !.off = TRUE]
      BY <3>2, <1>1, <1>2 DEF Programs
    <3>3. QED
      BY <2>2, <3>1, <3>2
  <2>4. QED
    BY <1>6, <2>3, <1>1 DEF DirectReads
<1>7. CASE OnCpu
  <2>1. Right(cli.call) \in Results
    BY <1>1, ResultsFact DEF Programs
  <2>2. cli' = [cli EXCEPT !.at = "have", !.data = Right(cli.call)] \/ cli' = [cli EXCEPT !.at = "failed"]
    BY <1>7 DEF OnCpu, At
  <2>3. cli' \in Programs
    BY <2>1, <2>2, <1>1, <1>2 DEF Programs
  <2>4. QED
    BY <1>7, <2>3, <1>1 DEF OnCpu
<1>8. CASE Kill
  BY <1>8, <1>1, <1>2, ProgramMoves, KillTypes DEF Kill, At
<1>10. CASE DirectHangs
  BY <1>10, <1>1, <1>2, ProgramMoves DEF DirectHangs
<1>9. QED
  BY <1>3, <1>4, <1>5, <1>6, <1>7, <1>8, <1>10

\* tgzip keeps the types of program and files.
LEMMA TgzipTyped ==
  ASSUME Types, Placed, TgzipStep
  PROVE  cli' \in Programs /\ file' \in Disks
<1>1. cli \in Programs /\ file \in Disks
  BY DEF Types
<1>2. {"end", "read", "eof", "cpu", "call", "failed", "done"} \subseteq Places
  BY DEF Places, InCall, Ended
<1>3. CASE TgzipFails
  <2>1. cli' = [cli EXCEPT !.at = "end", !.rc = 1] /\ file' = [file EXCEPT !.dst = NoFile, !.open = FALSE]
    BY <1>3 DEF TgzipFails, Quits
  <2>2. NoFile \in Texts
    BY ResultsFact
  <2>3. cli' \in Programs
    <3>0. {"end"} \subseteq Places /\ 1 \in Int
      BY <1>2
    <3>1. PICK l \in Places, rc \in Int : cli' = [cli EXCEPT !.at = l, !.rc = rc]
      BY ONLY <2>1, <3>0, Zenon
    <3>2. QED
      BY <3>1, <1>1 DEF Programs
  <2>4. file' \in Disks
    BY <2>1, <2>2, <1>1 DEF Disks
  <2>5. QED
    BY <2>3, <2>4
<1>4. ASSUME NEW b \in BOOLEAN, TgzipOpens(b)
      PROVE  cli' \in Programs /\ file' \in Disks
  <2>1. \/ cli' = [cli EXCEPT !.at = "end", !.rc = 1] /\ file' = file
        \/ cli' = [cli EXCEPT !.at = "read"] /\ file' = [file EXCEPT !.dst = <<>>, !.open = TRUE]
    BY <1>4 DEF TgzipOpens, Quits, At
  <2>2. <<>> \in Texts
    BY ResultsFact
  <2>3. cli' \in Programs
    <3>0. {"end", "read"} \subseteq Places /\ 1 \in Int
      BY <1>2
    <3>1. PICK l \in Places, rc \in Int : cli' = [cli EXCEPT !.at = l, !.rc = rc] \/ cli' = [cli EXCEPT !.at = l]
      BY ONLY <2>1, <3>0, Zenon
    <3>2. QED
      BY <3>1, <1>1 DEF Programs
  <2>4. file' \in Disks
    BY <2>1, <2>2, <1>1 DEF Disks
  <2>5. QED
    BY <2>3, <2>4
<1>5. ASSUME NEW b \in BOOLEAN, TgzipUnlinks(b)
      PROVE  cli' \in Programs /\ file' \in Disks
  <2>1. cli' = [cli EXCEPT !.at = "end", !.rc = 0] /\ file' = [file EXCEPT !.input = b]
    BY <1>5 DEF TgzipUnlinks, Quits
  <2>2. cli' \in Programs
    <3>0. {"end"} \subseteq Places /\ 0 \in Int
      BY <1>2
    <3>1. PICK l \in Places, rc \in Int : cli' = [cli EXCEPT !.at = l, !.rc = rc]
      BY ONLY <2>1, <3>0, Zenon
    <3>2. QED
      BY <3>1, <1>1 DEF Programs
  <2>3. file' \in Disks
    BY <2>1, <1>1 DEF Disks
  <2>4. QED
    BY <2>2, <2>3
<1>6. ASSUME NEW b \in BOOLEAN, TgzipReads(b)
      PROVE  cli' \in Programs /\ file' \in Disks
  <2>1. CASE cli.call = cli.pieces
    BY <1>6, <2>1, <1>1, <1>2, ProgramMoves DEF TgzipReads, At
  <2>2. CASE cli.call # cli.pieces
    <3> cli.call <= cli.pieces
      BY DEF Placed
    <3> cli.call \in 0..MaxPieces /\ cli.pieces \in 1..MaxPieces
      BY <1>1 DEF Programs
    <3>1. cli.call + 1 \in 0..MaxPieces
      BY <2>2, OffloadAssumption
    <3>2. PICK l \in {"cpu", "call"} : cli' = [cli EXCEPT !.call = cli.call + 1, !.err = b, !.at = l]
      BY <1>6, <2>2 DEF TgzipReads
    <3>3. cli' \in Programs
      BY <3>1, <3>2, <1>1, <1>2 DEF Programs
    <3>4. QED
      BY <1>6, <3>3, <1>1 DEF TgzipReads
  <2>3. QED
    BY <2>1, <2>2
<1>7. ASSUME NEW b \in BOOLEAN, TgzipWrites(b)
      PROVE  cli' \in Programs /\ file' \in Disks
  <2>1. cli.data \in Results
    BY <1>1 DEF Programs
  <2>2. CASE cli' = [cli EXCEPT !.at = IF b THEN "eof" ELSE "read", !.t4off = @ \/ cli.off]
    <3>1. PICK l \in {"eof", "read"}, t \in BOOLEAN : cli' = [cli EXCEPT !.at = l, !.t4off = t]
      BY <2>2
    <3>2. file' = file \/ file' = [file EXCEPT !.out = Append(file.out, cli.data)]
      BY <1>7 DEF TgzipWrites
    <3>3. QED
      BY <2>1, <3>1, <3>2, <1>1, <1>2, ProgramMoves, FileKept
  <2>3. CASE At("failed") /\ UNCHANGED file
    BY <2>3, <1>1, <1>2, ProgramMoves DEF At
  <2>4. QED
    BY <1>7, <2>2, <2>3 DEF TgzipWrites
<1>8. ASSUME NEW b \in BOOLEAN, TgzipCloses(b)
      PROVE  cli' \in Programs /\ file' \in Disks
  <2>1. cli' \in Programs
    BY <1>8, <1>1, <1>2, ProgramMoves DEF TgzipCloses, At
  <2>2. PICK p \in Prefixes(file.out) \cup {file.out} : file' = [file EXCEPT !.dst = p, !.open = FALSE]
    BY <1>8 DEF TgzipCloses, StrictPrefixes
  <2>3. QED
    BY <2>1, <2>2, <1>1, FileKept
<1>9. QED
  BY <1>3, <1>4, <1>5, <1>6, <1>7, <1>8 DEF TgzipStep

\* An exit status is a number.
LEMMA QuitsTyped ==
  ASSUME cli \in Programs, NEW rc \in Int, Quits(rc)
  PROVE  cli' \in Programs
<1>1. "end" \in Places
  BY DEF Places, Ended
<1>2. cli' = [cli EXCEPT !.at = "end", !.rc = rc]
  BY DEF Quits
<1>3. QED
  BY <1>1, <1>2 DEF Programs

\* The filters, the libjpeg front ends, Dropbear and ttlease keep the types of program and files.
LEMMA FilterTyped ==
  ASSUME Types, Placed, Begins \/ FilterWrites \/ FilterFails \/ JpegFallsBack \/ JpegWrites \/ Stock \/ SshCalls \/ LeaseEnds
  PROVE  cli' \in Programs /\ file' \in Disks
<1>1. cli \in Programs /\ file \in Disks
  BY DEF Types
<1>2. {"call", "cpu", "stock"} \subseteq Places
  BY DEF Places, InCall
<1>3. cli.data \in Results /\ Right(1) \in Results
  <2>1. 1 \in 0..MaxPieces
    BY OffloadAssumption
  <2>2. QED
    BY <2>1, <1>1, ResultsFact DEF Programs
<1>4. 0 \in Int /\ 1 \in Int
  OBVIOUS
<1>5. \A rc \in {0, 1} : Quits(rc) => cli' \in Programs
  BY <1>1, <1>4, QuitsTyped
<1>6. ASSUME NEW l \in Places, At(l)
      PROVE  cli' \in Programs
  BY <1>1, <1>6 DEF At, Programs
<1>7. \A t \in Texts : file' = [file EXCEPT !.out = t] => file' \in Disks
  BY <1>1, FileKept
<1>8. Append(file.out, cli.data) \in Texts /\ Append(file.out, Right(1)) \in Texts /\ <<cli.data>> \in Texts
  BY <1>1, <1>3, FileKept
<1>9. CASE Begins
  <2>1. file' = file
    BY <1>9 DEF Begins
  <2>2. ASSUME NEW l \in {"call", "cpu", "stock"}, Begin(l)
        PROVE  cli' \in Programs
    <3>1. cli' = [cli EXCEPT !.at = l, !.call = 1] /\ l \in Places
      BY <1>2, <2>2 DEF Begin
    <3>2. [cli EXCEPT !.at = l, !.call = 1] \in Programs
      BY <3>1, <1>1, ProgramMoves
    <3>3. QED
      BY <3>1, <3>2
  <2>3. QED
    BY <1>9, <2>1, <2>2, <1>1, <1>5 DEF Begins
<1>10. CASE FilterWrites
  <2>1. cli' \in Programs
    BY <1>10, <1>5 DEF FilterWrites
  <2>2. file' = file \/ file' = [file EXCEPT !.out = <<cli.data>>]
    BY <1>10 DEF FilterWrites
  <2>3. QED
    BY <2>1, <2>2, <1>1, <1>7, <1>8
<1>11. CASE FilterFails
  BY <1>11, <1>1, <1>5 DEF FilterFails
<1>12. CASE JpegFallsBack
  BY <1>12, <1>1, <1>2, <1>6 DEF JpegFallsBack
<1>13. CASE JpegWrites
  <2>1. cli' \in Programs
    BY <1>13, <1>2, <1>5, <1>6 DEF JpegWrites
  <2>2. file' = file \/ file' = [file EXCEPT !.out = <<cli.data>>]
    BY <1>13 DEF JpegWrites
  <2>3. QED
    BY <2>1, <2>2, <1>1, <1>7, <1>8
<1>14. CASE Stock
  <2>1. cli' \in Programs
    BY <1>14, <1>5 DEF Stock
  <2>2. file' = file \/ file' = [file EXCEPT !.out = Append(file.out, Right(1))]
    BY <1>14 DEF Stock
  <2>3. QED
    BY <2>1, <2>2, <1>1, <1>7, <1>8
<1>15. CASE SshCalls
  <2>1. file' = file \/ file' = [file EXCEPT !.out = Append(file.out, cli.data)]
    BY <1>15 DEF SshCalls
  <2>2. cli' \in Programs
    <3>1. CASE cli.at = "have" /\ cli.call = cli.pieces
      BY <3>1, <1>15, <1>5 DEF SshCalls
    <3>2. CASE ~(cli.at = "have" /\ cli.call = cli.pieces)
      <4>1. cli.call <= cli.pieces /\ (cli.at = "start" => cli.call = 0) /\ cli.at \in {"start", "have"}
        BY <1>15 DEF Placed, SshCalls
      <4>2. cli.call \in 0..MaxPieces /\ cli.pieces \in 1..MaxPieces
        BY <1>1 DEF Programs
      <4>3. cli.call + 1 \in 0..MaxPieces
        BY <3>2, <4>1, <4>2, OffloadAssumption
      <4>4. Nothing \in Results
        BY ResultsFact
      <4>5. PICK c \in 0..MaxPieces, d \in Results : cli' = [cli EXCEPT !.at = "call", !.call = c, !.data = d]
        <5>1. cli' = [cli EXCEPT !.at = "call", !.call = cli.call + 1, !.data = Nothing]
          BY <3>2, <1>15 DEF SshCalls
        <5>2. QED
          BY <4>3, <4>4, <5>1
      <4>6. QED
        BY <4>5, <1>1, <1>2 DEF Programs
    <3>3. QED
      BY <3>1, <3>2
  <2>3. QED
    BY <2>1, <2>2, <1>1, <1>7, <1>8
<1>16. CASE LeaseEnds
  BY <1>16, <1>1, <1>5 DEF LeaseEnds
<1>17. QED
  BY <1>9, <1>10, <1>11, <1>12, <1>13, <1>14, <1>15, <1>16

\* What the program does without ttjobd keeps the types.
LEMMA LocalTyped ==
  ASSUME Types, Placed, LocalStep
  PROVE  Types'
<1>1. cli' \in Programs /\ file' \in Disks
  BY DirectTyped, TgzipTyped, FilterTyped DEF LocalStep
<1>2. lib' \in Libs
  BY LocalLib DEF Types, Lost, Libs
<1>3. trouble' \in 0..MaxTrouble
  BY LocalLib, OffloadAssumption DEF Types, Trouble
<1>4. UNCHANGED <<net, srv, k0, others>>
  BY LocalQuiet
<1>5. QED
  BY <1>1, <1>2, <1>3, <1>4 DEF Types, JobOnNode0

\* The replies to all that was asked, when the card fails.
LEMMA DownFact ==
  ASSUME srv \in Servers, IsFiniteSet(srv.pend), net \in Nets, CardFails
  PROVE  \E t \in Seq(Answers) :
           /\ net' = [net EXCEPT !.rep = @ \o t] /\ Len(t) = Cardinality(srv.pend)
           /\ \A i \in DOMAIN t : t[i].st = "DOWN" /\ \E r \in srv.pend : t[i].id = r.id
<1> DEFINE n == Cardinality(srv.pend)
           s == SetToSeq(srv.pend)
           t == [i \in 1..n |-> [id |-> s[i].id, st |-> "DOWN", data |-> Nothing]]
<1>1. n \in Nat /\ s \in [1..n -> srv.pend] /\ srv.pend \subseteq Requests
  BY ToSeq DEF Servers
<1>2. net' = [net EXCEPT !.rep = @ \o t]
  BY DEF CardFails
<1> HIDE DEF s, n
<1>3. \A i \in 1..n : t[i] \in Answers /\ t[i].st = "DOWN" /\ s[i] \in srv.pend /\ t[i].id = s[i].id
  BY <1>1, ResultsFact DEF Requests, Answers, Statuses
<1>4. t \in Seq(Answers) /\ Len(t) = n /\ DOMAIN t = 1..n
  BY <1>1, <1>3
<1> HIDE DEF t
<1>5. QED
  BY <1>2, <1>3, <1>4 DEF n

-----------------------------------------------------------------------------
(***************************************************************************)
(* What the daemon and the card can do to the connection and the requests. *)
(***************************************************************************)
\* A request is answered; the lease is granted with its answer.
Answers1(r, st, w, lease) ==
  /\ net' = [net EXCEPT !.rep = Append(@, [id |-> r.id, st |-> st, data |-> [of |-> r.of, whole |-> w]])]
  /\ srv' = [srv EXCEPT !.pend = @ \ {r}, !.lease = lease]
  /\ lease = srv.lease \/ lease = TRUE
  /\ cli.prog = "ttlease" /\ k0.id = 0 /\ st = "OK" => lease

\* A daemon that hangs may have stopped in the middle of its replies.
HangResult ==
  /\ srv' = [srv EXCEPT !.hung = TRUE]
  /\ \/ net' = net
     \/ net.alive /\ \E p \in Prefixes(net.rep), h \in BOOLEAN : net' = [alive |-> TRUE, rep |-> p, half |-> h]

AwayResult ==
  \/ net' = net /\ (srv' = srv \/ srv' = [srv EXCEPT !.up = TRUE])
  \/ \E r \in srv.pend, st \in Statuses, w \in BOOLEAN, lease \in BOOLEAN : Answers1(r, st, w, lease)
  \/ /\ srv' = [srv EXCEPT !.pend = {}]
     /\ \E t \in Seq(Answers) :
          /\ net' = [net EXCEPT !.rep = @ \o t] /\ Len(t) = Cardinality(srv.pend)
          /\ \A i \in DOMAIN t : t[i].st = "DOWN" /\ \E r \in srv.pend : t[i].id = r.id
  \/ /\ srv' = [up |-> FALSE, hung |-> FALSE, pend |-> {}, lease |-> FALSE]
     /\ \E p \in Prefixes(net.rep) : net' = [alive |-> FALSE, rep |-> p, half |-> FALSE]
  \/ HangResult
  \/ cli.at \in Ended /\ net' = net /\ srv' = [srv EXCEPT !.pend = {}, !.lease = FALSE]

JobAfter == JobOnNode0' /\ (cli.prog = "ttlease" /\ k0.id = 0 => k0'.id = 0)
Sums == others' \in 0..MaxOther /\ trouble' \in 0..MaxTrouble

\* The counts stay within their bounds.
LEMMA SumsFact ==
  ASSUME Types, others' = others \/ (others < MaxOther /\ others' = others + 1), UNCHANGED trouble \/ Trouble
  PROVE  Sums
  BY OffloadAssumption DEF Types, Trouble, Sums

\* A job left alone stays as it is.
LEMMA JobSame == ASSUME Types, UNCHANGED k0 PROVE JobAfter
  BY DEF Types, JobAfter, JobOnNode0

\* After a boot node 0 has no job of ttlease's.
LEMMA RebootedFact == ASSUME Rebooted PROVE JobAfter
  BY JobNone DEF Rebooted, JobAfter

\* Node 0 takes jobs, works on them and replies.
LEMMA Node0Away ==
  ASSUME Types,
         \/ \E r \in srv.pend : Node0Takes(r)
         \/ \E op \in Kernels, n \in JobSizes : Node0TakesOther(op, n)
         \/ \E whole \in BOOLEAN : Node0Replies(whole)
         \/ Node0Works
  PROVE  AwayResult /\ JobAfter /\ Sums
<1>1. srv \in Servers /\ 0 \in 0..MaxPieces /\ JobOnNode0
  BY OffloadAssumption DEF Types
<1>2. ASSUME NEW r \in srv.pend, Node0Takes(r)
      PROVE  AwayResult /\ JobAfter /\ Sums
  <2>1. r.of \in 0..MaxPieces
    BY <1>1 DEF Servers, Requests
  <2>2. JobOnNode0' /\ cli.prog # "ttlease"
    BY <1>2, <2>1, JobTaken DEF Node0Takes, Asked4Lease
  <2>3. Sums
    BY <1>2, SumsFact DEF Node0Takes
  <2>4. net' = net /\ srv' = srv
    BY <1>2 DEF Node0Takes
  <2>5. QED
    BY <2>2, <2>3, <2>4 DEF AwayResult, JobAfter
<1>3. ASSUME NEW op, NEW n, Node0TakesOther(op, n)
      PROVE  AwayResult /\ JobAfter /\ Sums
  <2>1. JobOnNode0' /\ k0'.id = 0
    BY <1>1, <1>3, JobTaken DEF Node0TakesOther
  <2>2. Sums
    BY <1>3, SumsFact DEF Node0TakesOther
  <2>3. net' = net /\ srv' = srv
    BY <1>3 DEF Node0TakesOther
  <2>4. QED
    BY <2>1, <2>2, <2>3 DEF AwayResult, JobAfter
<1>4. ASSUME NEW whole \in BOOLEAN, Node0Replies(whole)
      PROVE  AwayResult /\ JobAfter /\ Sums
  <2>1. JobAfter
    <3>1. k0' = NoJob
      BY <1>4 DEF Node0Replies, MuxFrees
    <3>2. QED
      BY <3>1, JobNone DEF JobAfter
  <2>2. Sums
    BY <1>4, SumsFact DEF Node0Replies
  <2>3. AwayResult
    <3>1. CASE {r \in srv.pend : r.of = k0.id} = {}
      BY <3>1, <1>4 DEF Node0Replies, AwayResult
    <3>2. CASE {r \in srv.pend : r.of = k0.id} # {}
      <4>1. PICK r \in srv.pend : r.of = k0.id /\ Answered(r) /\ Reply(r, k0.st, whole)
        BY <3>2, <1>4 DEF Node0Replies
      <4>2. k0.id # 0
        BY <4>1, <1>1 DEF Servers, Requests
      <4>3. srv' = [srv EXCEPT !.pend = @ \ {r}, !.lease = srv.lease]
        BY <4>1, <1>1 DEF Answered, Servers
      <4>4. Answers1(r, k0.st, whole, srv.lease)
        BY <4>1, <4>2, <4>3 DEF Reply, Answers1
      <4>5. k0.st \in Statuses /\ srv.lease \in BOOLEAN
        BY <1>1 DEF JobOnNode0, Servers
      <4>6. QED
        BY <4>4, <4>5 DEF AwayResult
    <3>3. QED
      BY <3>1, <3>2
  <2>4. QED
    BY <2>1, <2>2, <2>3
<1>5. CASE Node0Works
  <2>1. JobOnNode0' /\ k0'.id = k0.id
    BY <1>1, <1>5, JobRuns DEF Node0Works
  <2>2. Sums
    BY <1>5, SumsFact DEF Node0Works
  <2>3. net' = net /\ srv' = srv
    BY <1>5 DEF Node0Works
  <2>4. QED
    BY <2>1, <2>2, <2>3 DEF AwayResult, JobAfter
<1>6. QED
  BY <1>2, <1>3, <1>4, <1>5

\* The daemon answers, dies, starts, grants a lease and ends it; the card fails; t4serv answers.
LEMMA DaemonAway ==
  ASSUME Types,
         \/ \E r \in srv.pend : LeaseReplies(r) \/ (\E st \in {"OK", "BADOP"} : TramReplies(r, st))
         \/ CardFails \/ DaemonHangs \/ DaemonDies \/ DaemonStarts \/ ClientGone
         \/ \E words \in {<<"fail">>, <<"0">>, <<"n", "adler", "body">>, <<"n", "adler", "damaged">>, <<"n">>} : T4servAnswers(words)
  PROVE  AwayResult /\ JobAfter /\ Sums
<1>1. srv \in Servers /\ net \in Nets /\ IsFiniteSet(srv.pend) /\ srv.lease \in BOOLEAN
  BY DEF Types, Servers
<1>2. ASSUME NEW r \in srv.pend, LeaseReplies(r)
      PROVE  AwayResult /\ JobAfter /\ Sums
  <2>1. Sums
    BY <1>2, SumsFact DEF LeaseReplies
  <2>2. CASE srv' = [srv EXCEPT !.pend = @ \ {r}, !.lease = TRUE] /\ Reply(r, "OK", TRUE) /\ Rebooted
    <3>1. Answers1(r, "OK", TRUE, TRUE)
      BY <2>2 DEF Reply, Answers1
    <3>2. AwayResult
      BY <3>1 DEF AwayResult, Statuses
    <3>3. QED
      BY <2>1, <2>2, <3>2, RebootedFact
  <2>3. CASE Answered(r) /\ Reply(r, "BADREQ", TRUE) /\ UNCHANGED card
    <3>1. srv' = [srv EXCEPT !.pend = @ \ {r}, !.lease = srv.lease]
      BY <2>3, <1>1 DEF Answered, Servers
    <3>2. Answers1(r, "BADREQ", TRUE, srv.lease)
      BY <2>3, <3>1 DEF Reply, Answers1
    <3>3. AwayResult
      BY <3>2, <1>1 DEF AwayResult, Statuses
    <3>4. QED
      BY <2>1, <2>3, <3>3, JobSame DEF card
  <2>4. QED
    BY <1>2, <2>2, <2>3 DEF LeaseReplies
<1>3. ASSUME NEW r \in srv.pend, NEW st \in {"OK", "BADOP"}, TramReplies(r, st)
      PROVE  AwayResult /\ JobAfter /\ Sums
  <2>1. Sums /\ JobAfter
    BY <1>3, SumsFact, JobSame DEF TramReplies, card
  <2>2. srv' = [srv EXCEPT !.pend = @ \ {r}, !.lease = srv.lease]
    BY <1>3, <1>1 DEF TramReplies, Answered, Servers
  <2>3. Answers1(r, st, TRUE, srv.lease)
    BY <1>3, <2>2 DEF TramReplies, Reply, Answers1, Asked4Lease
  <2>4. QED
    BY <2>1, <2>3, <1>1 DEF AwayResult, Statuses
<1>4. CASE CardFails
  <2>1. Sums /\ JobAfter
    BY <1>4, SumsFact, RebootedFact DEF CardFails
  <2>2. srv' = [srv EXCEPT !.pend = {}]
    BY <1>4 DEF CardFails
  <2>3. QED
    BY <1>1, <1>4, <2>1, <2>2, DownFact DEF AwayResult
<1>5. CASE DaemonDies
  BY <1>5, SumsFact, JobSame DEF DaemonDies, card, AwayResult
<1>10. CASE DaemonHangs
  <2>1. JobAfter /\ Sums
    BY <1>10, SumsFact, JobSame DEF DaemonHangs, card
  <2>2. HangResult
    <3>1. CASE net.alive
      <4>1. PICK p \in Prefixes(net.rep), h \in BOOLEAN : net' = [alive |-> TRUE, rep |-> p, half |-> h /\ p # net.rep]
        BY <1>10, <3>1 DEF DaemonHangs
      <4>2. PICK g \in BOOLEAN : g <=> (h /\ p # net.rep)
        OBVIOUS
      <4>3. net' = [alive |-> TRUE, rep |-> p, half |-> g]
        BY <4>1, <4>2
      <4>4. QED
        BY <1>10, <3>1, <4>3 DEF DaemonHangs, HangResult
    <3>2. CASE ~net.alive
      BY <1>10, <3>2 DEF DaemonHangs, HangResult
    <3>3. QED
      BY <3>1, <3>2
  <2>3. QED
    BY <2>1, <2>2 DEF AwayResult
<1>6. CASE DaemonStarts
  BY <1>6, SumsFact, RebootedFact DEF DaemonStarts, AwayResult
<1>7. CASE ClientGone
  <2>1. JobAfter
    BY <1>7, RebootedFact, JobSame DEF ClientGone, card
  <2>2. QED
    BY <1>7, <2>1, SumsFact DEF ClientGone, AwayResult
<1>8. ASSUME NEW words, T4servAnswers(words)
      PROVE  AwayResult /\ JobAfter /\ Sums
  BY <1>8, SumsFact, JobSame DEF T4servAnswers, card, AwayResult
<1>9. QED
  BY <1>2, <1>3, <1>4, <1>5, <1>6, <1>7, <1>8, <1>10

\* All the daemon and the card do to the connection and to the requests.
LEMMA AwayFact == ASSUME Types, AwayStep PROVE AwayResult /\ JobAfter /\ Sums
  BY Node0Away, DaemonAway DEF AwayStep, Daemon

\* Sums of what is on the way and asked for.
LEMMA SumFact ==
  \A a, b, c, d \in Nat :
    /\ c <= a /\ d <= b => c + d <= a + b
    /\ c = a + 1 /\ d = b - 1 => c + d <= a + b
    /\ c = a + b /\ d = 0 => c + d <= a + b
  OBVIOUS

\* A reply made to a request is an answer.
LEMMA AnswerFact ==
  ASSUME Types, NEW r \in srv.pend, NEW st \in Statuses, NEW w \in BOOLEAN
  PROVE  [id |-> r.id, st |-> st, data |-> [of |-> r.of, whole |-> w]] \in Answers
<1>1. r \in Requests
  BY DEF Types, Servers
<1>2. r.id \in 1..IdMax /\ r.of \in 0..MaxPieces
  BY <1>1, OffloadAssumption DEF Requests
<1>3. [of |-> r.of, whole |-> w] \in Results
  BY <1>2 DEF Results
<1>4. QED
  BY <1>2, <1>3 DEF Answers

\* The daemon and the card keep the types, and make no more of the requests and replies than there were.
LEMMA AwayTyped ==
  ASSUME Types, AwayStep
  PROVE  Types' /\ Len(net'.rep) + Cardinality(srv'.pend) <= Len(net.rep) + Cardinality(srv.pend)
<1>1. /\ srv \in Servers /\ net \in Nets /\ IsFiniteSet(srv.pend)
      /\ net.rep \in Seq(Answers) /\ srv.pend \subseteq Requests
  BY DEF Types, Servers, Nets
<1>2. Len(net.rep) \in Nat /\ Cardinality(srv.pend) \in Nat
  BY <1>1, FS_CardinalityType
<1>3. IsFiniteSet({}) /\ Cardinality({}) = 0
  BY FS_EmptySet
<1> DEFINE Kept == /\ srv' \in Servers /\ net' \in Nets /\ IsFiniteSet(srv'.pend)
                   /\ Len(net'.rep) + Cardinality(srv'.pend) <= Len(net.rep) + Cardinality(srv.pend)
<1>4. ASSUME net' = net, srv' = srv \/ srv' = [srv EXCEPT !.up = TRUE]
      PROVE  Kept
  <2>1. srv' \in Servers /\ srv'.pend = srv.pend
    BY <1>4, <1>1 DEF Servers
  <2>2. IsFiniteSet(srv'.pend) /\ Cardinality(srv'.pend) = Cardinality(srv.pend)
    BY <2>1, <1>1
  <2>3. net' \in Nets /\ Len(net'.rep) = Len(net.rep)
    BY <1>1, <1>4
  <2>4. Len(net'.rep) + Cardinality(srv'.pend) <= Len(net.rep) + Cardinality(srv.pend)
    BY ONLY <2>2, <2>3, <1>2, SumFact
  <2>5. QED
    BY <2>1, <2>2, <2>3, <2>4
<1>5. ASSUME NEW r \in srv.pend, NEW st \in Statuses, NEW w \in BOOLEAN, NEW lease \in BOOLEAN, Answers1(r, st, w, lease)
      PROVE  Kept
  <2> DEFINE a == [id |-> r.id, st |-> st, data |-> [of |-> r.of, whole |-> w]]
  <2>1. a \in Answers
    BY AnswerFact
  <2>2. net' = [net EXCEPT !.rep = Append(net.rep, a)] /\ srv' = [srv EXCEPT !.pend = srv.pend \ {r}, !.lease = lease]
    BY <1>5 DEF Answers1
  <2> HIDE DEF a
  <2>3. Append(net.rep, a) \in Seq(Answers) /\ Len(Append(net.rep, a)) = Len(net.rep) + 1
    BY <2>1, <1>1, AppendFact
  <2>4. net' \in Nets /\ net'.rep = Append(net.rep, a)
    BY <2>2, <2>3, <1>1 DEF Nets
  <2>5. srv' \in Servers /\ srv'.pend = srv.pend \ {r}
    BY <2>2, <1>1 DEF Servers
  <2>6. IsFiniteSet(srv.pend \ {r}) /\ Cardinality(srv.pend \ {r}) = Cardinality(srv.pend) - 1
    BY <1>1, FS_RemoveElement
  <2>7. QED
    BY <2>3, <2>4, <2>5, <2>6, <1>2
<1>6. ASSUME srv' = [srv EXCEPT !.pend = {}],
             NEW t \in Seq(Answers), net' = [net EXCEPT !.rep = @ \o t], Len(t) = Cardinality(srv.pend)
      PROVE  Kept
  <2>1. net.rep \o t \in Seq(Answers) /\ Len(net.rep \o t) = Len(net.rep) + Len(t)
    BY <1>1, ConcatFact
  <2>2. net' \in Nets /\ net'.rep = net.rep \o t
    BY <2>1, <1>1, <1>6 DEF Nets
  <2>3. srv' \in Servers /\ srv'.pend = {}
    BY <1>1, <1>6 DEF Servers
  <2>4. QED
    BY <2>1, <2>2, <2>3, <1>2, <1>3, <1>6
<1>7. ASSUME srv' = [up |-> FALSE, hung |-> FALSE, pend |-> {}, lease |-> FALSE],
             NEW p \in Prefixes(net.rep), net' = [alive |-> FALSE, rep |-> p, half |-> FALSE]
      PROVE  Kept
  <2>1. p \in Seq(Answers) /\ Len(p) <= Len(net.rep)
    BY <1>1, PrefixFact
  <2>2. net' \in Nets /\ net'.rep = p
    BY <2>1, <1>7 DEF Nets
  <2>3. srv' \in Servers /\ srv'.pend = {}
    BY <1>7 DEF Servers
  <2>4. Len(p) \in Nat
    BY <2>1
  <2>5. QED
    BY <2>1, <2>2, <2>3, <2>4, <1>2, <1>3
<1>8. ASSUME net' = net, srv' = [srv EXCEPT !.pend = {}, !.lease = FALSE]
      PROVE  Kept
  <2>1. srv' \in Servers /\ srv'.pend = {}
    BY <1>1, <1>8 DEF Servers
  <2>2. IsFiniteSet(srv'.pend) /\ Cardinality(srv'.pend) = 0
    BY <2>1, <1>3
  <2>3. net' \in Nets /\ Len(net'.rep) = Len(net.rep)
    BY <1>1, <1>8
  <2>4. Len(net'.rep) + Cardinality(srv'.pend) <= Len(net.rep) + Cardinality(srv.pend)
    BY ONLY <2>2, <2>3, <1>2, SumFact
  <2>5. QED
    BY <2>1, <2>2, <2>3, <2>4
<1> HIDE DEF Kept
<1>9. Kept
  <2>1. AwayResult
    BY AwayFact
  <2>2. CASE \E r \in srv.pend, st \in Statuses, w \in BOOLEAN, lease \in BOOLEAN : Answers1(r, st, w, lease)
    BY <2>2, <1>5
  <2>3. CASE /\ srv' = [srv EXCEPT !.pend = {}]
             /\ \E t \in Seq(Answers) : net' = [net EXCEPT !.rep = @ \o t] /\ Len(t) = Cardinality(srv.pend)
    BY <2>3, <1>6
  <2>4. CASE /\ srv' = [up |-> FALSE, hung |-> FALSE, pend |-> {}, lease |-> FALSE]
             /\ \E p \in Prefixes(net.rep) : net' = [alive |-> FALSE, rep |-> p, half |-> FALSE]
    BY <2>4, <1>7
  <2>5. CASE HangResult
    <3>1. srv' \in Servers /\ srv'.pend = srv.pend
      BY <2>5, <1>1 DEF HangResult, Servers
    <3>2. ASSUME NEW p \in Prefixes(net.rep), NEW h \in BOOLEAN, net' = [alive |-> TRUE, rep |-> p, half |-> h]
          PROVE  net' \in Nets /\ Len(net'.rep) \in Nat /\ Len(net'.rep) <= Len(net.rep)
      <4>1. p \in Seq(Answers) /\ Len(p) <= Len(net.rep)
        BY <1>1, PrefixFact
      <4>2. QED
        BY <4>1, <3>2 DEF Nets
    <3>3. net' = net => net' \in Nets /\ Len(net'.rep) \in Nat /\ Len(net'.rep) <= Len(net.rep)
      BY <1>1, <1>2
    <3>4. net' \in Nets /\ Len(net'.rep) \in Nat /\ Len(net'.rep) <= Len(net.rep)
      BY <2>5, <3>2, <3>3 DEF HangResult
    <3>5. IsFiniteSet(srv'.pend) /\ Cardinality(srv'.pend) = Cardinality(srv.pend)
      BY <3>1, <1>1
    <3>6. Len(net'.rep) + Cardinality(srv'.pend) <= Len(net.rep) + Cardinality(srv.pend)
      BY ONLY <3>4, <3>5, <1>2
    <3>7. QED
      BY <3>1, <3>4, <3>5, <3>6 DEF Kept
  <2>6. QED
    BY <2>1, <2>2, <2>3, <2>4, <2>5, <1>4, <1>8 DEF AwayResult
<1>10. JobOnNode0' /\ Sums /\ UNCHANGED <<lib, cli, file>>
  BY AwayFact, AwayQuiet DEF JobAfter
<1>11. QED
  BY <1>9, <1>10 DEF Kept, Types, Sums

-----------------------------------------------------------------------------
(***************************************************************************)
(* No more replies than requests.                                          *)
(***************************************************************************)
\* The daemon answers no request twice.
LEMMA AwayCounted ==
  ASSUME Types, Counted, AwayStep
  PROVE  Counted'
<1>1. Len(net'.rep) + Cardinality(srv'.pend) <= Len(net.rep) + Cardinality(srv.pend) /\ Types'
  BY AwayTyped
<1>2. UNCHANGED <<lib, cli>>
  BY AwayQuiet
<1>3. /\ Len(net.rep) \in Nat /\ Cardinality(srv.pend) \in Nat /\ Len(net'.rep) \in Nat /\ Cardinality(srv'.pend) \in Nat
      /\ Len(lib.got) \in Nat /\ lib.lastid \in Nat
  BY <1>1, FS_CardinalityType DEF Types, Nets, Libs
<1>4. Len(lib'.got) + Len(net'.rep) + Cardinality(srv'.pend) <= lib'.lastid
  <2>1. Len(lib.got) + Len(net.rep) + Cardinality(srv.pend) <= lib.lastid
    BY DEF Counted
  <2>2. lib' = lib
    BY <1>2
  <2>3. \A a, b, c, d, e, l \in Nat : a + b + c <= l /\ d + e <= b + c => a + d + e <= l
    OBVIOUS
  <2>4. QED
    BY ONLY <2>1, <2>2, <2>3, <1>1, <1>3
<1>5. QED
  BY <1>2, <1>4 DEF Counted

\* Where the program goes by itself: never into a wait, and to a call only with a new number.
Moves ==
  /\ cli'.prog = cli.prog /\ cli'.pieces = cli.pieces
  /\ cli'.at \notin {"wait", "start"} /\ cli'.call >= cli.call
  /\ cli'.at = "call" => cli'.call > cli.call /\ lib' = lib /\ (cli.prog = "ttlease" => cli.at = "start")
  /\ cli'.at = "runs" => cli.at = "call"

\* The link itself, the 68030 and a death do not go back to an earlier call.
LEMMA DirectMoves ==
  ASSUME Types, Placed, CallDirect \/ CallPipe \/ DirectBoots \/ DirectHangs \/ DirectReads \/ OnCpu \/ Kill
  PROVE  Moves
<1>1. cli \in Programs /\ cli.call \in Int
  BY DEF Types, Programs
<1>2. CASE CallDirect
  <2>1. \/ cli' = [cli EXCEPT !.at = "runs"]
        \/ cli' = [cli EXCEPT !.at = "cpu", !.tj = FALSE]
        \/ cli' = [cli EXCEPT !.at = "boot", !.tj = FALSE]
    BY <1>2 DEF CallDirect
  <2>2. QED
    BY <1>1, <1>2, <2>1 DEF CallDirect, Moves, Programs
<1>3. CASE CallPipe \/ Kill
  <2>1. cli' = [cli EXCEPT !.at = "dead"]
    BY <1>3 DEF CallPipe, Kill, At
  <2>2. QED
    BY <1>1, <2>1 DEF Moves, Programs
<1>4. CASE DirectBoots
  <2>1. CASE cli' = [cli EXCEPT !.at = "sent", !.lock = TRUE]
    BY <1>1, <2>1 DEF Moves, Programs
  <2>2. CASE cli' = [cli EXCEPT !.at = "cpu", !.off = TRUE]
    BY <1>1, <2>2 DEF Moves, Programs
  <2>3. CASE \E b \in BOOLEAN : cli' = [cli EXCEPT !.at = "cpu", !.off = TRUE, !.lock = @ \/ b]
    BY <1>1, <2>3 DEF Moves, Programs
  <2>4. QED
    BY <1>4, <2>1, <2>2, <2>3 DEF DirectBoots
<1>8. CASE DirectHangs
  <2>1. cli' = [cli EXCEPT !.at = "trap", !.lock = TRUE]
    BY <1>8 DEF DirectHangs
  <2>2. QED
    BY <1>1, <2>1 DEF Moves, Programs
<1>5. CASE DirectReads
  <2>1. CASE \E d : cli' = [cli EXCEPT !.at = "have", !.data = d]
    BY <1>1, <2>1 DEF Moves, Programs
  <2>2. CASE cli' = [cli EXCEPT !.at = "cpu", !.off = TRUE]
    BY <1>1, <2>2 DEF Moves, Programs
  <2>3. QED
    BY <1>5, <2>1, <2>2 DEF DirectReads
<1>6. CASE OnCpu
  <2>1. CASE \E d : cli' = [cli EXCEPT !.at = "have", !.data = d]
    BY <1>1, <2>1 DEF Moves, Programs
  <2>2. CASE At("failed")
    BY <1>1, <2>2 DEF At, Moves, Programs
  <2>3. QED
    BY <1>6, <2>1, <2>2 DEF OnCpu
<1>7. QED
  BY <1>2, <1>3, <1>4, <1>5, <1>6, <1>8

\* tgzip goes from call to call.
LEMMA TgzipMoves ==
  ASSUME Types, Placed, TgzipStep
  PROVE  Moves /\ cli.prog = "tgzip"
<1>1. cli \in Programs /\ cli.call \in Int
  BY DEF Types, Programs
<1>2. CASE TgzipFails \/ \E b \in BOOLEAN : TgzipUnlinks(b)
  <2>1. PICK rc : cli' = [cli EXCEPT !.at = "end", !.rc = rc]
    BY <1>2 DEF TgzipFails, TgzipUnlinks, Quits
  <2>2. QED
    BY <1>1, <1>2, <2>1 DEF Moves, Programs, TgzipFails, TgzipUnlinks
<1>3. ASSUME NEW b \in BOOLEAN, TgzipOpens(b)
      PROVE  Moves /\ cli.prog = "tgzip"
  <2>1. cli.prog = "tgzip"
    BY <1>3 DEF TgzipOpens, Start
  <2>2. CASE \E rc : cli' = [cli EXCEPT !.at = "end", !.rc = rc]
    BY <1>1, <2>1, <2>2 DEF Moves, Programs
  <2>3. CASE At("read")
    BY <1>1, <2>1, <2>3 DEF At, Moves, Programs
  <2>4. QED
    BY <1>3, <2>2, <2>3 DEF TgzipOpens, Quits
<1>4. ASSUME NEW b \in BOOLEAN, TgzipReads(b)
      PROVE  Moves /\ cli.prog = "tgzip"
  <2>1. lib' = lib /\ cli.prog = "tgzip"
    BY <1>4 DEF TgzipReads, FrontEnd
  <2>2. CASE At("eof")
    BY <1>1, <2>1, <2>2 DEF At, Moves, Programs
  <2>3. CASE \E l \in {"cpu", "call"} : cli' = [cli EXCEPT !.call = cli.call + 1, !.err = b, !.at = l]
    BY <1>1, <2>1, <2>3 DEF Moves, Programs
  <2>4. QED
    BY <1>4, <2>2, <2>3 DEF TgzipReads
<1>5. ASSUME NEW b \in BOOLEAN, TgzipWrites(b) \/ TgzipCloses(b)
      PROVE  Moves /\ cli.prog = "tgzip"
  <2>1. cli.prog = "tgzip"
    BY <1>5 DEF TgzipWrites, TgzipCloses
  <2>2. CASE \E l \in {"eof", "read"} : \E t : cli' = [cli EXCEPT !.at = l, !.t4off = t]
    BY <1>1, <2>1, <2>2 DEF Moves, Programs
  <2>3. CASE \E l \in {"failed", "done"} : At(l)
    BY <1>1, <2>1, <2>3 DEF At, Moves, Programs
  <2>4. QED
    BY <1>5, <2>2, <2>3 DEF TgzipWrites, TgzipCloses
<1>6. QED
  BY <1>2, <1>3, <1>4, <1>5 DEF TgzipStep

\* So do the filters, the libjpeg front ends, Dropbear and ttlease.
LEMMA FilterMoves ==
  ASSUME Types, Placed, Begins \/ FilterWrites \/ FilterFails \/ JpegFallsBack \/ JpegWrites \/ Stock \/ SshCalls \/ LeaseEnds
  PROVE  Moves
<1>1. cli \in Programs /\ cli.call \in Int
  BY DEF Types, Programs
<1>2. ASSUME NEW rc, Quits(rc)
      PROVE  Moves
  BY <1>1, <1>2 DEF Quits, Moves, Programs
<1>3. CASE Begins
  <2>1. lib' = lib /\ cli.at = "start" /\ cli.call = 0
    BY <1>3 DEF Begins, FrontEnd, Placed
  <2>2. ASSUME NEW l \in {"call", "cpu", "stock"}, Begin(l)
        PROVE  Moves
    BY <1>1, <2>1, <2>2 DEF Begin, Moves, Programs
  <2>3. QED
    BY <1>2, <1>3, <2>2 DEF Begins
<1>4. CASE At("stock")
  BY <1>1, <1>4 DEF At, Moves, Programs
<1>5. CASE FilterWrites \/ FilterFails \/ JpegFallsBack \/ JpegWrites \/ LeaseEnds
  BY <1>2, <1>4, <1>5 DEF FilterWrites, FilterFails, JpegFallsBack, JpegWrites, LeaseEnds
<1>6. CASE Stock
  BY <1>2, <1>6 DEF Stock
<1>7. CASE SshCalls
  <2>1. Quits(0) \/ cli' = [cli EXCEPT !.at = "call", !.call = cli.call + 1, !.data = Nothing]
    BY <1>7 DEF SshCalls
  <2>2. lib' = lib /\ cli.prog = "ssh"
    BY <1>7 DEF SshCalls, FrontEnd
  <2>3. CASE cli' = [cli EXCEPT !.at = "call", !.call = cli.call + 1, !.data = Nothing]
    BY <1>1, <2>2, <2>3 DEF Moves, Programs
  <2>4. QED
    BY <1>2, <2>1, <2>3
<1>8. QED
  BY <1>3, <1>5, <1>6, <1>7

\* A step without ttjobd submits nothing, and goes to a call only by counting it.
LEMMA LocalMoves == ASSUME Types, Placed, LocalStep PROVE Moves
  BY DirectMoves, TgzipMoves, FilterMoves DEF LocalStep

\* Without ttjobd no request is made.
LEMMA LocalCounted ==
  ASSUME Types, Placed, Counted, LocalStep
  PROVE  Counted'
<1>1. Moves /\ UNCHANGED <<net, srv>> /\ lib'.got = lib.got /\ lib'.lastid = lib.lastid
  BY LocalMoves, LocalQuiet, LocalLib DEF Types, Libs, Lost
<1>2. Len(lib'.got) + Len(net'.rep) + Cardinality(srv'.pend) <= lib'.lastid
  <2>1. Len(lib.got) + Len(net.rep) + Cardinality(srv.pend) <= lib.lastid
    BY DEF Counted
  <2>2. net' = net /\ srv' = srv
    BY <1>1
  <2>3. QED
    BY ONLY <1>1, <2>1, <2>2
<1>3. lib.lastid <= cli.call /\ lib.lastid \in Int /\ cli.call \in Int /\ cli'.call \in Int
  BY LocalTyped DEF Counted, Types, Libs, Programs
<1>4. cli'.call >= cli.call /\ (cli'.at = "call" => cli'.call > cli.call)
  BY <1>1 DEF Moves
<1>5. lib'.lastid <= cli'.call /\ (cli'.at = "call" => lib'.lastid < cli'.call)
  BY ONLY <1>1, <1>3, <1>4
<1>6. QED
  BY <1>2, <1>5 DEF Counted

\* An id is new as long as the calls are fewer than the ids.
LEMMA NewId ==
  ASSUME MaxPieces <= IdMax, Types, Counted, Call \/ CallBlocks
  PROVE  NextId(lib.lastid) = lib.lastid + 1 /\ lib.lastid + 1 <= cli.call /\ lib.lastid \in Nat
<1>1. lib.lastid \in 0..IdMax /\ cli.call \in 0..MaxPieces
  BY DEF Types, Libs, Programs
<1>2. lib.lastid < cli.call
  BY DEF Counted, Call, CallBlocks
<1>3. QED
  BY <1>1, <1>2, NextIdFact, OffloadAssumption

\* A call makes one request, and a reply is read and collected once.
LEMMA LibCounted ==
  ASSUME MaxPieces <= IdMax, Types, Placed, Counted, LibStep
  PROVE  Counted'
<1>1. /\ lib.got \in Seq(Answers) /\ net.rep \in Seq(Answers) /\ IsFiniteSet(srv.pend)
      /\ lib.lastid \in Nat /\ cli.call \in Nat /\ lib \in Libs /\ net \in Nets /\ srv \in Servers /\ cli \in Programs
  BY DEF Types, Libs, Nets, Programs
<1>2. Len(lib.got) \in Nat /\ Len(net.rep) \in Nat /\ Cardinality(srv.pend) \in Nat
  BY <1>1, FS_CardinalityType
<1>3. lib.lastid <= cli.call /\ Len(lib.got) + Len(net.rep) + Cardinality(srv.pend) <= lib.lastid
  BY DEF Counted
<1>4. \A a, b, c, l \in Nat : a + b + c <= l => a + 0 + c <= l /\ a + b + 0 <= l /\ a + 0 + 0 <= l
  OBVIOUS
<1>5. Downs.at # "call" /\ Downs.call = cli.call
  BY <1>1 DEF Downs, Programs
<1>6. CASE TakeOne
  <2>1. Head(net.rep) \in Answers /\ Len(Tail(net.rep)) = Len(net.rep) - 1
    BY <1>1, <1>6, TailFact DEF TakeOne
  <2>2. Len(<<Checked(Head(net.rep))>> \o lib.got) = Len(lib.got) + 1
    BY <1>1, <2>1, CheckedFact, ConsFact
  <2>3. /\ lib'.got = <<Checked(Head(net.rep))>> \o lib.got /\ lib'.lastid = lib.lastid
        /\ net'.rep = Tail(net.rep) /\ srv' = srv /\ cli' = cli
    BY <1>1, <1>6 DEF TakeOne, Libs, Nets
  <2>4. \A a, b, c, l \in Nat : a + b + c <= l => (a + 1) + (b - 1) + c <= l
    OBVIOUS
  <2>5. (Len(lib.got) + 1) + (Len(net.rep) - 1) + Cardinality(srv.pend) <= lib.lastid
    BY ONLY <2>4, <1>1, <1>2, <1>3
  <2>6. Len(lib'.got) + Len(net'.rep) + Cardinality(srv'.pend) <= lib'.lastid
    BY ONLY <2>1, <2>2, <2>3, <2>5
  <2>7. QED
    BY <1>3, <1>6, <2>3, <2>6 DEF Counted, TakeOne
<1>7. CASE WaitLost
  <2>1. Cardinality(srv'.pend) = 0
    BY <1>1, <1>7, FS_EmptySet DEF WaitLost, Servers
  <2>2. Len(net'.rep) = Len(net.rep) \/ Len(net'.rep) = 0
    <3>1. net' = net \/ net' = [net EXCEPT !.alive = FALSE, !.rep = <<>>]
      BY <1>7 DEF WaitLost
    <3>2. net'.rep = net.rep \/ net'.rep = <<>>
      <4>1. CASE net' = [net EXCEPT !.alive = FALSE, !.rep = <<>>]
        BY ONLY <1>1, <4>1 DEF Nets
      <4>2. QED
        BY <3>1, <4>1
    <3>3. QED
      BY ONLY <3>2, EmptySeq
  <2>3. lib'.got = lib.got /\ lib'.lastid = lib.lastid
    BY <1>1, <1>7 DEF WaitLost, Lost, Libs
  <2>4. cli' = Downs
    BY <1>7 DEF WaitLost
  <2>5. Len(lib'.got) + Len(net'.rep) + Cardinality(srv'.pend) <= lib'.lastid
    <3>1. Len(lib.got) + Len(net.rep) + 0 <= lib.lastid /\ Len(lib.got) + 0 + 0 <= lib.lastid
      BY ONLY <1>1, <1>2, <1>3, <1>4
    <3>2. QED
      BY ONLY <2>1, <2>2, <2>3, <3>1
  <2>6. QED
    BY <1>3, <1>5, <2>3, <2>4, <2>5 DEF Counted
<1>8. CASE WaitTimeout
  BY <1>3, <1>5, <1>8 DEF WaitTimeout, Counted
<1>12. CASE ReadBlocks
  <2>1. cli'.at = "half" /\ cli'.call = cli.call
    BY <1>1, <1>12 DEF ReadBlocks, At, Programs
  <2>2. QED
    BY <1>3, <1>12, <2>1 DEF ReadBlocks, Counted
<1>13. CASE CallBlocks
  <2>1. NextId(lib.lastid) = lib.lastid + 1 /\ lib.lastid + 1 <= cli.call
    BY <1>13, NewId
  <2>2. /\ lib'.got = lib.got /\ lib'.lastid = lib.lastid + 1 /\ srv' = srv
        /\ cli'.at = "write" /\ cli'.call = cli.call
    BY <1>1, <1>13, <2>1 DEF CallBlocks, At, Libs, Programs
  <2>3. Len(net'.rep) = Len(net.rep) \/ Len(net'.rep) = 0
    BY <1>1, <1>13 DEF CallBlocks, Connected, Nets
  <2>4. \A a, b, c, l \in Nat : a + b + c <= l => a + b + c <= l + 1 /\ a + 0 + c <= l + 1
    OBVIOUS
  <2>5. Len(lib'.got) + Len(net'.rep) + Cardinality(srv'.pend) <= lib'.lastid
    BY ONLY <2>2, <2>3, <2>4, <1>1, <1>2, <1>3
  <2>6. QED
    BY <2>1, <2>2, <2>5 DEF Counted
<1>9. CASE Call
  <2>1. NextId(lib.lastid) = lib.lastid + 1 /\ lib.lastid + 1 <= cli.call
    BY <1>9, NewId
  <2>2. /\ lib'.got = lib.got /\ lib'.lastid = lib.lastid + 1
        /\ cli'.at = "wait" /\ cli'.call = cli.call
    BY <1>1, <1>9, <2>1 DEF Call, Submits, Libs, Programs
  <2>3. Len(net'.rep) = Len(net.rep) \/ Len(net'.rep) = 0
    BY <1>1, <1>9 DEF Call, Submits, Connected, Nets
  <2>4. srv'.pend = srv.pend \cup {[id |-> NextId(lib.lastid), of |-> cli.call]}
    BY <1>1, <1>9 DEF Call, Submits, Servers
  <2>5. Cardinality(srv'.pend) = Cardinality(srv.pend) \/ Cardinality(srv'.pend) = Cardinality(srv.pend) + 1
    <3>1. \A q : Cardinality(srv.pend \cup {q}) = Cardinality(srv.pend) \/ Cardinality(srv.pend \cup {q}) = Cardinality(srv.pend) + 1
      BY ONLY <1>1, FS_AddElement
    <3>2. QED
      BY ONLY <2>4, <3>1
  <2>6. \A a, b, c, l \in Nat : a + b + c <= l =>
          a + b + c <= l + 1 /\ a + b + (c + 1) <= l + 1 /\ a + 0 + c <= l + 1 /\ a + 0 + (c + 1) <= l + 1
    OBVIOUS
  <2>7. Len(lib'.got) + Len(net'.rep) + Cardinality(srv'.pend) <= lib'.lastid
    BY ONLY <2>2, <2>3, <2>5, <2>6, <1>1, <1>2, <1>3
  <2>8. QED
    BY <2>1, <2>2, <2>7 DEF Counted
<1>10. ASSUME NEW fits \in BOOLEAN, Collect(fits)
       PROVE  Counted'
  <2>1. PICK i \in DOMAIN lib.got :
           /\ lib' = [lib EXCEPT !.got = RemoveAt(@, i)]
           /\ cli' = IF lib.got[i].st = "OK" /\ fits
                       THEN [cli EXCEPT !.at = IF cli.prog = "ttlease" THEN "runs" ELSE "have", !.data = lib.got[i].data]
                       ELSE Downs
    BY <1>10, CollectFact
  <2>2. Len(lib'.got) = Len(lib.got) - 1 /\ lib'.lastid = lib.lastid
    BY <1>1, <2>1, RemoveFact DEF Libs
  <2>3. cli'.at # "call" /\ cli'.call = cli.call
    BY <1>1, <1>5, <2>1 DEF Programs
  <2>4. net' = net /\ srv' = srv
    BY <1>10 DEF Collect
  <2>5. \A a, b, c, l \in Nat : a + b + c <= l => (a - 1) + b + c <= l
    OBVIOUS
  <2>6. Len(lib'.got) + Len(net'.rep) + Cardinality(srv'.pend) <= lib'.lastid
    BY ONLY <2>2, <2>4, <2>5, <1>1, <1>2, <1>3
  <2>7. QED
    BY <1>3, <2>2, <2>3, <2>6 DEF Counted
<1>11. QED
  BY <1>6, <1>7, <1>8, <1>9, <1>10, <1>12, <1>13 DEF LibStep

-----------------------------------------------------------------------------
(***************************************************************************)
(* Ids and calls.                                                          *)
(***************************************************************************)
\* A program that has left the wait takes no reply for its own.
LEMMA LocalPaired ==
  ASSUME Types, Placed, Paired, LocalStep
  PROVE  Paired'
<1>1. Moves /\ UNCHANGED <<net, srv>> /\ lib'.got = lib.got /\ lib'.lastid = lib.lastid
  BY LocalMoves, LocalQuiet, LocalLib DEF Types, Libs, Lost
<1>2. cli'.at # "wait"
  BY <1>1 DEF Moves
<1>3. QED
  BY <1>1, <1>2 DEF Paired, Own

\* A reply is for the request it answers, so it belongs to the call that made it.
LEMMA AwayPaired ==
  ASSUME Types, Paired, AwayStep
  PROVE  Paired'
<1>1. /\ lib' = lib /\ cli' = cli
      /\ net.rep \in Seq(Answers) /\ srv \in Servers /\ net \in Nets /\ srv.pend \subseteq Requests
  BY AwayQuiet DEF Types, Nets, Servers
<1>2. AwayResult
  BY AwayFact
<1>3. ASSUME srv'.pend \subseteq srv.pend,
             \A i \in DOMAIN net'.rep :
               \/ \E j \in DOMAIN net.rep : net'.rep[i] = net.rep[j]
               \/ \E r \in srv.pend : net'.rep[i].id = r.id /\ (net'.rep[i].st = "OK" => net'.rep[i].data.of = r.of)
      PROVE  Paired'
  <2>1. ASSUME NEW i \in DOMAIN net'.rep
        PROVE  /\ net'.rep[i].id <= lib.lastid
               /\ cli.at = "wait" /\ net'.rep[i].id = cli.id /\ net'.rep[i].st = "OK" => net'.rep[i].data.of = cli.call
    <3>1. CASE \E j \in DOMAIN net.rep : net'.rep[i] = net.rep[j]
      BY <3>1 DEF Paired, Own
    <3>2. CASE \E r \in srv.pend : net'.rep[i].id = r.id /\ (net'.rep[i].st = "OK" => net'.rep[i].data.of = r.of)
      BY <3>2 DEF Paired
    <3>3. QED
      BY <1>3, <3>1, <3>2
  <2>2. Own(net.rep)'
    BY <1>1, <2>1 DEF Own
  <2>3. Own(lib.got)'
    BY <1>1 DEF Paired, Own
  <2>4. QED
    BY <1>1, <1>3, <2>2, <2>3 DEF Paired
<1>4. CASE net' = net /\ (srv' = srv \/ srv' = [srv EXCEPT !.up = TRUE])
  <2>1. srv'.pend = srv.pend
    BY <1>1, <1>4 DEF Servers
  <2>2. QED
    BY <1>3, <1>4, <2>1
<1>5. ASSUME NEW r \in srv.pend, NEW st \in Statuses, NEW w \in BOOLEAN, NEW lease \in BOOLEAN, Answers1(r, st, w, lease)
      PROVE  Paired'
  <2> DEFINE a == [id |-> r.id, st |-> st, data |-> [of |-> r.of, whole |-> w]]
  <2>1. a \in Answers /\ a.id = r.id /\ a.data.of = r.of
    BY AnswerFact
  <2>2. net' = [net EXCEPT !.rep = Append(net.rep, a)] /\ srv' = [srv EXCEPT !.pend = srv.pend \ {r}, !.lease = lease]
    BY <1>5 DEF Answers1
  <2> HIDE DEF a
  <2>3. net'.rep = Append(net.rep, a) /\ srv'.pend = srv.pend \ {r}
    BY <2>2, <1>1 DEF Nets, Servers
  <2>4. \A i \in DOMAIN net'.rep : net'.rep[i] = a \/ \E j \in DOMAIN net.rep : net'.rep[i] = net.rep[j]
    BY <2>1, <2>3, <1>1, AppendFact
  <2>5. srv'.pend \subseteq srv.pend
    BY <2>3
  <2>6. QED
    BY <2>1, <2>4, <2>5, <1>3
<1>6. ASSUME srv' = [srv EXCEPT !.pend = {}],
             NEW t \in Seq(Answers), net' = [net EXCEPT !.rep = @ \o t],
             \A i \in DOMAIN t : t[i].st = "DOWN" /\ \E r \in srv.pend : t[i].id = r.id
      PROVE  Paired'
  <2>1. net'.rep = net.rep \o t /\ srv'.pend = {}
    BY <1>1, <1>6 DEF Nets, Servers
  <2>2. \A i \in DOMAIN net'.rep : (\E j \in DOMAIN net.rep : net'.rep[i] = net.rep[j]) \/ (\E j \in DOMAIN t : net'.rep[i] = t[j])
    BY <2>1, <1>1, ConcatFact
  <2>3. QED
    BY <2>1, <2>2, <1>3, <1>6
<1>7. ASSUME srv' = [up |-> FALSE, hung |-> FALSE, pend |-> {}, lease |-> FALSE],
             NEW p \in Prefixes(net.rep), net' = [alive |-> FALSE, rep |-> p, half |-> FALSE]
      PROVE  Paired'
  <2>1. \A i \in DOMAIN p : i \in DOMAIN net.rep /\ p[i] = net.rep[i]
    BY <1>1, PrefixFact
  <2>2. net'.rep = p /\ srv'.pend = {}
    BY <1>7
  <2>3. QED
    BY <2>1, <2>2, <1>3
<1>8. CASE net' = net /\ srv' = [srv EXCEPT !.pend = {}, !.lease = FALSE]
  <2>1. srv'.pend = {}
    BY <1>1, <1>8 DEF Servers
  <2>2. QED
    BY <1>3, <1>8, <2>1
<1>9. CASE \E r \in srv.pend, st \in Statuses, w \in BOOLEAN, lease \in BOOLEAN : Answers1(r, st, w, lease)
  BY <1>5, <1>9
<1>10. CASE /\ srv' = [srv EXCEPT !.pend = {}]
            /\ \E t \in Seq(Answers) :
                 /\ net' = [net EXCEPT !.rep = @ \o t] /\ Len(t) = Cardinality(srv.pend)
                 /\ \A i \in DOMAIN t : t[i].st = "DOWN" /\ \E r \in srv.pend : t[i].id = r.id
  BY <1>6, <1>10
<1>11. CASE /\ srv' = [up |-> FALSE, hung |-> FALSE, pend |-> {}, lease |-> FALSE]
            /\ \E p \in Prefixes(net.rep) : net' = [alive |-> FALSE, rep |-> p, half |-> FALSE]
  BY <1>7, <1>11
<1>12. CASE HangResult
  <2>1. srv'.pend = srv.pend
    BY <1>1, <1>12 DEF HangResult, Servers
  <2>2. ASSUME NEW p \in Prefixes(net.rep), NEW h \in BOOLEAN, net' = [alive |-> TRUE, rep |-> p, half |-> h]
        PROVE  Paired'
    <3>1. \A i \in DOMAIN p : i \in DOMAIN net.rep /\ p[i] = net.rep[i]
      BY <1>1, PrefixFact
    <3>2. net'.rep = p
      BY <2>2
    <3>3. QED
      BY <2>1, <3>1, <3>2, <1>3
  <2>3. QED
    BY <1>3, <1>12, <2>1, <2>2 DEF HangResult
<1>13. QED
  BY <1>2, <1>4, <1>8, <1>9, <1>10, <1>11, <1>12 DEF AwayResult

\* A new call has an id no earlier reply carries.
LEMMA LibPaired ==
  ASSUME MaxPieces <= IdMax, Types, Placed, Counted, Paired, LibStep
  PROVE  Paired'
<1>1. /\ lib.got \in Seq(Answers) /\ net.rep \in Seq(Answers) /\ srv.pend \subseteq Requests
      /\ lib.lastid \in Nat /\ lib \in Libs /\ net \in Nets /\ srv \in Servers /\ cli \in Programs
  BY DEF Types, Libs, Nets, Servers
<1>2. Downs.at # "wait"
  BY <1>1 DEF Downs, Programs
<1>3. ASSUME cli'.at # "wait", lib'.lastid = lib.lastid, srv'.pend \subseteq srv.pend,
             \A i \in DOMAIN lib'.got : \E j \in DOMAIN lib.got : lib'.got[i] = lib.got[j],
             \A i \in DOMAIN net'.rep : \E j \in DOMAIN net.rep : net'.rep[i] = net.rep[j]
      PROVE  Paired'
  BY <1>3 DEF Paired, Own
<1>4. CASE TakeOne
  <2> DEFINE d == Checked(Head(net.rep))
             got == <<d>> \o lib.got
  <2>1. /\ Head(net.rep) \in Answers /\ Head(net.rep) = net.rep[1] /\ 1 \in DOMAIN net.rep
        /\ \A i \in DOMAIN Tail(net.rep) : \E j \in DOMAIN net.rep : Tail(net.rep)[i] = net.rep[j]
    BY <1>1, <1>4, TailFact DEF TakeOne
  <2>2. /\ d \in Answers /\ d.id = net.rep[1].id /\ d.data = net.rep[1].data
        /\ d.st = "OK" => net.rep[1].st = "OK" /\ net.rep[1].data.whole
    BY <2>1, CheckedFact
  <2>3. /\ lib'.got = got /\ lib'.lastid = lib.lastid
        /\ net'.rep = Tail(net.rep) /\ srv' = srv /\ cli' = cli
    BY <1>1, <1>4 DEF TakeOne, Libs, Nets
  <2> HIDE DEF d
  <2>4. \A i \in DOMAIN got : got[i] = d \/ \E j \in DOMAIN lib.got : got[i] = lib.got[j]
    BY <1>1, <2>2, ConsFact
  <2> HIDE DEF got
  <2>5. /\ d.id <= lib.lastid
        /\ cli.at = "wait" /\ d.id = cli.id /\ d.st = "OK" => d.data.of = cli.call
        /\ d.st = "OK" => d.data.whole
    BY <2>1, <2>2 DEF Paired, Own
  <2>6. Own(lib.got)'
    BY <2>3, <2>4, <2>5 DEF Paired, Own
  <2>7. Own(net.rep)'
    BY <2>1, <2>3 DEF Paired, Own
  <2>8. \A i \in DOMAIN lib'.got : lib'.got[i].st = "OK" => lib'.got[i].data.whole
    BY <2>3, <2>4, <2>5 DEF Paired
  <2>9. QED
    BY <2>3, <2>6, <2>7, <2>8 DEF Paired
<1>5. CASE WaitLost
  <2>1. srv'.pend = {}
    BY <1>1, <1>5 DEF WaitLost, Servers
  <2>2. net'.rep = net.rep \/ net'.rep = <<>>
    <3>1. CASE net' = [net EXCEPT !.alive = FALSE, !.rep = <<>>]
      BY ONLY <1>1, <3>1 DEF Nets
    <3>2. QED
      BY <1>5, <3>1 DEF WaitLost
  <2>3. \A i \in DOMAIN net'.rep : \E j \in DOMAIN net.rep : net'.rep[i] = net.rep[j]
    BY <2>2
  <2>4. lib'.got = lib.got /\ lib'.lastid = lib.lastid
    BY <1>1, <1>5 DEF WaitLost, Lost, Libs
  <2>5. cli'.at # "wait"
    BY <1>2, <1>5 DEF WaitLost
  <2>6. QED
    BY <2>1, <2>3, <2>4, <2>5, <1>3
<1>6. CASE WaitTimeout
  BY <1>2, <1>3, <1>6 DEF WaitTimeout
<1>21. CASE ReadBlocks
  <2>1. cli'.at # "wait"
    BY <1>1, <1>21 DEF ReadBlocks, At, Programs
  <2>2. QED
    BY <1>3, <1>21, <2>1 DEF ReadBlocks
<1>22. CASE CallBlocks
  <2>1. NextId(lib.lastid) = lib.lastid + 1
    BY <1>22, NewId
  <2>2. lib'.got = lib.got /\ lib'.lastid = lib.lastid + 1 /\ srv' = srv /\ cli'.at # "wait"
    BY <1>1, <1>22, <2>1 DEF CallBlocks, At, Libs, Programs
  <2>3. net'.rep = net.rep \/ net'.rep = <<>>
    BY <1>1, <1>22 DEF CallBlocks, Connected, Nets
  <2>4. \A i \in DOMAIN lib.got : lib.got[i] \in Answers
    BY ONLY <1>1
  <2>5. \A i \in DOMAIN net.rep : net.rep[i] \in Answers
    BY ONLY <1>1
  <2>6. \A a \in Answers \cup Requests : a.id \in Nat /\ (a.id <= lib.lastid => a.id <= lib.lastid + 1)
    BY <1>1 DEF Answers, Requests
  <2>7. Own(lib.got)'
    BY <2>2, <2>4, <2>6 DEF Paired, Own
  <2>8. Own(net.rep)'
    BY <2>2, <2>3, <2>5, <2>6 DEF Paired, Own
  <2>9. \A r \in srv'.pend : r.id <= lib'.lastid
    BY <1>1, <2>2, <2>6 DEF Paired
  <2>10. QED
    BY <2>2, <2>7, <2>8, <2>9 DEF Paired
<1>7. CASE Call
  <2>1. NextId(lib.lastid) = lib.lastid + 1
    BY <1>7, NewId
  <2>2. /\ lib'.got = lib.got /\ lib'.lastid = lib.lastid + 1
        /\ cli'.at = "wait" /\ cli'.call = cli.call /\ cli'.id = lib.lastid + 1
    BY <1>1, <1>7, <2>1 DEF Call, Submits, Libs, Programs
  <2>3. net'.rep = net.rep \/ net'.rep = <<>>
    BY <1>1, <1>7 DEF Call, Submits, Connected, Nets
  <2>4. srv'.pend = srv.pend \cup {[id |-> lib.lastid + 1, of |-> cli.call]}
    BY <1>1, <1>7, <2>1 DEF Call, Submits, Servers
  <2>5. \A i \in DOMAIN lib.got : lib.got[i].id \in Nat /\ lib.got[i].id <= lib.lastid
    <3>1. \A i \in DOMAIN lib.got : lib.got[i] \in Answers
      BY ONLY <1>1
    <3>2. \A a \in Answers : a.id \in Nat
      BY DEF Answers
    <3>3. QED
      BY <3>1, <3>2 DEF Paired, Own
  <2>6. \A i \in DOMAIN net.rep : net.rep[i].id \in Nat /\ net.rep[i].id <= lib.lastid
    <3>1. \A i \in DOMAIN net.rep : net.rep[i] \in Answers
      BY ONLY <1>1
    <3>2. \A a \in Answers : a.id \in Nat
      BY DEF Answers
    <3>3. QED
      BY <3>1, <3>2 DEF Paired, Own
  <2>7. \A r \in srv.pend : r.id \in Nat /\ r.id <= lib.lastid
    BY <1>1 DEF Paired, Requests
  <2>8. \A k \in Nat : k <= lib.lastid => k <= lib.lastid + 1 /\ k # lib.lastid + 1
    BY <1>1
  <2>9. Own(lib.got)'
    BY <2>2, <2>5, <2>8 DEF Own
  <2>10. Own(net.rep)'
    BY <2>2, <2>3, <2>6, <2>8 DEF Own
  <2>11. \A r \in srv'.pend : r.id <= lib'.lastid /\ (r.id = cli'.id => r.of = cli'.call)
    <3>1. ASSUME NEW r \in srv.pend
          PROVE  r.id <= lib'.lastid /\ r.id # cli'.id
      BY <2>2, <2>7, <2>8
    <3>2. lib.lastid + 1 <= lib'.lastid
      BY <1>1, <2>2
    <3>3. QED
      BY <2>2, <2>4, <3>1, <3>2
  <2>12. QED
    BY <2>2, <2>9, <2>10, <2>11 DEF Paired
<1>8. ASSUME NEW fits \in BOOLEAN, Collect(fits)
      PROVE  Paired'
  <2>1. PICK i \in DOMAIN lib.got :
           /\ lib' = [lib EXCEPT !.got = RemoveAt(@, i)]
           /\ cli' = IF lib.got[i].st = "OK" /\ fits
                       THEN [cli EXCEPT !.at = IF cli.prog = "ttlease" THEN "runs" ELSE "have", !.data = lib.got[i].data]
                       ELSE Downs
    BY <1>8, CollectFact
  <2>2. lib'.got = RemoveAt(lib.got, i) /\ lib'.lastid = lib.lastid
    BY <1>1, <2>1 DEF Libs
  <2>3. \A k \in DOMAIN lib'.got : \E j \in DOMAIN lib.got : lib'.got[k] = lib.got[j]
    BY <1>1, <2>2, RemoveFact
  <2>4. cli'.at # "wait"
    BY <1>1, <1>2, <2>1 DEF Programs
  <2>5. net' = net /\ srv' = srv
    BY <1>8 DEF Collect
  <2>6. QED
    BY <2>2, <2>3, <2>4, <2>5, <1>3
<1>9. QED
  BY <1>4, <1>5, <1>6, <1>7, <1>8, <1>21, <1>22 DEF LibStep

-----------------------------------------------------------------------------
(***************************************************************************)
(* The lease.                                                              *)
(***************************************************************************)
\* ttlease without ttjobd has no connection to lose a lease by.
LEMMA LocalLeased ==
  ASSUME Types, Placed, Leased, LocalStep
  PROVE  Leased'
<1>1. Moves /\ UNCHANGED <<net, srv, k0>> /\ (lib' = lib \/ lib' = Lost)
  BY LocalMoves, LocalQuiet, LocalLib
<1>2. cli'.prog = cli.prog /\ cli'.at \notin {"wait", "start"}
  BY <1>1 DEF Moves
<1>3. ASSUME cli.prog = "ttlease", cli'.at = "call"
      PROVE  ~lib'.fd /\ lib'.got = <<>>
  <2>1. lib' = lib /\ cli.at = "start"
    BY <1>1, <1>3 DEF Moves
  <2>2. QED
    BY <1>3, <2>1 DEF Leased
<1>4. ASSUME cli.prog = "ttlease", cli'.at = "runs"
      PROVE  ~lib'.fd
  <2>1. cli.at = "call" /\ ~lib.fd
    BY <1>1, <1>4 DEF Moves, Leased
  <2>2. QED
    BY <1>1, <2>1 DEF Lost, Types, Libs
<1>5. QED
  BY <1>1, <1>2, <1>3, <1>4 DEF Leased

\* ttlease runs the program on the reply that granted its lease.
LEMMA LibLeased ==
  ASSUME Types, Placed, Leased, LibStep
  PROVE  Leased'
<1>1. /\ lib.got \in Seq(Answers) /\ net.rep \in Seq(Answers) /\ lib \in Libs /\ net \in Nets /\ cli \in Programs
  BY DEF Types, Libs, Nets
<1>2. Downs.prog = cli.prog /\ (cli.prog = "ttlease" => Downs.at = "end")
  BY <1>1 DEF Downs, Programs
<1>3. k0' = k0
  BY DEF LibStep, TakeOne, ReadBlocks, WaitLost, WaitTimeout, Call, CallBlocks, Collect, card
<1>4. CASE cli' = Downs
  BY <1>2, <1>3, <1>4 DEF Leased
<1>5. CASE TakeOne
  <2>1. /\ Head(net.rep) \in Answers /\ Head(net.rep) = net.rep[1] /\ 1 \in DOMAIN net.rep
        /\ \A i \in DOMAIN Tail(net.rep) : \E j \in DOMAIN net.rep : Tail(net.rep)[i] = net.rep[j]
    BY <1>1, <1>5, TailFact DEF TakeOne
  <2>2. Checked(Head(net.rep)) \in Answers /\ (Checked(Head(net.rep)).st = "OK" => net.rep[1].st = "OK")
    BY <2>1, CheckedFact
  <2>3. /\ lib'.got = <<Checked(Head(net.rep))>> \o lib.got /\ lib'.fd = lib.fd
        /\ net'.rep = Tail(net.rep) /\ net'.alive = net.alive /\ srv' = srv /\ cli' = cli
    BY <1>1, <1>5 DEF TakeOne, Libs, Nets
  <2>4. \A i \in DOMAIN lib'.got : lib'.got[i] = Checked(Head(net.rep)) \/ \E j \in DOMAIN lib.got : lib'.got[i] = lib.got[j]
    BY <1>1, <2>2, <2>3, ConsFact
  <2>5. Granted(lib.got)' => Granted(lib.got) \/ Granted(net.rep)
    BY <2>1, <2>2, <2>4 DEF Granted
  <2>6. Granted(net.rep)' => Granted(net.rep)
    BY <2>1, <2>3 DEF Granted
  <2>7. cli.at = "wait"
    BY <1>5 DEF TakeOne
  <2>8. QED
    BY <1>3, <2>3, <2>5, <2>6, <2>7 DEF Leased
<1>6. CASE Call
  <2>1. /\ cli.at = "call" /\ cli'.at = "wait" /\ cli'.prog = cli.prog
        /\ lib'.got = lib.got /\ (lib.fd \/ net' = [alive |-> TRUE, rep |-> <<>>, half |-> FALSE])
    BY <1>1, <1>6 DEF Call, Submits, Connected, Libs, Programs
  <2>2. ASSUME cli.prog = "ttlease"
        PROVE  ~Granted(lib.got)' /\ ~Granted(net.rep)'
    <3>1. lib'.got = <<>> /\ net'.rep = <<>>
      BY <2>1, <2>2 DEF Leased
    <3>2. QED
      BY <3>1 DEF Granted
  <2>3. QED
    BY <1>3, <2>1, <2>2 DEF Leased
<1>7. ASSUME NEW fits \in BOOLEAN, Collect(fits), cli' # Downs
      PROVE  Leased'
  <2>1. PICK i \in DOMAIN lib.got :
           /\ lib' = [lib EXCEPT !.got = RemoveAt(@, i)]
           /\ cli' = IF lib.got[i].st = "OK" /\ fits
                       THEN [cli EXCEPT !.at = IF cli.prog = "ttlease" THEN "runs" ELSE "have", !.data = lib.got[i].data]
                       ELSE Downs
    BY <1>7, CollectFact
  <2>2. /\ lib.got[i].st = "OK" /\ lib'.fd = lib.fd /\ cli'.prog = cli.prog
        /\ cli'.at = IF cli.prog = "ttlease" THEN "runs" ELSE "have"
    BY <1>1, <1>7, <2>1 DEF Libs, Programs
  <2>3. cli.at = "wait" /\ net' = net /\ srv' = srv
    BY <1>7 DEF Collect
  <2>4. Granted(lib.got)
    BY <2>2 DEF Granted
  <2>5. QED
    BY <1>3, <2>2, <2>3, <2>4 DEF Leased
<1>8. CASE ReadBlocks \/ CallBlocks
  <2>1. cli'.at \in {"half", "write"} /\ cli'.prog = cli.prog
    BY <1>1, <1>8 DEF ReadBlocks, CallBlocks, At, Programs
  <2>2. QED
    BY <1>3, <2>1 DEF Leased
<1>9. QED
  BY <1>4, <1>5, <1>6, <1>7, <1>8 DEF LibStep, WaitLost, WaitTimeout

\* The lease is there before the reply that grants it, and goes with the connection.
LEMMA AwayLeased ==
  ASSUME Types, Leased, AwayStep
  PROVE  Leased'
<1>1. /\ lib' = lib /\ cli' = cli
      /\ net.rep \in Seq(Answers) /\ srv \in Servers /\ net \in Nets
  BY AwayQuiet DEF Types, Nets
<1>2. AwayResult /\ JobAfter
  BY AwayFact
<1>3. ASSUME net'.alive => net.alive /\ (srv.lease => srv'.lease),
             net'.alive /\ cli.prog = "ttlease" /\ k0.id = 0 /\ Granted(net.rep)' => Granted(net.rep) \/ srv'.lease
      PROVE  Leased'
  <2>1. ASSUME cli.prog = "ttlease"
        PROVE  /\ k0'.id = 0 /\ (cli.at \in {"start", "call"} => ~lib.fd /\ lib.got = <<>>)
               /\ cli.at = "wait" /\ lib.fd /\ net'.alive /\ (Granted(lib.got) \/ Granted(net.rep)') => srv'.lease
               /\ cli.at = "runs" /\ lib.fd /\ net'.alive => srv'.lease
    BY <1>2, <1>3, <2>1 DEF JobAfter, Leased
  <2>2. Granted(lib.got)' <=> Granted(lib.got)
    BY <1>1 DEF Granted
  <2>3. QED
    BY <1>1, <2>1, <2>2 DEF Leased
<1>4. CASE net' = net /\ (srv' = srv \/ srv' = [srv EXCEPT !.up = TRUE])
  <2>1. srv'.lease = srv.lease
    BY <1>1, <1>4 DEF Servers
  <2>2. QED
    BY <1>3, <1>4, <2>1 DEF Granted
<1>5. ASSUME NEW r \in srv.pend, NEW st \in Statuses, NEW w \in BOOLEAN, NEW lease \in BOOLEAN, Answers1(r, st, w, lease)
      PROVE  Leased'
  <2> DEFINE a == [id |-> r.id, st |-> st, data |-> [of |-> r.of, whole |-> w]]
  <2>1. a \in Answers /\ a.st = st
    BY AnswerFact
  <2>2. net' = [net EXCEPT !.rep = Append(net.rep, a)] /\ srv' = [srv EXCEPT !.pend = srv.pend \ {r}, !.lease = lease]
    BY <1>5 DEF Answers1
  <2>3. (lease = srv.lease \/ lease = TRUE) /\ (cli.prog = "ttlease" /\ k0.id = 0 /\ st = "OK" => lease)
    BY <1>5 DEF Answers1
  <2> HIDE DEF a
  <2>4. net'.rep = Append(net.rep, a) /\ net'.alive = net.alive /\ srv'.lease = lease
    BY <2>2, <1>1 DEF Nets, Servers
  <2>5. \A i \in DOMAIN net'.rep : net'.rep[i] = a \/ \E j \in DOMAIN net.rep : net'.rep[i] = net.rep[j]
    BY <2>1, <2>4, <1>1, AppendFact
  <2>6. Granted(net.rep)' => Granted(net.rep) \/ st = "OK"
    BY <2>1, <2>5 DEF Granted
  <2>7. QED
    BY <2>3, <2>4, <2>6, <1>3
<1>6. ASSUME srv' = [srv EXCEPT !.pend = {}],
             NEW t \in Seq(Answers), net' = [net EXCEPT !.rep = @ \o t],
             \A i \in DOMAIN t : t[i].st = "DOWN" /\ \E r \in srv.pend : t[i].id = r.id
      PROVE  Leased'
  <2>1. net'.rep = net.rep \o t /\ net'.alive = net.alive /\ srv'.lease = srv.lease
    BY <1>1, <1>6 DEF Nets, Servers
  <2>2. \A i \in DOMAIN net'.rep : (\E j \in DOMAIN net.rep : net'.rep[i] = net.rep[j]) \/ (\E j \in DOMAIN t : net'.rep[i] = t[j])
    BY <2>1, <1>1, ConcatFact
  <2>3. Granted(net.rep)' => Granted(net.rep)
    BY <2>2, <1>6 DEF Granted
  <2>4. QED
    BY <2>1, <2>3, <1>3
<1>7. CASE /\ srv' = [up |-> FALSE, hung |-> FALSE, pend |-> {}, lease |-> FALSE]
           /\ \E p \in Prefixes(net.rep) : net' = [alive |-> FALSE, rep |-> p, half |-> FALSE]
  <2>1. ~net'.alive
    BY <1>7
  <2>2. QED
    BY <2>1, <1>3
<1>8. CASE cli.at \in Ended /\ net' = net /\ srv' = [srv EXCEPT !.pend = {}, !.lease = FALSE]
  BY <1>1, <1>2, <1>8 DEF Leased, Ended, JobAfter
<1>9. CASE \E r \in srv.pend, st \in Statuses, w \in BOOLEAN, lease \in BOOLEAN : Answers1(r, st, w, lease)
  BY <1>5, <1>9
<1>10. CASE /\ srv' = [srv EXCEPT !.pend = {}]
            /\ \E t \in Seq(Answers) :
                 /\ net' = [net EXCEPT !.rep = @ \o t] /\ Len(t) = Cardinality(srv.pend)
                 /\ \A i \in DOMAIN t : t[i].st = "DOWN" /\ \E r \in srv.pend : t[i].id = r.id
  BY <1>6, <1>10
<1>11. CASE HangResult
  <2>1. srv'.lease = srv.lease
    BY <1>1, <1>11 DEF HangResult, Servers
  <2>2. ASSUME NEW p \in Prefixes(net.rep), NEW h \in BOOLEAN, net.alive, net' = [alive |-> TRUE, rep |-> p, half |-> h]
        PROVE  Leased'
    <3>1. \A i \in DOMAIN p : i \in DOMAIN net.rep /\ p[i] = net.rep[i]
      BY <1>1, PrefixFact
    <3>2. Granted(net.rep)' => Granted(net.rep)
      BY <2>2, <3>1 DEF Granted
    <3>3. QED
      BY <1>3, <2>1, <2>2, <3>2
  <2>3. CASE net' = net
    BY <1>3, <2>1, <2>3 DEF Granted
  <2>4. QED
    BY <1>11, <2>2, <2>3 DEF HangResult
<1>12. QED
  BY <1>2, <1>4, <1>7, <1>8, <1>9, <1>10, <1>11 DEF AwayResult

-----------------------------------------------------------------------------
(***************************************************************************)
(* Results and files.                                                      *)
(***************************************************************************)
Wrote == Placed /\ TgzipWrote /\ OthersWrote /\ OwnResult

\* Where each program can be.
LEMMA PlacesFact ==
  ASSUME NEW prog \in Progs
  PROVE  /\ "start" \in PlacesOf(prog) /\ Ended \subseteq PlacesOf(prog)
         /\ prog # "ttlease" => InCall \subseteq PlacesOf(prog)
         /\ prog = "ttlease" => PlacesOf(prog) = {"start", "call", "wait", "write", "half", "runs"} \cup Ended
         /\ prog = "tgzip" => PlacesOf(prog) = {"start", "read", "eof", "failed", "done"} \cup InCall \cup Ended
         /\ prog \in Filters => PlacesOf(prog) = {"start", "failed"} \cup InCall \cup Ended
         /\ prog \in Jpegs => PlacesOf(prog) = {"start", "stock"} \cup InCall \cup Ended
         /\ prog = "ssh" => PlacesOf(prog) = {"start"} \cup InCall \cup Ended
<1>1. prog # "ttlease" => prog = "tgzip" \/ prog \in Filters \/ prog \in Jpegs \/ prog = "ssh"
  BY DEF Progs, Filters, Jpegs
<1>2. "ttlease" \notin Filters \cup Jpegs /\ "tgzip" \notin Filters \cup Jpegs /\ "ssh" \notin Filters \cup Jpegs /\ Filters \cap Jpegs = {}
  BY DEF Filters, Jpegs
<1>3. prog = "ttlease" => PlacesOf(prog) = {"start", "call", "wait", "write", "half", "runs"} \cup Ended
  BY <1>2 DEF PlacesOf
<1>4. prog = "tgzip" => PlacesOf(prog) = {"start", "read", "eof", "failed", "done"} \cup InCall \cup Ended
  BY <1>2 DEF PlacesOf
<1>5. prog \in Filters => PlacesOf(prog) = {"start", "failed"} \cup InCall \cup Ended
  BY <1>2 DEF PlacesOf
<1>6. prog \in Jpegs => PlacesOf(prog) = {"start", "stock"} \cup InCall \cup Ended
  BY <1>2 DEF PlacesOf
<1>7. prog = "ssh" => PlacesOf(prog) = {"start"} \cup InCall \cup Ended
  BY <1>2 DEF PlacesOf
<1>8. QED
  BY <1>1, <1>3, <1>4, <1>5, <1>6, <1>7

\* A step within a call changes no file, and only a result of this call is taken in hand.
CallGoes ==
  /\ file' = file
  /\ cli'.prog = cli.prog /\ cli'.pieces = cli.pieces /\ cli'.call = cli.call /\ cli'.err = cli.err
  /\ cli.prog # "ttlease" /\ cli.at \in InCall /\ cli'.at \in InCall
  /\ cli'.at = "have" => cli'.data = Right(cli.call)

\* A step within a call writes nothing.
LEMMA CallGoesWrote ==
  ASSUME Types, Wrote, CallGoes
  PROVE  Wrote'
<1>1. Whole' = Whole
  BY DEF CallGoes, Whole
<1>2. cli'.at \notin {"start", "read", "eof", "done", "end", "stock"} /\ cli.at # "end"
  BY DEF CallGoes, InCall
<1>3. cli'.at \in PlacesOf(cli'.prog)
  BY PlacesFact DEF CallGoes, Types, Programs
<1>4. Placed'
  BY <1>2, <1>3 DEF Wrote, Placed, CallGoes
<1>5. TgzipWrote'
  BY <1>2 DEF Wrote, TgzipWrote, CallGoes
<1>6. OthersWrote'
  BY <1>2 DEF Wrote, OthersWrote, CallGoes
<1>7. OwnResult'
  BY DEF OwnResult, CallGoes
<1>8. QED
  BY <1>4, <1>5, <1>6, <1>7 DEF Wrote

\* ttlease writes no file.
LeaseGoes ==
  /\ cli.prog = "ttlease" /\ file' = file
  /\ cli'.prog = cli.prog /\ cli'.pieces = cli.pieces /\ cli'.call = cli.call
  /\ cli.at # "start" /\ cli'.at \in {"wait", "write", "half", "runs", "end"}
  /\ cli'.at \in {"wait", "write", "half"} => cli.at \in {"call", "wait"}

\* Nor does ttlease.
LEMMA LeaseGoesWrote ==
  ASSUME Types, Wrote, LeaseGoes
  PROVE  Wrote'
<1>1. cli'.at \in PlacesOf(cli'.prog)
  BY PlacesFact DEF LeaseGoes, Types, Programs, Ended
<1>2. Placed'
  BY <1>1 DEF Wrote, Placed, LeaseGoes, InCall
<1>3. OthersWrote'
  BY DEF Wrote, OthersWrote, LeaseGoes, InCall
<1>4. QED
  BY <1>2, <1>3 DEF Wrote, TgzipWrote, OwnResult, LeaseGoes

\* A program that dies leaves what it had written.
Dies ==
  /\ cli.at \notin Ended /\ cli' = [cli EXCEPT !.at = "dead"]
  /\ file' \in {[file EXCEPT !.dst = IF file.open THEN p ELSE @] : p \in Prefixes(file.out)}

\* A kill leaves the input.
LEMMA DiesWrote ==
  ASSUME Types, Wrote, Dies
  PROVE  Wrote'
<1>1. file'.input = file.input
  BY DEF Dies, Types, Disks
<1>2. cli'.at = "dead" /\ cli'.prog = cli.prog /\ cli'.pieces = cli.pieces /\ cli'.call = cli.call /\ cli.at # "end"
  BY DEF Dies, Types, Programs, Ended
<1>3. cli'.at \in PlacesOf(cli'.prog)
  BY <1>2, PlacesFact DEF Types, Programs, Ended
<1>4. Placed'
  BY <1>2, <1>3 DEF Wrote, Placed, InCall
<1>5. TgzipWrote' /\ OthersWrote'
  BY <1>1, <1>2 DEF Wrote, TgzipWrote, OthersWrote, InCall
<1>6. QED
  BY <1>2, <1>4, <1>5 DEF Wrote, OwnResult

\* Nothing written, nothing changed.
LEMMA SameWrote ==
  ASSUME Wrote, cli' = cli, file' = file
  PROVE  Wrote'
  BY DEF Wrote, Placed, TgzipWrote, OthersWrote, OwnResult, Whole, Cut

\* libttjob hands over only the result of this call, and undamaged.
LEMMA LibWrote ==
  ASSUME Types, Paired, Wrote, LibStep
  PROVE  Wrote'
<1>1. cli \in Programs /\ cli.at \in {"call", "wait", "half"} /\ file' = file /\ lib.got \in Seq(Answers)
  BY DEF LibStep, TakeOne, ReadBlocks, WaitLost, WaitTimeout, Call, CallBlocks, Collect, Types, Libs
<1>2. CASE cli' = Downs /\ cli.at \in {"wait", "half"}
  <2>1. /\ cli'.prog = cli.prog /\ cli'.pieces = cli.pieces /\ cli'.call = cli.call /\ cli'.err = cli.err
        /\ cli'.at = IF cli.prog = "ttlease" THEN "end" ELSE "cpu"
    BY <1>1, <1>2 DEF Downs, Programs
  <2>2. CASE cli.prog = "ttlease"
    BY <1>1, <1>2, <2>1, <2>2, LeaseGoesWrote DEF LeaseGoes
  <2>3. CASE cli.prog # "ttlease"
    BY <1>1, <1>2, <2>1, <2>3, CallGoesWrote DEF CallGoes, InCall
  <2>4. QED
    BY <2>2, <2>3
<1>3. CASE TakeOne
  BY <1>1, <1>3, SameWrote DEF TakeOne
<1>4. CASE Call
  <2>1. /\ cli'.prog = cli.prog /\ cli'.pieces = cli.pieces /\ cli'.call = cli.call /\ cli'.err = cli.err
        /\ cli'.at = "wait" /\ cli.at = "call"
    BY <1>1, <1>4 DEF Call, Submits, Programs
  <2>2. CASE cli.prog = "ttlease"
    BY <1>1, <2>1, <2>2, LeaseGoesWrote DEF LeaseGoes
  <2>3. CASE cli.prog # "ttlease"
    BY <1>1, <2>1, <2>3, CallGoesWrote DEF CallGoes, InCall
  <2>4. QED
    BY <2>2, <2>3
<1>5. ASSUME NEW fits \in BOOLEAN, Collect(fits), cli' # Downs
      PROVE  Wrote'
  <2>1. PICK i \in DOMAIN lib.got :
           /\ lib.got[i].id = cli.id
           /\ cli' = IF lib.got[i].st = "OK" /\ fits
                       THEN [cli EXCEPT !.at = IF cli.prog = "ttlease" THEN "runs" ELSE "have", !.data = lib.got[i].data]
                       ELSE Downs
    BY <1>5, CollectFact
  <2>2. /\ lib.got[i].st = "OK"
        /\ cli'.prog = cli.prog /\ cli'.pieces = cli.pieces /\ cli'.call = cli.call /\ cli'.err = cli.err
        /\ cli'.at = (IF cli.prog = "ttlease" THEN "runs" ELSE "have") /\ cli'.data = lib.got[i].data
    BY <1>1, <1>5, <2>1 DEF Programs
  <2>3. cli.at = "wait"
    BY <1>5 DEF Collect
  <2>4. lib.got[i].data.of = cli.call /\ lib.got[i].data.whole
    BY <2>1, <2>2, <2>3 DEF Paired, Own
  <2>5. lib.got[i].data \in Results
    <3>1. lib.got[i] \in Answers
      BY ONLY <1>1
    <3>2. QED
      BY <3>1 DEF Answers
  <2>6. lib.got[i].data = Right(cli.call)
    BY <2>4, <2>5 DEF Results, Right
  <2>7. CASE cli.prog = "ttlease"
    BY <1>1, <2>2, <2>3, <2>7, LeaseGoesWrote DEF LeaseGoes
  <2>8. CASE cli.prog # "ttlease"
    BY <1>1, <2>2, <2>3, <2>6, <2>8, CallGoesWrote DEF CallGoes, InCall
  <2>9. QED
    BY <2>7, <2>8
<1>6. CASE ReadBlocks \/ CallBlocks
  <2>1. /\ cli'.prog = cli.prog /\ cli'.pieces = cli.pieces /\ cli'.call = cli.call /\ cli'.err = cli.err
        /\ cli'.at \in {"half", "write"} /\ cli.at \in {"call", "wait"}
    BY <1>1, <1>6 DEF ReadBlocks, CallBlocks, At, Programs
  <2>2. CASE cli.prog = "ttlease"
    BY <1>1, <2>1, <2>2, LeaseGoesWrote DEF LeaseGoes
  <2>3. CASE cli.prog # "ttlease"
    BY <1>1, <2>1, <2>3, CallGoesWrote DEF CallGoes, InCall
  <2>4. QED
    BY <2>2, <2>3
<1>7. QED
  BY <1>2, <1>3, <1>4, <1>5, <1>6 DEF LibStep, WaitLost, WaitTimeout, Collect

\* The T425 by the link itself, the 68030, and a death.
LEMMA DirectWrote ==
  ASSUME Types, Wrote, CallDirect \/ CallPipe \/ DirectBoots \/ DirectHangs \/ DirectReads \/ OnCpu \/ Kill
  PROVE  Wrote'
<1>1. cli \in Programs /\ cli.at \in PlacesOf(cli.prog)
  BY DEF Types, Wrote, Placed
<1>2. cli.at \in {"boot", "sent", "cpu"} => cli.prog # "ttlease"
  BY <1>1, PlacesFact DEF Programs, Ended
<1>3. CASE CallDirect
  <2>1. file' = file /\ cli.at = "call"
    BY <1>3 DEF CallDirect
  <2>2. CASE cli.prog = "ttlease"
    <3>1. cli' = [cli EXCEPT !.at = "runs"]
      BY <1>3, <2>2 DEF CallDirect
    <3>2. QED
      BY <1>1, <2>1, <2>2, <3>1, LeaseGoesWrote DEF LeaseGoes, Programs
  <2>3. CASE cli.prog # "ttlease"
    <3>1. PICK l \in {"cpu", "boot"} : cli' = [cli EXCEPT !.at = l, !.tj = FALSE]
      BY <1>3, <2>3 DEF CallDirect
    <3>2. CallGoes
      BY <1>1, <2>1, <2>3, <3>1 DEF CallGoes, Programs, InCall
    <3>3. QED
      BY <3>2, CallGoesWrote
  <2>4. QED
    BY <2>2, <2>3
<1>4. CASE CallPipe \/ Kill
  BY <1>4, DiesWrote DEF CallPipe, Kill, At, Dies, Ended
<1>5. CASE DirectBoots
  <2>1. file' = file /\ cli.at = "boot"
    BY <1>5 DEF DirectBoots
  <2>2. CASE cli' = [cli EXCEPT !.at = "sent", !.lock = TRUE]
    BY <1>1, <1>2, <2>1, <2>2, CallGoesWrote DEF CallGoes, Programs, InCall
  <2>3. CASE cli' = [cli EXCEPT !.at = "cpu", !.off = TRUE]
    BY <1>1, <1>2, <2>1, <2>3, CallGoesWrote DEF CallGoes, Programs, InCall
  <2>4. CASE \E taken \in BOOLEAN : cli' = [cli EXCEPT !.at = "cpu", !.off = TRUE, !.lock = @ \/ taken]
    <3>1. PICK b : cli' = [cli EXCEPT !.at = "cpu", !.off = TRUE, !.lock = b]
      BY <2>4
    <3>2. CallGoes
      BY <1>1, <1>2, <2>1, <3>1 DEF CallGoes, Programs, InCall
    <3>3. QED
      BY <3>2, CallGoesWrote
  <2>5. QED
    BY <1>5, <2>2, <2>3, <2>4 DEF DirectBoots
<1>9. CASE DirectHangs
  <2>1. file' = file /\ cli.at \in {"boot", "sent"} /\ cli' = [cli EXCEPT !.at = "trap", !.lock = TRUE]
    BY <1>9 DEF DirectHangs
  <2>2. CallGoes
    BY <1>1, <1>2, <2>1 DEF CallGoes, Programs, InCall
  <2>3. QED
    BY <2>2, CallGoesWrote
<1>6. CASE DirectReads
  <2>1. file' = file /\ cli.at = "sent"
    BY <1>6 DEF DirectReads
  <2>2. CASE Accepted(link)
    <3>1. link[3] = "body"
      BY <2>2 DEF Accepted
    <3>2. cli' = [cli EXCEPT !.at = "have", !.data = Right(cli.call)]
      BY <1>6, <2>2, <3>1 DEF DirectReads, Right
    <3>3. CallGoes
      BY <1>1, <1>2, <2>1, <3>2 DEF CallGoes, Programs, InCall
    <3>4. QED
      BY <3>3, CallGoesWrote
  <2>3. CASE ~Accepted(link)
    <3>1. cli' = [cli EXCEPT !.at = "cpu", !.off = TRUE]
      BY <1>6, <2>3 DEF DirectReads
    <3>2. QED
      BY <1>1, <1>2, <2>1, <3>1, CallGoesWrote DEF CallGoes, Programs, InCall
  <2>4. QED
    BY <2>2, <2>3
<1>7. CASE OnCpu
  <2>1. file' = file /\ cli.at = "cpu" /\ cli.prog \notin Jpegs
    BY <1>7 DEF OnCpu, Jpegs
  <2>2. CASE cli' = [cli EXCEPT !.at = "have", !.data = Right(cli.call)]
    <3>1. CallGoes
      BY <1>1, <1>2, <2>1, <2>2 DEF CallGoes, Programs, InCall
    <3>2. QED
      BY <3>1, CallGoesWrote
  <2>3. CASE cli.prog # "ssh" /\ At("failed")
    <3>1. cli'.at = "failed" /\ cli'.prog = cli.prog /\ cli'.pieces = cli.pieces /\ cli'.call = cli.call
      BY <1>1, <2>3 DEF At, Programs
    <3>2. cli'.at \in PlacesOf(cli'.prog)
      <4>1. cli.prog = "tgzip" \/ cli.prog \in Filters
        BY <1>1, <1>2, <2>1, <2>3 DEF Programs, Progs, Filters, Jpegs
      <4>2. QED
        BY <1>1, <3>1, <4>1, PlacesFact DEF Programs
    <3>3. Placed'
      BY <3>1, <3>2 DEF Wrote, Placed, InCall
    <3>4. TgzipWrote' /\ OthersWrote'
      BY <2>1, <3>1 DEF Wrote, TgzipWrote, OthersWrote, InCall
    <3>5. QED
      BY <3>1, <3>3, <3>4 DEF Wrote, OwnResult
  <2>4. QED
    BY <1>7, <2>2, <2>3 DEF OnCpu
<1>8. QED
  BY <1>3, <1>4, <1>5, <1>6, <1>7, <1>9

\* tgzip: the output grows by the pieces in their order.
LEMMA TgzipWrites1 ==
  ASSUME Types, Wrote, TgzipStep
  PROVE  Wrote'
<1>1. /\ cli \in Programs /\ file \in Disks /\ cli.prog = "tgzip"
      /\ cli.at \in PlacesOf(cli.prog) /\ cli.call \in Nat /\ cli.pieces \in Nat /\ cli.call <= cli.pieces
  BY TgzipMoves DEF Types, Wrote, Placed, Programs
<1>2. ASSUME cli'.prog = cli.prog, cli'.pieces = cli.pieces,
             cli'.at \in {"read", "call", "cpu", "eof", "failed", "done", "end"},
             cli'.call \in Int, cli'.call <= cli.pieces, TgzipWrote',
             cli'.at \in {"call", "cpu"} => cli'.call >= 1
      PROVE  Wrote'
  <2>1. cli'.at \in PlacesOf(cli'.prog)
    BY <1>1, <1>2, PlacesFact DEF Programs, InCall, Ended
  <2>2. Placed'
    BY <1>1, <1>2, <2>1 DEF Placed, InCall
  <2>3. QED
    BY <1>1, <1>2, <2>2 DEF Wrote, OthersWrote, OwnResult
<1>3. CASE TgzipFails
  <2>1. cli' = [cli EXCEPT !.at = "end", !.rc = 1] /\ file' = [file EXCEPT !.dst = NoFile, !.open = FALSE] /\ cli.at = "failed"
    BY <1>3 DEF TgzipFails, Quits
  <2>2. /\ cli'.prog = cli.prog /\ cli'.pieces = cli.pieces /\ cli'.at = "end" /\ cli'.call = cli.call
        /\ file'.dst = NoFile /\ file'.input = file.input
    BY <1>1, <2>1 DEF Programs, Disks
  <2>3. file.input = TRUE
    BY <1>1, <2>1 DEF Wrote, TgzipWrote, Disks
  <2>4. TgzipWrote'
    BY <2>2, <2>3 DEF TgzipWrote, InCall
  <2>5. QED
    BY <1>1, <1>2, <2>2, <2>4
<1>4. ASSUME NEW b \in BOOLEAN, TgzipOpens(b)
      PROVE  Wrote'
  <2>1. /\ cli.at = "start" /\ cli.call = 0 /\ file.out = <<>> /\ file.dst \in {NoFile, OldFile} /\ ~cli.err /\ file.input = TRUE
    BY <1>1, <1>4 DEF TgzipOpens, Start, Wrote, Placed, TgzipWrote, Disks
  <2>2. CASE Quits(1) /\ UNCHANGED file
    <3>1. cli'.prog = cli.prog /\ cli'.pieces = cli.pieces /\ cli'.at = "end" /\ cli'.call = cli.call
      BY <1>1, <2>2 DEF Quits, Programs
    <3>2. TgzipWrote'
      BY <2>1, <2>2, <3>1 DEF TgzipWrote, InCall
    <3>3. QED
      BY <1>1, <1>2, <3>1, <3>2
  <2>3. CASE At("read") /\ file' = [file EXCEPT !.dst = <<>>, !.open = TRUE]
    <3>1. cli'.prog = cli.prog /\ cli'.pieces = cli.pieces /\ cli'.at = "read" /\ cli'.call = cli.call /\ cli'.err = cli.err
      BY <1>1, <2>3 DEF At, Programs
    <3>2. file'.out = <<>> /\ file'.input = file.input
      BY <1>1, <2>1, <2>3 DEF Disks
    <3>3. TgzipWrote'
      BY <2>1, <3>1, <3>2, UptoFact DEF TgzipWrote, InCall
    <3>4. QED
      BY <1>1, <1>2, <3>1, <3>3
  <2>4. QED
    BY <1>4, <2>2, <2>3 DEF TgzipOpens
<1>5. ASSUME NEW b \in BOOLEAN, TgzipUnlinks(b)
      PROVE  Wrote'
  <2>1. cli' = [cli EXCEPT !.at = "end", !.rc = 0] /\ file' = [file EXCEPT !.input = b] /\ cli.at = "done"
    BY <1>5 DEF TgzipUnlinks, Quits
  <2>2. /\ cli'.prog = cli.prog /\ cli'.pieces = cli.pieces /\ cli'.at = "end" /\ cli'.call = cli.call
        /\ file'.dst = file.dst
    BY <1>1, <2>1 DEF Programs, Disks
  <2>3. file.dst = Whole /\ Whole' = Whole
    BY <1>1, <2>1, <2>2 DEF Wrote, TgzipWrote, Whole
  <2>4. TgzipWrote'
    BY <2>2, <2>3 DEF TgzipWrote, InCall
  <2>5. QED
    BY <1>1, <1>2, <2>2, <2>4
<1>6. ASSUME NEW b \in BOOLEAN, TgzipReads(b)
      PROVE  Wrote'
  <2>1. file' = file /\ cli.at = "read"
    BY <1>6 DEF TgzipReads
  <2>2. file.input = TRUE /\ ~cli.err /\ file.out = Upto(cli.call)
    BY <1>1, <2>1 DEF Wrote, TgzipWrote, Disks
  <2>3. CASE cli.call = cli.pieces
    <3>1. cli' = [cli EXCEPT !.at = "eof"]
      BY <1>6, <2>3 DEF TgzipReads, At
    <3>2. cli'.prog = cli.prog /\ cli'.pieces = cli.pieces /\ cli'.at = "eof" /\ cli'.call = cli.call
      BY <1>1, <3>1 DEF Programs
    <3>3. file'.out = Whole'
      BY <2>1, <2>2, <2>3, <3>2 DEF Whole, Upto
    <3>4. TgzipWrote'
      BY <2>1, <2>2, <3>2, <3>3 DEF TgzipWrote, InCall
    <3>5. QED
      BY <1>1, <1>2, <3>2, <3>4
  <2>4. CASE cli.call # cli.pieces
    <3>1. PICK l \in {"cpu", "call"} : cli' = [cli EXCEPT !.call = cli.call + 1, !.err = b, !.at = l]
      BY <1>6, <2>4 DEF TgzipReads
    <3>2. cli'.prog = cli.prog /\ cli'.pieces = cli.pieces /\ cli'.at = l /\ cli'.call = cli.call + 1
      BY <1>1, <3>1 DEF Programs
    <3>3. cli'.call \in Int /\ cli'.call <= cli.pieces /\ cli'.call >= 1 /\ cli'.call - 1 = cli.call
      BY <1>1, <2>4, <3>2
    <3>4. TgzipWrote'
      BY <2>1, <2>2, <3>2, <3>3 DEF TgzipWrote, InCall
    <3>5. QED
      BY <1>1, <1>2, <3>2, <3>3, <3>4
  <2>5. QED
    BY <2>3, <2>4
<1>7. ASSUME NEW b \in BOOLEAN, TgzipWrites(b)
      PROVE  Wrote'
  <2>1. /\ cli.at = "have" /\ (cli.err => b) /\ (b => cli.err \/ cli.call = cli.pieces)
    BY <1>7 DEF TgzipWrites
  <2>2. file.input = TRUE /\ cli.data = Right(cli.call) /\ file.out = Upto(cli.call - 1) /\ cli.call >= 1
    BY <1>1, <2>1 DEF Wrote, TgzipWrote, OwnResult, Placed, Disks, InCall
  <2>3. CASE At("failed") /\ UNCHANGED file
    <3>1. cli'.prog = cli.prog /\ cli'.pieces = cli.pieces /\ cli'.at = "failed" /\ cli'.call = cli.call
      BY <1>1, <2>3 DEF At, Programs
    <3>2. TgzipWrote'
      BY <2>2, <2>3, <3>1 DEF TgzipWrote, InCall
    <3>3. QED
      BY <1>1, <1>2, <3>1, <3>2
  <2>4. CASE /\ file' = [file EXCEPT !.out = Append(@, cli.data)]
             /\ cli' = [cli EXCEPT !.at = IF b THEN "eof" ELSE "read", !.t4off = @ \/ cli.off]
    <3>1. PICK t : cli' = [cli EXCEPT !.at = IF b THEN "eof" ELSE "read", !.t4off = t]
      BY <2>4
    <3>2. /\ cli'.prog = cli.prog /\ cli'.pieces = cli.pieces /\ cli'.call = cli.call /\ cli'.err = cli.err
          /\ cli'.at = IF b THEN "eof" ELSE "read"
      BY <1>1, <3>1 DEF Programs
    <3>3. file'.out = Upto(cli.call) /\ file'.input = file.input
      BY <1>1, <2>2, <2>4, UptoFact DEF Disks
    <3>4. cli.call = cli.pieces => file'.out = Whole'
      BY <3>2, <3>3 DEF Whole, Upto
    <3>5. TgzipWrote'
      BY <2>1, <2>2, <3>2, <3>3, <3>4 DEF TgzipWrote, InCall
    <3>6. QED
      BY <1>1, <1>2, <3>2, <3>5
  <2>5. QED
    BY <1>7, <2>3, <2>4 DEF TgzipWrites
<1>8. ASSUME NEW b \in BOOLEAN, TgzipCloses(b)
      PROVE  Wrote'
  <2>1. cli.at = "eof"
    BY <1>8 DEF TgzipCloses
  <2>2. file.input = TRUE /\ (cli.err \/ file.out = Whole)
    BY <1>1, <2>1 DEF Wrote, TgzipWrote, Disks
  <2>3. file'.input = file.input /\ (~b => file'.dst = file.out)
    BY <1>1, <1>8 DEF TgzipCloses, Disks
  <2>4. PICK l \in {"failed", "done"} : cli' = [cli EXCEPT !.at = l] /\ (l = "done" => ~cli.err /\ ~b)
    BY <1>8 DEF TgzipCloses, Closed, At
  <2>5. cli'.prog = cli.prog /\ cli'.pieces = cli.pieces /\ cli'.at = l /\ cli'.call = cli.call /\ Whole' = Whole
    BY <1>1, <2>4 DEF Programs, Whole
  <2>6. TgzipWrote'
    BY <2>2, <2>3, <2>4, <2>5 DEF TgzipWrote, InCall
  <2>7. QED
    BY <1>1, <1>2, <2>5, <2>6
<1>9. QED
  BY <1>3, <1>4, <1>5, <1>6, <1>7, <1>8 DEF TgzipStep

\* The filters, the libjpeg front ends and Dropbear.
LEMMA FilterWrote ==
  ASSUME Types, Wrote, Begins \/ FilterWrites \/ FilterFails \/ JpegFallsBack \/ JpegWrites \/ Stock \/ SshCalls \/ LeaseEnds
  PROVE  Wrote'
<1>1. /\ cli \in Programs /\ file \in Disks /\ cli.at \in PlacesOf(cli.prog)
      /\ cli.call \in Nat /\ cli.pieces \in Nat /\ cli.call <= cli.pieces
      /\ (cli.prog \notin {"tgzip", "ssh"} => cli.pieces = 1)
  BY DEF Types, Wrote, Placed, Programs
<1>2. cli.prog # "tgzip"
  <2>1. "tgzip" \notin Filters \cup Jpegs /\ Jpegs = {"djpeg", "cjpeg"}
    BY DEF Filters, Jpegs
  <2>2. cli.prog = "tgzip" => cli.at \notin {"stock", "runs"}
    BY <1>1, PlacesFact DEF Programs, InCall, Ended
  <2>3. QED
    BY <2>1, <2>2 DEF Begins, FilterWrites, FilterFails, JpegFallsBack, JpegWrites, Stock, SshCalls, LeaseEnds
<1>3. file.input
  BY <1>2 DEF Wrote, OthersWrote
<1>4. ASSUME cli'.prog = cli.prog, cli'.pieces = cli.pieces, cli'.call \in Int, cli'.call <= cli.pieces,
             cli'.at \in PlacesOf(cli.prog), cli'.at \notin {"start", "have"},
             cli'.at \in InCall \cup {"stock"} => cli'.call >= 1 /\ file'.out = Upto(cli'.call - 1),
             cli'.at = "end" /\ cli'.rc = 0 /\ cli.prog # "ttlease" =>
               file'.out = Whole \/ (cli.prog \in Unchecked /\ file'.out = <<>>),
             file'.input = file.input
      PROVE  Wrote'
  <2>1. Placed'
    BY <1>1, <1>4 DEF Placed, InCall
  <2>2. Whole' = Whole
    BY <1>4 DEF Whole
  <2>3. OthersWrote'
    BY <1>2, <1>3, <1>4, <2>2 DEF OthersWrote, Cut
  <2>4. QED
    BY <1>2, <1>4, <2>1, <2>3 DEF Wrote, TgzipWrote, OwnResult
<1>5. Whole = Upto(cli.pieces)
  BY DEF Whole, Upto
<1>6. ASSUME NEW rc \in Int, Quits(rc), file'.input = file.input,
             rc = 0 /\ cli.prog # "ttlease" => file'.out = Whole \/ (cli.prog \in Unchecked /\ file'.out = <<>>)
      PROVE  Wrote'
  <2>1. /\ cli'.prog = cli.prog /\ cli'.pieces = cli.pieces /\ cli'.call = cli.call
        /\ cli'.at = "end" /\ cli'.rc = rc
    BY <1>1, <1>6 DEF Quits, Programs
  <2>2. "end" \in PlacesOf(cli.prog)
    BY <1>1, PlacesFact DEF Programs, Ended
  <2>3. QED
    BY <1>1, <1>4, <1>6, <2>1, <2>2 DEF InCall
<1>7. cli.at \in InCall \cup {"stock"} => cli.call >= 1 /\ file.out = Upto(cli.call - 1)
  BY <1>2 DEF Wrote, OthersWrote
<1>8. cli.at = "have" => cli.data = Right(cli.call) /\ Append(file.out, cli.data) = Upto(cli.call)
  <2>1. ASSUME cli.at = "have"
        PROVE  Append(Upto(cli.call - 1), Right(cli.call)) = Upto(cli.call)
    <3>1. cli.call >= 1
      BY <1>7, <2>1 DEF InCall
    <3>2. cli.call \in Nat \ {0}
      BY <1>1, <3>1
    <3>3. QED
      BY <3>2, UptoFact, Zenon
  <2>2. QED
    BY <1>7, <2>1 DEF Wrote, OwnResult, InCall
<1>9. 0 \in Int /\ 1 \in Int
  OBVIOUS
<1>10. CASE Begins
  <2>1. file' = file /\ cli.at = "start" /\ cli.prog \notin {"tgzip", "ssh"} /\ cli.call = 0 /\ file.out = <<>>
    BY <1>10 DEF Begins, Wrote, Placed
  <2>2. ASSUME NEW l \in {"call", "cpu", "stock"} \cap PlacesOf(cli.prog), Begin(l)
        PROVE  Wrote'
    <3>1. cli'.prog = cli.prog /\ cli'.pieces = cli.pieces /\ cli'.call = 1 /\ cli'.at = l
      BY <1>1, <2>2 DEF Begin, Programs
    <3>2. 1 - 1 = 0 /\ Upto(0) = <<>>
      BY UptoFact
    <3>3. QED
      BY <1>1, <1>4, <2>1, <3>1, <3>2
  <2>3. QED
    BY <1>6, <1>9, <1>10, <2>1, <2>2 DEF Begins
<1>11. CASE file' = file /\ \E rc \in {0, 1} : Quits(rc) /\ (rc = 0 => cli.prog = "ttlease")
  BY <1>6, <1>9, <1>11
<1>40. ASSUME cli.at = "have", cli.prog \in Unchecked, file' = file, NEW rc \in {0, 1}, Quits(rc)
       PROVE  Wrote'
  <2>1. cli.pieces = 1 /\ cli.call = 1 /\ 1 - 1 = 0
    BY <1>1, <1>7, <1>40 DEF Unchecked, Jpegs, InCall
  <2>2. file.out = <<>>
    BY <1>7, <1>40, <2>1, UptoFact DEF InCall
  <2>3. QED
    BY <1>6, <1>9, <1>40, <2>2
<1>12. ASSUME cli.at = "have", cli.prog \in Filters \cup Jpegs, file' = [file EXCEPT !.out = <<cli.data>>], Quits(0)
       PROVE  Wrote'
  <2>1. cli.pieces = 1 /\ cli.call = 1
    BY <1>1, <1>7, <1>12 DEF Filters, Jpegs, InCall
  <2>2. file'.out = <<cli.data>> /\ file'.input = file.input
    BY <1>1, <1>12 DEF Disks
  <2>3. file'.out = Whole
    BY <1>5, <1>8, <1>12, <2>1, <2>2, UptoFact
  <2>4. QED
    BY <1>6, <1>9, <1>12, <2>2, <2>3
<1>13. CASE FilterWrites
  BY <1>11, <1>12, <1>13, <1>40 DEF FilterWrites, Unchecked
<1>14. CASE FilterFails
  BY <1>11, <1>14 DEF FilterFails
<1>15. ASSUME cli.at \in {"cpu", "have"}, cli.prog \in Jpegs, At("stock"), file' = file
       PROVE  Wrote'
  <2>1. cli'.prog = cli.prog /\ cli'.pieces = cli.pieces /\ cli'.call = cli.call /\ cli'.at = "stock"
    BY <1>1, <1>15 DEF At, Programs
  <2>2. "stock" \in PlacesOf(cli.prog)
    BY <1>1, <1>15, PlacesFact DEF Programs
  <2>3. QED
    BY <1>1, <1>4, <1>7, <1>15, <2>1, <2>2 DEF InCall
<1>16. CASE JpegFallsBack
  BY <1>15, <1>16 DEF JpegFallsBack, Jpegs
<1>17. CASE JpegWrites
  BY <1>12, <1>15, <1>17, <1>40 DEF JpegWrites, Jpegs, Unchecked
<1>18. CASE Stock
  <2>1. cli.at = "stock" /\ cli.prog \in Jpegs
    <3>1. cli.at = "stock"
      BY <1>18 DEF Stock
    <3>2. cli.prog \in Jpegs
      BY <1>1, <3>1, PlacesFact DEF Programs, Progs, Filters, Jpegs, InCall, Ended
    <3>3. QED
      BY <3>1, <3>2
  <2>2. cli.pieces = 1 /\ cli.call = 1
    BY <1>1, <1>7, <2>1 DEF Jpegs
  <2>3. CASE file' = [file EXCEPT !.out = Append(@, Right(1))] /\ Quits(0)
    <3>1. file'.out = Append(Upto(0), Right(1)) /\ file'.input = file.input
      <4>1. file.out = Upto(1 - 1) /\ 1 - 1 = 0
        BY <1>7, <2>1, <2>2
      <4>2. QED
        BY <1>1, <2>3, <4>1 DEF Disks
    <3>2. Append(Upto(0), Right(1)) = Upto(1)
      <4>1. 1 \in Nat \ {0} /\ 1 - 1 = 0
        OBVIOUS
      <4>2. QED
        BY <4>1, UptoFact
    <3>3. QED
      BY <1>5, <1>6, <1>9, <2>2, <2>3, <3>1, <3>2
  <2>4. QED
    BY <1>11, <1>18, <2>3 DEF Stock
<1>19. CASE SshCalls
  <2>1. cli.prog = "ssh" /\ cli.at \in {"start", "have"}
    BY <1>19 DEF SshCalls
  <2>2. file'.input = file.input /\ (cli.at = "have" => file'.out = Append(file.out, cli.data)) /\ (cli.at = "start" => file'.out = file.out)
    BY <1>1, <1>19, <2>1 DEF SshCalls, Disks
  <2>3. file'.out = Upto(cli.call)
    <3>1. cli.at = "start" => cli.call = 0 /\ file.out = <<>>
      BY DEF Wrote, Placed
    <3>2. Upto(0) = <<>>
      BY UptoFact
    <3>3. QED
      BY <1>8, <2>1, <2>2, <3>1, <3>2
  <2>4. CASE cli.at = "have" /\ cli.call = cli.pieces
    <3>1. Quits(0)
      BY <1>19, <2>4 DEF SshCalls
    <3>2. QED
      BY <1>5, <1>6, <1>9, <2>2, <2>3, <2>4, <3>1
  <2>5. CASE ~(cli.at = "have" /\ cli.call = cli.pieces)
    <3>1. cli' = [cli EXCEPT !.at = "call", !.call = cli.call + 1, !.data = Nothing]
      BY <1>19, <2>5 DEF SshCalls
    <3>2. cli'.prog = cli.prog /\ cli'.pieces = cli.pieces /\ cli'.call = cli.call + 1 /\ cli'.at = "call"
      BY <1>1, <3>1 DEF Programs
    <3>3. cli.call < cli.pieces
      <4>1. cli.at = "start" => cli.call = 0
        BY DEF Wrote, Placed
      <4>2. cli.pieces >= 1
        BY <1>1 DEF Programs
      <4>3. QED
        BY <1>1, <2>1, <2>5, <4>1, <4>2
    <3>4. cli'.call - 1 = cli.call /\ cli'.call >= 1 /\ cli'.call <= cli.pieces /\ cli'.call \in Int
      BY <1>1, <3>2, <3>3
    <3>5. "call" \in PlacesOf(cli.prog)
      BY <1>1, <2>1, PlacesFact DEF Programs, InCall
    <3>6. QED
      BY <1>4, <2>2, <2>3, <3>2, <3>4, <3>5
  <2>6. QED
    BY <2>4, <2>5
<1>20. CASE LeaseEnds
  <2>1. cli.prog = "ttlease"
    BY <1>1, <1>20, PlacesFact DEF LeaseEnds, Programs, Progs, Filters, Jpegs, InCall, Ended
  <2>2. QED
    BY <1>11, <1>20, <2>1 DEF LeaseEnds
<1>21. QED
  BY <1>10, <1>13, <1>14, <1>16, <1>17, <1>18, <1>19, <1>20

-----------------------------------------------------------------------------
(***************************************************************************)
(* The invariant, and what follows from it.                                *)
(***************************************************************************)
\* The invariant holds at the start.
LEMMA InvStart == Init => Inv
<1> SUFFICES ASSUME Init
             PROVE  Inv
  OBVIOUS
<1>1. PICK w \in Work :
        cli = [at |-> "start", prog |-> w.prog, n |-> w.n, pieces |-> w.pieces, call |-> 0, id |-> 0,
               tj |-> w.prog \notin {"tgiftopnm", "tpnmscale"}, off |-> FALSE, lock |-> FALSE, t4off |-> FALSE,
               err |-> FALSE, data |-> Nothing, rc |-> -1]
  BY DEF Init
<1>2. /\ w.prog \in Progs /\ w.n \in JobSizes /\ w.pieces \in 1..MaxPieces
      /\ (w.prog \notin {"tgzip", "ssh"} => w.pieces = 1)
  BY OffloadAssumption
<1>3. MaxPieces \in Nat \ {0} /\ IdMax \in Nat \ {0} /\ MaxOther \in Nat /\ MaxTrouble \in Nat
  BY OffloadAssumption
<1>4. PICK up \in BOOLEAN : srv = [up |-> up, hung |-> FALSE, pend |-> {}, lease |-> FALSE]
  BY DEF Init
<1>5. PICK dst \in {NoFile, OldFile} : file = [input |-> TRUE, dst |-> dst, out |-> <<>>, open |-> FALSE]
  BY DEF Init
<1>6. lib = [fd |-> FALSE, lastid |-> 0, got |-> <<>>] /\ net = [alive |-> FALSE, rep |-> <<>>, half |-> FALSE]
  BY DEF Init
<1>7. JobOnNode0 /\ k0.id = 0
  BY <1>3 DEF Init, HeapInit, NoJob, JobOnNode0, Statuses
<1>8. IsFiniteSet({}) /\ Cardinality({}) = 0
  BY FS_EmptySet
<1>9. Types
  <2>1. cli \in Programs
    <3>1. Nothing \in Results /\ "start" \in Places /\ -1 \in Int /\ 0 \in 0..MaxPieces /\ 0 \in 0..IdMax
      BY <1>3, ResultsFact DEF Places
    <3>2. QED
      BY <1>1, <1>2, <3>1 DEF Programs
  <2>2. file \in Disks
    BY <1>5, ResultsFact DEF Disks
  <2>3. lib \in Libs /\ net \in Nets
    <3>1. <<>> \in Seq(Answers) /\ 0 \in 0..IdMax
      BY <1>3
    <3>2. QED
      BY <1>6, <3>1 DEF Libs, Nets
  <2>4. srv \in Servers /\ IsFiniteSet(srv.pend)
    BY <1>4, <1>8 DEF Servers
  <2>5. others \in 0..MaxOther /\ trouble \in 0..MaxTrouble
    BY <1>3 DEF Init
  <2>6. QED
    BY <1>7, <2>1, <2>2, <2>3, <2>4, <2>5 DEF Types
<1>10. /\ cli.at = "start" /\ cli.prog = w.prog /\ cli.pieces = w.pieces /\ cli.call = 0 /\ ~cli.err
       /\ lib.lastid = 0 /\ ~lib.fd /\ lib.got = <<>> /\ net.rep = <<>> /\ srv.pend = {}
       /\ file.input /\ file.out = <<>> /\ file.dst \in {NoFile, OldFile}
  BY <1>1, <1>4, <1>5, <1>6
<1>11. Counted
  BY <1>8, <1>10 DEF Counted
<1>12. Paired
  BY <1>10 DEF Paired, Own
<1>13. Leased
  BY <1>7, <1>10 DEF Leased
<1>14. Placed
  BY <1>2, <1>10, PlacesFact DEF Placed, InCall
<1>15. TgzipWrote /\ OthersWrote /\ OwnResult
  BY <1>10 DEF TgzipWrote, OthersWrote, OwnResult, InCall
<1>16. QED
  BY <1>9, <1>11, <1>12, <1>13, <1>14, <1>15 DEF Inv

\* Every step keeps it, as long as no id comes round.
LEMMA InvStep ==
  ASSUME MaxPieces <= IdMax, Inv, [Next]_vars
  PROVE  Inv'
<1>1. Types /\ Counted /\ Paired /\ Leased /\ Placed /\ Wrote
  BY DEF Inv, Wrote
<1>2. cli.call >= 1 \/ cli.at # "call"
  BY <1>1 DEF Placed, InCall
<1>3. CASE LibStep
  <2>1. Types' /\ Counted' /\ Paired'
    BY <1>1, <1>2, <1>3, LibTyped, LibCounted, LibPaired
  <2>2. Leased' /\ Wrote'
    BY <1>1, <1>3, LibLeased, LibWrote
  <2>3. QED
    BY <2>1, <2>2 DEF Inv, Wrote
<1>4. CASE LocalStep
  <2>1. Types' /\ Counted' /\ Paired' /\ Leased'
    BY <1>1, <1>4, LocalTyped, LocalCounted, LocalPaired, LocalLeased
  <2>2. Wrote'
    BY <1>1, <1>4, DirectWrote, TgzipWrites1, FilterWrote DEF LocalStep
  <2>3. QED
    BY <2>1, <2>2 DEF Inv, Wrote
<1>5. CASE AwayStep
  <2>1. Types' /\ Counted' /\ Paired' /\ Leased'
    BY <1>1, <1>5, AwayTyped, AwayCounted, AwayPaired, AwayLeased
  <2>2. Wrote'
    BY <1>1, <1>5, AwayQuiet, SameWrote
  <2>3. QED
    BY <2>1, <2>2 DEF Inv, Wrote
<1>6. CASE UNCHANGED vars
  <2>1. cli' = cli /\ file' = file /\ lib' = lib /\ net' = net /\ srv' = srv /\ k0' = k0 /\ others' = others /\ trouble' = trouble
    BY <1>6 DEF vars
  <2>2. Types' /\ Counted' /\ Paired' /\ Leased'
    BY <1>1, <2>1 DEF Types, JobOnNode0, Counted, Paired, Own, Leased, Granted
  <2>3. Wrote'
    BY <1>1, <2>1, SameWrote
  <2>4. QED
    BY <2>2, <2>3 DEF Inv, Wrote
<1>7. QED
  BY <1>3, <1>4, <1>5, <1>6, StepCases

\* It implies what the run checks.
LEMMA InvEnough == ASSUME Inv PROVE JobsSafe
<1>1. Types /\ Counted /\ Leased /\ Placed /\ TgzipWrote /\ OthersWrote /\ OwnResult
  BY DEF Inv
<1>2. /\ cli \in Programs /\ lib \in Libs /\ srv \in Servers /\ IsFiniteSet(srv.pend)
      /\ Len(lib.got) \in Nat /\ Len(net.rep) \in Nat /\ Cardinality(srv.pend) \in Nat
  <2>1. lib.got \in Seq(Answers) /\ net.rep \in Seq(Answers)
    BY <1>1 DEF Types, Libs, Nets
  <2>2. QED
    BY <1>1, <2>1, FS_CardinalityType, LenProperties DEF Types
<1>3. cli.at \in PlacesOf(cli.prog) /\ cli.prog \in Progs
  BY <1>1, <1>2 DEF Placed, Programs
<1>4. TypeOK
  <2>1. /\ cli.call \in 0..MaxPieces /\ cli.at \in Places /\ lib.lastid \in 0..IdMax
        /\ others \in 0..MaxOther /\ trouble \in 0..MaxTrouble
    BY <1>1, <1>2 DEF Types, Programs, Libs
  <2>2. lib.lastid <= cli.call /\ Len(lib.got) + Len(net.rep) + Cardinality(srv.pend) <= lib.lastid
    BY <1>1 DEF Counted
  <2>3. Len(lib.got) <= MaxPieces /\ Cardinality(srv.pend) <= MaxPieces
    <3>1. /\ Len(lib.got) \in Nat /\ Len(net.rep) \in Nat /\ Cardinality(srv.pend) \in Nat
          /\ lib.lastid \in Int /\ cli.call \in Int /\ cli.call <= MaxPieces
      BY <1>2, <2>1
    <3>2. \A a, b, c \in Nat, i, k \in Int : a + b + c <= i /\ i <= k /\ k <= MaxPieces => a <= MaxPieces /\ c <= MaxPieces
      BY OffloadAssumption
    <3>3. QED
      BY <2>2, <3>1, <3>2, Zenon
  <2>4. QED
    BY <2>1, <2>3 DEF TypeOK, Places, InCall, Blocked
<1>5. InputKept
  BY <1>1 DEF InputKept, TgzipWrote, OthersWrote
<1>6. EndsClean
  BY <1>1 DEF EndsClean, TgzipWrote, OthersWrote, Cut, Unchecked, Jpegs
<1>7. LeasedRun
  <2>1. cli.at = "runs" => cli.prog = "ttlease"
    BY <1>3, PlacesFact DEF Progs, Filters, Jpegs, InCall, Ended
  <2>2. QED
    BY <1>1, <2>1 DEF LeasedRun, Leased
<1>8. QED
  BY <1>1, <1>4, <1>5, <1>6, <1>7 DEF JobsSafe

-----------------------------------------------------------------------------
\* libttjob.c, t4call.c, tgzip.c, ttlease.c: whatever the daemon, the card and the disk do, a result a program
\* uses answers its present call and is undamaged, tgzip removes no input it has not written out whole and ends
\* without a truncated output, a filter that reports success has written its result, and ttlease runs the
\* program only under the lease.  The ids of libttjob begin again after IdMax; only Dropbear calls more than
\* once in an unbounded session, and the theorem is about sessions with no more calls than there are ids.
THEOREM JobsSafeHolds ==
  ASSUME MaxPieces <= IdMax
  PROVE  Spec => []JobsSafe
<1>1. Init => Inv
  BY InvStart
<1>2. Inv /\ [Next]_vars => Inv'
  BY InvStep
<1>3. Inv => JobsSafe
  BY InvEnough
<1>4. QED
  BY <1>1, <1>2, <1>3, PTL DEF Spec
=============================================================================
