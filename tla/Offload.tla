------------------------------ MODULE Offload -------------------------------
(***************************************************************************)
(* A program that gives its work to the T425 and falls back to the 68030:  *)
(* tgzip, the picture filters, tbc, the libjpeg front ends and Dropbear,   *)
(* through t4call and libttjob to ttjobd (TTJobd has the daemon itself,    *)
(* T4Users the lock of the direct path), while node 0 runs its jobs and    *)
(* those of other clients on one heap (JobHeap).  The daemon is killed and *)
(* restarted, replies come late, damaged or never, disks fill.  A payload  *)
(* is the number of the call it was made for; the result of a payload is   *)
(* the same on either CPU and stands for it.                               *)
(***************************************************************************)
EXTENDS JobHeap

CONSTANTS
  Work,        \* what may be run: a program, the size of its jobs, and how many it has
  JOB_BIG, IdMax,
  MaxPieces,   \* bound on the pieces of tgzip's input and the calls of Dropbear
  MaxOther,    \* jobs of other clients
  MaxTrouble   \* daemon deaths and hangs, hangs of the link, resets, failed writes, damaged replies

VARIABLES
  lib,      \* libttjob: fd open, lastid, got (replies read and not collected, newest first)
  net,      \* the connection: alive at the daemon's end, replies waiting in the socket, half of one more
  srv,      \* ttjobd: up, hung in a trap of the link, this client's unanswered requests, its lease
  cli,      \* the program: where it is, its call, tj, state and lock of t4call, the result in hand, exit status
  file,     \* its files: the input, the output's name on disk, what was written to the open output
  link,     \* the direct path: what t4serv has answered
  others, trouble

card == <<heap, on, k0, ker>>
vars == <<heap, on, k0, ker, lib, net, srv, cli, file, link, others, trouble>>

Progs == {"tgzip", "tppmquant", "tpnmscale", "tgiftopnm", "tpnmtopng", "tbc", "djpeg", "cjpeg", "ssh", "ttlease"}
Filters == {"tppmquant", "tpnmscale", "tgiftopnm", "tpnmtopng", "tbc"}

ASSUME OffloadAssumption ==
  /\ Work \subseteq [prog : Progs, n : JobSizes, pieces : 1..MaxPieces]
  \* Only tgzip cuts its input, and only Dropbear calls again.
  /\ \A w \in Work : w.prog \notin {"tgzip", "ssh"} => w.pieces = 1
  /\ IdMax \in Nat \ {0} /\ MaxPieces \in Nat \ {0} /\ MaxOther \in Nat /\ MaxTrouble \in Nat

KernelOf(prog) == CASE prog = "tppmquant" -> "ppmq" [] prog = "tbc" -> "bc" [] prog = "ssh" -> "echo" [] OTHER -> "jpeg"
Nothing == [of |-> 0, whole |-> FALSE]
StrictPrefixes(s) == Prefixes(s) \ {s}
Right(i) == [of |-> i, whole |-> TRUE]
NoFile == <<[of |-> -1, whole |-> FALSE]>>
OldFile == <<[of |-> -2, whole |-> TRUE]>>
Whole == [i \in 1..cli.pieces |-> Right(i)]
Ended == {"end", "dead"}
Blocked == {"write", "half"}

At(l) == cli' = [cli EXCEPT !.at = l]
Trouble == trouble < MaxTrouble /\ trouble' = trouble + 1

-----------------------------------------------------------------------------
(***************************************************************************)
(* libttjob.c.                                                             *)
(***************************************************************************)
NextId(i) == (i % IdMax) + 1
Lost == [lib EXCEPT !.fd = FALSE]

Connected == [alive |-> TRUE, rep |-> <<>>, half |-> FALSE]

\* ttjob_submit: a job id, or -1 (no daemon, too long, the request could not be written).
Submits(l) ==
  /\ cli.n <= JOB_BIG
  /\ IF lib.fd THEN net.alive ELSE srv.up
  /\ lib' = [lib EXCEPT !.fd = TRUE, !.lastid = NextId(@)]
  /\ net' = IF lib.fd THEN net ELSE Connected
  /\ srv' = [srv EXCEPT !.pend = @ \cup {[id |-> NextId(lib.lastid), of |-> cli.call]}]
  /\ cli' = [cli EXCEPT !.at = l, !.id = NextId(lib.lastid)]

\* A write into a connection the daemon has left raises SIGPIPE before it can return.
SubmitFails ==
  /\ \/ cli.n > JOB_BIG /\ UNCHANGED lib
     \/ cli.n <= JOB_BIG /\ ~lib.fd /\ ~srv.up /\ lib' = Lost

\* Mutant: the newest collected reply is taken for ours.
Found_Any(d) == TRUE

\* find: the reply d in got answers the id waited for.
Found(d) == d.id = cli.id

Mine == {i \in DOMAIN lib.got : Found(lib.got[i])}

\* A damaged result is no result.
Checked(r) == IF r.st = "OK" /\ ~r.data.whole THEN [r EXCEPT !.st = "BADREQ"] ELSE r

\* ttjob_wait reads the next reply, for whatever id.
TakeOne ==
  /\ cli.at = "wait" /\ Mine = {} /\ lib.fd /\ net.rep # <<>>
  /\ lib' = [lib EXCEPT !.got = <<Checked(Head(net.rep))>> \o @]
  /\ net' = [net EXCEPT !.rep = Tail(@)]
  /\ UNCHANGED <<card, srv, cli, file, link, others, trouble>>

\* There is something to read, and the rest of it does not come: read has no time-out.
ReadBlocks ==
  /\ cli.at = "wait" /\ Mine = {} /\ lib.fd /\ net.rep = <<>> /\ net.half
  /\ At("half")
  /\ UNCHANGED <<card, lib, net, srv, file, link, others, trouble>>

\* What the callers make of a status: t4call turns the T425 off for this process, the others run this job on the 68030.
Downs == [cli EXCEPT !.at = IF cli.prog = "ttlease" THEN "end" ELSE "cpu", !.off = @ \/ cli.prog # "ssh",
                     !.rc = IF cli.prog = "ttlease" THEN 3 ELSE @]

\* The connection is lost, or there is no memory for the reply.
WaitLost ==
  /\ cli.at \in {"wait", "half"} /\ Mine = {}
  /\ \/ (~lib.fd \/ (~net.alive /\ net.rep = <<>>)) /\ UNCHANGED <<net, trouble>>
     \/ lib.fd /\ net.rep # <<>> /\ Trouble /\ net' = [net EXCEPT !.alive = FALSE, !.rep = <<>>]
  /\ lib' = Lost
  /\ srv' = [srv EXCEPT !.pend = {}, !.lease = FALSE]
  /\ cli' = Downs
  /\ UNCHANGED <<card, file, link, others>>

\* Mutant: select is given no timeout.
WaitTimeout_Never == cli.at = "wait" /\ FALSE /\ UNCHANGED vars

\* Nothing came in time; the job is still ttjobd's.
WaitTimeout ==
  /\ cli.at = "wait" /\ Mine = {} /\ lib.fd /\ net.rep = <<>> /\ ~net.half
  /\ cli' = Downs
  /\ UNCHANGED <<card, lib, net, srv, file, link, others, trouble>>

\* The reply is taken off the list; one longer than the caller's buffer is ST_TOOBIG.
Collect(fits) ==
  /\ cli.at = "wait" /\ Mine # {}
  /\ LET i == CHOOSE j \in Mine : \A m \in Mine : j <= m
         d == lib.got[i]
     IN /\ lib' = [lib EXCEPT !.got = RemoveAt(@, i)]
        /\ cli' = IF d.st = "OK" /\ fits THEN [cli EXCEPT !.at = IF cli.prog = "ttlease" THEN "runs" ELSE "have", !.data = d.data]
                  ELSE Downs
  /\ UNCHANGED <<card, net, srv, file, link, others, trouble>>

-----------------------------------------------------------------------------
(***************************************************************************)
(* t4call, and the other callers of ttjob_submit.                          *)
(***************************************************************************)
UsesT4call == cli.prog \notin {"ssh", "ttlease"}

Call ==
  /\ cli.at = "call" /\ (UsesT4call => cli.tj)
  /\ Submits("wait")
  /\ UNCHANGED <<card, file, link, others, trouble>>

\* ttjobd hangs and does not read, and the request is more than the socket holds.
CallBlocks ==
  /\ cli.at = "call" /\ (UsesT4call => cli.tj) /\ cli.n <= JOB_BIG
  /\ srv.hung /\ (lib.fd => net.alive)
  /\ lib' = [lib EXCEPT !.fd = TRUE, !.lastid = NextId(@)]
  /\ net' = IF lib.fd THEN net ELSE Connected
  /\ At("write")
  /\ UNCHANGED <<card, srv, file, link, others, trouble>>

\* No daemon: t4call goes to the link itself unless it has given up; Dropbear's direct path is T4Users'.
CallDirect ==
  /\ cli.at = "call"
  /\ IF UsesT4call /\ ~cli.tj THEN UNCHANGED lib ELSE SubmitFails
  /\ cli' = IF cli.prog = "ttlease" THEN [cli EXCEPT !.at = "runs"]
            ELSE [cli EXCEPT !.at = IF cli.prog = "ssh" \/ cli.off THEN "cpu" ELSE "boot", !.tj = FALSE]
  /\ UNCHANGED <<card, net, srv, file, link, others, trouble>>

\* SIGPIPE is not ignored: the program dies in write.
CallPipe ==
  /\ cli.at \in {"call", "write"} /\ (UsesT4call => cli.tj) /\ cli.n <= JOB_BIG /\ lib.fd /\ ~net.alive
  /\ At("dead")
  /\ file' \in {[file EXCEPT !.dst = IF file.open THEN p ELSE @] : p \in Prefixes(file.out)}
  /\ lib' = Lost
  /\ UNCHANGED <<card, net, srv, link, others, trouble>>

\* Taking the lock, which ttjobd holds while it is up, and booting the server, once per process.
DirectBoots ==
  /\ cli.at = "boot"
  /\ \/ ~srv.up /\ cli' = [cli EXCEPT !.at = "sent", !.lock = TRUE] /\ link' = <<>> /\ UNCHANGED trouble
     \/ srv.up /\ cli' = [cli EXCEPT !.at = "cpu", !.off = TRUE] /\ UNCHANGED <<link, trouble>>
     \/ ~srv.up /\ Trouble /\ UNCHANGED link
        /\ \E taken \in BOOLEAN : cli' = [cli EXCEPT !.at = "cpu", !.off = TRUE, !.lock = @ \/ taken]
  /\ UNCHANGED <<card, lib, net, srv, file, others>>

\* A trap of the link that does not return, in the boot, the request or the reply.
DirectHangs ==
  /\ \/ cli.at = "boot" /\ ~srv.up
     \/ cli.at = "sent"
  /\ Trouble
  /\ cli' = [cli EXCEPT !.at = "trap", !.lock = TRUE]
  /\ UNCHANGED <<card, lib, net, srv, file, link, others>>

\* t4serv: 0xffffffff for a failure, otherwise the length; the checksum and the result only if there is one.
T4servAnswers(words) ==
  /\ cli.at = "sent" /\ link = <<>>
  /\ words \in {<<"fail">>, <<"0">>, <<"n", "adler", "body">>, <<"n", "adler", "damaged">>, <<"n">>}
  /\ IF words = <<"n", "adler", "body">> THEN UNCHANGED trouble ELSE Trouble
  /\ link' = words
  /\ UNCHANGED <<card, lib, net, srv, cli, file, others>>

Accepted(words) == words = <<"n", "adler", "body">>

\* The reply is read to its end or given up after its time, and a call that failed ends the use of the T425.
DirectReads ==
  /\ cli.at = "sent"
  /\ IF Accepted(link)
       THEN cli' = [cli EXCEPT !.at = "have", !.data = [of |-> cli.call, whole |-> link[3] = "body"]]
       ELSE cli' = [cli EXCEPT !.at = "cpu", !.off = TRUE]
  /\ link' = <<>>
  /\ UNCHANGED <<card, lib, net, srv, file, others, trouble>>

\* The same kernel on the 68030; it fails on input it cannot take.
OnCpu ==
  /\ cli.at = "cpu" /\ cli.prog \notin {"djpeg", "cjpeg"}
  /\ \/ cli' = [cli EXCEPT !.at = "have", !.data = Right(cli.call)] /\ UNCHANGED trouble
     \/ cli.prog # "ssh" /\ Trouble /\ At("failed")
  /\ UNCHANGED <<card, lib, net, srv, file, link, others>>

-----------------------------------------------------------------------------
(***************************************************************************)
(* The front ends.                                                         *)
(***************************************************************************)
Start(prog) == cli.at = "start" /\ cli.prog = prog
Begin(l) == cli' = [cli EXCEPT !.at = l, !.call = 1]
Quits(rc) == cli' = [cli EXCEPT !.at = "end", !.rc = rc]
FrontEnd == UNCHANGED <<card, lib, net, srv, link, others>>

\* tgzip main: an existing output is kept without -f; opening it empties it.
TgzipOpens(force) ==
  /\ Start("tgzip")
  /\ IF file.dst # NoFile /\ ~force THEN Quits(1) /\ UNCHANGED file
     ELSE At("read") /\ file' = [file EXCEPT !.dst = <<>>, !.open = TRUE]
  /\ UNCHANGED trouble /\ FrontEnd

\* squeeze: the next piece, or the end of the file when its last piece was a full one.
TgzipReads(err) ==
  /\ cli.prog = "tgzip" /\ cli.at = "read"
  /\ IF cli.call = cli.pieces THEN ~err /\ At("eof") /\ UNCHANGED trouble
     ELSE /\ IF err THEN Trouble ELSE UNCHANGED trouble
          /\ cli' = [cli EXCEPT !.call = @ + 1, !.err = err,
                                !.at = IF cli.t4off THEN "cpu" ELSE "call"]
  /\ UNCHANGED file /\ FrontEnd

\* A piece is written; the loop ends after a short one.
TgzipWrites(short) ==
  /\ cli.prog = "tgzip" /\ cli.at = "have"
  /\ cli.err => short
  /\ short => cli.err \/ cli.call = cli.pieces
  /\ \/ /\ file' = [file EXCEPT !.out = Append(@, cli.data)]
        /\ cli' = [cli EXCEPT !.at = IF short THEN "eof" ELSE "read", !.t4off = @ \/ cli.off]
        /\ UNCHANGED trouble
     \/ Trouble /\ At("failed") /\ UNCHANGED file
  /\ FrontEnd

\* fclose writes what stdio still holds and says whether it could.
Closed(lost) == ~lost

TgzipCloses(lost) ==
  /\ cli.prog = "tgzip" /\ cli.at = "eof"
  /\ IF lost THEN Trouble ELSE UNCHANGED trouble
  /\ IF cli.err \/ ~Closed(lost) THEN At("failed") ELSE At("done")
  /\ file' \in {[file EXCEPT !.dst = p, !.open = FALSE] : p \in IF lost THEN StrictPrefixes(file.out) ELSE {file.out}}
  /\ FrontEnd

\* "never leave a truncated .gz beside a deleted input"
TgzipFails ==
  /\ cli.prog = "tgzip" /\ cli.at = "failed"
  /\ file' = [file EXCEPT !.dst = NoFile, !.open = FALSE]
  /\ Quits(1)
  /\ UNCHANGED trouble /\ FrontEnd

\* -k keeps the input.
TgzipUnlinks(keep) ==
  /\ cli.prog = "tgzip" /\ cli.at = "done"
  /\ file' = [file EXCEPT !.input = keep]
  /\ Quits(0)
  /\ UNCHANGED trouble /\ FrontEnd

\* A filter reads all its input.  Worth: enabled, and of a size the T425 gains on and can hold.
Reads(prog, worth) == Start(prog) /\ Begin(IF worth THEN "call" ELSE "cpu")
Refuses(prog) == Start(prog) /\ Trouble /\ Quits(1)
Tppmquant(worth) == Reads("tppmquant", worth) /\ UNCHANGED <<file, trouble>> /\ FrontEnd
Tpnmscale(worth) == (Refuses("tpnmscale") \/ (Reads("tpnmscale", worth) /\ UNCHANGED trouble)) /\ UNCHANGED file /\ FrontEnd
Tgiftopnm(worth) == (Refuses("tgiftopnm") \/ (Reads("tgiftopnm", worth) /\ UNCHANGED trouble)) /\ UNCHANGED file /\ FrontEnd
Tpnmtopng(worth) == (Refuses("tpnmtopng") \/ (Reads("tpnmtopng", worth) /\ UNCHANGED trouble)) /\ UNCHANGED file /\ FrontEnd
Tbc(worth) == (Refuses("tbc") \/ (Reads("tbc", worth) /\ UNCHANGED trouble)) /\ UNCHANGED file /\ FrontEnd

\* The result goes out at once; all but tbc look at what fwrite and fflush say.
FilterWrites ==
  /\ cli.prog \in Filters /\ cli.at = "have"
  /\ \/ file' = [file EXCEPT !.out = <<cli.data>>] /\ Quits(0) /\ UNCHANGED trouble
     \/ Trouble /\ Quits(IF cli.prog = "tbc" THEN 0 ELSE 1) /\ UNCHANGED file
  /\ FrontEnd

FilterFails == cli.prog \in Filters /\ cli.at = "failed" /\ Quits(1) /\ UNCHANGED <<file, trouble>> /\ FrontEnd

\* t4_djpeg, t4_cjpeg: arguments and pictures they leave to the stock program.
JpegFrontEnd(prog, worth) ==
  /\ prog \in {"djpeg", "cjpeg"} /\ Start(prog) /\ Begin(IF worth THEN "call" ELSE "stock")
  /\ UNCHANGED <<file, trouble>> /\ FrontEnd
Djpeg(worth) == JpegFrontEnd("djpeg", worth)
Cjpeg(worth) == JpegFrontEnd("cjpeg", worth)

\* The T425 did not do it: t4_djpeg returns -1.
JpegFallsBack == cli.prog \in {"djpeg", "cjpeg"} /\ cli.at = "cpu" /\ At("stock") /\ UNCHANGED <<file, trouble>> /\ FrontEnd

\* A result that is half written is no case for the stock program; but what goes to stdout is
\* flushed only after the program has made its exit status.
JpegWrites ==
  /\ cli.prog \in {"djpeg", "cjpeg"} /\ cli.at = "have"
  /\ \/ file' = [file EXCEPT !.out = <<cli.data>>] /\ Quits(0) /\ UNCHANGED trouble
     \/ Trouble /\ (\E rc \in {0, 1} : Quits(rc)) /\ UNCHANGED file
     \/ Trouble /\ At("stock") /\ UNCHANGED file
  /\ FrontEnd

Stock ==
  /\ cli.at = "stock"
  /\ \/ file' = [file EXCEPT !.out = Append(@, Right(1))] /\ Quits(0) /\ UNCHANGED trouble
     \/ Trouble /\ Quits(1) /\ UNCHANGED file
  /\ FrontEnd

\* Dropbear: one call after another, each on the T425 or on the 68030.
SshCalls ==
  /\ cli.prog = "ssh" /\ cli.at \in {"start", "have"}
  /\ IF cli.at = "have" /\ cli.call = cli.pieces THEN Quits(0)
     ELSE cli' = [cli EXCEPT !.at = "call", !.call = @ + 1, !.data = Nothing]
  /\ file' = IF cli.at = "have" THEN [file EXCEPT !.out = Append(@, cli.data)] ELSE file
  /\ UNCHANGED trouble /\ FrontEnd

LeaseAsks == Start("ttlease") /\ Begin("call") /\ UNCHANGED <<file, trouble>> /\ FrontEnd
LeaseEnds == cli.at = "runs" /\ Quits(0) /\ UNCHANGED <<file, trouble>> /\ FrontEnd

Kill ==
  /\ cli.at \notin Ended /\ Trouble
  /\ At("dead")
  /\ file' \in {[file EXCEPT !.dst = IF file.open THEN p ELSE @] : p \in Prefixes(file.out)}
  /\ FrontEnd

-----------------------------------------------------------------------------
(***************************************************************************)
(* ttjobd and the card.                                                    *)
(***************************************************************************)
Rebooted ==
  /\ heap' = Malloc(Empty, Stacks, FALSE) /\ on' = FALSE /\ k0' = NoJob
  /\ ker' = [held |-> {}, calls |-> 0, hash |-> NULL, blks |-> <<>>, slab |-> <<>>, used |-> 0, nodes |-> <<>>]

\* A reply to r reaches the client if it is still there.
Reply(r, st, whole) == net' = [net EXCEPT !.rep = Append(@, [id |-> r.id, st |-> st, data |-> [of |-> r.of, whole |-> whole]])]
Answered(r) == srv' = [srv EXCEPT !.pend = @ \ {r}]
DaemonStep == UNCHANGED <<lib, cli, file, link>>
Serves == srv.up /\ ~srv.hung
Asked4Lease == cli.prog = "ttlease"

Node0Takes(r) ==
  /\ Serves /\ r \in srv.pend /\ ~Asked4Lease
  /\ HostTakes(r.of, KernelOf(cli.prog), cli.n)
  /\ DaemonStep /\ UNCHANGED <<net, srv, others, trouble>>

\* Another client's job.
Node0TakesOther(op, n) ==
  /\ Serves /\ ~srv.lease /\ others < MaxOther
  /\ others' = others + 1
  /\ HostTakes(0, op, n)
  /\ DaemonStep /\ UNCHANGED <<net, srv, trouble>>

Node0Works == srv.up /\ HeapStep /\ DaemonStep /\ UNCHANGED <<net, srv, others, trouble>>

\* mux writes the reply; ttjobd passes it on to the client it belongs to.
Node0Replies(whole) ==
  /\ Serves /\ MuxFrees
  /\ IF whole THEN UNCHANGED trouble ELSE Trouble
  /\ LET mine == {r \in srv.pend : r.of = k0.id} IN
     IF mine = {} THEN UNCHANGED <<net, srv>>
     ELSE \E r \in mine : Answered(r) /\ Reply(r, k0.st, whole)
  /\ DaemonStep /\ UNCHANGED others

\* A TRAM ran it, or the image has no such op.
TramReplies(r, st) ==
  /\ Serves /\ r \in srv.pend /\ k0.id # r.of /\ ~Asked4Lease
  /\ st \in {"OK", "BADOP"}
  /\ Answered(r) /\ Reply(r, st, TRUE)
  /\ DaemonStep /\ UNCHANGED <<card, others, trouble>>

LeaseReplies(r) ==
  /\ Serves /\ r \in srv.pend /\ Asked4Lease
  /\ \/ srv' = [srv EXCEPT !.pend = @ \ {r}, !.lease = TRUE] /\ Reply(r, "OK", TRUE) /\ Rebooted
     \/ Answered(r) /\ Reply(r, "BADREQ", TRUE) /\ UNCHANGED card
  /\ DaemonStep /\ UNCHANGED <<others, trouble>>

\* The network is reset: every request is answered ST_DOWN.
CardFails ==
  /\ Serves /\ Trouble /\ Rebooted
  /\ srv' = [srv EXCEPT !.pend = {}]
  /\ net' = [net EXCEPT !.rep = @ \o [i \in 1..Cardinality(srv.pend) |->
               [id |-> SetToSeq(srv.pend)[i].id, st |-> "DOWN", data |-> Nothing]]]
  /\ DaemonStep /\ UNCHANGED others

\* It hangs in a trap of the link, perhaps in the middle of a reply: the writes to a client do not block.
DaemonHangs ==
  /\ Serves /\ Trouble /\ srv' = [srv EXCEPT !.hung = TRUE]
  /\ IF net.alive THEN \E p \in Prefixes(net.rep), h \in BOOLEAN :
                          net' = [alive |-> TRUE, rep |-> p, half |-> h /\ p # net.rep]
     ELSE UNCHANGED net
  /\ DaemonStep /\ UNCHANGED <<card, others>>

\* Killed, if it hangs by ttjobd-watch.
DaemonDies ==
  /\ srv.up /\ (IF srv.hung THEN UNCHANGED trouble ELSE Trouble)
  /\ srv' = [up |-> FALSE, hung |-> FALSE, pend |-> {}, lease |-> FALSE]
  /\ \E p \in Prefixes(net.rep) : net' = [alive |-> FALSE, rep |-> p, half |-> FALSE]
  /\ DaemonStep /\ UNCHANGED <<card, others>>

DaemonStarts ==
  /\ ~srv.up /\ (cli.lock => cli.at \in Ended) /\ srv' = [srv EXCEPT !.up = TRUE] /\ Rebooted
  /\ DaemonStep /\ UNCHANGED <<net, others, trouble>>

\* The client has gone: its requests are orphans and its lease ends.
ClientGone ==
  /\ Serves /\ cli.at \in Ended /\ (srv.pend # {} \/ srv.lease)
  /\ srv' = [srv EXCEPT !.pend = {}, !.lease = FALSE]
  /\ IF srv.lease THEN Rebooted ELSE UNCHANGED card
  /\ DaemonStep /\ UNCHANGED <<net, others, trouble>>

-----------------------------------------------------------------------------
Client ==
  \/ TakeOne \/ ReadBlocks \/ WaitLost \/ WaitTimeout \/ Call \/ CallBlocks \/ CallDirect \/ CallPipe
  \/ DirectBoots \/ DirectHangs \/ DirectReads \/ OnCpu
  \/ \E fits \in BOOLEAN : Collect(fits)
  \/ TgzipFails
  \/ \E b \in BOOLEAN : TgzipOpens(b) \/ TgzipUnlinks(b) \/ TgzipReads(b) \/ TgzipWrites(b) \/ TgzipCloses(b)
  \/ \E w \in BOOLEAN : Tppmquant(w) \/ Tpnmscale(w) \/ Tgiftopnm(w) \/ Tpnmtopng(w) \/ Tbc(w) \/ Djpeg(w) \/ Cjpeg(w)
  \/ FilterWrites \/ FilterFails \/ JpegFallsBack \/ JpegWrites \/ Stock \/ SshCalls \/ LeaseAsks \/ LeaseEnds

Daemon ==
  \/ \E r \in srv.pend : Node0Takes(r) \/ LeaseReplies(r) \/ (\E st \in {"OK", "BADOP"} : TramReplies(r, st))
  \/ \E op \in Kernels, n \in JobSizes : Node0TakesOther(op, n)
  \/ \E whole \in BOOLEAN : Node0Replies(whole)
  \/ Node0Works \/ CardFails \/ DaemonHangs \/ DaemonDies \/ DaemonStarts \/ ClientGone

Next ==
  \/ Client \/ Kill \/ Daemon
  \/ \E words \in {<<"fail">>, <<"0">>, <<"n", "adler", "body">>, <<"n", "adler", "damaged">>, <<"n">>} : T4servAnswers(words)

Init ==
  /\ HeapInit
  /\ lib = [fd |-> FALSE, lastid |-> 0, got |-> <<>>]
  /\ net = [alive |-> FALSE, rep |-> <<>>, half |-> FALSE]
  /\ \E up \in BOOLEAN : srv = [up |-> up, hung |-> FALSE, pend |-> {}, lease |-> FALSE]
  \* tgiftopnm and tpnmscale are built without T4CALL_TTJOB.
  /\ \E w \in Work :
       /\ cli = [at |-> "start", prog |-> w.prog, n |-> w.n, pieces |-> w.pieces, call |-> 0,
                 id |-> 0, tj |-> w.prog \notin {"tgiftopnm", "tpnmscale"}, off |-> FALSE, lock |-> FALSE, t4off |-> FALSE, err |-> FALSE, data |-> Nothing, rc |-> -1]
  /\ \E dst \in IF cli.prog = "tgzip" THEN {NoFile, OldFile} ELSE {NoFile} :
       file = [input |-> TRUE, dst |-> dst, out |-> <<>>, open |-> FALSE]
  /\ link = <<>> /\ others = 0 /\ trouble = 0

Spec == Init /\ [][Next]_vars

\* The program runs: select times out, and what the card or ttjobd has ended returns.  Nothing is assumed of them.
FairSpec == Spec /\ WF_vars(Client)

-----------------------------------------------------------------------------
\* Types of the variables.
TypeOK ==
  /\ lib.lastid \in 0..IdMax /\ Len(lib.got) <= MaxPieces
  /\ cli.at \in {"start", "read", "call", "wait", "boot", "sent", "cpu", "have", "eof", "failed", "done", "stock", "runs", "trap"}
                \cup Blocked \cup Ended
  /\ cli.call \in 0..MaxPieces
  /\ Cardinality(srv.pend) <= MaxPieces /\ others \in 0..MaxOther /\ trouble \in 0..MaxTrouble

\* libttjob.c, t4call.c: a result that is used answers this call and is undamaged, however late, early or torn replies were.
OwnResult == cli.at = "have" => cli.data = Right(cli.call)

\* tgzip.c: the input is removed only when the output on disk holds every piece of it.
InputKept == file.input \/ file.dst = Whole

\* tgzip.c: a run that ends by itself leaves no truncated output; a filter that reports success has written its whole
\* result, but for tbc and the libjpeg front ends to stdout, whose result may then be cut short.
EndsClean ==
  cli.at = "end" =>
    /\ cli.prog = "tgzip" => file.dst \in {NoFile, OldFile, Whole}
    /\ cli.rc = 0 /\ cli.prog \notin {"tgzip", "ttlease"} =>
         file.out = Whole \/ (cli.prog \in {"tbc", "djpeg", "cjpeg"} /\ file.out = <<>>)

\* ttlease.c: with a connection to ttjobd the program runs only while ttjobd keeps off the card for it.
LeasedRun == cli.at = "runs" /\ lib.fd /\ net.alive => srv.lease

\* t4call.c, libttjob.c: every program ends, whatever ttjobd and the card do or fail to do, unless it blocks for ever
\* in the socket of a ttjobd that hangs and is not killed, or hangs in a trap of the link itself.
Finishes == <>[](cli.at \in Ended \/ (srv.hung /\ cli.at \in Blocked) \/ cli.at = "trap")

\* A result that a program uses is its own and whole, no input is lost for it, and a program that
\* brings its own image runs only under the lease.
JobsSafe == TypeOK /\ OwnResult /\ InputKept /\ EndsClean /\ LeasedRun

\* Node 0's heap between and during jobs: the blocks tile it, a job has the same memory every time it
\* is sent, and no block is given to two.
HeapSound == HeapTypeOK /\ Tiled /\ SameEveryTime /\ OwnBlocks
=============================================================================
