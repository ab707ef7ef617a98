# TLA+ models of the TT030 transputer and package tools

The repository equips an Atari TT030 (a 68030 running FreeMiNT) with an ATW800/2 transputer card, a package manager, a
remote keyboard, its own boot ROMs and the tools to look after it from another host. This directory specifies these
programs, checks the specifications with TLC on small instances, and proves the main safety properties of the job system
and of the remote keyboard with TLAPS for every value of the constants.

## 1. Inventory

| Part | State it keeps | Operations | Interacts with |
|---|---|---|---|
| `sam-job-tt/ttjobd.c`, the job daemon | client slots, `queue[]`, `inflight[]`, `busy[]`, the lease, `up`, the reply buffer, output chunks, the due file | accept, serve, lease, `send_jobs`, `poll_link`, `go_down`, boot, watchdog, boot retry | clients by a socket, the card by the link, `ttjobd-watch` by the due file, others by the lock |
| `llvm/root.c`, `worker1.c`, `worker2.c` | per-node busy flags, relay buffers, node 0's job | dispatch, run, forward replies, free a node | each other by channels, `ttjobd` by the link |
| `llvm/jobheap.c` and the kernels' statics | free list, current job's blocks | malloc, free, clean-up between jobs | `root.c` |
| `libttjob.c`, `t4call.c`, `ttlease.c` and the programs built on them | a connection, the last id, replies not yet collected, pieces and files | submit, poll, wait, fall back to the 68030 | `ttjobd`, or the card directly under the lock |
| `t4lock.c`, `ttjobd-watch`, `rc.ttjobd` | `/tmp/t425.lock`, `/tmp/t425.loaded`, pid file, CPU time seen | take, release, mark; kill and restart | every user of the T425 |
| `src/ttkbdd.c`, `scripts/ttkbd_send.py` | held keys, key table and repeat rate in force, session keys and counter | handshake, frame, silence, signal, session end | FreeMiNT's keyboard vector, a remote sender |
| `sam-yum-tt/src/yum`, `ttbuildd.py`, `tt_rpm.py` | index, serial, plan, fetched files, installed list; request queue and accepted ids; RPM pools | makecache, install, build on miss; build, publish, sync | an MQTT broker, the HTTP mirror, rpm |
| `src/ttpkg/` | package table, list, selection, scroll position, running command | browse, run `yum`, refresh | `yum`, rpm |
| `scripts/atari_fat16.py`, `tt_tospkg.py`, `sam-rom-tt/` | partitions as trees and as images; nothing | rebuild the boot card from a plan; size RAM, scan SCSI, list the card | the card, the SCSI bus |
| `src/atwbg/atwmono.c`, `ttsaver.c` | driver slots; saved picture and palette | hook and unhook, copy, fill; blank, animate, restore | the VDI driver, AES |
| `ttmon.c`, `ttmqtt.c`, `tt_reach_probe.py`, `tt_versions.py` | time stamps seen, a broker session | publish, subscribe, judge | an MQTT broker |
| `tt_serial.py`, `tt_zput.sh`, `ttygetty.c` | a lock file, the line | run a command, upload | bash or `ttkbdd -S` at the other end |
| `http_client.c`, `tt_tlsproxy.py`, `tt_rpmdb.py` | a receive buffer; none; a database copy | fetch; forward; register packages | servers, rpm |
| `x25519bench/`, `staging/DROPBEAR/monocypher*.c`, `atwx25519.c` | the server's operands, the client's boot state | X25519, Ed25519 on either CPU | the link |
| link driver, sound, clock, benchmarks, vendored code | hardware registers | register access, measurement | the hardware |

What is hard, and what correctness means:

* **Job system.** One thread, but clients come, stall, close and crash between any two of its steps, nodes answer in any
  order or never, a link write or a boot fails, the T425 is leased away. Each request of a client that stays is answered
  exactly once and to nobody else; a node has at most one job; no buffer of the image is reused early and no two of its
  processes wait for each other; a dead card never leaves a client waiting.
* **Lock.** Check-then-act on a file, with stale owners, zombies and reused pids. At most one owner.
* **Clients and heap.** Late, damaged and missing replies; static pointers into a heap that is cleaned between jobs.
* **Keyboard.** Every key pressed is released and table and rate restored, however a session ends.
* **Packages.** Replayed indexes and requests, kills, a service that stops; the window follows a database that moves.
* **Boot card, ROMs, screen.** Off-by-one at every edge; a target that stops; a signal at every step of the saver.
* **Remote tools.** Connections that break at any point while the tool's exit code must stay true.
* **Cryptography.** Carries lost on a few of 2^256 inputs; two implementations that must agree; a byte stream kept in step.

`PROJECT.json` lists every component with its status, and the hazards at the lines where they bite.

## 2. Plan and its state

1. The job daemon, then the card: **modelled, checked, core invariants proved**.
2. The lock and its users; the clients with node 0's heap: **modelled, checked**.
3. Keyboard, packages, window, boot card and screen, remote tools, cryptography: **modelled, checked**.
4. Proofs, in the order of what they say about the system: the daemon's tables and routing **(done)**, mutual exclusion of
   the lock **(done)**, the image's buffers, node 0's heap and the image's refinement of the card **(done)**, the daemon's
   use of the card **(done)**, the account of every request **(done)**, the keyboard's keys **(done)**, the packages
   **(done)**, the programs that offload **(done)**. Next would be the byte streams of the cryptography server, the package
   window and the remote tools.

## 3. The models

### The daemon: `JobSched`, `TTJobd`

`JobSched` holds the pure part: the table of estimates `est_ms` (`EstMs`) and the choice of the next job and its node
`pick` (`Pick`: the set with the one pair the loop returns, or empty). The clock enters only as the milliseconds left on
the T425's current job.

`TTJobd` is the process. Its variables are the C globals of the same names; `armed` is `down_since # 0`, `present` stands
for `absent[]`, `due` for the due file, `oq` for the output chunks. `pc` is the place in the main loop:

    select -> serve (one step per readable client) -> send -> poll -> resend -> watch -> select
    select -> spinpoll -> spinsend -> select        (the 20 ms of polling after link activity)

`send_jobs` and `poll_link` are one action per job and per reply, because clients and nodes move between two link
operations. Everything else a handler does (answer, flush, due file, boot) is in its one action:

| Action | Code |
|---|---|
| `Select`, `SelectConnect`, `Spin` | the wait, `accept`, the flush of writable clients |
| `ClientGone`, `BadRequest` | `drop_client`, with the boot that ends a lease |
| `LeaseGranted`, `LeaseRefused` | OP_LEASE |
| `NoNode`, `Refused`, `NotTaken`, `Enqueue` | admission of a job |
| `SendOne`, `SendFails`, `SendDone` | `send_jobs` |
| `PollReply`, `PollOutOfStep`, `PollBadLength`, `PollDone` | `poll_link` |
| `WatchFire`, `Retry`, `WatchQuiet` | the watchdog and the boot retry |
| `Submit`, `SendPayload`, `Receive`, `Close` | a client (external) |
| `NodeReply` | the card (external) |

A request is an op, a node and a length; a client's bytes are headers and payloads, and a payload read as a header can say
anything. A reply is the id and a status. The reply buffer is empty, holds part of the reply arriving now, or holds bytes
from before a boot (`rgot`); in the last case the next header it yields may have any wire id and any length. fd and slot
are one number, since both are the lowest free one. `owner`, `got`, `nconn` and `nreq` are history: which open connection
made a request, and which replies were read. A deadline is a value of `Dues` and the watchdog may fire whenever something
is in flight, so both orders of a deadline and a reply are explored. The faults in `Faults` are a payload that stalls 5 s, a
failed allocation (of a payload or of the OP_CAPS job), a failed link write and a failed boot.

### The card: `JobCard`, `JobNet`

`JobCard` is the contract between the two: jobs taken, each answered once and in any order, replies delivered in the
order they were sent, and a reset that forgets everything. `TTJobd` uses its card that way (`UsesCard`, with wire ids for
jobs) and `JobNet` implements it (`ImplementsCard`), so what is shown of the daemon with the abstract `net` and `link` holds
over the real image.

`JobNet` has one program counter per process and one variable per buffer. A channel or link operation is one step of both
its ends, as on a transputer. A reply crosses a link in two steps, because its buffer is shared with the process that
fills it and the daemon may stop reading in the middle to write a job.

| Process | State | Actions |
|---|---|---|
| `host` (root.c) | `hpc`, `hj`, `node`, `busy` | `HostHeader`, `NodeFree`, `Claim`, `HostPayload`, `Go0` |
| `work0` | `w0pc`, `hdr0`, `in0`, `mem0`, `rep0`, `buf0`, `heap` | `Work0Starts`, `Work0Ends` |
| `mux` | `mpc`, `repm`, `mnode` | `MuxTakes0`, `MuxTakes1`, `MuxReads`, `MuxFirst`, `MuxRest`, `MuxReleases` |
| `route` (worker1.c) | `rpc`, `rj`, `hdr1`, `in1` | `RouteHeader`, `RoutePayload`, `Go1` |
| `work1`, `mux1` | `w1pc`, `rep1`; `m1pc`, `repm1` | `Work1Ends`; `Mux1Takes`, `Mux1Takes2`, `Mux1Reads2` |
| worker2.c | `w2pc`, `hdr2`, `in2`, `rep2` | `Worker2Header`, `Worker2Payload`, `Worker2Ends` |
| `ttjobd` | `tpc`, `tj`, `unread`, `half` | `Write`, and its end of the link in the others |

A buffer holds the number of the job whose bytes are in it, a reply buffer one number for each half. `heap` is the set of
node 0's blocks that are allocated: the payload's and the reply's, or one for both when the op runs in place. A job's
length is one of three classes (none, up to JOB_MAX, above); a job too long for a TRAM is drained without an answer, and so
is a job for a TRAM the image does not have. `Trams` selects the image.

### The other parts

| Modules | What they model |
|---|---|
| `T4Lock`, `T4Users` | `t4lock_take`, `t4lock_release` and the marker, one step per system call; composed with `ttjobd`'s start, the watch's two looks at the due file and the CPU time, kill, `rm -f` and restart, a program on `t4call`'s direct path and Dropbear's client. Processes are killed, leave zombies, pids come round, to the same program too, and `ttjobd` may hang in any link trap |
| `JobHeap`, `Offload` | first fit, carving from the head, joining, clean-up; the kernels' statics; the client library's ids, collected replies and blocking reads and writes; each front end from its arguments to its output file |
| `KbdDaemon`, `RemoteKbd` | one session in each of three modes, an injection and its record as two steps, `session_end` and the signal handler; the grab of the sender and a wire that loses, replays, reorders and alters |
| `BuildService`, `Yum` | pools and index with its serial; requests, the worker, accepted ids on disk, rewritten at each start; runs of `yum` as processes over one cache directory, with the writes that fail |
| `TTPkg` | rpm's version order three times over; the window's handlers beside the steps of the `yum` it runs |
| `AtariFat`, `Firmware`, `BootDisk`, `MonoEngine`, `Saver`, `Machine` | the card tool as read, plan, lay out, read back, compare; the ROMs against RAM and targets of every kind; copies and fills through the engine; the saver; `Machine` puts them side by side |
| `TTMqtt`, `SerialConsole`, `HttpClient`, `RpmDb`, `RemoteAdmin` | telemetry with the MQTT requests, and one module for each other tool, side by side in `RemoteAdmin` |
| `Field25519`, `FieldBytes`, `EdSign`, `Monocypher`, `CryptoKernels`, `CryptoServer` | the kernels as operators generic in their sizes, one action per library call; the link dialogue of server, boot program and clients, with late answers and a new client process over what the last one left |

Each module's head comment says what it abstracts. `PROJECT.json`'s map gives the source lines of every definition.

## 4. What TLC checks

`CHECK_DEADLOCK FALSE` in every run: an idle daemon waits in select for ever, an image that has answered its `MaxJobs` jobs
waits for the next, and the environment's bounds end every behaviour.

| Run | Properties | Instance |
|---|---|---|
| `jobd` | `TypeOK`, `BusyMatches`, `DownIsEmpty`, `NoStranded`, `LeaseExclusive`, `DueFile`, `OwnersMatch`, `RepliesRouted`, `LeaseRespected` | 2 slots, 2 connections, 2 requests, images of 1 and 2 nodes, a first boot that failed, failing link writes |
| `answered` | `Conservation`, `LinkMatches`, `Answered`, `UsesCard` | 1 slot, 2 requests (bc, an echo, leases), failed boots and allocations, under `FairSpec` |
| `image` | `RepliesWhole`, `HeapSafe`, `ImplementsCard` | 2 TRAMs, 4 jobs for named nodes or 4 NODE_ANY jobs, allocations that fail |
| `lock` | `OneOwner`, `ToldTruly`, `HungEnds` | 2 pids, 2 starts, 2 calls, 2 troubles (deaths, hangs in any trap, reboots), pids reused by any program |
| `kbd` | `KeysTrue`, `SessionEnds` | 2 keys, 2 frames, 2 starts, one fault of each kind |
| `pkg` | `FilesTrue`, `NeverBack`, `RunsEnd` | a package to build and the library it requires, 2 indexes, 2 runs of yum, 2 stops of the service, 3 such events in all; replays, kills at any step, a full disk, a silent broker |
| `gui` | `WindowTrue`, `ActionsShown` | 2 packages, two indexes, windows of 1 and 2 rows |
| `offload` | `JobsSafe`, `HeapSound`, `Finishes` | every program once, with small and oversized jobs, one trouble (a daemon that dies or hangs, a full disk, a link that hangs, a damaged or half reply) |
| `machine` | `CardAsPlanned`, `RomTellsTruth`, `ScreenRight`, `ComesBack` | two partitions, plans of up to two operations; recipes with an exclude, an extra and an extra that the exclude covers; 3 targets of 6 kinds, none late; every rectangle of a 6 x 3 screen; 2 chunks |
| `remote` | `MessagesTrue`, `LineSafe`, `FetchedTrue`, `SettlesAndEnds` | one fault, three events; two commands, an upload, and a `--clear` called by itself beside one command; answers at the buffer's edge and cut short; packages of every shape, one of them twice |
| `crypto` | `KernelsSound`, `SameEitherWay`, `LinkInStep` | p = 31, 109, 255, 2^21 - 19, 2^19 - 19, 2^25 - 19 at the sizes' edges; 3 calls, 2 faults |

Where one invariant of a run is a conjunction (`OneOwner`, `KeysTrue`, `JobsSafe` and so on), its parts are named
definitions with their own comments in the module. `MCTTPkg` also asks, as assumptions TLC evaluates, that the three
version orders agree on every string of up to three characters and that the slider stays where it is drawn.

**The run that must fail.** `lost_job` states `Conservation` with link failures, and TLC finds the job whose link write fails
in no table: `send_jobs` has taken it from `queue[]` and not yet put it in `inflight[]`, so `go_down` does not answer it.
`answered` is therefore run without link failures.

**Bounds.** Two nodes are enough for a T425 and a TRAM, `pick`'s two kinds; a second TRAM adds only a choice of the lowest
idle one. Two slots let one client watch another's slot change hands, and connections reuse them. `QMAX` and
`CLIENT_MAX_JOBS` of 2 (the code's 32 and 16) and a socket that holds one reply are reached within the requests made.
`WIDS` is larger than the jobs a run can send between two boots, so no id comes round to one in use: the code's 65536 jobs
during one job are out of any deadline's reach. That more than 2 * `MaxReq` + 1 ids are enough is a theorem (`FreshIds`);
`answered` has fewer, four, which TLC shows to be enough for its two requests. One failed boot (`MaxBootFails`, or the
failed boot at the start in `jobd`) gives a failure and a later success. Ops and lengths are real ones, so that `pick`
compares the estimates of the code. `jobd` has one deadline value; that the earliest of several is written is the theorem
`DueCorrect`.

In `pkg` the events from outside (runs of yum, publications, stops of ttbuildd) are three in all: one to set a state up, one
to break it and one to find it broken. In `remote` a `--clear` called by itself (it alone takes no lock) is tried beside one
run, with no command that outlasts its time-out, no orphaned `ttkbdd` and no stall, whose effects on the same answers are
tried apart from it; the transmitter holds three tokens. `crypto`'s two faults are what a dialogue needs to be given up and
the next to meet a T425 that died or is late again. `machine` has no late target (`Late`): section 6 says what one does.

Four jobs of the image are one per node and one more for a node whose reply has just gone out, the case in which `host`
must wait. `ttjobd` names every node itself; the other branch of the dispatcher is explored with jobs that are all
NODE_ANY. The two must not be mixed: with a NODE_ANY job running on node 0 and the next job naming node 0, `host` waits for
the node before it reads the payload, the daemon is still writing it and reads nothing, and the reply that would free the
node cannot leave. The daemon avoids this by overwriting the node byte of every job it sends.

The cryptographic kernels are generic in width, count and prime. The small instances keep what carries and folds depend
on: the 19 or 38 against the word, two to ten limbs, a prime of the same residue mod 8, a curve whose Edwards form is
complete. Every field element, or every one next to 0, p, 2p and the largest word, is tried. Monocypher's tables `b_window`
and `b_comb` are not in the model; they were compared with multiples of the base point by a separate computation.

**Fairness.** In `answered` the daemon's process is scheduled (weak fairness of `Daemon`). Strong fairness of `Select`
says that the 20 ms of spinning end, of `WatchFire` that a deadline passes, of `Retry` that the minute passes while the
loop keeps coming round: the clock runs. A client that stays connected writes the payload it announced and reads its
replies. Nodes owe nothing. In `image` every process is scheduled (the transputer's scheduler is round-robin), a job's
program ends, and the daemon reads the link whenever it is not writing to it, which its polling loop does; it owes no job.
Elsewhere the processes of the operating system are scheduled and clocks run: `lock` (the watch's cron entry, every taker,
deadlines), `pkg` (each run of yum by itself: its steps, downloads with their time-outs, rpm, the fifteen minutes of
silence; nothing of the mirror, of ttbuildd or of the broker), `kbd` (the daemon's loops; the end of a frame file), `gui`
(the window's timer and yum's steps), `offload` (the client; neither the daemon nor the card), `machine` (the ROM's code
and the saver), `remote` (each tool, the broker's delivery, the probe's timer). `jobd` and `crypto` check safety only.

## 5. What TLAPS proves

`TTJobd_proofs` proves, for every number of nodes (below 255), client slots, queue entries, requests, images, deadlines and
any choice of `Faults`, from `NodesAssumption`, `BoundsAssumption` and `InputsAssumption` alone:

* the invariants `TypeOK`, `BusyMatches`, `DownIsEmpty`, `NoStranded`, `LeaseExclusive` and `DueFile` (theorems `TypeCorrect`,
  `BusyCorrect`, `DownCorrect`, `StrandedCorrect`, `LeaseCorrect`, `DueCorrect`);
* `OwnersMatch` and `RepliesRouted` (`OwnersCorrect`, `RepliesCorrect`): no reply reaches another client;
* the action property `LeaseRespected` (`LeaseKept`).

**The argument.** None of these is inductive alone; the inductive invariant is `Inv /\ CardOK`. The named invariants lean on
each other: `NoStranded` survives a boot of a smaller image only because the queue is empty then (`DownIsEmpty`);
`DownIsEmpty` survives a lease because `LeaseExclusive` keeps retries off; `DueFile` and `BusyMatches` need `inflight` typed.
Three parts are added: `ReadyOpen` (serving one client cannot close another that is still to be served), `PollingUp` (the
link is polled only while the network is up, so a half-read reply cannot bring down a network that is leased) and `CardOK`
(the OP_CAPS answers on the link are numbers the image can give). There is one lemma for each group of actions, over lemmas
about the table edits of the C code: `RemoveAtFact` (the memmove in `send_jobs`), `VacateFact` (the swap-remove in
`poll_link`), `OrphanFact` (the loops of `drop_client`), `EarliestFact` (`due_note`, by well-foundedness of the naturals),
`BootFact` and `PickFact`.

`OwnersMatch` and `RepliesRouted` rest on a second invariant, `Routing`: request bytes, jobs with a live fd and replies
belong to the connection at the slot they are found at, connections of open slots differ, and none has a number not yet
given out. `drop_client` is the step it is about: a slot's bytes, replies and fds go with the connection, so whoever gets the
slot next finds nothing of it. It holds with payloads that stall or cannot be stored: bytes misread as a header are answered
to the connection that wrote them. What `go_down` answers is a loop over both tables, defined by recursion; that the loop has
a result and what is in it is proved from the least counterexample (`DownLoopRuns`, `DownsFact`).

**The daemon and the card.** `TTJobd_card_proofs` proves `LinkMatches` (`LinkCorrect`) and `UsesCard` (`CardCorrect`), the
refinement of `JobCard`; with `ImageIsCard` below, both sides of the link are shown to keep the contract between them. The
hypothesis is `2 * MaxReq + 1 < WIDS`: `nextwid` is a counter that wraps, and an id is used again while an old job still
carries it if enough jobs come. `MaxReq` bounds the requests of a whole behaviour, so for the code's 65536 ids the theorems
cover 32767 requests, whatever happens between them; that a boot forgets the ids in use and that a deadline ends a job
long before is why the daemon's own bound is wider. `Budget` is the argument: the ids in use are younger than the jobs sent
since the last boot, and these are no more than OP_CAPS, and a job for each header written or to come and for each payload
misread as one. From it the next id is free (`FreshIds`); then `IdsOnce` (an id is on the card or the link once) and
`JobsKnown` (while the reply stream is in step, each has its job in flight) are inductive.

**The account of a request.** `TTJobd_account_proofs` proves `Conservation` (`ConservationHolds`): a request of a client that
stays is at each moment in exactly one of its places. Two hypotheses exclude what the code does lose. `"linkfail" \notin
Faults`: a failed link write loses the job being written (run `lost_job`). `PayloadsTaken`: no payload stalls or finds no
memory, or none but a lease's is announced; a payload given up is answered ST_DOWN and its late bytes are then a request
nobody made. A lease's length is not read by the code, so it does not matter. Everything else is in: clients
that vanish at any point, slots and fds reused, leases, failed and smaller boots, deadlines, replies out of step and of
impossible length. The proof counts: each table edit of the code removes and adds one entry about the request
(`CountAppend` and its companions, from the cardinality of finite sets), so every step moves it from one place to another
or leaves it. What it needs beside `Inv` and `Routing` is `Accounts`: a client's bytes are headers, each followed by its
payload (`Streams`); a job without an fd belongs to nobody or to a client that has gone (`Tables`); a request number is
given once and only then owned or received (`Ledger`). Without `Streams` a payload could be served as a second request;
without `Tables`, `go_down` could drop a job whose client waits.

**The lock.** `T4Users_proofs` proves, for any number of processes, server images, tries, starts, calls, kills, hangs and
reboots, with reused pids or without: `OneOwner` (`OneOwnerAlways`) and `ToldTruly` (`ToldTrulyAlways`). Both have the
hypothesis `"overlap" \notin Faults`: `t4lock_take` checks and then acts, so two of them that overlap on a stale file can both
win (section 6), and no invariant holds without it. What it excludes is a second take, or a pass of `ttjobd-watch`, within the
few milliseconds between the first system call of a take and its last; everything else interleaves freely.
`PlacesKept`, without the hypothesis, says that every program is at one of the places its code has: a flag that says "the
lock is mine" belongs to a live process.

`OneOwner` is not inductive. `Inv` adds what a take knows between two system calls (`TakeOK`): the file it created is
still its own and empty; what it read is still there or gone, and names whoever holds the T425; at `unlink` nobody holds
it. That is why a zombie, and a pid that came round to another program, may be judged from one look at `/kern`.
`HoldersOK` says that a holder's pid and program are the file's, from which mutual exclusion follows; `WatchOK` that the
watch removes the file of nobody; `BoardOK` that the board runs what its user booted, which survives because only a holder
writes to it. `ToldTruly` needs `NamedOK` (a live program the file names has the T425, or is in a new take and about to
find its own, older file, or is an heir) and `DueOK` (a deadline is long past only while every ttjobd in service hangs).
An heir is a process that began when the file already named its pid: the pid of a dead owner, come round. Of the same
program it looks like the owner to every taker, and `ToldTruly` says that this is the only case in which a taker is turned
away from a T425 that nobody has. Most steps are `Calm` or `Enters`, which two lemmas show to keep the lock's part of the
invariant.

**The image.** `JobNet_proofs` proves, for 0, 1 or 2 TRAMs, any jobs in any number, for named nodes or all NODE_ANY, and with
allocations that fail or not, from `ImageAssumption` and `KindsAssumption`: `TypeOK`, `RepliesWhole` and `HeapSafe`
(`TypeCorrect`, `RepliesCorrect`, `HeapCorrect`), and `Spec => Card!Spec` (`ImageIsCard`), the safety part of
`ImplementsCard`: a job is taken once, answered at most once and only when taken. That every answerable job is answered is
the liveness part and stays with TLC.

The C code has no lock for its buffers: what keeps `rep1` or `repm1` from being refilled while its last reply is still in
it is one flag per node in `host`, which `mux` clears at the end of a path through up to three processors. The invariant
(`ImageInvariant`) follows that path. `Places`: a node's job is in one process, and the node is busy as long as it is in
any; two ends of a transfer in two parts are in it together. `Copies`: the headers are of different jobs, each for its
node, and the jobs `ttjobd` waits for are exactly those on their way; this is what makes the next header for a node meet
no header of a job in progress. `BuffersOK` and `HeapOK` say what is in the buffers and on node 0's heap at each place.
Without `Copies`, `RepliesWhole` is not inductive (a second copy of a header could be answered twice); without `Places`,
neither is `HeapSafe`. For the refinement, most steps are `QuietActions`; a header read is `Take`, and so is a node's
taking a NODE_ANY job that some nodes would have drained; a reply's first half on the link is `Reply` and its last byte
`Deliver`.

**The keyboard.** `RemoteKbd_proofs` proves, for any keys, chord, modes, starts, grab length, faults of the wire and
`Faults`, from `KbdAssumption` and `WireAssumption`: `KeysTrue` (`KeysTrueHolds`) and `CornerLeftFirst`
(`CornerLeftFirstHolds`), the safety part of `SessionEnds`. The invariant (`KbdInvariant`) has three parts. `DaemonInv` is
what `ttkbdd` knows of the TT: between an injection and its record the frame in hand is the one key that `held[]` may lack,
and the saved repeat rate is the TT's own from the second half of `session_begin` on. It says nothing of keys once
the program has stopped in a way that cleans nothing up, which `dirty` records; that is how `AtRest` itself is stated.
`WireInv` says where the two ends of a connection may be and which queue must then be empty, across reconnections, a host
that dies in the handshake and a second connection that waits in the backlog. `GrabInv` is the argument for
`NoStuckKey`: every frame sent and not applied is on the way with its own counter, or some record on the way cannot
open any more, which ends the session; so an empty wire means that what is applied is what was sent, and the sender
releases what it pressed.

**The packages.** `Yum_proofs` proves about the package client, the mirror and the build service together, for any packages,
requirements, recipes, processes and numbers of runs, requests and stops, from `MirrorAssumption`, `BuildAssumption` and
`YumAssumption`:

* without further hypotheses, `TypeInvariant`, and `GoesOn` (`GoesOnHolds`): every step of a run is down a well-founded
  order, so no run of yum goes round for ever. That a run also gets on is liveness, `RunsEnd`, and model-checked. What
  `GoesOn` needs of the state is `Sound`: a run that asks for builds has not asked before, and waits for a request of its
  own about a package still on its list. The order is on tries left, packages left, the place in the script and lines of
  the plan left;
* under `Steady`, `FilesTrue` (`FilesTrueHolds`) and `NeverBack` (`NeverBackHolds`). `Steady` is what the code leaves to
  its users: runs of yum do not overlap ("overlap"); runs of `cmd_index` neither overlap nor stop between their two files
  (`MirrorFaults = {}`); the TT's clock is the host's (`Skews \subseteq {0}`). Each of them is a disagreement of section
  6, so the properties are false without it. Old indexes, failed downloads, kills at any step, a disk that is full,
  packages with `--nodeps`, lost and repeated requests and stops of ttbuildd, in its start too, are all in.

What the code does lose is in the properties themselves, each by a history variable that names when. `torn`: a serial or a
list of installed packages whose last write failed, or was cut off by a kill. Then `NeverBack` lets the cached index go
back, but to no older one than the serial that is left; and `ListTrue` does not speak of the list. `lost`: a request whose
id was in the file that ttbuildd was rewriting when it was stopped; it may be built once more for each such stop.
`nodeps`: what nothing provides is left out of the closure.

The invariant (`SteadyInv`) has a part for each file. `PublishInv`: one run of `cmd_index` at a time, index.tsv behind
index.signed only in between, so that a serial above tsv's is above both. `Once`: an id that was accepted is remembered,
in memory and on disk, as long as its time stamp would pass, but for those a stop took from a half-written file; a restart
forgets only what is stale, and re-dates what it keeps, which only delays forgetting. `WorkerInv`: the list that is
published while ttbuildd waits was read after its package was added. `SerialInv`: the serial is the cached index's but
between the two writes or when it is torn, and the index about to be moved has no lower one. `Installing` carries the plan
to the end of an install: planned, it holds the closure (`InstallGood`); fetched, its first lines; given to rpm, all of
it; after rpm's success, what was asked for is in the database. `ListInv`: installed.tsv is the database's list but
between rpm and the move, or when it is torn. That resolve.awk's rounds reach a fixed point within as many rounds as there
are packages is proved by cardinality (`ClosureFact`): a round that adds nothing ends it, and each other one adds a
package.

**The programs that offload.** `Offload_proofs` proves `JobsSafe` (`JobsSafeHolds`) for any mix of programs and sizes, any
number of other clients' jobs, deaths and hangs of the daemon and of the link, resets, failed writes, damaged and half
replies, from `OffloadAssumption`. The hypothesis is `MaxPieces <= IdMax`: an id of libttjob comes round after 65535
calls, and a reply left from so long ago would be taken for the new one (with one id for two calls TLC finds it). Only
Dropbear could make that many calls in one process, and the reply would be one to a call it gave up, which libttjob keeps
until an id asks for it. In the invariant, `Counted` says that replies kept, replies on the way and requests unanswered
are together no more than the calls submitted, so each request has at most one answer; `Paired`, that only the call waited
for has the newest id, so a late reply has an older one. From both follows `OwnResult`: what the program takes in hand is
`Right` of its call, by whichever of the three paths it came. Then `TgzipWrote` and `OthersWrote` say, for each place of a
program, how many results its output holds, and the input is unlinked at one place only, behind a close that succeeded.
(`EndsClean` leaves out tbc and the libjpeg front ends on standard output, which report success over a result that the
disk did not take: section 6.) `Leased` puts the lease before the reply that grants it, on the way from `ttjobd` through
the socket and the list of replies to the program, for as long as the connection lives. What is on node 0's heap does not
enter: of the job there, only its number and its status do.

**Only model-checked.** Liveness (`Answered`, `HungEnds` and the other leads-to properties), which needs fairness and
ENABLED. The properties of the window, node 0's heap as a data structure (`HeapSound`), the boot card, ROMs, screen and
remote tools: no proof of them has been written. `AtariFat`, `BootDisk`, `MonoEngine` and `RpmDb` have RECURSIVE operators
and `EdSign` uses Bitwise; `JobHeap` and the kernels compute by folds, where a proof would be an induction over data:
these, and what is built on them, are beyond the prover here.

## 6. Where code and words disagree

Only `lost_job` is kept as a run. While modelling, TLC also showed the following, for the faults named; the
specifications keep these faults selectable by a constant.

* **ttjobd.** A half-read reply survives `go_down` and a boot retry (`rgot` is not cleared; ttjobd.c:302, 484 against 316).
  Replies come as nodes finish, not "in submit order" (libttjob.h:1). A daemon that is down and idle sleeps in select, so the
  retry at 484 is not reached (against 274 and 32). The estimate that means "never" is finite, so three queued JPEG jobs send
  a job only the T425 can run to a TRAM (133 against root.c:120). A stalled payload is answered ST_DOWN and its late bytes are
  parsed as a request (463 against 151).
* **Lock.** Two takers of the same stale lock can both win (`"overlap"`). A new process of the dead owner's program with
  the dead owner's pid makes a stale lock look held, for as long as it lives (t4lock.c:88-92 against t4lock.h:4). The
  watch may kill a program that got a dead ttjobd's pid; `rm -f` after the kill can remove another's lock; a stale due
  file is told apart only by CPU movement. A ttjobd that hangs with no deadline in the due file, in a boot (ttjobd.c:247,
  the file is 0 since 277) or in the read after the last reply (348, 356), is never noticed (against ttjobd-watch:2-6).
* **Keyboard.** A signal between an injection and its record leaves the key down (against ttkbdd.c:9-11); so do a failing
  accept byte (537) and a failing serial read (629).
* **Packages.** A kill between the index and `echo serial` (yum:55), or an echo that fails on a full disk, loses the
  serial: an older index, though none older than the serial that is left, is accepted afterwards (against "refusing a
  replay"). When `rpm -qa` or the `mv` fails the old list of installed packages stays and yum's exit does not tell
  (65-66). ttbuildd truncates its file of ids and then writes it (ttbuildd.py:86): stopped in between, it accepts a
  request once more (against 73). `ttmqtt pub` to a silently dead broker holds yum for ever (yum:101; ttmqtt.c:147,
  ttmon.c:95). A request is accepted twice when the TT's clock is ahead (ttbuildd.py:73-74); two index runs at once lose a
  package; overlapping runs of yum install what the other planned (yum:11-17); a crash between the mirror's two files lets
  a serial be used twice (tt_rpm.py:139).
* **Window.** It compares version and release joined by a dash as one string, `yum update` the version first
  (pkgmodel.c:255 against scripts/test_ttpkg_model.py:1-2); a cancel between rpm and the list leaves the list stale
  (yum:61-62), and so does a list that cannot be written, under the verdict OK (65-66); a cancel after the end is shown as
  CANCELLED. The selection is carried over a rebuild as a row of the table (ttpkg.c:155-177): after Refresh, or among the rows
  that are only installed, it can come to stand on another package, which the next button acts on. A yum that hangs in `ttmqtt
  pub` leaves only Cancel.
* **Clients.** SIGPIPE is not ignored (libttjob.c:38 against t4call.h:4-6). tbc ignores write errors, and the libjpeg
  front ends look only at `fwrite` on a buffered standard output that they never flush (t4jpegfe.c:126, 196): both can end
  with 0 over a truncated result. A daemon restarted during a lease boots over the leased program. A ttjobd that hangs and
  is not killed blocks its clients for ever: a request above what the socket holds is a blocking write (libttjob.c:19,
  38), and `ttjob_wait`'s time-out ends with the first byte, after which header and payload are blocking reads (20, 46,
  49); a hang of the link does the same to a program on the direct path. `Finishes` names these places.
* **Boot card and ROMs.** Aliased RAM is not detected (rom1.S:6-7); a target one byte short passes; a target that stays on
  the bus hides the later ones, and one that answers after the scan gave up on it (`Late`) is printed under the next number;
  the tool can make a twin directory. An extra that the recipe's own exclude covers is deleted from the card and not packaged
  (tt_tospkg.py:75 against 97).
* **Screen.** A signal between blanking and its flag leaves the screen dark (ttsaver.c:172); a palette loaded meanwhile is
  lost.
* **Remote.** A write to a reset connection kills ttmon by SIGPIPE; two database changes in one second show as one; a
  package list above 7000 bytes is never published. ttmon reads the CONNACK without a time-out (ttmon.c:95): after a
  connection that died silently in between, the TT is told OFFLINE until it is restarted; ttmqtt reads CONNACK, SUBACK and
  the rest of a packet so too (ttmqtt.c:147, 222, 237; against 139, that -W bounds a sub). The TLS proxy falls back on any
  OSError (against its docstring, line 7), so that a request taken over TLS may be sent again in the clear; a body without
  a length that is cut short passes as 200, and a receive error of the HTTP client for the end of the answer. `tt_rpmdb.py
  add DB A.rpm A.rpm` registers A twice (169-176, against "refusing a duplicate").
* **Serial line.** Nothing ends the digits of an exit code (tt_serial.py:85, 97-98): a read that stops among them returns
  12 or 1 for 127. A `--clear` called by itself takes no lock (121-126, against 63-64): it can type into an upload, take
  another call's prompt or end marker, and tear a command line, the rest of which is run and its code returned.
* **Cryptography.** The two CPUs agree (against curve25519-monocypher.c:5-7) but for this, and `SamePoint` and
  `SameVerdict` show for nothing else: xserv2 does not mask bit 255 of a point; the x-only ladder loses the point when an
  odd multiple on its way has x = 0; the T425 accepts s at or above the order, compares the equation without the cofactor,
  and packed modulo p. On the link, the second half of atwxserv's "RDY0" when it is late (atwxserv.c:89), and what a
  client's last try gave up on without a reset (atwx25519.c:201-207: the next process asks the link as it was left), are
  the first bytes the next client reads, and a verification takes one byte for its answer; until the next boot
  (`host.left`).

## 7. Not modelled, and why

* A failed allocation of a reply chunk (`wr` drops the client in the middle of `go_down` or `poll_link`); a client slot is
  dropped only between requests here.
* In the image: the relay of the worker images during the boot, the RDY marker, status codes, the contents of results, and
  lengths that `ttjobd` refuses before they reach the link.
* The choice among images inside `boot_network` (any image of `Images` may come up), the topology file, logs, the trace,
  payload contents and checksums, wiping of buffers.
* SHA-512's round function, BLAKE2b, the stream cipher and Argon2: no state, and no small instance that means anything.
* The link driver, sound, clock, boot log, benchmarks, staging and vendored code: register access and measurement.
