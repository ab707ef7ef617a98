------------------------------ MODULE T4Users -------------------------------
(***************************************************************************)
(* The programs that use the T425 and share its lock: ttjobd and the       *)
(* script that restarts it when it hangs (ttjobd.c main, tt/ttjobd-watch,  *)
(* tt/rc.ttjobd), a program built on t4call (tgzip and the other ports,    *)
(* here "port") and Dropbear's X25519 and Ed25519 (atwx25519.c).  They are *)
(* killed at any point, leave zombies, and the machine reboots with the    *)
(* files in /tmp and /var/run still there.                                 *)
(***************************************************************************)
EXTENDS T4Lock

CONSTANTS
  Servers,     \* the server images ports boot
  MaxTries,    \* ttjobd's tries for the lock (40 in the code)
  MaxStarts, MaxCalls, MaxTrouble   \* bounds on processes started, calls made, kills, hangs and reboots

ASSUME UsersAssumption == MaxTries \in Nat \ {0} /\ MaxStarts \in Nat /\ MaxCalls \in Nat /\ MaxTrouble \in Nat

VARIABLES
  loc,      \* where each program is
  u,        \* its variables: tries (ttjobd); tj, state, booted (t4call); state (atwx25519); has: the lock is ours
  board,    \* the server the T425 runs
  marker,   \* /tmp/t425.loaded
  due,      \* /var/run/ttjob.due: 0, a deadline to come, or one more than GRACE in the past
  hung,     \* ttjobd is inside a link trap that never returns
  heirs,    \* history: processes that began when the lock file already named their pid
  watch,    \* ttjobd-watch: its place in the loop, the pid it acts on, `last'
  starts, calls, trouble

users == <<loc, u>>
watchdog == <<due, hung, watch>>
bounds == <<heirs, starts, calls, trouble>>
vars == <<lock, proc, take, loc, u, board, marker, due, hung, watch, heirs, starts, calls, trouble>>

Images == Servers \cup {"xserv", "jobs", "none"}
Fresh == [tries |-> 0, tj |-> TRUE, state |-> 0, booted |-> "none", has |-> FALSE]
Prog(p) == proc[p].prog
NoLast == [p |-> 0, frozen |-> FALSE]
Holds(p) == Live(p) /\ (take[p].at \in {"won", "relread", "relunlink"} \/ (u[p].has /\ take[p].at # "released"))

\* ttjob_submit gets through: a daemon has bound its socket (a hung one still accepts).
Daemons == {p \in Pids : Live(p) /\ Prog(p) = "ttjobd"}
Serving == \E p \in Daemons : loc[p] = "serve"

Goto(p, l) == loc' = [loc EXCEPT ![p] = l]
Quiet == "overlap" \in Faults \/ (InTake = {} /\ watch.at = "sleep")

-----------------------------------------------------------------------------
(***************************************************************************)
(* Processes begin and end.                                                *)
(***************************************************************************)
Begin(p, prog) ==
  /\ proc' = [proc EXCEPT ![p] = [prog |-> prog, st |-> "live"]]
  /\ u' = [u EXCEPT ![p] = Fresh]
  /\ heirs' = IF lock.pid = p THEN heirs \cup {p} ELSE heirs \ {p}

\* A pid that comes round may be that of a dead owner, and may go to the same program again.
Start(p, prog) ==
  /\ proc[p].st = "none" /\ starts < MaxStarts
  /\ lock.pid # p \/ "reuse" \in Faults
  /\ starts' = starts + 1
  /\ Begin(p, prog) /\ Goto(p, "idle")
  /\ take' = [take EXCEPT ![p] = Idle]
  /\ UNCHANGED <<lock, board, marker, watchdog, calls, trouble>>

\* The process is gone, or stays as a zombie; its lock stays too.
Ends(p, st) ==
  /\ proc' = [proc EXCEPT ![p] = IF st = "zombie" THEN [@ EXCEPT !.st = st] ELSE Absent]
  /\ take' = [take EXCEPT ![p] = Idle]
  /\ Goto(p, "gone")
  /\ u' = [u EXCEPT ![p] = Fresh]
  /\ hung' = IF hung = p THEN 0 ELSE hung

Kill(p, st) ==
  /\ Live(p) /\ trouble < MaxTrouble /\ st \in {"none", "zombie"}
  /\ trouble' = trouble + 1
  /\ Ends(p, st)
  /\ UNCHANGED <<lock, board, marker, due, watch, heirs, starts, calls>>

\* mint.cnf runs rc.ttjobd; the pids of the new processes are as they come.
Reboot(d, others) ==
  /\ trouble < MaxTrouble /\ d \notin others
  /\ trouble' = trouble + 1
  /\ proc' = [p \in Pids |-> IF p = d THEN [prog |-> "ttjobd", st |-> "live"]
                             ELSE IF p \in others THEN [prog |-> "other", st |-> "live"] ELSE Absent]
  /\ loc' = [p \in Pids |-> IF p = d THEN "take" ELSE IF p \in others THEN "idle" ELSE "gone"]
  /\ take' = [p \in Pids |-> IF p = d THEN [Idle EXCEPT !.at = "open"] ELSE Idle]
  /\ u' = [p \in Pids |-> Fresh]
  /\ board' = "none" /\ hung' = 0 /\ heirs' = {lock.pid} \cap ({d} \cup others)
  /\ watch' = [at |-> "sleep", p |-> 0, last |-> NoLast]
  /\ UNCHANGED <<lock, marker, due, starts, calls>>

-----------------------------------------------------------------------------
(***************************************************************************)
(* ttjobd: the loop for the lock, then service.                            *)
(***************************************************************************)
RcTtjobd(p) ==
  /\ proc[p].st = "none"
  /\ Begin(p, "ttjobd") /\ Goto(p, "take")
  /\ StartTake(p)

\* rc.ttjobd run by hand.
StartDaemon(p) ==
  /\ starts < MaxStarts /\ Quiet
  /\ lock.pid # p \/ "reuse" \in Faults
  /\ starts' = starts + 1
  /\ RcTtjobd(p)
  /\ UNCHANGED <<lock, board, marker, watchdog, calls, trouble>>

DaemonRetries(p) ==
  /\ Prog(p) = "ttjobd" /\ loc[p] = "take" /\ take[p].at \in {"busy", "fail"}
  /\ Quiet
  /\ u[p].tries + 1 < MaxTries
  /\ u' = [u EXCEPT ![p].tries = @ + 1]
  /\ StartTake(p)
  /\ UNCHANGED <<lock, proc, loc, board, marker, watchdog, bounds>>

DaemonGivesUp(p) ==
  /\ Prog(p) = "ttjobd" /\ loc[p] = "take" /\ take[p].at \in {"busy", "fail"}
  /\ u[p].tries + 1 >= MaxTries
  /\ Ends(p, "none")
  /\ UNCHANGED <<lock, board, marker, due, watch, bounds>>

\* boot_network, the socket, and a due file that says nothing is in flight.
DaemonBoots(p) ==
  /\ Prog(p) = "ttjobd" /\ loc[p] = "take" /\ take[p].at = "won" /\ hung # p
  /\ board' \in {"jobs", "none"}
  /\ due' = 0
  /\ u' = [u EXCEPT ![p].has = TRUE]
  /\ take' = [take EXCEPT ![p] = Idle]
  /\ Goto(p, "serve")
  /\ UNCHANGED <<lock, proc, marker, hung, watch, bounds>>

\* due_note before a link write, in which the trap may hang.
DaemonSends(p) ==
  /\ loc[p] = "serve" /\ hung # p /\ due = 0 /\ board = "jobs"
  /\ due' = 1
  /\ \/ hung' = p /\ trouble < MaxTrouble /\ trouble' = trouble + 1
     \/ UNCHANGED <<hung, trouble>>
  /\ UNCHANGED <<lock, proc, take, loc, u, board, marker, watch, heirs, starts, calls>>

\* Any other trap: in atw_boot, at the start or in service, with a new due file or none yet, or in a read of poll_link.
DaemonTraps(p) ==
  /\ Prog(p) = "ttjobd" /\ (loc[p] = "serve" \/ (loc[p] = "take" /\ take[p].at = "won")) /\ hung = 0
  /\ hung' = p /\ trouble < MaxTrouble /\ trouble' = trouble + 1
  /\ board' \in {board, "none"}
  /\ UNCHANGED <<lock, proc, take, loc, u, marker, due, watch, heirs, starts, calls>>

\* A reply, or the daemon's own watchdog: nothing is in flight any more.
DaemonIdle(p) ==
  /\ loc[p] = "serve" /\ hung # p /\ due # 0
  /\ due' = 0
  /\ UNCHANGED <<lock, proc, take, loc, u, board, marker, hung, watch, bounds>>

\* Time: a daemon that still runs clears its deadline long before GRACE is over.
DeadlinePast ==
  /\ due = 1 /\ \A p \in Daemons : loc[p] = "serve" => hung = p
  /\ due' = 2
  /\ UNCHANGED <<lock, proc, take, loc, u, board, marker, hung, watch, bounds>>

-----------------------------------------------------------------------------
(***************************************************************************)
(* ttjobd-watch: one pass of its loop every TICK seconds.                  *)
(***************************************************************************)
\* The lock names a ttjobd whose /kern entry exists.
Named == lock.pid # 0 /\ lock.prog = "ttjobd" /\ proc[lock.pid].st # "none"
Frozen(p) == hung = p \/ proc[p].st = "zombie"

\* The deadline is long past and the CPU time did not move since the last pass.
Stuck(same) == due = 2 /\ same

\* Mutant: what was seen is not kept for the next pass.
Seen_Lost == NoLast

\* The pid and its CPU time, for the next pass to compare.
Seen == [p |-> lock.pid, frozen |-> Frozen(lock.pid)]

WatchTick(same) ==
  /\ watch.at = "sleep" /\ Quiet
  \* A boot that goes on polls the link: its CPU time moves.
  /\ same => Named /\ watch.last.p = lock.pid /\ (take[lock.pid].at = "won" => hung = lock.pid)
  /\ (Named /\ Frozen(lock.pid) /\ watch.last = [p |-> lock.pid, frozen |-> TRUE]) => same
  /\ watch' = IF ~Named THEN [watch EXCEPT !.last = NoLast]
              ELSE IF Stuck(same) THEN [at |-> "kill", p |-> lock.pid, last |-> NoLast]
              ELSE [watch EXCEPT !.last = Seen]
  /\ UNCHANGED <<lock, proc, take, users, board, marker, due, hung, bounds>>

\* TERM, ten seconds, KILL.
WatchKill(st) ==
  /\ watch.at = "kill"
  /\ IF Live(watch.p) THEN Ends(watch.p, st)
     ELSE st = "none" /\ UNCHANGED <<proc, take, loc, u, hung>>
  /\ watch' = [watch EXCEPT !.at = "rm"]
  /\ UNCHANGED <<lock, board, marker, due, bounds>>

WatchRemove ==
  /\ watch.at = "rm"
  /\ lock' = NoFile
  /\ watch' = [watch EXCEPT !.at = "restart"]
  /\ UNCHANGED <<proc, take, users, board, marker, due, hung, bounds>>

WatchRestart(p) ==
  /\ watch.at = "restart"
  /\ RcTtjobd(p)
  /\ watch' = [at |-> "sleep", p |-> 0, last |-> NoLast]
  /\ UNCHANGED <<lock, board, marker, due, hung, starts, calls, trouble>>

-----------------------------------------------------------------------------
(***************************************************************************)
(* t4call, in a program that makes several calls and then exits.           *)
(***************************************************************************)
Off(p) == u' = [u EXCEPT ![p].state = 2]      \* state = -1 for the rest of the process

\* ttjobd runs: the call goes through it and succeeds or turns the T425 off.
CallDaemon(p) ==
  /\ Prog(p) = "port" /\ loc[p] = "idle" /\ calls < MaxCalls
  /\ u[p].tj /\ Serving
  /\ calls' = calls + 1
  /\ Off(p) \/ (hung = 0 /\ UNCHANGED u)
  /\ UNCHANGED <<lock, proc, take, loc, board, marker, watchdog, heirs, starts, trouble>>

\* No daemon answers (now, or at the first try): the direct path.
CallDirect(p, btl) ==
  /\ Prog(p) = "port" /\ loc[p] = "idle" /\ calls < MaxCalls /\ Quiet
  /\ ~(u[p].tj /\ Serving)
  /\ calls' = calls + 1
  /\ u' = [u EXCEPT ![p].tj = FALSE, ![p].booted = IF u[p].state = 2 THEN @ ELSE btl]
  /\ IF u[p].state = 0 THEN Goto(p, "take") /\ StartTake(p)
     ELSE /\ Goto(p, CASE u[p].state = 2 -> "idle"
                       [] u[p].state = 1 /\ u[p].booted = btl -> "send"
                       [] OTHER -> "boot")
          /\ UNCHANGED take
  /\ UNCHANGED <<lock, proc, board, marker, watchdog, heirs, starts, trouble>>

PortTaken(p) ==
  /\ Prog(p) = "port" /\ loc[p] = "take" /\ take[p].at \in {"won", "busy", "fail"}
  /\ take' = [take EXCEPT ![p] = Idle]
  /\ IF take[p].at = "won"
       THEN u' = [u EXCEPT ![p].has = TRUE] /\ Goto(p, "boot")
       ELSE Off(p) /\ Goto(p, "idle")
  /\ UNCHANGED <<lock, proc, board, marker, watchdog, bounds>>

PortBoots(p) ==
  /\ Prog(p) = "port" /\ loc[p] = "boot"
  /\ \/ board' = u[p].booted /\ Goto(p, "mark") /\ UNCHANGED u
     \/ board' \in {board, "none"} /\ Goto(p, "idle") /\ Off(p)
  /\ UNCHANGED <<lock, proc, take, marker, watchdog, bounds>>

PortMarks(p) ==
  /\ Prog(p) = "port" /\ loc[p] = "mark"
  /\ marker' = board
  /\ u' = [u EXCEPT ![p].state = 1]
  /\ Goto(p, "send")
  /\ UNCHANGED <<lock, proc, take, board, watchdog, bounds>>

\* The request and its reply; a result that is late, short or damaged turns the T425 off.
PortCalls(p) ==
  /\ Prog(p) = "port" /\ loc[p] = "send"
  /\ Goto(p, "idle")
  /\ Off(p) \/ (board = u[p].booted /\ UNCHANGED u)
  /\ UNCHANGED <<lock, proc, take, board, marker, watchdog, bounds>>

\* exit: the handler t4call registered releases the lock.
PortExits(p) ==
  /\ Prog(p) = "port" /\ loc[p] = "idle"
  /\ IF u[p].has THEN Goto(p, "exit") /\ StartRelease(p) /\ UNCHANGED <<proc, u, hung>>
     ELSE Ends(p, "none")
  /\ UNCHANGED <<lock, board, marker, due, watch, bounds>>

PortGone(p) ==
  /\ Prog(p) = "port" /\ loc[p] = "exit" /\ take[p].at = "released"
  /\ Ends(p, "none")
  /\ UNCHANGED <<lock, board, marker, due, watch, bounds>>

-----------------------------------------------------------------------------
(***************************************************************************)
(* atwx25519: the lock is held for one call.                               *)
(***************************************************************************)
\* atw_x25519 and atw_ed25519_verify: through ttjobd if it runs, else claim the board.
SshCalls(p) ==
  /\ Prog(p) = "dropbear" /\ loc[p] = "idle" /\ calls < MaxCalls /\ Quiet
  /\ ~Serving /\ u[p].state # 2
  /\ calls' = calls + 1
  /\ Goto(p, "take") /\ StartTake(p)
  /\ UNCHANGED <<lock, proc, u, board, marker, watchdog, heirs, starts, trouble>>

\* A server the marker does not know to be another one is asked before it is booted.
SshClaimed(p) ==
  /\ Prog(p) = "dropbear" /\ loc[p] = "take" /\ take[p].at \in {"won", "busy", "fail"}
  /\ take' = [take EXCEPT ![p] = Idle]
  /\ IF take[p].at = "won"
       THEN /\ u' = [u EXCEPT ![p].has = TRUE]
            /\ Goto(p, IF marker \in {"none", "xserv"} THEN "probe" ELSE "boot")
       ELSE Goto(p, "idle") /\ UNCHANGED u
  /\ UNCHANGED <<lock, proc, board, marker, watchdog, bounds>>

\* 32 bytes come back, or the read times out.
SshProbes(p) ==
  /\ Prog(p) = "dropbear" /\ loc[p] = "probe"
  /\ \/ board # "none" /\ Goto(p, "done") /\ u' = [u EXCEPT ![p].state = 1]
     \/ Goto(p, "boot") /\ UNCHANGED u
  /\ UNCHANGED <<lock, proc, take, board, marker, watchdog, bounds>>

\* atw_boot and the request again; only then is the marker written.
SshBoots(p) ==
  /\ Prog(p) = "dropbear" /\ loc[p] = "boot"
  /\ \/ board' = "xserv" /\ Goto(p, "mark") /\ u' = [u EXCEPT ![p].state = 1]
     \/ board' \in {board, "none", "xserv"} /\ Goto(p, "done") /\ Off(p)
  /\ UNCHANGED <<lock, proc, take, marker, watchdog, bounds>>

SshMarks(p) ==
  /\ Prog(p) = "dropbear" /\ loc[p] = "mark"
  /\ marker' = "xserv"
  /\ Goto(p, "done")
  /\ UNCHANGED <<lock, proc, take, u, board, watchdog, bounds>>

SshReleases(p) ==
  /\ Prog(p) = "dropbear" /\ loc[p] = "done"
  /\ Goto(p, "exit") /\ StartRelease(p)
  /\ UNCHANGED <<lock, proc, u, board, marker, watchdog, bounds>>

SshReturns(p) ==
  /\ Prog(p) = "dropbear" /\ loc[p] = "exit" /\ take[p].at = "released"
  /\ u' = [u EXCEPT ![p].has = FALSE]
  /\ take' = [take EXCEPT ![p] = Idle]
  /\ Goto(p, "idle")
  /\ UNCHANGED <<lock, proc, board, marker, watchdog, bounds>>

-----------------------------------------------------------------------------
LockStep(p) == (TakeStep(p) \/ ReleaseStep(p)) /\ UNCHANGED <<users, board, marker, watchdog, bounds>>

Daemon(p) == StartDaemon(p) \/ DaemonRetries(p) \/ DaemonGivesUp(p) \/ DaemonBoots(p) \/ DaemonSends(p) \/ DaemonTraps(p) \/ DaemonIdle(p)
Port(p) ==
  \/ CallDaemon(p) \/ PortTaken(p) \/ PortBoots(p) \/ PortMarks(p) \/ PortCalls(p) \/ PortExits(p) \/ PortGone(p)
  \/ \E btl \in Servers : CallDirect(p, btl)
Ssh(p) == SshCalls(p) \/ SshClaimed(p) \/ SshProbes(p) \/ SshBoots(p) \/ SshMarks(p) \/ SshReleases(p) \/ SshReturns(p)
Watch ==
  \/ \E same \in BOOLEAN : WatchTick(same)
  \/ \E st \in {"none", "zombie"} : WatchKill(st)
  \/ WatchRemove
  \/ \E p \in Pids : WatchRestart(p)

Next ==
  \/ \E p \in Pids : LockStep(p) \/ Daemon(p) \/ Port(p) \/ Ssh(p)
  \/ Watch \/ DeadlinePast
  \/ \E p \in Pids, prog \in {"port", "dropbear", "other"} : Start(p, prog)
  \/ \E p \in Pids, st \in {"none", "zombie"} : Kill(p, st)
  \/ \E d \in Pids, others \in SUBSET Pids : Reboot(d, others)

\* The machine has booted with no lock file: ttjobd is about to take it.
Init ==
  /\ \E d \in Pids :
       /\ proc = [p \in Pids |-> IF p = d THEN [prog |-> "ttjobd", st |-> "live"] ELSE Absent]
       /\ loc = [p \in Pids |-> IF p = d THEN "take" ELSE "gone"]
       /\ take = [p \in Pids |-> IF p = d THEN [Idle EXCEPT !.at = "open"] ELSE Idle]
  /\ u = [p \in Pids |-> Fresh]
  /\ lock = NoFile /\ board = "none" /\ marker = "none" /\ due = 0 /\ hung = 0 /\ heirs = {}
  /\ watch = [at |-> "sleep", p |-> 0, last |-> NoLast]
  /\ starts = 0 /\ calls = 0 /\ trouble = 0

Spec == Init /\ [][Next]_vars

\* ttjobd-watch is scheduled and the clock runs.
FairSpec ==
  /\ Spec
  /\ WF_vars(Watch) /\ WF_vars(DeadlinePast)
  /\ \A p \in Pids : WF_vars(LockStep(p))

-----------------------------------------------------------------------------
Locs == {"gone", "idle", "take", "serve", "boot", "mark", "send", "probe", "done", "exit"}
Locals == [tries : 0..MaxTries, tj : BOOLEAN, state : 0..2, booted : Images, has : BOOLEAN]

\* Types of the variables.
TypeOK ==
  /\ LockTypeOK
  /\ loc \in [Pids -> Locs] /\ u \in [Pids -> Locals]
  /\ board \in Images /\ marker \in Images
  /\ due \in 0..2 /\ hung \in Pids \cup {0} /\ heirs \subseteq Pids
  /\ watch \in [at : {"sleep", "kill", "rm", "restart"}, p : Pids \cup {0},
                last : [p : Pids \cup {0}, frozen : BOOLEAN]]
  /\ watch.at = "kill" => watch.p # 0
  /\ starts \in 0..MaxStarts /\ calls \in 0..MaxCalls /\ trouble \in 0..MaxTrouble

\* t4lock.c: no two processes have the T425 at once, whatever was killed, left as a zombie or survived a reboot.
MutualExclusion == \A p, q \in Pids : Holds(p) /\ Holds(q) => p = q

\* t4call.c: while a port that booted its server sends to it, the board still runs that server.
ServerMine == \A p \in Pids : loc[p] \in {"mark", "send"} /\ Prog(p) = "port" => board = u[p].booted

\* t4lock_take reports busy only when the process the lock names really has it, when the file changed since it was read, or
\* when the pid of an owner that died has come round to a new process of the same program, which /kern cannot tell apart.
BusyIsTrue ==
  [][\A p \in Pids : take[p].at = "judge" /\ take'[p].at = "busy" =>
        Holds(take[p].seen.pid) \/ take[p].seen.pid \in heirs \/ lock # take[p].seen]_vars

\* ttjobd-watch never turns on a ttjobd that still runs its loop, however slow or idle it is.
SparesHealthy ==
  [][watch.at = "sleep" /\ watch'.at = "kill" => watch'.p \notin Daemons \/ hung = watch'.p]_vars

\* ttjobd-watch: a ttjobd that hangs in a link trap with a deadline in the due file, its own or one left from an earlier
\* ttjobd, does not stay that way.  With no deadline written (a boot, the read after the last reply) nothing notices it.
HungEnds == hung # 0 /\ due # 0 ~> hung = 0

\* The T425 has one user at a time, and a port sends only to the server it booted itself.
OneOwner == TypeOK /\ MutualExclusion /\ ServerMine

\* "Busy" and "hung" are said of processes that are: t4lock_take turns away only from a lock that is
\* held, and ttjobd-watch turns only on a ttjobd that hangs.
ToldTruly == BusyIsTrue /\ SparesHealthy
=============================================================================
