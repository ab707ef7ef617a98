------------------------------- MODULE T4Lock -------------------------------
(***************************************************************************)
(* The lock on the T425 (sam-yum-tt/src/t4lock.c): a file that names its   *)
(* owner, used by ttjobd, by every program built on t4call and by          *)
(* Dropbear's X25519.  Taking it is open(O_EXCL), write, or read, judge,   *)
(* unlink and one more try; each system call is a step, because the other  *)
(* takers run in between.                                                  *)
(***************************************************************************)
EXTENDS Naturals, FiniteSets

CONSTANTS
  Pids,     \* process ids
  Faults    \* "overlap": two takes interleave.  "reuse": a dead owner's pid comes round to a new process.

ASSUME PidsAssumption == Pids \subseteq Nat \ {0} /\ Faults \subseteq {"overlap", "reuse"}

VARIABLES
  lock,   \* /tmp/t425.lock: who created it, and the pid and program name in it (pid 0: still empty)
  proc,   \* /kern: the program each pid runs, and whether it is live, a zombie or absent
  take    \* t4lock_take and t4lock_release in progress: the next system call, tries, what was read

NoFile == [by |-> 0, pid |-> 0, prog |-> ""]
Owned(p) == [by |-> p, pid |-> p, prog |-> proc[p].prog]
Absent == [prog |-> "", st |-> "none"]
Idle == [at |-> "idle", tries |-> 0, seen |-> NoFile]

Live(p) == proc[p].st = "live"
InTake == {p \in Pids : take[p].at \in {"open", "write", "read", "judge", "unlink"}}

\* Two takes overlap only under that fault: each is a few milliseconds long.
MayStep(p) == "overlap" \in Faults \/ InTake \subseteq {p}

At(p, at) == [take EXCEPT ![p].at = at]

-----------------------------------------------------------------------------
(***************************************************************************)
(* t4lock_take.                                                            *)
(***************************************************************************)

\* Called at step "open"; ends at "won" (1), "busy" (0) or "fail" (-1).
StartTake(p) == take' = [take EXCEPT ![p] = [at |-> "open", tries |-> 0, seen |-> NoFile]]

\* open(T4LOCK, O_CREAT | O_EXCL)
Open(p) ==
  /\ take[p].at = "open" /\ MayStep(p)
  /\ IF lock = NoFile
       THEN lock' = [by |-> p, pid |-> 0, prog |-> ""] /\ take' = At(p, "write")
       ELSE take' = At(p, "read") /\ UNCHANGED lock
  /\ UNCHANGED proc

\* write: into the file this process created, which may be unlinked or replaced by now.
Write(p) ==
  /\ take[p].at = "write"
  /\ lock' = IF lock.by = p THEN Owned(p) ELSE lock
  /\ take' = At(p, "won")
  /\ UNCHANGED proc

\* fopen and fscanf: a missing or still empty file reads as pid 0.
Read(p) ==
  /\ take[p].at = "read"
  /\ take' = [take EXCEPT ![p].at = "judge", ![p].seen = lock]
  /\ UNCHANGED <<lock, proc>>

\* Mutant: a zombie counts as a live owner.
LiveOwner_Zombie(p, f) ==
  /\ f.pid # 0 /\ f.pid # p
  /\ proc[f.pid].st # "none"
  /\ proc[f.pid].prog = f.prog

\* Mutant: the name is compared with our own program.
LiveOwner_OwnName(p, f) ==
  /\ f.pid # 0 /\ f.pid # p
  /\ proc[f.pid].st = "live"
  /\ proc[p].prog = f.prog

\* The owner f names is another process, exists, is no zombie and runs the program that took the lock.
LiveOwner(p, f) ==
  /\ f.pid # 0 /\ f.pid # p
  /\ proc[f.pid].st = "live"
  /\ proc[f.pid].prog = f.prog

Judge(p) ==
  /\ take[p].at = "judge"
  /\ take' = [take EXCEPT ![p].at = IF LiveOwner(p, take[p].seen) THEN "busy" ELSE "unlink", ![p].seen = NoFile]
  /\ UNCHANGED <<lock, proc>>

Unlink(p) ==
  /\ take[p].at = "unlink"
  /\ lock' = NoFile
  /\ take' = [take EXCEPT ![p].tries = @ + 1, ![p].at = IF take[p].tries = 0 THEN "open" ELSE "fail"]
  /\ UNCHANGED proc

TakeStep(p) == Open(p) \/ Write(p) \/ Read(p) \/ Judge(p) \/ Unlink(p)

-----------------------------------------------------------------------------
(***************************************************************************)
(* t4lock_release: read, and unlink if the file names this process.        *)
(***************************************************************************)
StartRelease(p) == take' = [take EXCEPT ![p] = [Idle EXCEPT !.at = "relread"]]

ReleaseRead(p) ==
  /\ take[p].at = "relread"
  /\ take' = At(p, IF lock.pid = p THEN "relunlink" ELSE "released")
  /\ UNCHANGED <<lock, proc>>

ReleaseUnlink(p) ==
  /\ take[p].at = "relunlink"
  /\ lock' = NoFile
  /\ take' = At(p, "released")
  /\ UNCHANGED proc

ReleaseStep(p) == ReleaseRead(p) \/ ReleaseUnlink(p)

\* The programs that matter to the T425; "other" never takes it, "" is no program.
Programs == {"", "ttjobd", "port", "dropbear", "other"}
Files == [by : Pids \cup {0}, pid : Pids \cup {0}, prog : Programs]
Steps == {"idle", "open", "write", "read", "judge", "unlink", "won", "busy", "fail", "relread", "relunlink", "released"}
Procs == [prog : Programs, st : {"none", "live", "zombie"}]
Takes == [at : Steps, tries : 0..2, seen : Files]

LockTypeOK == lock \in Files /\ proc \in [Pids -> Procs] /\ take \in [Pids -> Takes]
=============================================================================
