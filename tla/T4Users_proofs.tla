--------------------------- MODULE T4Users_proofs ---------------------------
(***************************************************************************)
(* Proofs about the users of the T425's lock, for every number of          *)
(* processes, server images and calls.  Two takes do not overlap here: one *)
(* that does can unlink the file another has just created (t4lock.c).      *)
(***************************************************************************)
EXTENDS T4Users, TLAPS

-----------------------------------------------------------------------------
(***************************************************************************)
(* The inductive invariant.                                                *)
(***************************************************************************)
Taking == {"open", "write", "read", "judge", "unlink"}

\* Where each program can be, and which of its variables say that the lock is its own.
Away(p) == ~Live(p) /\ loc[p] = "gone" /\ take[p] = Idle /\ u[p] = Fresh

AtTake(p) ==
  /\ Live(p) /\ loc[p] = "take" /\ ~u[p].has
  /\ Prog(p) \in {"ttjobd", "port", "dropbear"} /\ (Prog(p) = "port" => u[p].state = 0)
  /\ take[p].at \in Taking \cup {"won", "busy", "fail"}
  /\ take[p].at \in Taking => take[p].tries \in {0, 1}

AtWork(p) ==
  /\ Live(p) /\ take[p].at = "idle"
  /\ \/ Prog(p) = "ttjobd" /\ loc[p] = "serve" /\ u[p].has
     \/ Prog(p) = "port" /\ loc[p] = "idle" /\ (u[p].has <=> u[p].state = 1) /\ u[p].state # 2
     \/ Prog(p) = "port" /\ loc[p] = "idle" /\ u[p].state = 2
     \/ Prog(p) = "port" /\ loc[p] \in {"boot", "mark"} /\ u[p].has
     \/ Prog(p) = "port" /\ loc[p] = "send" /\ u[p].has /\ u[p].state = 1
     \/ Prog(p) = "dropbear" /\ loc[p] = "idle" /\ ~u[p].has
     \/ Prog(p) = "dropbear" /\ loc[p] \in {"probe", "boot", "mark", "done"} /\ u[p].has
     \/ Prog(p) = "other" /\ loc[p] = "idle" /\ ~u[p].has

AtExit(p) ==
  /\ Live(p) /\ loc[p] = "exit" /\ u[p].has
  /\ Prog(p) \in {"port", "dropbear"}
  /\ take[p].at \in {"relread", "relunlink", "released"}

Places == \A p \in Pids : Away(p) \/ AtTake(p) \/ AtWork(p) \/ AtExit(p)

\* Takes do not overlap, with one another or with a restart.
OneTaker ==
  /\ \A p, q \in Pids : take[p].at \in Taking /\ take[q].at \in Taking => p = q
  /\ watch.at # "sleep" => \A p \in Pids : take[p].at \notin Taking

\* Who has the T425 is who the file names.
HoldersOK == \A p \in Pids : Holds(p) => lock = Owned(p)

\* What a take knows between two of its system calls.
TakeOK ==
  \A p \in Pids :
    /\ take[p].at = "write" => lock = [by |-> p, pid |-> 0, prog |-> ""]
    /\ take[p].at = "judge" => lock \in {take[p].seen, NoFile} /\ \A q \in Pids : Holds(q) => take[p].seen = Owned(q)
    /\ take[p].at = "unlink" => \A q \in Pids : ~Holds(q)

\* ttjobd-watch kills the one that has the T425, and removes the file of nobody.
WatchOK ==
  /\ watch.at = "kill" => \A p \in Pids : Holds(p) => p = watch.p
  /\ watch.at \in {"rm", "restart"} => \A p \in Pids : ~Holds(p)

\* A port that has booted its server and not turned the T425 off finds it there.
BoardOK ==
  \A p \in Pids : Prog(p) = "port" /\ (loc[p] \in {"mark", "send"} \/ (loc[p] = "idle" /\ u[p].state = 1)) =>
                    board = u[p].booted

Inv == TypeOK /\ Places /\ OneTaker /\ HoldersOK /\ TakeOK /\ WatchOK /\ BoardOK

\* A live program the file names has the T425, or is about to find its own, older file; of the heirs, whose
\* pid the file named before they began, that is so of ttjobd, which takes the lock at once.
NamedOK ==
  /\ lock.prog # "other"
  /\ \A p \in Pids : lock.pid = p /\ lock.prog = Prog(p) /\ Live(p) /\ (p \in heirs => Prog(p) = "ttjobd") =>
                       Holds(p) \/ take[p].at \in Taking \ {"write"}

\* The deadline is long past only while every ttjobd in service hangs.
DueOK == due = 2 => \A p \in Daemons : loc[p] = "serve" => hung = p

Told == NamedOK /\ DueOK

-----------------------------------------------------------------------------
(***************************************************************************)
(* Types.                                                                  *)
(***************************************************************************)
\* Processes that take, hold or release the lock are live.
LEMMA Busy ==
  ASSUME TypeOK, Places, NEW p \in Pids, loc[p] # "gone" \/ take[p].at # "idle" \/ u[p].has
  PROVE  Live(p) /\ (AtTake(p) \/ AtWork(p) \/ AtExit(p))
BY DEF Places, Away, AtTake, AtWork, AtExit, Idle, Fresh, TypeOK, LockTypeOK

\* What an assignment to a field does to the records of take and u.
LEMMA TakeEdit ==
  ASSUME NEW r \in Takes, NEW a \in Steps
  PROVE  [r EXCEPT !.at = a] = [at |-> a, tries |-> r.tries, seen |-> r.seen]
BY DEF Takes

LEMMA LocalsEdit ==
  ASSUME NEW r \in Locals
  PROVE  /\ \A b \in BOOLEAN : LET w == [r EXCEPT !.has = b]
                               IN  w \in Locals /\ w.has = b /\ w.state = r.state /\ w.booted = r.booted
         /\ \A n \in 0..2 : LET w == [r EXCEPT !.state = n]
                            IN  w \in Locals /\ w.state = n /\ w.has = r.has /\ w.booted = r.booted
         /\ \A n \in 0..MaxTries : LET w == [r EXCEPT !.tries = n]
                                   IN  w \in Locals /\ w.has = r.has /\ w.state = r.state
<1>1. \A b \in BOOLEAN : [r EXCEPT !.has = b] =
        [tries |-> r.tries, tj |-> r.tj, state |-> r.state, booted |-> r.booted, has |-> b]
  BY DEF Locals
<1>2. \A n : [r EXCEPT !.state = n] =
        [tries |-> r.tries, tj |-> r.tj, state |-> n, booted |-> r.booted, has |-> r.has]
  BY DEF Locals
<1>3. \A n : [r EXCEPT !.tries = n] =
        [tries |-> n, tj |-> r.tj, state |-> r.state, booted |-> r.booted, has |-> r.has]
  BY DEF Locals
<1>4. QED
  BY <1>1, <1>2, <1>3 DEF Locals

\* The records the actions start from.
LEMMA Blank ==
  /\ NoFile \in Files /\ Absent \in Procs
  /\ \A prog \in Programs : [prog |-> prog, st |-> "live"] \in Procs
  /\ Idle \in Takes /\ Idle.at = "idle"
  /\ [Idle EXCEPT !.at = "open"] = [at |-> "open", tries |-> 0, seen |-> NoFile]
  /\ [at |-> "open", tries |-> 0, seen |-> NoFile] \in Takes
  /\ [Idle EXCEPT !.at = "relread"] \in Takes /\ [Idle EXCEPT !.at = "relread"].at = "relread"
  /\ Fresh \in Locals /\ ~Fresh.has /\ Fresh.state = 0 /\ Fresh.tries = 0
<1>1. NoFile \in Files /\ Absent \in Procs /\ \A prog \in Programs : [prog |-> prog, st |-> "live"] \in Procs
  BY DEF NoFile, Files, Programs, Absent, Procs
<1>2. Idle \in Takes /\ Idle.at = "idle" /\ [at |-> "open", tries |-> 0, seen |-> NoFile] \in Takes
  BY <1>1 DEF Idle, Steps, Takes
<1>3. /\ [Idle EXCEPT !.at = "open"] = [at |-> "open", tries |-> 0, seen |-> NoFile]
      /\ [Idle EXCEPT !.at = "relread"] = [at |-> "relread", tries |-> 0, seen |-> NoFile]
  BY DEF Idle
<1>4. [at |-> "relread", tries |-> 0, seen |-> NoFile] \in Takes
  BY <1>1 DEF Steps, Takes
<1>5. Fresh \in Locals /\ ~Fresh.has /\ Fresh.state = 0 /\ Fresh.tries = 0
  BY UsersAssumption DEF Fresh, Locals, Images
<1>6. QED
  BY <1>1, <1>2, <1>3, <1>4, <1>5

LEMMA TypeInit == Init => TypeOK
<1> SUFFICES ASSUME Init PROVE TypeOK
  OBVIOUS
<1> USE UsersAssumption, PidsAssumption, Blank DEF Init
<1>0. [prog |-> "ttjobd", st |-> "live"] \in Procs
  BY DEF Programs
<1>1. proc \in [Pids -> Procs]
  BY <1>0
<1>2. take \in [Pids -> Takes]
  OBVIOUS
<1>3. loc \in [Pids -> Locs]
  BY DEF Locs
<1>4. u \in [Pids -> Locals]
  OBVIOUS
<1>5. QED
  BY <1>1, <1>2, <1>3, <1>4 DEF TypeOK, LockTypeOK, Images, NoLast

\* The same in its place in take.
LEMMA AtFact ==
  ASSUME LockTypeOK, NEW p \in Pids, NEW a \in Steps
  PROVE  /\ At(p, a) \in [Pids -> Takes]
         /\ At(p, a)[p].at = a /\ At(p, a)[p].tries = take[p].tries /\ At(p, a)[p].seen = take[p].seen
         /\ \A q \in Pids : q # p => At(p, a)[q] = take[q]
<1>1. take[p] \in Takes
  BY DEF LockTypeOK
<1>2. [take[p] EXCEPT !.at = a] = [at |-> a, tries |-> take[p].tries, seen |-> take[p].seen]
  BY <1>1, TakeEdit
<1>3. [at |-> a, tries |-> take[p].tries, seen |-> take[p].seen] \in Takes
  BY <1>1 DEF Takes
<1>4. At(p, a) = [take EXCEPT ![p] = [at |-> a, tries |-> take[p].tries, seen |-> take[p].seen]]
  BY <1>2 DEF At
<1>5. At(p, a)[p] = [at |-> a, tries |-> take[p].tries, seen |-> take[p].seen]
  BY <1>4 DEF LockTypeOK
<1>6. QED
  BY <1>3, <1>4, <1>5 DEF LockTypeOK

LEMMA TypeLock ==
  ASSUME TypeOK, Places, NEW p \in Pids, LockStep(p)
  PROVE  TypeOK'
<1> SUFFICES LockTypeOK'
  BY DEF TypeOK, LockStep, users, watchdog, bounds
<1>0. LockTypeOK /\ NoFile \in Files
  BY DEF TypeOK, NoFile, Files, Programs
<1>1. take[p].at \in Taking => take[p].tries \in {0, 1}
  BY Busy DEF AtTake, AtWork, AtExit, Taking
<1>a. {"write", "read", "won", "busy", "unlink", "released", "relunlink", "open", "fail", "judge"} \subseteq Steps
  BY DEF Steps
<1>b. [by |-> p, pid |-> 0, prog |-> ""] \in Files /\ Owned(p) \in Files
  BY <1>0 DEF LockTypeOK, Files, Programs, Procs, Owned
<1>c. take[p] \in Takes
  BY <1>0 DEF LockTypeOK
<1>2. CASE Open(p)
  <2>1. lock' \in Files
    BY <1>0, <1>b, <1>2 DEF Open, LockTypeOK
  <2>2. PICK a \in Steps : take' = At(p, a)
    BY <1>a, <1>2 DEF Open
  <2>3. take' \in [Pids -> Takes]
    BY <1>0, <1>a, <2>2, AtFact
  <2>4. QED
    BY <1>0, <1>2, <2>1, <2>3 DEF Open, LockTypeOK
<1>3. CASE Write(p)
  BY <1>0, <1>a, <1>b, <1>3, AtFact DEF Write, LockTypeOK
<1>4. CASE Read(p)
  <2>1. [take[p] EXCEPT !.at = "judge", !.seen = lock] \in Takes
    BY <1>0, <1>a, <1>c DEF LockTypeOK, Takes
  <2>2. QED
    BY <1>0, <1>4, <2>1 DEF Read, LockTypeOK
<1>5. CASE Judge(p)
  <2>1. \A a \in Steps : [take[p] EXCEPT !.at = a, !.seen = NoFile] \in Takes
    BY <1>0, <1>c DEF Takes
  <2>2. QED
    BY <1>0, <1>a, <1>5, <2>1 DEF Judge, LockTypeOK
<1>6. CASE Unlink(p)
  <2>0. take[p].tries + 1 \in 0..2
    BY <1>1, <1>6 DEF Unlink, Taking
  <2>1. \A a \in Steps : [take[p] EXCEPT !.tries = @ + 1, !.at = a] \in Takes
    BY <2>0, <1>c DEF Takes
  <2>2. QED
    BY <1>0, <1>a, <1>6, <2>1 DEF Unlink, LockTypeOK
<1>7. CASE ReleaseRead(p)
  BY <1>0, <1>a, <1>7, AtFact DEF ReleaseRead, LockTypeOK
<1>8. CASE ReleaseUnlink(p)
  BY <1>0, <1>a, <1>8, AtFact DEF ReleaseUnlink, LockTypeOK
<1>9. QED
  BY <1>2, <1>3, <1>4, <1>5, <1>6, <1>7, <1>8 DEF LockStep, TakeStep, ReleaseStep

-----------------------------------------------------------------------------
(***************************************************************************)
(* Every process keeps to its places.                                      *)
(***************************************************************************)
\* One process moves: its new values decide.
Moves(p, l, t, w) ==
  /\ proc' = proc
  /\ loc' = [loc EXCEPT ![p] = l] /\ take' = [take EXCEPT ![p] = t] /\ u' = [u EXCEPT ![p] = w]

Put(p) == Away(p) \/ AtTake(p) \/ AtWork(p) \/ AtExit(p)

LEMMA OneMoves ==
  ASSUME TypeOK, Places, NEW p \in Pids, NEW l \in Locs, NEW t \in Takes, NEW w \in Locals,
         Moves(p, l, t, w)
  PROVE  /\ loc' \in [Pids -> Locs] /\ take' \in [Pids -> Takes] /\ u' \in [Pids -> Locals]
         /\ loc'[p] = l /\ take'[p] = t /\ u'[p] = w
         /\ Put(p)' => Places'
<1>1. /\ loc \in [Pids -> Locs] /\ take \in [Pids -> Takes] /\ u \in [Pids -> Locals]
      /\ proc \in [Pids -> Procs]
  BY DEF TypeOK, LockTypeOK
<1>2. /\ loc' \in [Pids -> Locs] /\ take' \in [Pids -> Takes] /\ u' \in [Pids -> Locals]
      /\ loc'[p] = l /\ take'[p] = t /\ u'[p] = w
      /\ \A q \in Pids \ {p} : loc'[q] = loc[q] /\ take'[q] = take[q] /\ u'[q] = u[q]
  BY <1>1 DEF Moves
<1>3. \A q \in Pids \ {p} : Put(q)'
  BY <1>2 DEF Places, Put, Away, AtTake, AtWork, AtExit, Moves, Live, Prog
<1>4. QED
  BY <1>2, <1>3 DEF Places, Put

\* Processes begin and end; a zombie keeps its program and nothing else.
LEMMA OneEnds ==
  ASSUME TypeOK, Places, NEW p \in Pids, NEW st \in {"none", "zombie"}, Ends(p, st)
  PROVE  /\ proc' \in [Pids -> Procs] /\ take' \in [Pids -> Takes]
         /\ loc' \in [Pids -> Locs] /\ u' \in [Pids -> Locals] /\ hung' \in Pids \cup {0}
         /\ Places'
<1>1. /\ loc \in [Pids -> Locs] /\ take \in [Pids -> Takes] /\ u \in [Pids -> Locals]
      /\ proc \in [Pids -> Procs] /\ hung \in Pids \cup {0}
  BY DEF TypeOK, LockTypeOK
<1>2. [proc[p] EXCEPT !.st = st] \in Procs /\ [proc[p] EXCEPT !.st = st].st = st /\ Absent.st = "none"
  BY <1>1 DEF Procs, Absent
<1>3. PICK x \in Procs : proc' = [proc EXCEPT ![p] = x] /\ x.st = st
  BY <1>2, Blank DEF Ends
<1>4. proc' \in [Pids -> Procs] /\ proc'[p].st = st /\ take' \in [Pids -> Takes] /\ u' \in [Pids -> Locals]
  BY <1>1, <1>3, Blank DEF Ends
<1>5. loc' \in [Pids -> Locs] /\ hung' \in Pids \cup {0}
  BY <1>1 DEF Ends, Goto, Locs
<1>6. Put(p)'
  BY <1>1, <1>4 DEF Ends, Goto, Put, Away, Live
<1>7. \A q \in Pids \ {p} : Put(q)'
  BY <1>1, <1>3 DEF Ends, Goto, Places, Put, Away, AtTake, AtWork, AtExit, Live, Prog
<1>8. QED
  BY <1>4, <1>5, <1>6, <1>7 DEF Places, Put

LEMMA OneBegins ==
  ASSUME TypeOK, Places, NEW p \in Pids, NEW prog \in Programs, NEW l \in Locs, NEW t \in Takes,
         Begin(p, prog), Goto(p, l), take' = [take EXCEPT ![p] = t]
  PROVE  /\ proc' \in [Pids -> Procs] /\ take' \in [Pids -> Takes]
         /\ loc' \in [Pids -> Locs] /\ u' \in [Pids -> Locals]
         /\ Live(p)' /\ Prog(p)' = prog /\ loc'[p] = l /\ take'[p] = t /\ u'[p] = Fresh
         /\ Put(p)' => Places'
<1>1. /\ loc \in [Pids -> Locs] /\ take \in [Pids -> Takes] /\ u \in [Pids -> Locals]
      /\ proc \in [Pids -> Procs]
  BY DEF TypeOK, LockTypeOK
<1>2. /\ proc' \in [Pids -> Procs] /\ take' \in [Pids -> Takes]
      /\ loc' \in [Pids -> Locs] /\ u' \in [Pids -> Locals]
      /\ Live(p)' /\ Prog(p)' = prog /\ loc'[p] = l /\ take'[p] = t /\ u'[p] = Fresh
  BY <1>1, Blank DEF Begin, Goto, Live, Prog
<1>3. \A q \in Pids \ {p} : Put(q)'
  BY <1>1 DEF Begin, Goto, Places, Put, Away, AtTake, AtWork, AtExit, Live, Prog
<1>4. QED
  BY <1>2, <1>3 DEF Places, Put

Opening == [at |-> "open", tries |-> 0, seen |-> NoFile]

LEMMA RcPlaces ==
  ASSUME TypeOK, Places, NEW p \in Pids, RcTtjobd(p)
  PROVE  /\ proc' \in [Pids -> Procs] /\ take' \in [Pids -> Takes]
         /\ loc' \in [Pids -> Locs] /\ u' \in [Pids -> Locals]
         /\ Places'
<1>1. "ttjobd" \in Programs /\ "take" \in Locs /\ Opening \in Takes
  BY Blank DEF Programs, Locs, Opening
<1>2. Begin(p, "ttjobd") /\ Goto(p, "take") /\ take' = [take EXCEPT ![p] = Opening]
  BY DEF RcTtjobd, StartTake, Opening
<1>3. /\ proc' \in [Pids -> Procs] /\ take' \in [Pids -> Takes]
      /\ loc' \in [Pids -> Locs] /\ u' \in [Pids -> Locals]
      /\ Live(p)' /\ Prog(p)' = "ttjobd" /\ loc'[p] = "take" /\ take'[p] = Opening /\ u'[p] = Fresh
      /\ Put(p)' => Places'
  BY <1>1, <1>2, OneBegins
<1>4. AtTake(p)'
  BY <1>3, Blank DEF AtTake, Opening, Taking
<1>5. QED
  BY <1>3, <1>4 DEF Put

\* The place a program is in says which of the four it is.
LEMMA Where ==
  ASSUME TypeOK, Places, NEW p \in Pids
  PROVE  /\ loc[p] = "take" => AtTake(p)
         /\ loc[p] = "exit" => AtExit(p)
         /\ loc[p] \in {"idle", "serve", "boot", "mark", "send", "probe", "done"} => AtWork(p)
         /\ take[p].at \in Taking \cup {"won", "busy", "fail"} => AtTake(p)
         /\ take[p].at \in {"relread", "relunlink", "released"} => AtExit(p)
BY Blank DEF Places, Away, AtTake, AtWork, AtExit, Taking

\* What the rest of the state must be.
RestTypes ==
  /\ lock' = lock /\ watch' = watch
  /\ board' \in Images /\ marker' \in Images /\ due' \in 0..2 /\ hung' \in Pids \cup {0} /\ heirs' \subseteq Pids
  /\ starts' \in 0..MaxStarts /\ calls' \in 0..MaxCalls /\ trouble' \in 0..MaxTrouble

LEMMA AllTypes ==
  ASSUME TypeOK, RestTypes,
         proc' \in [Pids -> Procs], take' \in [Pids -> Takes], loc' \in [Pids -> Locs], u' \in [Pids -> Locals]
  PROVE  TypeOK'
BY DEF TypeOK, LockTypeOK, RestTypes

LEMMA OneMovesTypes ==
  ASSUME TypeOK, Places, RestTypes,
         NEW p \in Pids, NEW l \in Locs, NEW t \in Takes, NEW w \in Locals, Moves(p, l, t, w), Put(p)'
  PROVE  TypeOK' /\ Places'
<1>1. proc' \in [Pids -> Procs]
  BY DEF Moves, TypeOK, LockTypeOK
<1>2. QED
  BY <1>1, OneMoves, AllTypes

LEMMA PlacesStay == Places /\ UNCHANGED <<proc, take, loc, u>> => Places'
BY DEF Places, Away, AtTake, AtWork, AtExit, Live, Prog

\* One process's variables, and what the actions add to them.
LEMMA Parts ==
  ASSUME TypeOK, NEW p \in Pids
  PROVE  /\ u[p] \in Locals /\ take[p] \in Takes /\ loc[p] \in Locs /\ proc[p] \in Procs
         /\ loc = [loc EXCEPT ![p] = loc[p]] /\ take = [take EXCEPT ![p] = take[p]]
         /\ u = [u EXCEPT ![p] = u[p]]
         /\ board \in Images /\ marker \in Images /\ due \in 0..2 /\ hung \in Pids \cup {0} /\ heirs \subseteq Pids
         /\ starts \in 0..MaxStarts /\ calls \in 0..MaxCalls /\ trouble \in 0..MaxTrouble
         /\ starts < MaxStarts => starts + 1 \in 0..MaxStarts
         /\ calls < MaxCalls => calls + 1 \in 0..MaxCalls
         /\ trouble < MaxTrouble => trouble + 1 \in 0..MaxTrouble
         /\ u[p].booted \in Images
<1>1. u[p] \in Locals /\ u[p].booted \in Images
  BY DEF TypeOK, Locals
<1>2. QED
  BY <1>1, UsersAssumption DEF TypeOK, LockTypeOK

LEMMA DaemonRest == ASSUME TypeOK, NEW p \in Pids, Daemon(p) PROVE RestTypes
<1>1. CASE StartDaemon(p)
  BY <1>1, Parts DEF StartDaemon, RestTypes, RcTtjobd, Begin, watchdog
<1>2. CASE DaemonRetries(p)
  BY <1>2, Parts DEF DaemonRetries, RestTypes, watchdog, bounds
<1>3. CASE DaemonGivesUp(p)
  BY <1>3, Parts DEF DaemonGivesUp, RestTypes, Ends, bounds
<1>4. CASE DaemonBoots(p)
  BY <1>4, Parts DEF DaemonBoots, RestTypes, Images, bounds
<1>5. CASE DaemonSends(p)
  BY <1>5, Parts DEF DaemonSends, RestTypes
<1>6. CASE DaemonIdle(p)
  BY <1>6, Parts DEF DaemonIdle, RestTypes, bounds
<1>7. CASE DaemonTraps(p)
  BY <1>7, Parts DEF DaemonTraps, RestTypes, Images
<1>8. QED
  BY <1>1, <1>2, <1>3, <1>4, <1>5, <1>6, <1>7 DEF Daemon

LEMMA DaemonPlaces == ASSUME TypeOK, Places, NEW p \in Pids, Daemon(p) PROVE TypeOK' /\ Places'
<1>1. RestTypes
  BY DaemonRest
<1>2. CASE StartDaemon(p)
  BY <1>1, <1>2, RcPlaces, AllTypes DEF StartDaemon
<1>3. CASE DaemonRetries(p)
  <2> DEFINE w == [u[p] EXCEPT !.tries = u[p].tries + 1]
  <2>1. AtTake(p) /\ Prog(p) = "ttjobd" /\ loc[p] = "take"
    BY <1>3, Where DEF DaemonRetries
  <2>2. u[p].tries + 1 \in 0..MaxTries
    BY <1>3, Parts, UsersAssumption DEF DaemonRetries, Locals
  <2>3. w \in Locals /\ w.has = u[p].has /\ w.state = u[p].state
    BY <2>2, Parts, LocalsEdit
  <2>4. Moves(p, "take", Opening, w) /\ "take" \in Locs /\ Opening \in Takes
    BY <1>3, <2>1, Blank, Parts DEF DaemonRetries, Moves, StartTake, Opening, Locs
  <2>5. loc'[p] = "take" /\ take'[p] = Opening /\ u'[p] = w /\ proc' = proc
    BY <2>3, <2>4, OneMoves DEF Moves
  <2>6. AtTake(p)'
    BY <2>1, <2>3, <2>5 DEF AtTake, Opening, Taking, Live, Prog
  <2>7. QED
    BY <1>1, <2>3, <2>4, <2>6, OneMovesTypes DEF Put
<1>4. CASE DaemonGivesUp(p)
  BY <1>1, <1>4, OneEnds, AllTypes DEF DaemonGivesUp
<1>5. CASE DaemonBoots(p)
  <2> DEFINE w == [u[p] EXCEPT !.has = TRUE]
  <2>1. AtTake(p) /\ Prog(p) = "ttjobd"
    BY <1>5, Where DEF DaemonBoots
  <2>2. w \in Locals /\ w.has
    BY Parts, LocalsEdit
  <2>3. Moves(p, "serve", Idle, w) /\ "serve" \in Locs /\ Idle \in Takes
    BY <1>5, Blank DEF DaemonBoots, Moves, Goto, Locs
  <2>4. loc'[p] = "serve" /\ take'[p] = Idle /\ u'[p] = w /\ proc' = proc
    BY <2>2, <2>3, OneMoves DEF Moves
  <2>5. AtWork(p)'
    BY <2>1, <2>2, <2>4, Blank DEF AtTake, AtWork, Live, Prog
  <2>6. QED
    BY <1>1, <2>2, <2>3, <2>5, OneMovesTypes DEF Put
<1>6. CASE DaemonSends(p) \/ DaemonTraps(p) \/ DaemonIdle(p)
  <2>1. UNCHANGED <<proc, take, loc, u>>
    BY <1>6 DEF DaemonSends, DaemonTraps, DaemonIdle
  <2>2. QED
    BY <1>1, <2>1, PlacesStay, AllTypes DEF TypeOK, LockTypeOK
<1>7. QED
  BY <1>2, <1>3, <1>4, <1>5, <1>6 DEF Daemon

LEMMA PortRest == ASSUME TypeOK, NEW p \in Pids, Port(p) PROVE RestTypes
<1>1. CASE CallDaemon(p)
  BY <1>1, Parts DEF CallDaemon, RestTypes, watchdog
<1>2. CASE PortTaken(p)
  BY <1>2, Parts DEF PortTaken, RestTypes, watchdog, bounds
<1>3. CASE PortBoots(p)
  BY <1>3, Parts DEF PortBoots, RestTypes, watchdog, bounds, Images
<1>4. CASE PortMarks(p)
  BY <1>4, Parts DEF PortMarks, RestTypes, watchdog, bounds
<1>5. CASE PortCalls(p)
  BY <1>5, Parts DEF PortCalls, RestTypes, watchdog, bounds
<1>6. CASE PortExits(p)
  BY <1>6, Parts DEF PortExits, RestTypes, Ends, bounds
<1>7. CASE PortGone(p)
  BY <1>7, Parts DEF PortGone, RestTypes, Ends, bounds
<1>8. ASSUME NEW btl \in Servers, CallDirect(p, btl) PROVE RestTypes
  BY <1>8, Parts DEF CallDirect, RestTypes, watchdog
<1>9. QED
  BY <1>1, <1>2, <1>3, <1>4, <1>5, <1>6, <1>7, <1>8 DEF Port

LEMMA PortPlaces == ASSUME TypeOK, Places, NEW p \in Pids, Port(p) PROVE TypeOK' /\ Places'
<1> DEFINE off == [u[p] EXCEPT !.state = 2]
           on  == [u[p] EXCEPT !.state = 1]
           won == [u[p] EXCEPT !.has = TRUE]
<1>0. RestTypes
  BY PortRest
<1>1. /\ off \in Locals /\ off.state = 2 /\ off.has = u[p].has
      /\ on \in Locals /\ on.state = 1 /\ on.has = u[p].has
      /\ won \in Locals /\ won.has /\ won.state = u[p].state
  <2>0. u[p] \in Locals
    BY Parts
  <2>1. off \in Locals /\ off.state = 2 /\ off.has = u[p].has
    BY <2>0 DEF Locals
  <2>2. on \in Locals /\ on.state = 1 /\ on.has = u[p].has
    BY <2>0 DEF Locals
  <2>3. won \in Locals /\ won.has = TRUE /\ won.state = u[p].state
    BY Parts, LocalsEdit
  <2>4. QED
    BY <2>1, <2>2, <2>3
<1>2. {"idle", "take", "boot", "mark", "send", "exit"} \subseteq Locs /\ Idle \in Takes /\ Idle.at = "idle"
  BY Blank DEF Locs
<1>3. CASE CallDaemon(p)
  <2>1. AtWork(p) /\ Prog(p) = "port" /\ loc[p] = "idle"
    BY <1>3, Where DEF CallDaemon
  <2>2. PICK w \in Locals : Moves(p, "idle", take[p], w) /\ w \in {u[p], off}
    BY <1>1, <1>3, <2>1, Parts DEF CallDaemon, Off, Moves
  <2>3. loc'[p] = "idle" /\ take'[p] = take[p] /\ u'[p] = w /\ proc' = proc
    BY <1>2, <2>2, OneMoves, Parts DEF Moves
  <2>4. AtWork(p)'
    BY <1>1, <2>1, <2>2, <2>3 DEF AtWork, Live, Prog
  <2>5. QED
    BY <1>0, <1>2, <2>2, <2>4, OneMovesTypes, Parts DEF Put
<1>4. ASSUME NEW btl \in Servers, CallDirect(p, btl) PROVE TypeOK' /\ Places'
  <2> DEFINE b == IF u[p].state = 2 THEN u[p].booted ELSE btl
             w == [tries |-> u[p].tries, tj |-> FALSE, state |-> u[p].state, booted |-> b, has |-> u[p].has]
             l == IF u[p].state = 0 THEN "take" ELSE IF u[p].state = 2 THEN "idle"
                  ELSE IF u[p].booted = btl THEN "send" ELSE "boot"
             t == IF u[p].state = 0 THEN Opening ELSE take[p]
  <2>1. AtWork(p) /\ Prog(p) = "port" /\ loc[p] = "idle"
    BY <1>4, Where DEF CallDirect
  <2>2. w \in Locals /\ t \in Takes /\ u[p].state \in 0..2
    BY Parts, Blank DEF Locals, Images, Opening
  <2>3. l \in Locs
    BY <1>2
  <2>4. u' = [u EXCEPT ![p] = w]
    <3>1. u' = [u EXCEPT ![p] = [[u[p] EXCEPT !.tj = FALSE] EXCEPT !.booted = b]]
      BY <1>4 DEF CallDirect, TypeOK
    <3>2. [[u[p] EXCEPT !.tj = FALSE] EXCEPT !.booted = b] = w
      <4>1. u[p] \in Locals
        BY Parts
      <4> DEFINE y == [u[p] EXCEPT !.tj = FALSE]
      <4>2. y \in Locals /\ y.tries = u[p].tries /\ y.tj = FALSE /\ y.state = u[p].state /\ y.has = u[p].has
        BY <4>1 DEF Locals
      <4> HIDE DEF y
      <4>3. [y EXCEPT !.booted = b] = [tries |-> y.tries, tj |-> y.tj, state |-> y.state, booted |-> b, has |-> y.has]
        BY <4>2 DEF Locals
      <4>4. QED
        BY <4>2, <4>3 DEF y
    <3>3. QED
      BY <3>1, <3>2
  <2>5. Moves(p, l, t, w)
    <3> HIDE DEF w
    <3>1. CASE u[p].state = 0
      BY <1>4, <2>4, <3>1 DEF CallDirect, Moves, StartTake, Opening, Goto
    <3>2. CASE u[p].state = 2
      <4>1. loc' = [loc EXCEPT ![p] = "idle"] /\ take' = take /\ proc' = proc
        BY <1>4, <3>2 DEF CallDirect, Goto
      <4>2. QED
        BY <2>4, <3>2, <4>1, Parts DEF Moves
    <3>3. CASE u[p].state # 0 /\ u[p].state # 2
      <4>1. u[p].state = 1
        BY <2>2, <3>3
      <4>2. /\ loc' = [loc EXCEPT ![p] = IF u[p].booted = btl THEN "send" ELSE "boot"]
            /\ take' = take /\ proc' = proc
        BY <1>4, <4>1 DEF CallDirect, Goto
      <4>3. QED
        BY <2>4, <4>1, <4>2, Parts DEF Moves
    <3>4. QED
      BY <3>1, <3>2, <3>3
  <2>6. loc'[p] = l /\ take'[p] = t /\ u'[p] = w /\ proc' = proc
    BY <2>2, <2>3, <2>5, OneMoves DEF Moves
  <2>7. CASE u[p].state = 0
    <3>1. AtTake(p)'
      BY <2>1, <2>6, <2>7 DEF AtWork, AtTake, Opening, Taking, Live, Prog
    <3>2. QED
      BY <1>0, <2>2, <2>3, <2>5, <3>1, OneMovesTypes DEF Put
  <2>8. CASE u[p].state # 0
    <3>1. AtWork(p)'
      BY <2>1, <2>2, <2>6, <2>8 DEF AtWork, Live, Prog
    <3>2. QED
      BY <1>0, <2>2, <2>3, <2>5, <3>1, OneMovesTypes DEF Put
  <2>9. QED
    BY <2>7, <2>8
<1>5. CASE PortTaken(p)
  <2>1. PICK l \in Locs, w \in Locals :
           Moves(p, l, Idle, w) /\ ((l = "boot" /\ w = won) \/ (l = "idle" /\ w = off))
    <3>1. take[p].at = "won" => Moves(p, "boot", Idle, won)
      BY <1>5 DEF PortTaken, Goto, Moves
    <3>2. take[p].at # "won" => Moves(p, "idle", Idle, off)
      BY <1>5 DEF PortTaken, Goto, Moves, Off
    <3> HIDE DEF won, off
    <3>3. QED
      BY <1>1, <1>2, <3>1, <3>2
  <2>2. AtTake(p) /\ Prog(p) = "port"
    BY <1>5, Where DEF PortTaken
  <2>3. loc'[p] = l /\ take'[p] = Idle /\ u'[p] = w /\ proc' = proc
    BY <1>1, <1>2, <2>1, OneMoves DEF Moves
  <2>4. AtWork(p)'
    BY <1>1, <1>2, <2>1, <2>2, <2>3 DEF AtTake, AtWork, Live, Prog
  <2>5. QED
    BY <1>0, <1>1, <1>2, <2>1, <2>4, OneMovesTypes DEF Put
<1>6. CASE PortBoots(p) \/ PortCalls(p) \/ PortMarks(p)
  <2>1. PICK l \in Locs, w \in Locals :
          /\ Moves(p, l, take[p], w)
          /\ \/ loc[p] = "boot" /\ ((l = "mark" /\ w = u[p]) \/ (l = "idle" /\ w = off))
             \/ loc[p] = "mark" /\ l = "send" /\ w = on
             \/ loc[p] = "send" /\ l = "idle" /\ w \in {u[p], off}
    <3>1. CASE PortBoots(p)
      <4>1. Moves(p, "mark", take[p], u[p]) \/ Moves(p, "idle", take[p], off)
        BY <1>6, <3>1, Parts DEF PortBoots, Off, Goto, Moves
      <4> HIDE DEF off
      <4>2. QED
        BY <1>1, <1>2, <3>1, <4>1, Parts DEF PortBoots
    <3>2. CASE PortMarks(p)
      <4>1. Moves(p, "send", take[p], on)
        BY <1>6, <3>2, Parts DEF PortMarks, Goto, Moves
      <4>2. QED
        BY <1>1, <1>2, <3>2, <4>1, Parts DEF PortMarks
    <3>3. CASE PortCalls(p)
      <4>1. Moves(p, "idle", take[p], u[p]) \/ Moves(p, "idle", take[p], off)
        BY <1>6, <3>3, Parts DEF PortCalls, Off, Goto, Moves
      <4>2. QED
        BY <1>1, <1>2, <3>3, <4>1, Parts DEF PortCalls
    <3>4. QED
      BY <1>6, <3>1, <3>2, <3>3
  <2>2. AtWork(p) /\ Prog(p) = "port"
    BY <1>6, Where DEF PortBoots, PortCalls, PortMarks
  <2>3. loc'[p] = l /\ take'[p] = take[p] /\ u'[p] = w /\ proc' = proc
    BY <1>1, <1>2, <2>1, OneMoves, Parts DEF Moves
  <2>4. AtWork(p)'
    BY <1>1, <2>1, <2>2, <2>3 DEF AtWork, Live, Prog
  <2>5. QED
    BY <1>0, <1>1, <1>2, <2>1, <2>4, OneMovesTypes, Parts DEF Put
<1>7. CASE PortExits(p) /\ u[p].has
  <2> DEFINE t == [Idle EXCEPT !.at = "relread"]
  <2>1. Moves(p, "exit", t, u[p])
    BY <1>7, Parts DEF PortExits, StartRelease, Goto, Moves
  <2>2. AtWork(p) /\ Prog(p) = "port"
    BY <1>7, Where DEF PortExits
  <2>3. loc'[p] = "exit" /\ take'[p] = t /\ u'[p] = u[p] /\ proc' = proc
    BY <1>2, <2>1, OneMoves, Blank, Parts DEF Moves
  <2>4. AtExit(p)'
    BY <1>7, <2>2, <2>3, Blank DEF AtWork, AtExit, Live, Prog
  <2>5. QED
    BY <1>0, <1>2, <2>1, <2>4, OneMovesTypes, Blank, Parts DEF Put
<1>8. CASE (PortExits(p) /\ ~u[p].has) \/ PortGone(p)
  BY <1>0, <1>8, OneEnds, AllTypes DEF PortExits, PortGone
<1>9. QED
  BY <1>3, <1>4, <1>5, <1>6, <1>7, <1>8 DEF Port

LEMMA SshRest == ASSUME TypeOK, NEW p \in Pids, Ssh(p) PROVE RestTypes
<1>1. CASE SshCalls(p)
  BY <1>1, Parts DEF SshCalls, RestTypes, watchdog
<1>2. CASE SshClaimed(p)
  BY <1>2, Parts DEF SshClaimed, RestTypes, watchdog, bounds
<1>3. CASE SshProbes(p)
  BY <1>3, Parts DEF SshProbes, RestTypes, watchdog, bounds
<1>4. CASE SshBoots(p)
  BY <1>4, Parts DEF SshBoots, RestTypes, watchdog, bounds, Images
<1>5. CASE SshMarks(p)
  BY <1>5, Parts DEF SshMarks, RestTypes, watchdog, bounds, Images
<1>6. CASE SshReleases(p)
  BY <1>6, Parts DEF SshReleases, RestTypes, watchdog, bounds
<1>7. CASE SshReturns(p)
  BY <1>7, Parts DEF SshReturns, RestTypes, watchdog, bounds
<1>8. QED
  BY <1>1, <1>2, <1>3, <1>4, <1>5, <1>6, <1>7 DEF Ssh

LEMMA SshPlaces == ASSUME TypeOK, Places, NEW p \in Pids, Ssh(p) PROVE TypeOK' /\ Places'
<1> DEFINE off  == [u[p] EXCEPT !.state = 2]
           on   == [u[p] EXCEPT !.state = 1]
           won  == [u[p] EXCEPT !.has = TRUE]
           lost == [u[p] EXCEPT !.has = FALSE]
           rel  == [Idle EXCEPT !.at = "relread"]
<1>0. RestTypes
  BY SshRest
<1>1. /\ off \in Locals /\ off.has = u[p].has /\ on \in Locals /\ on.has = u[p].has
      /\ won \in Locals /\ won.has = TRUE /\ lost \in Locals /\ lost.has = FALSE
  <2>0. u[p] \in Locals
    BY Parts
  <2>1. off \in Locals /\ off.has = u[p].has /\ on \in Locals /\ on.has = u[p].has
    BY <2>0 DEF Locals
  <2>2. won \in Locals /\ won.has = TRUE /\ lost \in Locals /\ lost.has = FALSE
    BY <2>0 DEF Locals
  <2>3. QED
    BY <2>1, <2>2
<1>2. /\ {"idle", "take", "probe", "boot", "mark", "done", "exit"} \subseteq Locs
      /\ Idle \in Takes /\ Idle.at = "idle" /\ rel \in Takes /\ rel.at = "relread"
      /\ Opening \in Takes /\ Opening.at = "open" /\ Opening.tries = 0
  BY Blank DEF Locs, Opening
<1>3. u[p] \in Locals /\ take[p] \in Takes
  BY Parts
<1>4. Prog(p) = "dropbear"
  BY DEF Ssh, SshCalls, SshClaimed, SshProbes, SshBoots, SshMarks, SshReleases, SshReturns
<1>5. CASE SshCalls(p)
  <2>1. AtWork(p) /\ loc[p] = "idle"
    BY <1>5, Where DEF SshCalls
  <2>2. Moves(p, "take", Opening, u[p])
    BY <1>5, Parts DEF SshCalls, Moves, Goto, StartTake, Opening
  <2>3. loc'[p] = "take" /\ take'[p] = Opening /\ u'[p] = u[p] /\ proc' = proc
    BY <1>2, <1>3, <2>2, OneMoves DEF Moves
  <2>4. AtTake(p)'
    BY <1>2, <1>4, <2>1, <2>3 DEF AtWork, AtTake, Taking, Live, Prog
  <2>5. QED
    BY <1>0, <1>2, <1>3, <2>2, <2>4, OneMovesTypes DEF Put
<1>6. CASE SshClaimed(p)
  <2>1. AtTake(p)
    BY <1>6, Where DEF SshClaimed
  <2>2. PICK l \in Locs, w \in Locals :
          /\ Moves(p, l, Idle, w)
          /\ (l \in {"probe", "boot"} /\ w = won) \/ (l = "idle" /\ w = u[p])
    <3>1. take[p].at = "won" => Moves(p, IF marker \in {"none", "xserv"} THEN "probe" ELSE "boot", Idle, won)
      BY <1>6 DEF SshClaimed, Moves, Goto
    <3>2. take[p].at # "won" => Moves(p, "idle", Idle, u[p])
      BY <1>6, Parts DEF SshClaimed, Moves, Goto
    <3> HIDE DEF won
    <3>3. QED
      BY <1>1, <1>2, <1>3, <3>1, <3>2
  <2>3. loc'[p] = l /\ take'[p] = Idle /\ u'[p] = w /\ proc' = proc
    BY <1>2, <2>2, OneMoves DEF Moves
  <2>4. AtWork(p)'
    BY <1>1, <1>2, <1>4, <2>1, <2>2, <2>3 DEF AtWork, AtTake, Live, Prog
  <2>5. QED
    BY <1>0, <1>2, <2>2, <2>4, OneMovesTypes DEF Put
<1>7. CASE SshProbes(p) \/ SshBoots(p) \/ SshMarks(p)
  <2>1. AtWork(p) /\ u[p].has
    BY <1>4, <1>7, Where DEF SshProbes, SshBoots, SshMarks, AtWork
  <2>2. PICK l \in Locs, w \in Locals :
          Moves(p, l, take[p], w) /\ l \in {"boot", "mark", "done"} /\ w \in {u[p], on, off}
    <3>1. CASE SshProbes(p)
      <4>1. Moves(p, "done", take[p], on) \/ Moves(p, "boot", take[p], u[p])
        BY <3>1, Parts DEF SshProbes, Moves, Goto
      <4> HIDE DEF on
      <4>2. QED
        BY <1>1, <1>2, <1>3, <4>1
    <3>2. CASE SshBoots(p)
      <4>1. Moves(p, "mark", take[p], on) \/ Moves(p, "done", take[p], off)
        BY <3>2, Parts DEF SshBoots, Moves, Goto, Off
      <4> HIDE DEF on, off
      <4>2. QED
        BY <1>1, <1>2, <1>3, <4>1
    <3>3. CASE SshMarks(p)
      <4>1. Moves(p, "done", take[p], u[p])
        BY <3>3, Parts DEF SshMarks, Moves, Goto
      <4>2. QED
        BY <1>2, <1>3, <4>1
    <3>4. QED
      BY <1>7, <3>1, <3>2, <3>3
  <2>3. loc'[p] = l /\ take'[p] = take[p] /\ u'[p] = w /\ proc' = proc
    BY <1>3, <2>2, OneMoves DEF Moves
  <2>4. AtWork(p)'
    BY <1>1, <1>4, <2>1, <2>2, <2>3 DEF AtWork, Live, Prog
  <2>5. QED
    BY <1>0, <1>3, <2>2, <2>4, OneMovesTypes DEF Put
<1>8. CASE SshReleases(p)
  <2>1. AtWork(p) /\ u[p].has
    BY <1>4, <1>8, Where DEF SshReleases, AtWork
  <2>2. Moves(p, "exit", rel, u[p])
    BY <1>8, Parts DEF SshReleases, Moves, Goto, StartRelease
  <2>3. loc'[p] = "exit" /\ take'[p] = rel /\ u'[p] = u[p] /\ proc' = proc
    BY <1>2, <1>3, <2>2, OneMoves DEF Moves
  <2>4. AtExit(p)'
    BY <1>2, <1>4, <2>1, <2>3 DEF AtWork, AtExit, Live, Prog
  <2>5. QED
    BY <1>0, <1>2, <1>3, <2>2, <2>4, OneMovesTypes DEF Put
<1>9. CASE SshReturns(p)
  <2>1. AtExit(p)
    BY <1>9, Where DEF SshReturns
  <2>2. Moves(p, "idle", Idle, lost)
    BY <1>9 DEF SshReturns, Moves, Goto
  <2>3. loc'[p] = "idle" /\ take'[p] = Idle /\ u'[p] = lost /\ proc' = proc
    BY <1>1, <1>2, <2>2, OneMoves DEF Moves
  <2>4. AtWork(p)'
    BY <1>1, <1>2, <1>4, <2>1, <2>3 DEF AtWork, AtExit, Live, Prog
  <2>5. QED
    BY <1>0, <1>1, <1>2, <2>2, <2>4, OneMovesTypes DEF Put
<1>10. QED
  BY <1>5, <1>6, <1>7, <1>8, <1>9 DEF Ssh

\* One system call of a take or a release.
LEMMA LockPlaces == ASSUME TypeOK, Places, NEW p \in Pids, LockStep(p) PROVE TypeOK' /\ Places'
<1>1. TypeOK'
  BY TypeLock
<1>2. UNCHANGED <<loc, u, proc>>
  BY DEF LockStep, users, TakeStep, ReleaseStep, Open, Write, Read, Judge, Unlink, ReleaseRead, ReleaseUnlink
<1>3. PICK t : take' = [take EXCEPT ![p] = t]
  BY DEF LockStep, TakeStep, ReleaseStep, Open, Write, Read, Judge, Unlink, ReleaseRead, ReleaseUnlink, At
<1>4. t = take'[p] /\ \A q \in Pids \ {p} : take'[q] = take[q]
  BY <1>3 DEF TypeOK, LockTypeOK
<1>5. \A q \in Pids \ {p} : Put(q)'
  BY <1>2, <1>4 DEF Places, Put, Away, AtTake, AtWork, AtExit, Live, Prog
<1>6. CASE TakeStep(p)
  <2>1. AtTake(p) /\ take[p].at \in Taking
    BY <1>6, Where DEF TakeStep, Open, Write, Read, Judge, Unlink, Taking
  <2>2. take[p] \in Takes /\ LockTypeOK
    BY DEF TypeOK, LockTypeOK
  <2>3. take'[p].at \in Taking \cup {"won", "busy", "fail"} /\ (take'[p].at \in Taking => take'[p].tries \in {0, 1})
    <3>1. CASE Open(p) \/ Write(p)
      <4>1. PICK a \in {"write", "read", "won"} : take' = At(p, a)
        BY <3>1 DEF Open, Write
      <4>2. a \in Steps
        BY DEF Steps
      <4>3. take'[p].at = a /\ take'[p].tries = take[p].tries
        BY <2>2, <4>1, <4>2, AtFact
      <4>4. QED
        BY <2>1, <4>1, <4>3 DEF AtTake, Taking
    <3>2. CASE Read(p)
      BY <2>1, <2>2, <3>2 DEF Read, AtTake, Taking, Takes, LockTypeOK
    <3>3. CASE Judge(p)
      BY <2>1, <2>2, <3>3 DEF Judge, AtTake, Taking, Takes, LockTypeOK
    <3>4. CASE Unlink(p)
      BY <2>1, <2>2, <3>4 DEF Unlink, AtTake, Taking, Takes, LockTypeOK
    <3>5. QED
      BY <1>6, <3>1, <3>2, <3>3, <3>4 DEF TakeStep
  <2>4. AtTake(p)'
    BY <1>2, <2>1, <2>3 DEF AtTake, Live, Prog
  <2>5. QED
    BY <1>1, <1>5, <2>4 DEF Places, Put
<1>7. CASE ReleaseStep(p)
  <2>1. AtExit(p)
    BY <1>7, Where DEF ReleaseStep, ReleaseRead, ReleaseUnlink
  <2>2. take'[p].at \in {"relunlink", "released"}
    <3>1. PICK a \in {"relunlink", "released"} : take' = At(p, a)
      BY <1>7 DEF ReleaseStep, ReleaseRead, ReleaseUnlink
    <3>2. a \in Steps /\ LockTypeOK
      BY DEF Steps, TypeOK
    <3>3. QED
      BY <3>1, <3>2, AtFact
  <2>3. AtExit(p)'
    BY <1>2, <2>1, <2>2 DEF AtExit, Live, Prog
  <2>4. QED
    BY <1>1, <1>5, <2>3 DEF Places, Put
<1>8. QED
  BY <1>6, <1>7 DEF LockStep

LEMMA StartPlaces ==
  ASSUME TypeOK, Places, NEW p \in Pids, NEW prog \in {"port", "dropbear", "other"}, Start(p, prog)
  PROVE  TypeOK' /\ Places'
<1>1. prog \in Programs /\ "idle" \in Locs /\ Idle \in Takes /\ Idle.at = "idle" /\ ~Fresh.has /\ Fresh.state = 0
  BY Blank DEF Programs, Locs
<1>2. Begin(p, prog) /\ Goto(p, "idle") /\ take' = [take EXCEPT ![p] = Idle]
  BY DEF Start
<1>3. /\ proc' \in [Pids -> Procs] /\ take' \in [Pids -> Takes]
      /\ loc' \in [Pids -> Locs] /\ u' \in [Pids -> Locals]
      /\ Live(p)' /\ Prog(p)' = prog /\ loc'[p] = "idle" /\ take'[p] = Idle /\ u'[p] = Fresh
      /\ Put(p)' => Places'
  BY <1>1, <1>2, OneBegins
<1>4. AtWork(p)'
  BY <1>1, <1>3 DEF AtWork
<1>5. RestTypes
  BY Parts DEF Start, RestTypes, Begin, watchdog
<1>6. QED
  BY <1>3, <1>4, <1>5, AllTypes DEF Put

LEMMA KillPlaces ==
  ASSUME TypeOK, Places, NEW p \in Pids, NEW st \in {"none", "zombie"}, Kill(p, st)
  PROVE  TypeOK' /\ Places'
<1>1. Ends(p, st)
  BY DEF Kill
<1>2. /\ proc' \in [Pids -> Procs] /\ take' \in [Pids -> Takes]
      /\ loc' \in [Pids -> Locs] /\ u' \in [Pids -> Locals] /\ hung' \in Pids \cup {0}
      /\ Places'
  BY <1>1, OneEnds
<1>3. RestTypes
  BY <1>2, Parts DEF Kill, RestTypes
<1>4. QED
  BY <1>2, <1>3, AllTypes

LEMMA RebootPlaces ==
  ASSUME TypeOK, Places, NEW d \in Pids, NEW others \in SUBSET Pids, Reboot(d, others)
  PROVE  TypeOK' /\ Places'
<1>1. [prog |-> "ttjobd", st |-> "live"] \in Procs /\ [prog |-> "other", st |-> "live"] \in Procs /\ Absent \in Procs
  BY Blank DEF Programs
<1>2. proc' \in [Pids -> Procs]
  BY <1>1 DEF Reboot
<1>3. take' \in [Pids -> Takes] /\ loc' \in [Pids -> Locs] /\ u' \in [Pids -> Locals]
  BY Blank DEF Reboot, Locs
<1>4. lock' = lock /\ lock \in Files /\ board' \in Images /\ marker' \in Images /\ due' \in 0..2 /\ hung' = 0
  BY DEF Reboot, TypeOK, LockTypeOK, Images
<1>5. /\ starts' \in 0..MaxStarts /\ calls' \in 0..MaxCalls /\ trouble' \in 0..MaxTrouble /\ heirs' \subseteq Pids
  BY Parts DEF Reboot
<1>6. /\ watch' \in [at : {"sleep", "kill", "rm", "restart"}, p : Pids \cup {0}, last : [p : Pids \cup {0}, frozen : BOOLEAN]]
      /\ watch'.at = "sleep"
  BY DEF Reboot, NoLast
<1>7. TypeOK'
  BY <1>2, <1>3, <1>4, <1>5, <1>6 DEF TypeOK, LockTypeOK
<1>8. ASSUME NEW p \in Pids PROVE Put(p)'
  <2>1. CASE p = d
    <3>1. AtTake(p)'
      BY <2>1, Blank DEF Reboot, AtTake, Taking, Live, Prog
    <3>2. QED
      BY <3>1 DEF Put
  <2>2. CASE p # d /\ p \in others
    <3>1. AtWork(p)'
      BY <2>2, Blank DEF Reboot, AtWork, Live, Prog
    <3>2. QED
      BY <3>1 DEF Put
  <2>3. CASE p # d /\ p \notin others
    <3>1. Away(p)'
      BY <2>3 DEF Reboot, Away, Live, Absent
    <3>2. QED
      BY <3>1 DEF Put
  <2>4. QED
    BY <2>1, <2>2, <2>3
<1>9. QED
  BY <1>7, <1>8 DEF Places, Put

LEMMA WatchPlaces == ASSUME TypeOK, Places, Watch PROVE TypeOK' /\ Places'
<1> DEFINE Watches == [at : {"sleep", "kill", "rm", "restart"}, p : Pids \cup {0}, last : [p : Pids \cup {0}, frozen : BOOLEAN]]
<1>1. watch \in Watches /\ (watch.at = "kill" => watch.p \in Pids) /\ lock \in Files /\ NoFile \in Files /\ lock.pid \in Pids \cup {0}
  BY Blank DEF TypeOK, LockTypeOK, Files
<1>2. ASSUME NEW same \in BOOLEAN, WatchTick(same) PROVE TypeOK' /\ Places'
  <2>1. watch' \in Watches /\ (watch'.at = "kill" => watch'.p # 0)
    <3>1. CASE ~Named
      BY <1>1, <1>2, <3>1 DEF WatchTick, NoLast
    <3>2. CASE Named /\ Stuck(same)
      BY <1>1, <1>2, <3>2 DEF WatchTick, NoLast, Named
    <3>3. CASE Named /\ ~Stuck(same)
      <4>1. Seen \in [p : Pids \cup {0}, frozen : BOOLEAN]
        BY <1>1 DEF Seen, Frozen
      <4>2. QED
        BY <1>1, <1>2, <3>3, <4>1 DEF WatchTick
    <3>4. QED
      BY <3>1, <3>2, <3>3
  <2>2. Places'
    BY <1>2, PlacesStay DEF WatchTick, users
  <2>3. QED
    BY <1>2, <2>1, <2>2 DEF WatchTick, TypeOK, LockTypeOK, users, bounds
<1>3. ASSUME NEW st \in {"none", "zombie"}, WatchKill(st) PROVE TypeOK' /\ Places'
  <2>1. watch' \in Watches /\ watch'.at # "kill"
    BY <1>1, <1>3 DEF WatchKill
  <2>2. /\ proc' \in [Pids -> Procs] /\ take' \in [Pids -> Takes]
        /\ loc' \in [Pids -> Locs] /\ u' \in [Pids -> Locals] /\ hung' \in Pids \cup {0}
        /\ Places'
    <3>1. CASE Live(watch.p)
      BY <1>1, <1>3, <3>1, OneEnds DEF WatchKill
    <3>2. CASE ~Live(watch.p)
      BY <1>3, <3>2, PlacesStay DEF WatchKill, TypeOK, LockTypeOK
    <3>3. QED
      BY <3>1, <3>2
  <2>3. QED
    BY <1>3, <2>1, <2>2 DEF WatchKill, TypeOK, LockTypeOK, bounds
<1>4. CASE WatchRemove
  <2>1. watch' \in Watches /\ watch'.at # "kill"
    BY <1>1, <1>4 DEF WatchRemove
  <2>2. Places'
    BY <1>4, PlacesStay DEF WatchRemove, users
  <2>3. QED
    BY <1>1, <1>4, <2>1, <2>2 DEF WatchRemove, TypeOK, LockTypeOK, users, bounds
<1>5. ASSUME NEW p \in Pids, WatchRestart(p) PROVE TypeOK' /\ Places'
  <2>1. watch' \in Watches /\ watch'.at # "kill"
    BY <1>5 DEF WatchRestart, NoLast
  <2>2. heirs' \subseteq Pids
    BY <1>5 DEF WatchRestart, RcTtjobd, Begin, TypeOK
  <2>3. QED
    BY <1>5, <2>1, <2>2, RcPlaces DEF WatchRestart, TypeOK, LockTypeOK
<1>6. QED
  BY <1>2, <1>3, <1>4, <1>5 DEF Watch

LEMMA PlacesInit == Init => Places
<1> SUFFICES ASSUME Init, NEW p \in Pids PROVE Put(p)
  BY DEF Places, Put
<1>1. PICK d \in Pids :
        /\ proc = [q \in Pids |-> IF q = d THEN [prog |-> "ttjobd", st |-> "live"] ELSE Absent]
        /\ loc = [q \in Pids |-> IF q = d THEN "take" ELSE "gone"]
        /\ take = [q \in Pids |-> IF q = d THEN [Idle EXCEPT !.at = "open"] ELSE Idle]
  BY DEF Init
<1>2. u[p] = Fresh
  BY DEF Init
<1>3. CASE p = d
  BY <1>1, <1>2, <1>3, Blank DEF Put, AtTake, Taking, Live, Prog
<1>4. CASE p # d
  BY <1>1, <1>2, <1>4 DEF Put, Away, Live, Absent
<1>5. QED
  BY <1>3, <1>4

LEMMA PlacesNext == ASSUME TypeOK, Places, [Next]_vars PROVE TypeOK' /\ Places'
<1>1. CASE UNCHANGED vars
  BY <1>1, PlacesStay DEF vars, TypeOK, LockTypeOK
<1>2. CASE DeadlinePast
  BY <1>2, PlacesStay DEF DeadlinePast, TypeOK, LockTypeOK, bounds
<1>3. CASE Watch
  BY <1>3, WatchPlaces
<1>4. ASSUME NEW p \in Pids, LockStep(p) \/ Daemon(p) \/ Port(p) \/ Ssh(p) PROVE TypeOK' /\ Places'
  BY <1>4, LockPlaces, DaemonPlaces, PortPlaces, SshPlaces
<1>5. ASSUME NEW p \in Pids, NEW prog \in {"port", "dropbear", "other"}, Start(p, prog) PROVE TypeOK' /\ Places'
  BY <1>5, StartPlaces
<1>6. ASSUME NEW p \in Pids, NEW st \in {"none", "zombie"}, Kill(p, st) PROVE TypeOK' /\ Places'
  BY <1>6, KillPlaces
<1>7. ASSUME NEW d \in Pids, NEW others \in SUBSET Pids, Reboot(d, others) PROVE TypeOK' /\ Places'
  BY <1>7, RebootPlaces
<1>8. QED
  BY <1>1, <1>2, <1>3, <1>4, <1>5, <1>6, <1>7 DEF Next

-----------------------------------------------------------------------------
(***************************************************************************)
(* Who has the lock.  Most steps are calm: nobody gets it and nobody       *)
(* starts to take it.                                                      *)
(***************************************************************************)
KeepsHolds == \A q \in Pids : Holds(q)' => Holds(q) /\ Owned(q)' = Owned(q)

Calm == /\ lock' = lock /\ watch' = watch /\ KeepsHolds
        /\ \A q \in Pids : take'[q].at \in Taking => take'[q] = take[q]

\* One process calls t4lock_take.
Enters == /\ lock' = lock /\ watch'.at = "sleep" /\ KeepsHolds
          /\ \E p \in Pids : \A q \in Pids : take'[q].at \in Taking => q = p /\ take'[q].at = "open"

LockOK == OneTaker /\ HoldersOK /\ TakeOK /\ WatchOK

LEMMA CalmKeeps == TypeOK /\ LockOK /\ Calm => LockOK'
<1> SUFFICES ASSUME TypeOK, LockOK, Calm PROVE LockOK'
  OBVIOUS
<1> USE DEF LockOK, Calm, KeepsHolds
<1>1. OneTaker'
  BY DEF OneTaker
<1>2. HoldersOK'
  BY DEF HoldersOK
<1>3. TakeOK'
  <2> SUFFICES ASSUME NEW p \in Pids, take'[p].at \in Taking
               PROVE /\ take'[p].at = "write" => lock' = [by |-> p, pid |-> 0, prog |-> ""]
                     /\ take'[p].at = "judge" => /\ lock' \in {take'[p].seen, NoFile}
                                                 /\ \A q \in Pids : Holds(q)' => take'[p].seen = Owned(q)'
                     /\ take'[p].at = "unlink" => \A q \in Pids : ~Holds(q)'
    BY DEF TakeOK, Taking
  <2>1. take'[p] = take[p]
    OBVIOUS
  <2>2. QED
    BY <2>1 DEF TakeOK
<1>4. WatchOK'
  BY DEF WatchOK
<1>5. QED
  BY <1>1, <1>2, <1>3, <1>4

LEMMA EntersKeeps == TypeOK /\ LockOK /\ Enters => LockOK'
<1> SUFFICES ASSUME TypeOK, LockOK, Enters PROVE LockOK'
  OBVIOUS
<1> USE DEF LockOK, Enters, KeepsHolds
<1>1. OneTaker'
  BY DEF OneTaker
<1>2. HoldersOK'
  BY DEF HoldersOK
<1>3. TakeOK'
  BY DEF TakeOK, Taking
<1>4. WatchOK'
  BY DEF WatchOK
<1>5. QED
  BY <1>1, <1>2, <1>3, <1>4

\* Only one process moved: what must be said of it.
LEMMA CalmOne ==
  ASSUME NEW p \in Pids, UNCHANGED <<lock, proc, watch>>,
         \A q \in Pids \ {p} : take'[q] = take[q] /\ u'[q] = u[q],
         take'[p].at \in Taking => take'[p] = take[p],
         Holds(p)' => Holds(p)
  PROVE  Calm
<1>1. \A q \in Pids \ {p} : Holds(q)' => Holds(q)
  BY DEF Holds, Live
<1>2. QED
  BY <1>1 DEF Calm, KeepsHolds, Owned

\* What the end of a process leaves alone.
LEMMA EndsFact ==
  ASSUME TypeOK, NEW p \in Pids, NEW st \in {"none", "zombie"}, Ends(p, st)
  PROVE  /\ \A q \in Pids \ {p} : take'[q] = take[q] /\ u'[q] = u[q] /\ proc'[q] = proc[q] /\ loc'[q] = loc[q]
         /\ take'[p] = Idle /\ ~Live(p)' /\ loc'[p] = "gone"
<1>1. /\ take \in [Pids -> Takes] /\ u \in [Pids -> Locals] /\ proc \in [Pids -> Procs] /\ loc \in [Pids -> Locs]
  BY DEF TypeOK, LockTypeOK
<1>2. [proc[p] EXCEPT !.st = st].st = st /\ Absent.st = "none"
  BY <1>1 DEF Procs, Absent
<1>3. proc'[p].st = st
  BY <1>1, <1>2 DEF Ends
<1>4. QED
  BY <1>1, <1>3 DEF Ends, Live, Goto

LEMMA CalmEnds ==
  ASSUME TypeOK, NEW p \in Pids, NEW st \in {"none", "zombie"}, Ends(p, st), lock' = lock
  PROVE  /\ KeepsHolds /\ ~Holds(p)'
         /\ \A q \in Pids : take'[q].at \in Taking => take'[q] = take[q]
<1>1. ~Holds(p)'
  BY EndsFact DEF Holds
<1>2. \A q \in Pids \ {p} : Holds(q)' => Holds(q) /\ Owned(q)' = Owned(q)
  BY EndsFact DEF Holds, Live, Owned
<1>3. QED
  BY <1>1, <1>2, EndsFact, Blank DEF KeepsHolds, Taking

\* A call of t4lock_take, made while nobody is in one.
LEMMA EntersOne ==
  ASSUME TypeOK, NEW p \in Pids, lock' = lock, watch'.at = "sleep", Holds(p)' => Holds(p) /\ Owned(p)' = Owned(p),
         \A q \in Pids \ {p} : take'[q] = take[q] /\ u'[q] = u[q] /\ proc'[q] = proc[q],
         take'[p].at = "open", \A q \in Pids : take[q].at \notin Taking
  PROVE  Enters
<1>1. \A q \in Pids \ {p} : Holds(q)' => Holds(q) /\ Owned(q)' = Owned(q)
  BY DEF Holds, Live, Owned
<1>2. QED
  BY <1>1 DEF Enters, KeepsHolds

LEMMA QuietFact ==
  ASSUME "overlap" \notin Faults, Quiet
  PROVE  watch.at = "sleep" /\ \A q \in Pids : take[q].at \notin Taking
BY DEF Quiet, InTake, Taking

LEMMA RcLock ==
  ASSUME TypeOK, NEW p \in Pids, RcTtjobd(p), lock' = lock, watch'.at = "sleep",
         \A q \in Pids : take[q].at \notin Taking
  PROVE  Enters
<1>1. /\ take \in [Pids -> Takes] /\ u \in [Pids -> Locals] /\ proc \in [Pids -> Procs]
  BY DEF TypeOK, LockTypeOK
<1>2. \A q \in Pids \ {p} : take'[q] = take[q] /\ u'[q] = u[q] /\ proc'[q] = proc[q]
  BY <1>1 DEF RcTtjobd, Begin, StartTake
<1>3. take'[p].at = "open" /\ u'[p] = Fresh
  BY <1>1 DEF RcTtjobd, Begin, StartTake
<1>4. ~Holds(p)'
  BY <1>3, Blank DEF Holds
<1>5. QED
  BY <1>2, <1>3, <1>4, EntersOne

LEMMA DaemonLock ==
  ASSUME "overlap" \notin Faults, TypeOK, Places, LockOK, NEW p \in Pids, Daemon(p)
  PROVE  LockOK'
<1>1. /\ take \in [Pids -> Takes] /\ u \in [Pids -> Locals] /\ proc \in [Pids -> Procs]
  BY DEF TypeOK, LockTypeOK
<1>2. CASE StartDaemon(p)
  BY <1>2, QuietFact, RcLock, EntersKeeps DEF StartDaemon, watchdog
<1>3. CASE DaemonRetries(p)
  <2>1. ~u[p].has
    BY <1>3, Where DEF DaemonRetries, AtTake
  <2>2. \A q \in Pids \ {p} : take'[q] = take[q] /\ u'[q] = u[q] /\ proc'[q] = proc[q]
    BY <1>1, <1>3 DEF DaemonRetries, StartTake
  <2>3. take'[p].at = "open" /\ u'[p].has = u[p].has
    BY <1>1, <1>3 DEF DaemonRetries, StartTake, Locals
  <2>4. ~Holds(p)'
    BY <2>1, <2>3 DEF Holds
  <2>5. Enters
    BY <1>3, <2>2, <2>3, <2>4, QuietFact, EntersOne DEF DaemonRetries, watchdog
  <2>6. QED
    BY <2>5, EntersKeeps
<1>4. CASE DaemonGivesUp(p)
  BY <1>4, CalmEnds, CalmKeeps DEF DaemonGivesUp, Calm
<1>5. CASE DaemonBoots(p)
  <2>1. Holds(p)
    BY <1>5, Where DEF DaemonBoots, Holds, AtTake
  <2>2. \A q \in Pids \ {p} : take'[q] = take[q] /\ u'[q] = u[q]
    BY <1>1, <1>5 DEF DaemonBoots
  <2>3. take'[p].at \notin Taking
    BY <1>1, <1>5, Blank DEF DaemonBoots, Taking
  <2>4. Calm
    BY <1>5, <2>1, <2>2, <2>3, CalmOne DEF DaemonBoots
  <2>5. QED
    BY <2>4, CalmKeeps
<1>6. CASE DaemonSends(p) \/ DaemonTraps(p) \/ DaemonIdle(p)
  <2>1. Calm
    BY <1>6 DEF DaemonSends, DaemonTraps, DaemonIdle, Calm, KeepsHolds, Holds, Owned, Live
  <2>2. QED
    BY <2>1, CalmKeeps
<1>7. QED
  BY <1>2, <1>3, <1>4, <1>5, <1>6 DEF Daemon

LEMMA PortLock ==
  ASSUME "overlap" \notin Faults, TypeOK, Places, LockOK, NEW p \in Pids, Port(p)
  PROVE  LockOK'
<1>1. /\ take \in [Pids -> Takes] /\ u \in [Pids -> Locals] /\ proc \in [Pids -> Procs]
      /\ u[p] \in Locals
  BY DEF TypeOK, LockTypeOK
<1>2. CASE CallDaemon(p) \/ PortBoots(p) \/ PortMarks(p) \/ PortCalls(p)
  <2>1. take' = take /\ UNCHANGED <<lock, proc, watch>>
    BY <1>2 DEF CallDaemon, PortBoots, PortMarks, PortCalls, watchdog
  <2>2. \A q \in Pids \ {p} : u'[q] = u[q]
    BY <1>1, <1>2 DEF CallDaemon, PortBoots, PortMarks, PortCalls, Off
  <2>3. u'[p].has = u[p].has
    BY <1>1, <1>2 DEF CallDaemon, PortBoots, PortMarks, PortCalls, Off, Locals
  <2>4. Holds(p)' => Holds(p)
    BY <2>1, <2>3 DEF Holds, Live
  <2>5. QED
    BY <2>1, <2>2, <2>4, CalmOne, CalmKeeps
<1>3. ASSUME NEW btl \in Servers, CallDirect(p, btl) PROVE LockOK'
  <2>1. AtWork(p) /\ Prog(p) = "port" /\ loc[p] = "idle"
    BY <1>3, Where DEF CallDirect
  <2>2. UNCHANGED <<lock, proc, watch>> /\ watch.at = "sleep" /\ \A q \in Pids : take[q].at \notin Taking
    BY <1>3, QuietFact DEF CallDirect, watchdog
  <2>3. u'[p].has = u[p].has /\ \A q \in Pids \ {p} : u'[q] = u[q]
    BY <1>1, <1>3 DEF CallDirect, Locals
  <2>4. CASE u[p].state = 0
    <3>1. take' = [take EXCEPT ![p] = Opening]
      BY <1>3, <2>4 DEF CallDirect, StartTake, Opening
    <3>2. take'[p].at = "open" /\ \A q \in Pids \ {p} : take'[q] = take[q]
      BY <1>1, <3>1 DEF Opening
    <3>3. ~Holds(p)'
      BY <2>1, <2>3, <2>4, <3>2 DEF AtWork, Holds
    <3>4. Enters
      BY <2>2, <2>3, <3>2, <3>3, EntersOne
    <3>5. QED
      BY <3>4, EntersKeeps
  <2>5. CASE u[p].state # 0
    <3>1. take' = take
      BY <1>3, <2>5 DEF CallDirect
    <3>2. Holds(p)' => Holds(p)
      BY <2>2, <2>3, <3>1 DEF Holds, Live
    <3>3. QED
      BY <2>2, <2>3, <3>1, <3>2, CalmOne, CalmKeeps
  <2>6. QED
    BY <2>4, <2>5
<1>4. CASE PortTaken(p)
  <2>1. AtTake(p)
    BY <1>4, Where DEF PortTaken
  <2>2. take'[p].at = "idle" /\ \A q \in Pids \ {p} : take'[q] = take[q] /\ u'[q] = u[q]
    BY <1>1, <1>4, Blank DEF PortTaken, Off
  <2>3. take[p].at # "won" => u'[p].has = u[p].has
    BY <1>1, <1>4 DEF PortTaken, Off, Locals
  <2>4. Holds(p)' => Holds(p)
    BY <2>1, <2>2, <2>3 DEF Holds, AtTake
  <2>5. Calm
    BY <1>4, <2>2, <2>4, CalmOne DEF PortTaken, watchdog, Taking
  <2>6. QED
    BY <2>5, CalmKeeps
<1>5. CASE PortExits(p) /\ u[p].has
  <2>1. AtWork(p)
    BY <1>5, Where DEF PortExits
  <2>2. take'[p].at = "relread" /\ \A q \in Pids \ {p} : take'[q] = take[q] /\ u'[q] = u[q]
    BY <1>1, <1>5, Blank DEF PortExits, StartRelease
  <2>3. Holds(p)
    BY <1>5, <2>1 DEF Holds, AtWork
  <2>4. Calm
    BY <1>5, <2>2, <2>3, CalmOne DEF PortExits, Taking
  <2>5. QED
    BY <2>4, CalmKeeps
<1>6. CASE (PortExits(p) /\ ~u[p].has) \/ PortGone(p)
  BY <1>6, CalmEnds, CalmKeeps DEF PortExits, PortGone, Calm
<1>7. QED
  BY <1>2, <1>3, <1>4, <1>5, <1>6 DEF Port

LEMMA SshLock ==
  ASSUME "overlap" \notin Faults, TypeOK, Places, LockOK, NEW p \in Pids, Ssh(p)
  PROVE  LockOK'
<1>1. /\ take \in [Pids -> Takes] /\ u \in [Pids -> Locals] /\ proc \in [Pids -> Procs]
      /\ u[p] \in Locals /\ Prog(p) = "dropbear"
  BY DEF TypeOK, LockTypeOK, Ssh, SshCalls, SshClaimed, SshProbes, SshBoots, SshMarks, SshReleases, SshReturns
<1>2. CASE SshProbes(p) \/ SshBoots(p) \/ SshMarks(p)
  <2>1. take' = take /\ UNCHANGED <<lock, proc, watch>>
    BY <1>2 DEF SshProbes, SshBoots, SshMarks, watchdog
  <2>2. \A q \in Pids \ {p} : u'[q] = u[q]
    BY <1>1, <1>2 DEF SshProbes, SshBoots, SshMarks, Off
  <2>3. u'[p].has = u[p].has
    BY <1>1, <1>2 DEF SshProbes, SshBoots, SshMarks, Off, Locals
  <2>4. Holds(p)' => Holds(p)
    BY <2>1, <2>3 DEF Holds, Live
  <2>5. QED
    BY <2>1, <2>2, <2>4, CalmOne, CalmKeeps
<1>3. CASE SshCalls(p)
  <2>1. AtWork(p) /\ loc[p] = "idle"
    BY <1>3, Where DEF SshCalls
  <2>2. UNCHANGED <<lock, proc, u, watch>> /\ watch.at = "sleep" /\ \A q \in Pids : take[q].at \notin Taking
    BY <1>3, QuietFact DEF SshCalls, watchdog
  <2>3. take'[p].at = "open" /\ \A q \in Pids \ {p} : take'[q] = take[q]
    BY <1>1, <1>3 DEF SshCalls, StartTake
  <2>4. ~Holds(p)'
    BY <1>1, <2>1, <2>2, <2>3 DEF AtWork, Holds
  <2>5. Enters
    BY <2>2, <2>3, <2>4, EntersOne
  <2>6. QED
    BY <2>5, EntersKeeps
<1>4. CASE SshClaimed(p)
  <2>1. AtTake(p)
    BY <1>4, Where DEF SshClaimed
  <2>2. take'[p].at = "idle" /\ \A q \in Pids \ {p} : take'[q] = take[q] /\ u'[q] = u[q]
    BY <1>1, <1>4, Blank DEF SshClaimed
  <2>3. take[p].at # "won" => u' = u
    BY <1>4 DEF SshClaimed
  <2>4. Holds(p)' => Holds(p)
    BY <2>1, <2>2, <2>3 DEF Holds, AtTake
  <2>5. Calm
    BY <1>4, <2>2, <2>4, CalmOne DEF SshClaimed, watchdog, Taking
  <2>6. QED
    BY <2>5, CalmKeeps
<1>5. CASE SshReleases(p)
  <2>1. AtWork(p)
    BY <1>5, Where DEF SshReleases
  <2>2. take'[p].at = "relread" /\ \A q \in Pids \ {p} : take'[q] = take[q] /\ u'[q] = u[q]
    BY <1>1, <1>5, Blank DEF SshReleases, StartRelease
  <2>3. Holds(p)
    BY <1>1, <1>5, <2>1 DEF SshReleases, Holds, AtWork
  <2>4. Calm
    BY <1>5, <2>2, <2>3, CalmOne DEF SshReleases, watchdog, Taking
  <2>5. QED
    BY <2>4, CalmKeeps
<1>6. CASE SshReturns(p)
  <2>1. take'[p].at = "idle" /\ \A q \in Pids \ {p} : take'[q] = take[q] /\ u'[q] = u[q]
    BY <1>1, <1>6, Blank DEF SshReturns
  <2>2. ~u'[p].has
    BY <1>1, <1>6 DEF SshReturns, Locals
  <2>3. ~Holds(p)'
    BY <2>1, <2>2 DEF Holds
  <2>4. Calm
    BY <1>6, <2>1, <2>3, CalmOne DEF SshReturns, watchdog, Taking
  <2>5. QED
    BY <2>4, CalmKeeps
<1>7. QED
  BY <1>2, <1>3, <1>4, <1>5, <1>6 DEF Ssh

\* The lock names one of those that hold it, so there is only one.
LEMMA OneHolder ==
  ASSUME HoldersOK, NEW p \in Pids, NEW q \in Pids, Holds(p), Holds(q)
  PROVE  p = q
BY DEF HoldersOK, Owned

\* A process in a take does not have the lock yet.
LEMMA TakerHasNot ==
  ASSUME TypeOK, Places, NEW p \in Pids, take[p].at \in Taking
  PROVE  ~Holds(p) /\ Live(p) /\ loc[p] = "take"
BY Where DEF AtTake, Holds, Taking

LEMMA StepLock ==
  ASSUME "overlap" \notin Faults, TypeOK, Places, LockOK, NEW p \in Pids, LockStep(p)
  PROVE  LockOK'
<1>1. /\ take \in [Pids -> Takes] /\ lock \in Files /\ LockTypeOK
      /\ take[p] \in Takes /\ NoFile.pid = 0 /\ \A q \in Pids : q # 0 /\ Owned(q).pid = q
  BY PidsAssumption DEF TypeOK, LockTypeOK, NoFile, Owned
<1>2. UNCHANGED <<proc, u, watch>>
  BY DEF LockStep, users, watchdog, TakeStep, ReleaseStep, Open, Write, Read, Judge, Unlink, ReleaseRead, ReleaseUnlink
<1>3. \A q \in Pids \ {p} : take'[q] = take[q]
  BY <1>1 DEF LockStep, TakeStep, ReleaseStep, Open, Write, Read, Judge, Unlink, ReleaseRead, ReleaseUnlink, At
<1>4. /\ \A q \in Pids \ {p} : Holds(q)' <=> Holds(q)
      /\ \A q \in Pids : Owned(q)' = Owned(q)
  BY <1>2, <1>3 DEF Holds, Live, Owned
<1>5. CASE TakeStep(p)
  <2>1. take[p].at \in Taking
    BY <1>5 DEF TakeStep, Open, Write, Read, Judge, Unlink, Taking
  <2>2. ~Holds(p) /\ ~u[p].has
    BY <2>1, TakerHasNot, Where DEF AtTake
  <2>3. watch.at = "sleep" /\ \A q \in Pids \ {p} : take[q].at \notin Taking
    BY <2>1 DEF LockOK, OneTaker
  <2>4. OneTaker' /\ WatchOK'
    BY <1>2, <1>3, <2>3 DEF OneTaker, WatchOK
  <2>5. CASE Open(p)
    <3>1. PICK a \in {"write", "read"} : take' = At(p, a) /\ (a = "write" <=> lock = NoFile)
      BY <2>5 DEF Open
    <3>2. a \in Steps
      BY DEF Steps
    <3>3. take'[p].at = a
      BY <1>1, <3>1, <3>2, AtFact
    <3>4. lock' = IF lock = NoFile THEN [by |-> p, pid |-> 0, prog |-> ""] ELSE lock
      BY <2>5 DEF Open
    <3>5. ~Holds(p)'
      BY <1>2, <2>2, <3>3 DEF Holds
    <3>6. lock = NoFile => \A q \in Pids : ~Holds(q)
      BY <1>1 DEF LockOK, HoldersOK
    <3>7. HoldersOK'
      BY <1>4, <3>4, <3>5, <3>6 DEF LockOK, HoldersOK
    <3>8. TakeOK'
      BY <1>3, <2>3, <3>1, <3>3, <3>4 DEF TakeOK, Taking
    <3>9. QED
      BY <2>4, <3>7, <3>8 DEF LockOK
  <2>6. CASE Write(p)
    <3>1. take'[p].at = "won"
      <4>1. "won" \in Steps
        BY DEF Steps
      <4>2. QED
        BY <1>1, <2>6, <4>1, AtFact DEF Write
    <3>2. lock = [by |-> p, pid |-> 0, prog |-> ""] /\ lock' = Owned(p)
      <4>1. lock = [by |-> p, pid |-> 0, prog |-> ""]
        BY <2>6 DEF Write, LockOK, TakeOK
      <4>2. lock.by = p
        BY <4>1
      <4>3. QED
        BY <2>6, <4>1, <4>2 DEF Write
    <3>3. \A q \in Pids : ~Holds(q)
      <4>1. lock.pid = 0
        BY <3>2
      <4>2. QED
        BY <1>1, <4>1 DEF LockOK, HoldersOK
    <3>4. HoldersOK'
      BY <1>4, <3>2, <3>3 DEF HoldersOK
    <3>5. TakeOK'
      BY <1>3, <2>3, <3>1 DEF TakeOK, Taking
    <3>6. QED
      BY <2>4, <3>4, <3>5 DEF LockOK
  <2>7. CASE Read(p)
    <3>1. take'[p].at = "judge" /\ take'[p].seen = lock /\ lock' = lock
      BY <1>1, <2>7 DEF Read, Takes
    <3>2. ~Holds(p)'
      BY <1>2, <2>2, <3>1 DEF Holds
    <3>3. HoldersOK'
      BY <1>4, <3>1, <3>2 DEF LockOK, HoldersOK
    <3>4. TakeOK'
      BY <1>3, <1>4, <2>3, <3>1, <3>3 DEF TakeOK, HoldersOK, Taking
    <3>5. QED
      BY <2>4, <3>3, <3>4 DEF LockOK
  <2>8. CASE Judge(p)
    <3>1. take'[p].at = (IF LiveOwner(p, take[p].seen) THEN "busy" ELSE "unlink") /\ lock' = lock
      BY <1>1, <2>8 DEF Judge, Takes
    <3>2. ~Holds(p)'
      BY <1>2, <2>2, <3>1 DEF Holds
    <3>3. HoldersOK'
      BY <1>4, <3>1, <3>2 DEF LockOK, HoldersOK
    <3>4. ~LiveOwner(p, take[p].seen) => \A q \in Pids : ~Holds(q)
      <4> SUFFICES ASSUME NEW q \in Pids, Holds(q) PROVE LiveOwner(p, take[p].seen)
        OBVIOUS
      <4>1. take[p].seen = Owned(q) /\ q # p /\ Live(q)
        BY <2>2, <2>8 DEF Judge, LockOK, TakeOK, Holds
      <4>2. QED
        BY <1>1, <4>1 DEF LiveOwner, Owned, Live
    <3>5. TakeOK'
      BY <1>3, <1>4, <2>3, <3>1, <3>2, <3>4 DEF TakeOK, Taking
    <3>6. QED
      BY <2>4, <3>3, <3>5 DEF LockOK
  <2>9. CASE Unlink(p)
    <3>1. take'[p].at \in {"open", "fail"}
      BY <1>1, <2>9 DEF Unlink, Takes
    <3>2. \A q \in Pids : ~Holds(q)
      BY <2>9 DEF Unlink, LockOK, TakeOK
    <3>3. ~Holds(p)'
      BY <1>2, <2>2, <3>1 DEF Holds
    <3>4. HoldersOK'
      BY <1>4, <3>2, <3>3 DEF HoldersOK
    <3>5. TakeOK'
      BY <1>3, <2>3, <3>1 DEF TakeOK, Taking
    <3>6. QED
      BY <2>4, <3>4, <3>5 DEF LockOK
  <2>10. QED
    BY <1>5, <2>5, <2>6, <2>7, <2>8, <2>9 DEF TakeStep
<1>6. CASE ReleaseRead(p)
  <2>1. PICK a \in {"relunlink", "released"} : take' = At(p, a)
    BY <1>6 DEF ReleaseRead
  <2>2. a \in Steps
    BY DEF Steps
  <2>3. take'[p].at = a
    BY <1>1, <2>1, <2>2, AtFact
  <2>4. Holds(p)
    BY <1>6, Where DEF ReleaseRead, AtExit, Holds
  <2>5. Calm
    BY <1>2, <1>3, <1>6, <2>3, <2>4, CalmOne DEF ReleaseRead, Taking
  <2>6. QED
    BY <2>5, CalmKeeps
<1>7. CASE ReleaseUnlink(p)
  <2>1. Holds(p)
    BY <1>7, Where DEF ReleaseUnlink, AtExit, Holds
  <2>2. "released" \in Steps
    BY DEF Steps
  <2>3. take'[p].at = "released" /\ lock' = NoFile
    BY <1>1, <1>7, <2>2, AtFact DEF ReleaseUnlink
  <2>4. ~Holds(p)'
    BY <1>2, <2>3 DEF Holds
  <2>5. \A q \in Pids : ~Holds(q)'
    BY <1>4, <2>1, <2>4, OneHolder DEF LockOK
  <2>6. lock = Owned(p)
    BY <2>1 DEF LockOK, HoldersOK
  <2>7. OneTaker' /\ HoldersOK' /\ WatchOK'
    BY <1>2, <1>3, <2>3, <2>5 DEF LockOK, OneTaker, HoldersOK, WatchOK, Taking
  <2>8. TakeOK'
    BY <1>1, <1>3, <2>3, <2>5, <2>6 DEF LockOK, TakeOK, Owned
  <2>9. QED
    BY <2>7, <2>8 DEF LockOK
<1>8. QED
  BY <1>5, <1>6, <1>7 DEF LockStep, ReleaseStep

LEMMA OtherLock ==
  ASSUME TypeOK, Places, LockOK,
         \/ \E p \in Pids, prog \in {"port", "dropbear", "other"} : Start(p, prog)
         \/ \E p \in Pids, st \in {"none", "zombie"} : Kill(p, st)
         \/ \E d \in Pids, others \in SUBSET Pids : Reboot(d, others)
         \/ DeadlinePast \/ UNCHANGED vars
  PROVE  LockOK'
<1>0. /\ take \in [Pids -> Takes] /\ u \in [Pids -> Locals] /\ proc \in [Pids -> Procs]
  BY DEF TypeOK, LockTypeOK
<1>1. ASSUME NEW p \in Pids, NEW prog, Start(p, prog) PROVE LockOK'
  <2>1. \A q \in Pids \ {p} : take'[q] = take[q] /\ u'[q] = u[q] /\ proc'[q] = proc[q]
    BY <1>0, <1>1 DEF Start, Begin
  <2>2. take'[p] = Idle /\ u'[p] = Fresh
    BY <1>0, <1>1 DEF Start, Begin
  <2>3. ~Holds(p)'
    BY <2>2, Blank DEF Holds
  <2>4. \A q \in Pids \ {p} : Holds(q)' => Holds(q) /\ Owned(q)' = Owned(q)
    BY <2>1 DEF Holds, Live, Owned
  <2>5. Calm
    BY <1>1, <2>1, <2>2, <2>3, <2>4, Blank DEF Calm, KeepsHolds, Start, watchdog, Taking
  <2>6. QED
    BY <2>5, CalmKeeps
<1>2. ASSUME NEW p \in Pids, NEW st \in {"none", "zombie"}, Kill(p, st) PROVE LockOK'
  BY <1>2, CalmEnds, CalmKeeps DEF Kill, Calm
<1>3. ASSUME NEW d \in Pids, NEW others \in SUBSET Pids, Reboot(d, others) PROVE LockOK'
  <2>1. \A q \in Pids : /\ u'[q] = Fresh /\ take'[q].at = (IF q = d THEN "open" ELSE "idle")
    BY <1>3, Blank DEF Reboot
  <2>2. \A q \in Pids : ~Holds(q)'
    BY <2>1, Blank DEF Holds
  <2>3. Enters
    BY <1>3, <2>1, <2>2 DEF Reboot, Enters, KeepsHolds, Taking
  <2>4. QED
    BY <2>3, EntersKeeps
<1>4. CASE DeadlinePast \/ UNCHANGED vars
  <2>1. Calm
    BY <1>4 DEF DeadlinePast, vars, Calm, KeepsHolds, Holds, Owned, Live
  <2>2. QED
    BY <2>1, CalmKeeps
<1>5. QED
  BY <1>1, <1>2, <1>3, <1>4

LEMMA WatchLock ==
  ASSUME "overlap" \notin Faults, TypeOK, Places, LockOK, Watch
  PROVE  LockOK'
<1>0. /\ take \in [Pids -> Takes] /\ u \in [Pids -> Locals] /\ proc \in [Pids -> Procs]
      /\ watch.at = "kill" => watch.p \in Pids
  BY DEF TypeOK, LockTypeOK
<1>1. ASSUME NEW same \in BOOLEAN, WatchTick(same) PROVE LockOK'
  <2>1. UNCHANGED <<lock, proc, take, u>> /\ \A q \in Pids : take[q].at \notin Taking
    BY <1>1, QuietFact DEF WatchTick, users
  <2>2. \A q \in Pids : (Holds(q)' <=> Holds(q)) /\ Owned(q)' = Owned(q)
    BY <2>1 DEF Holds, Live, Owned
  <2>3. watch'.at = "sleep" \/ (watch'.at = "kill" /\ watch'.p = lock.pid)
    BY <1>1 DEF WatchTick, TypeOK
  <2>4. OneTaker' /\ HoldersOK' /\ TakeOK'
    BY <2>1, <2>2 DEF LockOK, OneTaker, HoldersOK, TakeOK
  <2>5. \A q \in Pids : Holds(q) => lock.pid = q
    BY DEF LockOK, HoldersOK, Owned
  <2>6. WatchOK'
    BY <2>2, <2>3, <2>5 DEF WatchOK
  <2>7. QED
    BY <2>4, <2>6 DEF LockOK
<1>2. ASSUME NEW st \in {"none", "zombie"}, WatchKill(st) PROVE LockOK'
  <2>0. PICK k \in Pids : watch.at = "kill" /\ k = watch.p
    BY <1>0, <1>2 DEF WatchKill
  <2>1. watch'.at = "rm" /\ lock' = lock
    BY <1>2 DEF WatchKill, TypeOK
  <2>2. KeepsHolds /\ ~Holds(k)' /\ \A q \in Pids : take'[q].at \in Taking => take'[q] = take[q]
    <3>1. CASE Live(k)
      BY <1>2, <2>0, <3>1, CalmEnds DEF WatchKill
    <3>2. CASE ~Live(k)
      BY <1>2, <2>0, <3>2 DEF WatchKill, KeepsHolds, Holds, Live, Owned
    <3>3. QED
      BY <3>1, <3>2
  <2>3. \A q \in Pids : ~Holds(q)'
    BY <2>0, <2>2 DEF LockOK, WatchOK, KeepsHolds
  <2>4. \A q \in Pids : take'[q].at \notin Taking
    BY <2>0, <2>2 DEF LockOK, OneTaker
  <2>5. QED
    BY <2>1, <2>3, <2>4 DEF LockOK, OneTaker, HoldersOK, TakeOK, WatchOK, Taking
<1>3. CASE WatchRemove
  <2>1. watch.at = "rm" /\ watch'.at = "restart" /\ UNCHANGED <<proc, take, u>>
    BY <1>3 DEF WatchRemove, TypeOK, users
  <2>2. \A q \in Pids : ~Holds(q)' /\ take'[q].at \notin Taking
    BY <2>1 DEF LockOK, OneTaker, WatchOK, Holds, Live
  <2>3. QED
    BY <2>2 DEF LockOK, OneTaker, HoldersOK, TakeOK, WatchOK, Taking
<1>4. ASSUME NEW p \in Pids, WatchRestart(p) PROVE LockOK'
  <2>1. \A q \in Pids : take[q].at \notin Taking
    BY <1>4 DEF WatchRestart, LockOK, OneTaker
  <2>2. QED
    BY <1>4, <2>1, RcLock, EntersKeeps DEF WatchRestart
<1>5. QED
  BY <1>1, <1>2, <1>3, <1>4 DEF Watch

LEMMA LockInit == Init => LockOK
<1> SUFFICES ASSUME Init PROVE LockOK
  OBVIOUS
<1>1. PICK d \in Pids : take = [p \in Pids |-> IF p = d THEN [Idle EXCEPT !.at = "open"] ELSE Idle]
  BY DEF Init
<1>2. \A q \in Pids : take[q].at = (IF q = d THEN "open" ELSE "idle") /\ ~u[q].has
  BY <1>1, Blank DEF Init
<1>3. \A q \in Pids : ~Holds(q)
  BY <1>2 DEF Holds
<1>4. QED
  BY <1>2, <1>3 DEF Init, LockOK, OneTaker, HoldersOK, TakeOK, WatchOK, Taking

LEMMA LockNext ==
  ASSUME "overlap" \notin Faults, TypeOK, Places, LockOK, [Next]_vars
  PROVE  LockOK'
<1>1. ASSUME NEW p \in Pids, LockStep(p) \/ Daemon(p) \/ Port(p) \/ Ssh(p) PROVE LockOK'
  BY <1>1, StepLock, DaemonLock, PortLock, SshLock
<1>2. CASE Watch
  BY <1>2, WatchLock
<1>3. QED
  BY <1>1, <1>2, OtherLock DEF Next

-----------------------------------------------------------------------------
(***************************************************************************)
(* The board runs what the port that uses it has booted.                   *)
(***************************************************************************)
Sends(p) == Prog(p) = "port" /\ (loc[p] \in {"mark", "send"} \/ (loc[p] = "idle" /\ u[p].state = 1))

LEMMA SenderHolds ==
  ASSUME TypeOK, Places, NEW p \in Pids, Sends(p)
  PROVE  Holds(p) /\ take[p].at = "idle"
BY Where DEF Sends, AtWork, Holds

\* A step that leaves the board alone makes nobody a sender.
LEMMA BoardKeeps ==
  ASSUME BoardOK, board' = board, \A q \in Pids : Sends(q)' => Sends(q) /\ u'[q].booted = u[q].booted
  PROVE  BoardOK'
BY DEF BoardOK, Sends

\* A step of the one that has the T425: the others are no senders.
LEMMA BoardOwn ==
  ASSUME TypeOK, Places, HoldersOK, NEW p \in Pids, Holds(p), proc' = proc,
         \A q \in Pids \ {p} : loc'[q] = loc[q] /\ u'[q] = u[q],
         Sends(p)' => board' = u'[p].booted
  PROVE  BoardOK'
<1>1. \A q \in Pids \ {p} : ~Sends(q)
  BY SenderHolds, OneHolder
<1>2. \A q \in Pids \ {p} : ~Sends(q)'
  BY <1>1 DEF Sends, Prog
<1>3. QED
  BY <1>2 DEF BoardOK, Sends

LEMMA BoardEnds ==
  ASSUME TypeOK, Places, BoardOK, NEW p \in Pids, NEW st \in {"none", "zombie"}, Ends(p, st), board' = board
  PROVE  BoardOK'
<1>1. \A q \in Pids : Sends(q)' => Sends(q) /\ u'[q].booted = u[q].booted
  BY EndsFact DEF Sends, Prog
<1>2. QED
  BY <1>1, BoardKeeps

LEMMA BoardBegins ==
  ASSUME TypeOK, BoardOK, NEW p \in Pids, NEW prog, NEW l \in {"idle", "take"}, Begin(p, prog), Goto(p, l), board' = board
  PROVE  BoardOK'
<1>1. /\ loc \in [Pids -> Locs] /\ u \in [Pids -> Locals] /\ proc \in [Pids -> Procs]
  BY DEF TypeOK, LockTypeOK
<1>2. \A q \in Pids \ {p} : loc'[q] = loc[q] /\ u'[q] = u[q] /\ proc'[q] = proc[q]
  BY <1>1 DEF Begin, Goto
<1>3. loc'[p] = l /\ u'[p] = Fresh
  BY <1>1 DEF Begin, Goto
<1>4. \A q \in Pids : Sends(q)' => Sends(q) /\ u'[q].booted = u[q].booted
  BY <1>2, <1>3, Blank DEF Sends, Prog
<1>5. QED
  BY <1>4, BoardKeeps

LEMMA BoardProgram ==
  ASSUME TypeOK, Places, LockOK, BoardOK, NEW p \in Pids, Daemon(p) \/ Port(p) \/ Ssh(p)
  PROVE  BoardOK'
<1>1. /\ loc \in [Pids -> Locs] /\ take \in [Pids -> Takes] /\ u \in [Pids -> Locals] /\ proc \in [Pids -> Procs]
      /\ u[p] \in Locals /\ HoldersOK
  BY DEF TypeOK, LockTypeOK, LockOK
<1>2. CASE StartDaemon(p)
  BY <1>2, BoardBegins DEF StartDaemon, RcTtjobd
<1>3. CASE DaemonGivesUp(p) \/ PortGone(p) \/ (PortExits(p) /\ ~u[p].has)
  BY <1>3, BoardEnds DEF DaemonGivesUp, PortGone, PortExits
<1>4. CASE DaemonRetries(p) \/ SshCalls(p) \/ SshClaimed(p) \/ SshProbes(p) \/ SshMarks(p) \/ SshReleases(p) \/ SshReturns(p)
  <2>1. /\ proc' = proc /\ Prog(p) # "port" /\ board' = board
        /\ \A q \in Pids \ {p} : loc'[q] = loc[q] /\ u'[q] = u[q]
    BY <1>1, <1>4 DEF DaemonRetries, SshCalls, SshClaimed, SshProbes, SshMarks, SshReleases, SshReturns, Goto
  <2>2. QED
    BY <2>1, BoardKeeps DEF Sends, Prog
<1>5. CASE DaemonSends(p) \/ DaemonIdle(p)
  BY <1>5 DEF DaemonSends, DaemonIdle, BoardOK, Prog
<1>6. CASE DaemonBoots(p) \/ DaemonTraps(p)
  <2>1. Holds(p) /\ Prog(p) = "ttjobd"
    BY <1>6, Where DEF DaemonBoots, DaemonTraps, AtTake, AtWork, Holds
  <2>2. proc' = proc /\ \A q \in Pids \ {p} : loc'[q] = loc[q] /\ u'[q] = u[q]
    BY <1>1, <1>6 DEF DaemonBoots, DaemonTraps, Goto
  <2>3. QED
    BY <1>1, <2>1, <2>2, BoardOwn DEF Sends, Prog
<1>7. CASE SshBoots(p)
  <2>1. Holds(p) /\ Prog(p) = "dropbear"
    BY <1>7, Where DEF SshBoots, AtWork, Holds
  <2>2. proc' = proc /\ \A q \in Pids \ {p} : loc'[q] = loc[q] /\ u'[q] = u[q]
    BY <1>1, <1>7 DEF SshBoots, Goto, Off
  <2>3. QED
    BY <1>1, <2>1, <2>2, BoardOwn DEF Sends, Prog
<1>8. CASE PortBoots(p) \/ PortMarks(p) \/ PortCalls(p)
  <2>1. AtWork(p) /\ Holds(p)
    BY <1>8, Where DEF PortBoots, PortMarks, PortCalls, AtWork, Holds
  <2>2. proc' = proc /\ \A q \in Pids \ {p} : loc'[q] = loc[q] /\ u'[q] = u[q]
    BY <1>1, <1>8 DEF PortBoots, PortMarks, PortCalls, Goto, Off
  <2>3. u'[p].booted = u[p].booted
    BY <1>1, <1>8 DEF PortBoots, PortMarks, PortCalls, Off, Locals
  <2>4. Sends(p)' => board' = u[p].booted
    <3>1. CASE PortBoots(p)
      <4>1. board' = u[p].booted \/ (loc'[p] = "idle" /\ u'[p].state = 2)
        BY <1>1, <3>1 DEF PortBoots, Off, Goto, Locals
      <4>2. QED
        BY <4>1 DEF Sends
    <3>2. CASE PortMarks(p)
      BY <3>2 DEF PortMarks, BoardOK
    <3>3. CASE PortCalls(p)
      BY <3>3 DEF PortCalls, BoardOK
    <3>4. QED
      BY <1>8, <3>1, <3>2, <3>3
  <2>5. QED
    BY <1>1, <2>1, <2>2, <2>3, <2>4, BoardOwn
<1>9. CASE CallDaemon(p) \/ PortTaken(p) \/ (PortExits(p) /\ u[p].has)
  <2>1. /\ proc' = proc /\ board' = board
        /\ \A q \in Pids \ {p} : loc'[q] = loc[q] /\ u'[q] = u[q]
    BY <1>1, <1>9 DEF CallDaemon, PortTaken, PortExits, Goto, Off
  <2>2. u'[p].booted = u[p].booted /\ (loc'[p] = "idle" => u'[p].state = 2 \/ (loc[p] = "idle" /\ u'[p].state = u[p].state))
    BY <1>1, <1>9 DEF CallDaemon, PortTaken, PortExits, Goto, Off, Locals
  <2>3. loc'[p] \notin {"mark", "send"}
    BY <1>1, <1>9 DEF CallDaemon, PortTaken, PortExits, Goto
  <2>4. Sends(p)' => Sends(p)
    BY <2>1, <2>2, <2>3 DEF Sends, Prog
  <2>5. QED
    BY <2>1, <2>2, <2>4, BoardKeeps DEF Sends, Prog
<1>10. ASSUME NEW btl \in Servers, CallDirect(p, btl) PROVE BoardOK'
  <2>1. AtWork(p) /\ Prog(p) = "port" /\ loc[p] = "idle"
    BY <1>10, Where DEF CallDirect
  <2>2. /\ proc' = proc /\ board' = board
        /\ \A q \in Pids \ {p} : loc'[q] = loc[q] /\ u'[q] = u[q]
    BY <1>1, <1>10 DEF CallDirect, Goto
  <2>3. u'[p].state = u[p].state /\ u[p].state \in 0..2 /\ (u[p].state # 2 => u'[p].booted = btl)
    BY <1>1, <1>10 DEF CallDirect, Locals
  <2>4. CASE u[p].state = 1
    <3>1. Sends(p) /\ Holds(p) /\ board = u[p].booted
      BY <2>1, <2>4, SenderHolds DEF Sends, BoardOK
    <3>2. loc'[p] = (IF u[p].booted = btl THEN "send" ELSE "boot")
      BY <1>1, <1>10, <2>4 DEF CallDirect, Goto
    <3>3. Sends(p)' => board' = u'[p].booted
      BY <2>2, <2>3, <2>4, <3>1, <3>2 DEF Sends
    <3>4. QED
      BY <1>1, <2>2, <3>1, <3>3, BoardOwn
  <2>5. CASE u[p].state # 1
    <3>1. loc'[p] \in {"take", "idle"}
      <4>1. CASE u[p].state = 0
        BY <1>1, <1>10, <4>1 DEF CallDirect, Goto
      <4>2. CASE u[p].state = 2
        BY <1>1, <1>10, <4>2 DEF CallDirect, Goto
      <4>3. QED
        BY <2>3, <2>5, <4>1, <4>2
    <3>2. ~Sends(p)'
      BY <2>3, <2>5, <3>1 DEF Sends
    <3>3. QED
      BY <2>2, <3>2, BoardKeeps DEF Sends, Prog
  <2>6. QED
    BY <2>4, <2>5
<1>11. QED
  BY <1>2, <1>3, <1>4, <1>5, <1>6, <1>7, <1>8, <1>9, <1>10 DEF Daemon, Port, Ssh

LEMMA BoardNext ==
  ASSUME TypeOK, Places, LockOK, BoardOK, [Next]_vars
  PROVE  BoardOK'
<1>1. ASSUME NEW p \in Pids, Daemon(p) \/ Port(p) \/ Ssh(p) PROVE BoardOK'
  BY <1>1, BoardProgram
<1>2. ASSUME NEW p \in Pids, LockStep(p) PROVE BoardOK'
  BY <1>2 DEF LockStep, users, BoardOK, Prog, TakeStep, ReleaseStep, Open, Write, Read, Judge, Unlink, ReleaseRead, ReleaseUnlink
<1>3. ASSUME NEW p \in Pids, NEW prog, Start(p, prog) PROVE BoardOK'
  BY <1>3, BoardBegins DEF Start
<1>4. ASSUME NEW p \in Pids, NEW st \in {"none", "zombie"}, Kill(p, st) PROVE BoardOK'
  BY <1>4, BoardEnds DEF Kill
<1>5. ASSUME NEW d \in Pids, NEW others \in SUBSET Pids, Reboot(d, others) PROVE BoardOK'
  BY <1>5, Blank DEF Reboot, BoardOK
<1>6. ASSUME NEW st \in {"none", "zombie"}, WatchKill(st) PROVE BoardOK'
  <2>1. CASE Live(watch.p)
    <3>1. watch.p \in Pids
      BY <1>6 DEF WatchKill, TypeOK
    <3>2. QED
      BY <1>6, <2>1, <3>1, BoardEnds DEF WatchKill
  <2>2. CASE ~Live(watch.p)
    BY <1>6, <2>2 DEF WatchKill, BoardOK, Prog
  <2>3. QED
    BY <2>1, <2>2
<1>7. ASSUME NEW p \in Pids, WatchRestart(p) PROVE BoardOK'
  BY <1>7, BoardBegins DEF WatchRestart, RcTtjobd
<1>8. CASE WatchRemove \/ DeadlinePast \/ UNCHANGED vars \/ \E same \in BOOLEAN : WatchTick(same)
  BY <1>8 DEF WatchRemove, DeadlinePast, WatchTick, vars, users, BoardOK, Prog
<1>9. QED
  BY <1>1, <1>2, <1>3, <1>4, <1>5, <1>6, <1>7, <1>8 DEF Next, Watch

-----------------------------------------------------------------------------
(***************************************************************************)
(* What is said of a process is true of it.                                *)
(***************************************************************************)
\* NamedOK, of one process.
Named1(p) ==
  lock.pid = p /\ lock.prog = Prog(p) /\ Live(p) /\ (p \in heirs => Prog(p) = "ttjobd") =>
    Holds(p) \/ take[p].at \in Taking \ {"write"}

\* Only one process moved, and the file did not.
LEMMA NamedOne ==
  ASSUME NamedOK, NEW p \in Pids, lock' = lock, Named1(p)',
         \A q \in Pids \ {p} : take'[q] = take[q] /\ u'[q] = u[q] /\ proc'[q] = proc[q] /\ (q \in heirs => q \in heirs')
  PROVE  NamedOK'
<1>1. \A q \in Pids \ {p} : Named1(q)'
  BY DEF NamedOK, Named1, Holds, Live, Prog
<1>2. QED
  BY <1>1 DEF NamedOK, Named1

LEMMA NamedEnds ==
  ASSUME TypeOK, NamedOK, NEW p \in Pids, NEW st \in {"none", "zombie"}, Ends(p, st), lock' = lock, heirs' = heirs
  PROVE  NamedOK'
<1>1. Named1(p)'
  BY EndsFact DEF Named1
<1>2. QED
  BY <1>1, EndsFact, NamedOne

\* A process whose file is its own keeps it, or opens it again.
LEMMA NamedMoves ==
  ASSUME NamedOK, NEW p \in Pids, UNCHANGED <<lock, proc, heirs>>,
         \A q \in Pids \ {p} : take'[q] = take[q] /\ u'[q] = u[q],
         take'[p].at = "open" \/ (take[p].at \notin Taking /\ (Holds(p) => Holds(p)'))
  PROVE  NamedOK'
<1>1. Named1(p)'
  BY DEF NamedOK, Named1, Live, Prog, Taking
<1>2. QED
  BY <1>1, NamedOne

LEMMA NamedRc ==
  ASSUME TypeOK, NamedOK, NEW p \in Pids, RcTtjobd(p), lock' = lock
  PROVE  NamedOK'
<1>1. /\ take \in [Pids -> Takes] /\ u \in [Pids -> Locals] /\ proc \in [Pids -> Procs]
  BY DEF TypeOK, LockTypeOK
<1>2. \A q \in Pids \ {p} : take'[q] = take[q] /\ u'[q] = u[q] /\ proc'[q] = proc[q]
  BY <1>1 DEF RcTtjobd, Begin, StartTake
<1>3. take'[p].at = "open"
  BY <1>1 DEF RcTtjobd, StartTake
<1>4. \A q \in Pids \ {p} : q \in heirs => q \in heirs'
  BY DEF RcTtjobd, Begin
<1>5. QED
  BY <1>2, <1>3, <1>4, NamedOne DEF Named1, Taking

LEMMA NamedDaemon ==
  ASSUME TypeOK, Places, NamedOK, NEW p \in Pids, Daemon(p)
  PROVE  NamedOK'
<1>1. /\ take \in [Pids -> Takes] /\ u \in [Pids -> Locals] /\ proc \in [Pids -> Procs] /\ u[p] \in Locals
  BY DEF TypeOK, LockTypeOK
<1>2. CASE StartDaemon(p)
  BY <1>2, NamedRc DEF StartDaemon
<1>3. CASE DaemonRetries(p)
  <2>1. take'[p].at = "open" /\ \A q \in Pids \ {p} : take'[q] = take[q] /\ u'[q] = u[q]
    BY <1>1, <1>3 DEF DaemonRetries, StartTake
  <2>2. QED
    BY <1>3, <2>1, NamedMoves DEF DaemonRetries, bounds
<1>4. CASE DaemonGivesUp(p)
  BY <1>4, NamedEnds DEF DaemonGivesUp, bounds
<1>5. CASE DaemonBoots(p)
  <2>1. Live(p) /\ take[p].at = "won"
    BY <1>5, Where DEF DaemonBoots, AtTake
  <2>2. u'[p].has /\ take'[p].at = "idle" /\ \A q \in Pids \ {p} : take'[q] = take[q] /\ u'[q] = u[q]
    BY <1>1, <1>5, Blank DEF DaemonBoots, Locals
  <2>3. UNCHANGED <<lock, proc, heirs>> /\ Holds(p)'
    BY <1>5, <2>1, <2>2 DEF DaemonBoots, Holds, Live, bounds
  <2>4. QED
    BY <2>1, <2>2, <2>3, NamedMoves DEF Taking
<1>6. CASE DaemonSends(p) \/ DaemonTraps(p) \/ DaemonIdle(p)
  BY <1>6 DEF DaemonSends, DaemonTraps, DaemonIdle, bounds, NamedOK, Holds, Live, Prog
<1>7. QED
  BY <1>2, <1>3, <1>4, <1>5, <1>6 DEF Daemon

LEMMA NamedPort ==
  ASSUME TypeOK, Places, NamedOK, NEW p \in Pids, Port(p)
  PROVE  NamedOK'
<1>0. heirs' = heirs
  BY DEF Port, CallDaemon, PortTaken, PortBoots, PortMarks, PortCalls, PortExits, PortGone, CallDirect, bounds
<1>1. /\ take \in [Pids -> Takes] /\ u \in [Pids -> Locals] /\ proc \in [Pids -> Procs] /\ u[p] \in Locals
  BY DEF TypeOK, LockTypeOK
<1>2. CASE CallDaemon(p) \/ PortBoots(p) \/ PortMarks(p) \/ PortCalls(p)
  <2>1. take' = take /\ UNCHANGED <<lock, proc>> /\ loc[p] \in {"idle", "boot", "mark", "send"}
    BY <1>2 DEF CallDaemon, PortBoots, PortMarks, PortCalls
  <2>2. u'[p].has = u[p].has /\ \A q \in Pids \ {p} : u'[q] = u[q]
    BY <1>1, <1>2 DEF CallDaemon, PortBoots, PortMarks, PortCalls, Off, Locals
  <2>3. Holds(p) => Holds(p)'
    BY <2>1, <2>2 DEF Holds, Live
  <2>4. take[p].at \notin Taking
    BY <2>1, Where DEF AtWork, Taking
  <2>5. QED
    BY <1>0, <2>1, <2>2, <2>3, <2>4, NamedMoves
<1>3. ASSUME NEW btl \in Servers, CallDirect(p, btl) PROVE NamedOK'
  <2>1. AtWork(p) /\ UNCHANGED <<lock, proc>>
    BY <1>3, Where DEF CallDirect
  <2>2. u'[p].has = u[p].has /\ \A q \in Pids \ {p} : u'[q] = u[q]
    BY <1>1, <1>3 DEF CallDirect, Locals
  <2>3. CASE u[p].state = 0
    <3>1. take'[p].at = "open" /\ \A q \in Pids \ {p} : take'[q] = take[q]
      BY <1>1, <1>3, <2>3 DEF CallDirect, StartTake
    <3>2. QED
      BY <1>0, <2>1, <2>2, <3>1, NamedMoves
  <2>4. CASE u[p].state # 0
    <3>1. take' = take
      BY <1>3, <2>4 DEF CallDirect
    <3>2. take[p].at \notin Taking /\ (Holds(p) => Holds(p)')
      BY <2>1, <2>2, <3>1 DEF AtWork, Taking, Holds, Live
    <3>3. QED
      BY <1>0, <2>1, <2>2, <3>1, <3>2, NamedMoves
  <2>5. QED
    BY <2>3, <2>4
<1>4. CASE PortTaken(p)
  <2>1. AtTake(p) /\ take[p].at \notin Taking /\ UNCHANGED <<lock, proc>>
    BY <1>4, Where DEF PortTaken, Taking
  <2>2. \A q \in Pids \ {p} : take'[q] = take[q] /\ u'[q] = u[q]
    BY <1>1, <1>4 DEF PortTaken, Off
  <2>3. take'[p].at = "idle" /\ (take[p].at = "won" => u'[p].has)
    BY <1>1, <1>4, Blank DEF PortTaken, Locals
  <2>4. Holds(p) => Holds(p)'
    BY <1>4, <2>1, <2>3 DEF PortTaken, AtTake, Holds, Live
  <2>5. QED
    BY <1>0, <2>1, <2>2, <2>4, NamedMoves
<1>5. CASE PortExits(p) /\ u[p].has
  <2>1. AtWork(p) /\ UNCHANGED <<lock, proc>>
    BY <1>5, Where DEF PortExits
  <2>2. take'[p].at = "relread" /\ \A q \in Pids \ {p} : take'[q] = take[q] /\ u'[q] = u[q]
    BY <1>1, <1>5, Blank DEF PortExits, StartRelease
  <2>3. Holds(p)' /\ take[p].at \notin Taking
    BY <2>1, <2>2 DEF Holds, AtWork, Live, Taking
  <2>4. QED
    BY <1>0, <2>1, <2>2, <2>3, NamedMoves
<1>6. CASE (PortExits(p) /\ ~u[p].has) \/ PortGone(p)
  BY <1>0, <1>6, NamedEnds DEF PortExits, PortGone
<1>7. QED
  BY <1>2, <1>3, <1>4, <1>5, <1>6 DEF Port

LEMMA NamedSsh ==
  ASSUME TypeOK, Places, NamedOK, NEW p \in Pids, Ssh(p)
  PROVE  NamedOK'
<1>1. /\ take \in [Pids -> Takes] /\ u \in [Pids -> Locals] /\ proc \in [Pids -> Procs] /\ u[p] \in Locals
      /\ UNCHANGED <<lock, proc, heirs>>
  BY DEF TypeOK, LockTypeOK, Ssh, SshCalls, SshClaimed, SshProbes, SshBoots, SshMarks, SshReleases, SshReturns, bounds
<1>2. CASE SshProbes(p) \/ SshBoots(p) \/ SshMarks(p)
  <2>1. take' = take /\ AtWork(p)
    BY <1>2, Where DEF SshProbes, SshBoots, SshMarks
  <2>2. u'[p].has = u[p].has /\ \A q \in Pids \ {p} : u'[q] = u[q]
    BY <1>1, <1>2 DEF SshProbes, SshBoots, SshMarks, Off, Locals
  <2>3. take[p].at \notin Taking /\ (Holds(p) => Holds(p)')
    BY <1>1, <2>1, <2>2 DEF AtWork, Taking, Holds, Live
  <2>4. QED
    BY <1>1, <2>1, <2>2, <2>3, NamedMoves
<1>3. CASE SshCalls(p)
  <2>1. take'[p].at = "open" /\ \A q \in Pids \ {p} : take'[q] = take[q] /\ u'[q] = u[q]
    BY <1>1, <1>3 DEF SshCalls, StartTake
  <2>2. QED
    BY <1>1, <2>1, NamedMoves
<1>4. CASE SshClaimed(p)
  <2>1. AtTake(p) /\ take[p].at \notin Taking
    BY <1>4, Where DEF SshClaimed, Taking
  <2>2. \A q \in Pids \ {p} : take'[q] = take[q] /\ u'[q] = u[q]
    BY <1>1, <1>4 DEF SshClaimed
  <2>3. take'[p].at = "idle" /\ (take[p].at = "won" => u'[p].has)
    BY <1>1, <1>4, Blank DEF SshClaimed, Locals
  <2>4. Holds(p) => Holds(p)'
    BY <1>1, <1>4, <2>1, <2>3 DEF SshClaimed, AtTake, Holds, Live
  <2>5. QED
    BY <1>1, <2>1, <2>2, <2>4, NamedMoves
<1>5. CASE SshReleases(p)
  <2>1. AtWork(p)
    BY <1>5, Where DEF SshReleases
  <2>2. take'[p].at = "relread" /\ \A q \in Pids \ {p} : take'[q] = take[q] /\ u'[q] = u[q]
    BY <1>1, <1>5, Blank DEF SshReleases, StartRelease
  <2>3. Holds(p)' /\ take[p].at \notin Taking
    BY <1>1, <2>1, <2>2 DEF Holds, AtWork, Live, Taking
  <2>4. QED
    BY <1>1, <2>2, <2>3, NamedMoves
<1>6. CASE SshReturns(p)
  <2>1. ~Holds(p) /\ take[p].at \notin Taking
    BY <1>6 DEF SshReturns, Holds, Taking
  <2>2. \A q \in Pids \ {p} : take'[q] = take[q] /\ u'[q] = u[q]
    BY <1>1, <1>6 DEF SshReturns
  <2>3. QED
    BY <1>1, <2>1, <2>2, NamedMoves
<1>7. QED
  BY <1>2, <1>3, <1>4, <1>5, <1>6 DEF Ssh

\* An empty file, and none, name no process and no program.
Created(p) == [by |-> p, pid |-> 0, prog |-> ""]

LEMMA NobodysFile ==
  /\ NoFile.pid = 0 /\ NoFile.prog # "other"
  /\ \A p : Created(p).by = p /\ Created(p).pid = 0 /\ Created(p).prog # "other"
BY DEF NoFile, Created

LEMMA NamedStep ==
  ASSUME TypeOK, Places, LockOK, NamedOK, NEW p \in Pids, LockStep(p)
  PROVE  NamedOK'
<1>1. /\ take \in [Pids -> Takes] /\ take[p] \in Takes /\ LockTypeOK
      /\ NoFile.pid = 0 /\ NoFile.prog # "other" /\ 0 \notin Pids
  BY PidsAssumption, NobodysFile DEF TypeOK, LockTypeOK
<1>2. UNCHANGED <<proc, u, heirs>>
  BY DEF LockStep, users, bounds, TakeStep, ReleaseStep, Open, Write, Read, Judge, Unlink, ReleaseRead, ReleaseUnlink
<1>3. \A q \in Pids \ {p} : take'[q] = take[q]
  BY <1>1 DEF LockStep, TakeStep, ReleaseStep, Open, Write, Read, Judge, Unlink, ReleaseRead, ReleaseUnlink, At
<1>4. ASSUME lock'.pid = 0, lock'.prog # "other" PROVE NamedOK'
  BY <1>1, <1>4 DEF NamedOK
<1>5. ASSUME lock' = lock, Named1(p)' PROVE NamedOK'
  BY <1>2, <1>3, <1>5, NamedOne
<1>6. CASE Open(p)
  <2>1. CASE lock = NoFile
    <3>1. lock' = Created(p)
      BY <1>6, <2>1 DEF Open, Created
    <3>2. QED
      BY <1>4, <3>1, NobodysFile
  <2>2. CASE lock # NoFile
    <3>1. "read" \in Steps /\ lock' = lock /\ take' = At(p, "read")
      BY <1>6, <2>2 DEF Open, Steps
    <3>2. take'[p].at = "read"
      BY <1>1, <3>1, AtFact
    <3>3. QED
      BY <1>5, <3>1, <3>2 DEF Named1, Taking
  <2>3. QED
    BY <2>1, <2>2
<1>7. CASE Write(p)
  <2>1. lock = Created(p)
    BY <1>7 DEF Write, LockOK, TakeOK, Created
  <2>2. lock.by = p
    BY <2>1, NobodysFile
  <2>3. lock' = Owned(p)
    BY <1>7, <2>2 DEF Write
  <2>4. lock'.pid = p /\ lock'.prog = Prog(p)
    BY <2>3 DEF Owned, Prog
  <2>5. take[p].at \in Taking
    BY <1>7 DEF Write, Taking
  <2>6. Live(p) /\ Prog(p) # "other"
    BY <2>5, Where DEF AtTake
  <2>7. "won" \in Steps
    BY DEF Steps
  <2>8. take'[p].at = "won"
    BY <1>1, <1>7, <2>7, AtFact DEF Write
  <2>9. Holds(p)'
    BY <1>2, <2>6, <2>8 DEF Holds, Live
  <2>10. QED
    BY <2>4, <2>6, <2>9 DEF NamedOK
<1>8. CASE Read(p)
  <2>1. take'[p].at = "judge" /\ lock' = lock
    BY <1>1, <1>8 DEF Read, Takes
  <2>2. QED
    BY <1>5, <2>1 DEF Named1, Taking
<1>9. CASE Judge(p)
  <2>1. take'[p].at = (IF LiveOwner(p, take[p].seen) THEN "busy" ELSE "unlink") /\ lock' = lock
    BY <1>1, <1>9 DEF Judge, Takes
  <2>2. lock \in {take[p].seen, NoFile}
    BY <1>9 DEF Judge, LockOK, TakeOK
  <2>3. LiveOwner(p, take[p].seen) => lock.pid # p
    BY <1>1, <2>2 DEF LiveOwner
  <2>4. QED
    BY <1>5, <2>1, <2>3 DEF Named1, Taking
<1>10. CASE Unlink(p) \/ ReleaseUnlink(p)
  BY <1>1, <1>4, <1>10 DEF Unlink, ReleaseUnlink
<1>11. CASE ReleaseRead(p)
  <2>1. AtExit(p)
    BY <1>11, Where DEF ReleaseRead
  <2>2. {"relunlink", "released"} \subseteq Steps
    BY DEF Steps
  <2>3. take'[p].at = (IF lock.pid = p THEN "relunlink" ELSE "released") /\ lock' = lock
    BY <1>1, <1>11, <2>2, AtFact DEF ReleaseRead
  <2>4. lock.pid = p => Holds(p)'
    BY <1>2, <2>1, <2>3 DEF AtExit, Holds, Live
  <2>5. QED
    BY <1>5, <2>3, <2>4 DEF Named1
<1>12. QED
  BY <1>6, <1>7, <1>8, <1>9, <1>10, <1>11 DEF LockStep, TakeStep, ReleaseStep

LEMMA NamedNext ==
  ASSUME TypeOK, Places, LockOK, NamedOK, [Next]_vars
  PROVE  NamedOK'
<1>1. /\ take \in [Pids -> Takes] /\ u \in [Pids -> Locals] /\ proc \in [Pids -> Procs]
  BY DEF TypeOK, LockTypeOK
<1>2. ASSUME NEW p \in Pids, LockStep(p) \/ Daemon(p) \/ Port(p) \/ Ssh(p) PROVE NamedOK'
  BY <1>2, NamedStep, NamedDaemon, NamedPort, NamedSsh
<1>3. ASSUME NEW p \in Pids, NEW prog \in {"port", "dropbear", "other"}, Start(p, prog) PROVE NamedOK'
  <2>1. \A q \in Pids \ {p} : take'[q] = take[q] /\ u'[q] = u[q] /\ proc'[q] = proc[q]
    BY <1>1, <1>3 DEF Start, Begin
  <2>2. Prog(p)' = prog /\ lock' = lock /\ (lock.pid = p => p \in heirs') /\ \A q \in Pids \ {p} : q \in heirs => q \in heirs'
    BY <1>1, <1>3 DEF Start, Begin, Prog
  <2>3. QED
    BY <1>3, <2>1, <2>2, NamedOne DEF Named1
<1>4. ASSUME NEW p \in Pids, NEW st \in {"none", "zombie"}, Kill(p, st) PROVE NamedOK'
  BY <1>4, NamedEnds DEF Kill
<1>5. ASSUME NEW d \in Pids, NEW others \in SUBSET Pids, Reboot(d, others) PROVE NamedOK'
  <2>1. lock' = lock /\ take'[d].at = "open"
    BY <1>5, Blank DEF Reboot
  <2>2. \A q \in Pids \ {d} : Live(q)' => Prog(q)' = "other"
    BY <1>5 DEF Reboot, Live, Prog, Absent
  <2>3. QED
    BY <2>1, <2>2 DEF NamedOK, Taking
<1>6. CASE DeadlinePast \/ UNCHANGED vars \/ \E same \in BOOLEAN : WatchTick(same)
  BY <1>6 DEF DeadlinePast, vars, WatchTick, users, bounds, NamedOK, Holds, Live, Prog
<1>7. ASSUME NEW st \in {"none", "zombie"}, WatchKill(st) PROVE NamedOK'
  <2>0. PICK k \in Pids : k = watch.p
    BY <1>7 DEF WatchKill, TypeOK
  <2>1. CASE Live(k)
    BY <1>7, <2>0, <2>1, NamedEnds DEF WatchKill, bounds
  <2>2. CASE ~Live(k)
    BY <1>7, <2>0, <2>2 DEF WatchKill, bounds, NamedOK, Holds, Live, Prog
  <2>3. QED
    BY <2>1, <2>2
<1>8. CASE WatchRemove
  BY <1>8, PidsAssumption, NobodysFile DEF WatchRemove, NamedOK
<1>9. ASSUME NEW p \in Pids, WatchRestart(p) PROVE NamedOK'
  BY <1>9, NamedRc DEF WatchRestart
<1>10. QED
  BY <1>2, <1>3, <1>4, <1>5, <1>6, <1>7, <1>8, <1>9 DEF Next, Watch

\* Nobody comes into service.
LEMMA DueKeeps ==
  ASSUME DueOK, UNCHANGED <<due, hung>>, \A q \in Pids : loc'[q] = "serve" => loc[q] = "serve" /\ proc'[q] = proc[q]
  PROVE  DueOK'
BY DEF DueOK, Daemons, Live, Prog

LEMMA DueEnds ==
  ASSUME TypeOK, DueOK, NEW p \in Pids, NEW st \in {"none", "zombie"}, Ends(p, st), due' = due
  PROVE  DueOK'
<1>1. hung' = IF hung = p THEN 0 ELSE hung
  BY DEF Ends
<1>2. \A q \in Pids : q \in Daemons' /\ loc'[q] = "serve" => q # p /\ q \in Daemons /\ loc[q] = "serve"
  BY EndsFact DEF Daemons, Live, Prog
<1>3. QED
  BY <1>1, <1>2 DEF DueOK, Daemons

LEMMA DueNext ==
  ASSUME TypeOK, DueOK, [Next]_vars
  PROVE  DueOK'
<1>1. loc \in [Pids -> Locs] /\ proc \in [Pids -> Procs]
  BY DEF TypeOK, LockTypeOK
<1>2. ASSUME NEW p \in Pids, DaemonBoots(p) \/ DaemonSends(p) \/ DaemonTraps(p) \/ DaemonIdle(p) PROVE DueOK'
  BY <1>1, <1>2, PidsAssumption DEF DaemonBoots, DaemonSends, DaemonTraps, DaemonIdle, DueOK, Daemons, Live, Prog
<1>3. ASSUME NEW p \in Pids, DaemonGivesUp(p) \/ PortGone(p) \/ (PortExits(p) /\ ~u[p].has) PROVE DueOK'
  BY <1>3, DueEnds DEF DaemonGivesUp, PortGone, PortExits
<1>4. ASSUME NEW p \in Pids, NEW prog, NEW l \in {"idle", "take"}, Begin(p, prog), Goto(p, l), UNCHANGED <<due, hung>>
      PROVE DueOK'
  BY <1>1, <1>4, DueKeeps DEF Begin, Goto
<1>5. ASSUME NEW p \in Pids, StartDaemon(p) \/ WatchRestart(p) PROVE DueOK'
  BY <1>4, <1>5 DEF StartDaemon, WatchRestart, RcTtjobd, watchdog
<1>6. ASSUME NEW p \in Pids, NEW prog, Start(p, prog) PROVE DueOK'
  BY <1>4, <1>6 DEF Start, watchdog
<1>7. ASSUME NEW p \in Pids, UNCHANGED <<due, hung, proc>>, NEW l \in Locs \ {"serve"}, Goto(p, l) PROVE DueOK'
  BY <1>1, <1>7, DueKeeps DEF Goto
<1>8. ASSUME UNCHANGED <<due, hung, proc, loc>> PROVE DueOK'
  BY <1>8, DueKeeps
<1>9. ASSUME NEW p \in Pids, LockStep(p) \/ DaemonRetries(p) \/ CallDaemon(p) PROVE DueOK'
  BY <1>8, <1>9 DEF LockStep, users, watchdog, DaemonRetries, CallDaemon,
                    TakeStep, ReleaseStep, Open, Write, Read, Judge, Unlink, ReleaseRead, ReleaseUnlink
<1>10. ASSUME NEW p \in Pids, NEW btl \in Servers, CallDirect(p, btl) PROVE DueOK'
  <2>1. PICK l \in {"take", "idle", "send", "boot"} : Goto(p, l)
    <3>1. CASE u[p].state = 0
      BY <1>10, <3>1 DEF CallDirect
    <3>2. CASE u[p].state = 2
      BY <1>10, <3>2 DEF CallDirect
    <3>3. CASE u[p].state = 1
      <4>1. CASE u[p].booted = btl
        BY <1>10, <3>3, <4>1 DEF CallDirect
      <4>2. CASE u[p].booted # btl
        BY <1>10, <3>3, <4>2 DEF CallDirect
      <4>3. QED
        BY <4>1, <4>2
    <3>4. u[p].state \in {0, 1, 2}
      BY Parts DEF Locals
    <3>5. QED
      BY <3>1, <3>2, <3>3, <3>4
  <2>2. l \in Locs \ {"serve"}
    BY DEF Locs
  <2>3. QED
    BY <1>7, <1>10, <2>1, <2>2 DEF CallDirect, watchdog
<1>11. ASSUME NEW p \in Pids,
              \/ PortTaken(p) \/ PortBoots(p) \/ PortMarks(p) \/ PortCalls(p) \/ (PortExits(p) /\ u[p].has)
              \/ Ssh(p)
       PROVE DueOK'
  <2>1. PICK l \in {"boot", "idle", "mark", "send", "exit", "take", "probe", "done"} : Goto(p, l)
    BY <1>11 DEF PortTaken, PortBoots, PortMarks, PortCalls, PortExits, Ssh,
                 SshCalls, SshClaimed, SshProbes, SshBoots, SshMarks, SshReleases, SshReturns
  <2>2. l \in Locs \ {"serve"}
    BY DEF Locs
  <2>3. UNCHANGED <<due, hung, proc>>
    BY <1>11 DEF PortTaken, PortBoots, PortMarks, PortCalls, PortExits, Ssh, watchdog,
                 SshCalls, SshClaimed, SshProbes, SshBoots, SshMarks, SshReleases, SshReturns
  <2>4. QED
    BY <1>7, <2>1, <2>2, <2>3
<1>12. ASSUME NEW p \in Pids, NEW st \in {"none", "zombie"}, Kill(p, st) PROVE DueOK'
  BY <1>12, DueEnds DEF Kill
<1>13. ASSUME NEW d \in Pids, NEW others \in SUBSET Pids, Reboot(d, others) PROVE DueOK'
  BY <1>13 DEF Reboot, DueOK, Daemons
<1>14. ASSUME NEW st \in {"none", "zombie"}, WatchKill(st) PROVE DueOK'
  <2>0. PICK k \in Pids : k = watch.p
    BY <1>14 DEF WatchKill, TypeOK
  <2>1. CASE Live(k)
    BY <1>14, <2>0, <2>1, DueEnds DEF WatchKill
  <2>2. CASE ~Live(k)
    BY <1>8, <1>14, <2>0, <2>2 DEF WatchKill
  <2>3. QED
    BY <2>1, <2>2
<1>15. CASE DeadlinePast
  BY <1>15 DEF DeadlinePast, DueOK, Daemons, Live, Prog
<1>16. CASE WatchRemove \/ UNCHANGED vars \/ \E same \in BOOLEAN : WatchTick(same)
  BY <1>8, <1>16 DEF WatchRemove, WatchTick, vars, users
<1>17. QED
  BY <1>2, <1>3, <1>5, <1>6, <1>9, <1>10, <1>11, <1>12, <1>13, <1>14, <1>15, <1>16
     DEF Next, Daemon, Port, Watch

\* Turned away: the file names a process that has the T425, or an heir of its owner's pid.
LEMMA BusyTold ==
  ASSUME "overlap" \notin Faults, TypeOK, Places, LockOK, NamedOK, [Next]_vars,
         NEW p \in Pids, take[p].at = "judge", take'[p].at = "busy"
  PROVE  Holds(take[p].seen.pid) \/ take[p].seen.pid \in heirs \/ lock # take[p].seen
<1>0. /\ take \in [Pids -> Takes] /\ take[p] \in Takes /\ u \in [Pids -> Locals] /\ proc \in [Pids -> Procs]
      /\ LockTypeOK /\ take[p] # take'[p] /\ take'[p].at \notin {"open", "idle", "relread"}
  BY DEF TypeOK, LockTypeOK
<1>1. ASSUME NEW q \in Pids, LockStep(q) PROVE q = p /\ Judge(p)
  <2>1. q = p
    BY <1>0, <1>1 DEF LockStep, TakeStep, ReleaseStep, Open, Write, Read, Judge, Unlink, ReleaseRead, ReleaseUnlink, At
  <2>2. QED
    BY <1>1, <2>1 DEF LockStep, TakeStep, ReleaseStep, Open, Write, Read, Judge, Unlink, ReleaseRead, ReleaseUnlink
<1>2. ASSUME NEW q \in Pids, \/ StartDaemon(q) \/ WatchRestart(q) \/ DaemonRetries(q) \/ SshCalls(q)
                             \/ \E btl \in Servers : CallDirect(q, btl)
      PROVE  FALSE
  <2>1. take' = take \/ take' = [take EXCEPT ![q] = Opening]
    BY <1>2 DEF StartDaemon, WatchRestart, RcTtjobd, DaemonRetries, SshCalls, CallDirect, StartTake, Opening
  <2>2. QED
    BY <1>0, <2>1 DEF Opening
<1>3. ASSUME NEW q \in Pids, \/ DaemonBoots(q) \/ PortTaken(q) \/ SshClaimed(q) \/ SshReturns(q)
                             \/ \E prog : Start(q, prog)
                             \/ \E st \in {"none", "zombie"} : Ends(q, st)
      PROVE  FALSE
  <2>1. take' = [take EXCEPT ![q] = Idle]
    BY <1>3 DEF DaemonBoots, PortTaken, SshClaimed, SshReturns, Start, Ends
  <2>2. QED
    BY <1>0, <2>1, Blank
<1>4. ASSUME NEW q \in Pids, SshReleases(q) \/ (PortExits(q) /\ u[q].has) PROVE FALSE
  <2>1. take' = [take EXCEPT ![q] = [Idle EXCEPT !.at = "relread"]]
    BY <1>4 DEF SshReleases, PortExits, StartRelease
  <2>2. QED
    BY <1>0, <2>1, Blank
<1>5. ASSUME NEW d \in Pids, NEW others \in SUBSET Pids, Reboot(d, others) PROVE FALSE
  <2>1. take'[p].at \in {"open", "idle"}
    BY <1>5, Blank DEF Reboot
  <2>2. QED
    BY <2>1
<1>6. take' # take
  BY <1>0
<1>7. ASSUME NEW st \in {"none", "zombie"}, WatchKill(st) PROVE FALSE
  <2>1. PICK k \in Pids : k = watch.p
    BY <1>7 DEF WatchKill, TypeOK
  <2>2. QED
    BY <1>3, <1>6, <1>7, <2>1 DEF WatchKill
<1>8. Judge(p)
  <2>1. ASSUME NEW q \in Pids, Daemon(q) PROVE FALSE
    BY <1>2, <1>3, <1>6, <2>1 DEF Daemon, DaemonSends, DaemonTraps, DaemonIdle, DaemonGivesUp
  <2>2. ASSUME NEW q \in Pids, Port(q) PROVE FALSE
    BY <1>2, <1>3, <1>4, <1>6, <2>2 DEF Port, CallDaemon, PortBoots, PortMarks, PortCalls, PortExits, PortGone
  <2>3. ASSUME NEW q \in Pids, Ssh(q) PROVE FALSE
    BY <1>2, <1>3, <1>4, <1>6, <2>3 DEF Ssh, SshProbes, SshBoots, SshMarks
  <2>4. ~Watch
    BY <1>2, <1>6, <1>7 DEF Watch, WatchTick, WatchRemove
  <2>5. ~DeadlinePast /\ ~UNCHANGED vars
    BY <1>6 DEF DeadlinePast, vars
  <2>6. QED
    BY <1>1, <1>3, <1>5, <2>1, <2>2, <2>3, <2>4, <2>5 DEF Next, Kill
<1>9. LiveOwner(p, take[p].seen)
  BY <1>0, <1>8 DEF Judge, Takes
<1>10. SUFFICES ASSUME lock = take[p].seen, lock.pid \notin heirs PROVE Holds(lock.pid)
  OBVIOUS
<1>11. PICK k \in Pids : k = lock.pid /\ k # p /\ Live(k) /\ lock.prog = Prog(k)
  BY <1>0, <1>9, <1>10 DEF LiveOwner, LockTypeOK, Files, Live, Prog
<1>12. take[k].at \notin Taking
  BY <1>11 DEF LockOK, OneTaker, Taking
<1>13. QED
  BY <1>10, <1>11, <1>12 DEF NamedOK

\* Killed by ttjobd-watch: a ttjobd whose deadline is long past, and that is in service, hangs.
LEMMA HungTold ==
  ASSUME "overlap" \notin Faults, TypeOK, Places, NamedOK, DueOK, [Next]_vars,
         watch.at = "sleep", watch'.at = "kill", watch'.p \in Daemons
  PROVE  hung = watch'.p
<1>1. PICK same \in BOOLEAN : WatchTick(same)
  <2>1. watch' # watch
    OBVIOUS
  <2>2. ASSUME NEW p \in Pids, LockStep(p) \/ Daemon(p) \/ Port(p) \/ Ssh(p) PROVE FALSE
    BY <2>1, <2>2, DaemonRest, PortRest, SshRest DEF RestTypes, LockStep, watchdog
  <2>3. ASSUME Watch PROVE \E same \in BOOLEAN : WatchTick(same)
    BY <2>3 DEF Watch, WatchKill, WatchRemove, WatchRestart
  <2>4. QED
    BY <2>1, <2>2, <2>3 DEF Next, DeadlinePast, Start, watchdog, Kill, Reboot, vars
<1>2. Named /\ same /\ due = 2 /\ watch'.p = lock.pid /\ (take[lock.pid].at = "won" => hung = lock.pid) /\ Quiet
  <2>1. Named /\ Stuck(same) /\ watch' = [at |-> "kill", p |-> lock.pid, last |-> NoLast]
    <3>1. \A x : [watch EXCEPT !.last = x].at = watch.at
      BY DEF TypeOK
    <3>2. QED
      BY <1>1, <3>1 DEF WatchTick
  <2>2. QED
    BY <1>1, <2>1 DEF WatchTick, Stuck
<1>3. PICK k \in Pids : k = lock.pid /\ Live(k) /\ Prog(k) = "ttjobd" /\ (take[k].at = "won" => hung = k)
  BY <1>2 DEF Daemons
<1>4. take[k].at \notin Taking
  BY <1>2, QuietFact
<1>5. Holds(k)
  BY <1>2, <1>3, <1>4 DEF NamedOK, Named
<1>6. loc[k] = "serve" \/ hung = k
  <2> SUFFICES ASSUME hung # k PROVE loc[k] = "serve"
    OBVIOUS
  <2>1. ~Away(k) /\ ~AtExit(k)
    BY <1>3 DEF Away, AtExit
  <2>2. ~AtTake(k)
    BY <1>3, <1>4, <1>5 DEF AtTake, Holds, Taking
  <2>3. AtWork(k)
    BY <2>1, <2>2 DEF Places
  <2>4. QED
    BY <1>3, <2>3 DEF AtWork
<1>7. QED
  BY <1>2, <1>3, <1>6 DEF DueOK, Daemons

-----------------------------------------------------------------------------
(***************************************************************************)
(* The theorems.                                                           *)
(***************************************************************************)
\* Every program keeps to its places, overlap or not: one that has the T425 in its variables is live, and
\* the deadline is long past only while every ttjobd in service hangs (t4call.c, atwx25519.c, ttjobd.c main).
THEOREM PlacesKept == Spec => [](TypeOK /\ Places /\ DueOK)
<1>1. Init => TypeOK /\ Places /\ DueOK
  BY TypeInit, PlacesInit DEF Init, DueOK
<1>2. TypeOK /\ Places /\ DueOK /\ [Next]_vars => (TypeOK /\ Places /\ DueOK)'
  BY PlacesNext, DueNext
<1>3. QED
  BY <1>1, <1>2, PTL DEF Spec

\* The inductive invariant: who holds the lock is who its file names, takes do not overlap, what a take
\* has read is still so when it acts on it, and the board runs what its user booted (t4lock.c, t4call.c).
THEOREM InvKept ==
  ASSUME "overlap" \notin Faults
  PROVE  Spec => []Inv
<1>1. Init => Inv
  BY TypeInit, PlacesInit, LockInit, Blank DEF Inv, LockOK, Init, BoardOK
<1>2. Inv /\ [Next]_vars => Inv'
  <2> SUFFICES ASSUME Inv, [Next]_vars PROVE Inv'
    OBVIOUS
  <2>1. TypeOK /\ Places /\ LockOK /\ BoardOK
    BY DEF Inv, LockOK
  <2>2. TypeOK' /\ Places' /\ LockOK' /\ BoardOK'
    BY <2>1, PlacesNext, LockNext, BoardNext
  <2>3. QED
    BY <2>2 DEF Inv, LockOK
<1>3. QED
  BY <1>1, <1>2, PTL DEF Spec

\* No two processes have the T425 at once, whatever was killed, left as a zombie or survived a
\* reboot, and a port sends only to the server it has booted itself (t4lock.c, t4call.c).
THEOREM OneOwnerAlways ==
  ASSUME "overlap" \notin Faults
  PROVE  Spec => []OneOwner
<1>1. Inv => OneOwner
  <2> SUFFICES ASSUME Inv PROVE OneOwner
    OBVIOUS
  <2>1. MutualExclusion
    BY OneHolder DEF Inv, MutualExclusion
  <2>2. ServerMine
    BY DEF Inv, BoardOK, ServerMine
  <2>3. QED
    BY <2>1, <2>2 DEF Inv, OneOwner
<1>2. QED
  BY <1>1, InvKept, PTL
\* What t4lock_take and ttjobd-watch say of another process is true of it: a take is turned away only
\* by a process that has the T425, or that was given the pid of an owner that died, and only a ttjobd
\* that hangs is killed.
THEOREM ToldTrulyAlways ==
  ASSUME "overlap" \notin Faults
  PROVE  Spec => ToldTruly
<1>1. Init => Told
  BY NobodysFile, PidsAssumption DEF Init, Told, NamedOK, DueOK
<1>2. Inv /\ Told /\ [Next]_vars => Told'
  BY NamedNext, DueNext DEF Inv, LockOK, Told
<1>3. Inv /\ Told /\ [Next]_vars =>
        [\A p \in Pids : take[p].at = "judge" /\ take'[p].at = "busy" =>
           Holds(take[p].seen.pid) \/ take[p].seen.pid \in heirs \/ lock # take[p].seen]_vars
  BY BusyTold DEF Inv, LockOK, Told
<1>4. Inv /\ Told /\ [Next]_vars =>
        [watch.at = "sleep" /\ watch'.at = "kill" => watch'.p \notin Daemons \/ hung = watch'.p]_vars
  BY HungTold DEF Inv, LockOK, Told
<1>5. Spec => []Told
  BY <1>1, <1>2, InvKept, PTL DEF Spec
<1>6. QED
  BY <1>3, <1>4, <1>5, InvKept, PTL DEF Spec, ToldTruly, BusyIsTrue, SparesHealthy
=============================================================================
