-------------------------------- MODULE TTPkg --------------------------------
(***************************************************************************)
(* ttpkg, the package window: the table of packages it shows (pkgmodel.c), *)
(* the list, selection and scroll position over it and the event loop      *)
(* (ttpkg.c), and the one yum it runs at a time (runner.c).  Every handler *)
(* of the loop is one action; yum runs beside it, changes the rpm database *)
(* and then writes installed.tsv, and may be stopped between the two or    *)
(* fail to write it.                                                       *)
(* yum's own steps are those of module Yum, here as far as the window can  *)
(* see them: the cached index, the database, installed.tsv and the exit.   *)
(***************************************************************************)
EXTENDS Integers, Sequences, FiniteSets, SequencesExt

-----------------------------------------------------------------------------
(***************************************************************************)
(* The three copies of rpm's version order: pkg_vercmp of the package      *)
(* window (pkgmodel.c), vercmp of update.awk, and rpmvercmp of the mirror  *)
(* (tt_rpm.py).  A version string is a sequence of characters: the digits  *)
(* 0..9, letters above them in strcmp's order, and Dot for every separator.*)
(* The C copy compares digit runs as strings with their zeros stripped, so *)
(* that no length overflows; the other two compare them as numbers.        *)
(***************************************************************************)
\* Any character that is neither a digit nor a letter.
Dot == -1

Sign(n) == IF n > 0 THEN 1 ELSE IF n < 0 THEN -1 ELSE 0

Kind(c) == IF c = Dot THEN "none" ELSE IF c <= 9 THEN "num" ELSE "alpha"

\* seg(): the runs of digits and the runs of letters, in order.
Seg(s) ==
  LET same(i, j) == \A k \in i..j : Kind(s[k]) = Kind(s[i])
      starts == {i \in DOMAIN s : Kind(s[i]) # "none" /\ (i > 1 => ~same(i - 1, i))}
      last(i) == CHOOSE j \in i..Len(s) : same(i, j) /\ (j < Len(s) => ~same(i, j + 1))
      at == SetToSortSeq(starts, <)
  IN [n \in DOMAIN at |-> [num |-> Kind(s[at[n]]) = "num", str |-> SubSeq(s, at[n], last(at[n]))]]

\* What a sequence comparison returns: the first differing place decides,
\* and without one the longer sequence is the greater.
ByPlace(x, y, Cmp(_, _)) ==
  LET differ == {i \in 1..(IF Len(x) < Len(y) THEN Len(x) ELSE Len(y)) : Cmp(x[i], y[i]) # 0}
  IN IF differ = {} THEN Sign(Len(x) - Len(y))
     ELSE LET i == CHOOSE j \in differ : \A k \in differ : j <= k IN Cmp(x[i], y[i])

StrCmp(x, y) == ByPlace(x, y, LAMBDA c, d : Sign(c - d))

\* The digits of a run without its leading zeros.
Stripped(s) ==
  LET live == {i \in DOMAIN s : s[i] # 0}
  IN IF live = {} THEN <<>> ELSE SubSeq(s, CHOOSE i \in live : \A j \in live : i <= j, Len(s))

\* pkg_vercmp's comparison of two runs: kind, then length, then strcmp.
CRun(x, y) ==
  IF x.num # y.num THEN (IF x.num THEN 1 ELSE -1)
  ELSE IF ~x.num THEN StrCmp(x.str, y.str)
  ELSE LET p == Stripped(x.str)
           q == Stripped(y.str)
       IN IF Len(p) # Len(q) THEN Sign(Len(p) - Len(q)) ELSE StrCmp(p, q)

PkgVercmp(a, b) == ByPlace(Seg(a), Seg(b), CRun)

Number(s) ==
  LET upTo[i \in 0..Len(s)] == IF i = 0 THEN 0 ELSE 10 * upTo[i - 1] + s[i]
  IN upTo[Len(s)]

\* update.awk's and tt_rpm.py's comparison of two runs.
NumRun(x, y) ==
  IF x.num # y.num THEN (IF x.num THEN 1 ELSE -1)
  ELSE IF x.num THEN Sign(Number(x.str) - Number(y.str)) ELSE StrCmp(x.str, y.str)

Rpmvercmp(a, b) == ByPlace(Seg(a), Seg(b), NumRun)

\* update.awk's rule: the version decides, the release only breaks its tie.
NewerOnMirror(p, q) ==
  LET c == Rpmvercmp(p.ver, q.ver)
  IN c > 0 \/ (c = 0 /\ Rpmvercmp(p.rel, q.rel) > 0)

\* The window's rule: one comparison of "version-release".
VerRel(p) == p.ver \o <<Dot>> \o p.rel
NewerInWindow(p, q) == PkgVercmp(VerRel(p), VerRel(q)) > 0

-----------------------------------------------------------------------------
(***************************************************************************)
(* The window.                                                             *)
(***************************************************************************)
CONSTANTS
  NoFile,      \* a file that is not there
  Order,       \* the package names, in the order the index and rpm -qa list them
  Valid,       \* the names is_valid_pkg_name accepts
  Indexes,     \* the index files the mirror may serve: functions from names to versions
  Databases,   \* the installed sets the machine may start with, likewise
  Patterns,    \* the find texts, each the set of names it matches
  RowCounts,   \* how many rows of the list a window can show
  Positions,   \* the places a user may drag the slider to, of 1..1000
  MAX_PKGS     \* rows the table holds

Names == {Order[i] : i \in DOMAIN Order}

\* The window is checked as shipped: the table holds at least one row and
\* the names a user can pick are package names.
ASSUME TableAssumption == MAX_PKGS \in Nat \ {0} /\ Valid \subseteq Names

Filters == {"all", "installed", "updates", "not_installed"}
Verbs == {"install", "update", "remove", "update_all", "refresh"}
None == "none"

VARIABLES
  index,     \* $CACHE/index.tsv
  db,        \* the rpm database
  listing,   \* $CACHE/installed.tsv, or NoFile
  yum,       \* the child: its verb, argument, step, whether TERM was sent, its exit
  cut,       \* installed.tsv was not written after the last rpm: the yum was stopped, or it failed
  mode,      \* "loop", "closing" (in runner_finish for WM_CLOSED) or "ended"
  table,     \* pkgs[0..total_pkgs - 1]
  nIndex,    \* num_index_pkgs
  unknown,   \* installed_unknown
  visible,   \* visible_indices
  sel,       \* selected_index + 1, so 0 is none
  filter, find, top, rows,
  busy,      \* ttpkg.c's child_running
  runner,    \* runner.c's child_running
  cancelled, \* user_cancelled
  last       \* last_action, as far as it is told apart: was it Refresh?

machine == <<index, db, listing, yum, cut>>
list == <<table, nIndex, unknown, visible, sel, filter, find, top, rows>>
control == <<mode, busy, runner, cancelled, last>>
vars == <<machine, list, control>>

NoYum == [verb |-> None, arg |-> None, step |-> "none", term |-> FALSE, rc |-> 0]

-----------------------------------------------------------------------------
(* pkgmodel.c *)

\* The names of a file's lines, in order.
InOrder(f) == SelectSeq(Order, LAMBDA n : n \in DOMAIN f)
Prefix(s, n) == SubSeq(s, 1, IF Len(s) < n THEN Len(s) ELSE n)

\* pkg_load_index: a missing file is an empty table.
LoadIndex(f) ==
  LET row(n) == [name |-> n, vr |-> f[n], state |-> "not_installed"]
  IN IF f = NoFile THEN <<>>
     ELSE LET ns == Prefix(InOrder(f), MAX_PKGS) IN [i \in DOMAIN ns |-> row(ns[i])]

\* pkg_apply_installed: mark the listed rows, append the installed packages
\* the index does not have while there is room.
Applied(t, f) ==
  LET known == {t[i].name : i \in DOMAIN t}
      State(r) == IF r.name \notin DOMAIN f THEN r.state
                  ELSE IF NewerInWindow(r.vr, f[r.name]) THEN "newer" ELSE "installed"
      local == SelectSeq(InOrder(f), LAMBDA n : n \notin known)
      row(n) == [name |-> n, vr |-> f[n], state |-> "local_only"]
  IN Prefix([i \in DOMAIN t |-> [t[i] EXCEPT !.state = State(t[i])]]
              \o [i \in DOMAIN local |-> row(local[i])], MAX_PKGS)

-----------------------------------------------------------------------------
(* The list over the table *)

MatchStateFilter(s, f) ==
  CASE f = "all" -> TRUE
    [] f = "installed" -> s # "not_installed"
    [] f = "updates" -> s = "newer"
    [] f = "not_installed" -> s = "not_installed"

Visible(t, f, p) ==
  SelectSeq([i \in DOMAIN t |-> i],
            LAMBDA i : MatchStateFilter(t[i].state, f) /\ t[i].name \in p)

Clamp_NoFloor(n, count, r) == IF n > count - r THEN count - r ELSE n

Clamp(n, count, r) ==
  LET most == IF count > r THEN count - r ELSE 0
  IN IF n > most THEN most ELSE IF n < 0 THEN 0 ELSE n

\* Mutant: the selection keeps its row number when the list changes.
Kept_Place(shown) == IF sel \in DOMAIN shown THEN sel ELSE 0

\* The selection is carried over as a place in the table, not as a name.
Kept(shown) ==
  LET was == IF sel \in DOMAIN visible THEN visible[sel] ELSE 0
  IN IF \E j \in DOMAIN shown : shown[j] = was THEN CHOOSE j \in DOMAIN shown : shown[j] = was ELSE 0

\* rebuild_visible_list over a table t, from scroll position n.
Rebuild(t, f, p, n) ==
  \E shown \in {Visible(t, f, p)} :
     /\ table' = t
     /\ filter' = f
     /\ find' = p
     /\ visible' = shown
     /\ sel' = Kept(shown)
     /\ top' = Clamp(n, Len(shown), rows)
     /\ UNCHANGED rows

\* reload_installed: index rows forget their state, local rows are dropped,
\* and without installed.tsv nothing is marked.
Forgotten(t, n) == [i \in 1..n |-> [t[i] EXCEPT !.state = "not_installed"]]

ReloadInstalled(t, n) ==
  /\ unknown' = (listing = NoFile)
  /\ nIndex' = n
  /\ \E marked \in {IF listing = NoFile THEN Forgotten(t, n) ELSE Applied(Forgotten(t, n), listing)} :
       Rebuild(marked, filter, find, top)

-----------------------------------------------------------------------------
(* yum, in the child *)

Changed(f, ns, g) == [n \in DOMAIN f \cup ns |-> IF n \in ns THEN g[n] ELSE f[n]]
Without(f, ns) == [n \in DOMAIN f \ ns |-> f[n]]

\* The packages an rpm call is asked to add or replace, or to erase.
Plan ==
  LET listed == IF index = NoFile THEN {} ELSE DOMAIN index
      newer == {n \in listed \cap DOMAIN db : NewerOnMirror(index[n], db[n])}
  IN CASE yum.verb = "install" -> ({yum.arg} \cap listed) \ DOMAIN db
       [] yum.verb = "update" -> newer \cap {yum.arg}
       [] yum.verb = "update_all" -> newer
       [] yum.verb = "remove" -> {yum.arg}

Exit(rc) == [yum EXCEPT !.step = "exit", !.rc = rc]

\* makecache, or the fresh_cache of an install or update: the cached index is
\* recent enough, is replaced, or cannot be fetched.
YumCache ==
  /\ yum.step = "start" /\ yum.verb # "remove" /\ ~yum.term
  /\ \/ \E f \in Indexes : /\ index' = f
                           /\ yum' = IF yum.verb = "refresh" THEN Exit(0) ELSE [yum EXCEPT !.step = "rpm"]
     \/ /\ index # NoFile /\ yum.verb # "refresh"
        /\ yum' = [yum EXCEPT !.step = "rpm"]
        /\ UNCHANGED index
     \/ /\ yum' = Exit(1)
        /\ UNCHANGED index
  /\ UNCHANGED <<db, listing, cut, list, control>>

\* rpm -i, -U or -e over the plan.  It may fail, and a failed one may have
\* changed some of the packages; with an empty plan yum stops by itself.
\* TERM reaches rpm too, which may still finish the package it is at.
YumRpm ==
  /\ yum.step = (IF yum.verb = "remove" THEN "start" ELSE "rpm")
  /\ IF Plan = {}
     THEN /\ yum' = Exit(IF yum.verb = "install" /\ yum.arg \notin DOMAIN db THEN 1 ELSE 0)
          /\ UNCHANGED db
     ELSE \E done \in SUBSET Plan :
            /\ db' = IF yum.verb = "remove" THEN Without(db, done) ELSE Changed(db, done, index)
            /\ yum' = [yum EXCEPT !.step = "write",
                                  !.rc = IF done = Plan /\ Plan \subseteq (DOMAIN db \cup DOMAIN db') THEN 0 ELSE 1]
  /\ UNCHANGED <<index, listing, cut, list, control>>

\* Mutant: yum writes its list only after a success.
YumWrites_OnOk ==
  /\ yum.step = "write" /\ ~yum.term
  /\ listing' = IF yum.rc = 0 THEN db ELSE listing
  /\ cut' = FALSE
  /\ yum' = Exit(yum.rc)
  /\ UNCHANGED <<index, db, list, control>>

\* write_installed, after every rpm call whether it succeeded or not.  When rpm -qa or mv fails the
\* old list stays, and yum's exit does not tell.
YumWrites ==
  /\ yum.step = "write" /\ ~yum.term
  /\ \/ listing' = db /\ cut' = FALSE
     \/ UNCHANGED listing /\ cut' = TRUE
  /\ yum' = Exit(yum.rc)
  /\ UNCHANGED <<index, db, list, control>>

\* A package the index does not have is asked of the build service; ttmqtt pub waits for the broker's
\* answer without a time-out (module Yum's Request).
YumHangs ==
  /\ yum.step = "rpm" /\ yum.verb = "install" /\ yum.arg \notin DOMAIN index \cup DOMAIN db
  /\ yum' = [yum EXCEPT !.step = "hang"]
  /\ UNCHANGED <<index, db, listing, cut, list, control>>

\* TERM ends the shell wherever it is.
YumDies ==
  /\ yum.term /\ yum.step \in {"start", "rpm", "write", "hang"}
  /\ yum' = Exit(1)
  /\ cut' = (cut \/ yum.step = "write")
  /\ UNCHANGED <<index, db, listing, list, control>>

-----------------------------------------------------------------------------
(* runner.c *)

RunnerAllowed(verb, arg) == verb \in {"install", "update", "remove"} => arg \in Valid

\* runner_finish has reaped the child and closed the pipe.
Reaped == yum' = NoYum /\ runner' = FALSE

\* runner_cancel: TERM to the whole process group of a child that still runs.
Terminated == [yum EXCEPT !.term = yum.step # "exit"]

-----------------------------------------------------------------------------
(* ttpkg.c's event loop *)

Looping == mode = "loop"

\* start_runner_action; without fork, or for a name runner_allowed refuses,
\* only a line of output appears.
Start(verb, arg) ==
  /\ cancelled' = FALSE
  /\ \/ /\ ~runner /\ RunnerAllowed(verb, arg)
        /\ yum' = [verb |-> verb, arg |-> arg, step |-> "start", term |-> FALSE, rc |-> 0]
        /\ runner' = TRUE /\ busy' = TRUE
     \/ UNCHANGED <<yum, runner, busy>>

\* The six buttons: while a yum runs only Cancel does something.
Button(b) ==
  /\ Looping /\ ~busy
  /\ last' = (b = "refresh")
  /\ IF b \in {"install", "update", "remove"}
     THEN IF sel \in DOMAIN visible
          THEN Start(b, table[visible[sel]].name)
          ELSE UNCHANGED <<cancelled, yum, runner, busy>>
     ELSE Start(b, None)
  /\ UNCHANGED <<index, db, listing, cut, list, mode>>

Cancel ==
  /\ Looping /\ busy
  /\ cancelled' = TRUE
  /\ yum' = Terminated
  /\ UNCHANGED <<index, db, listing, cut, list, mode, busy, runner, last>>

\* The line the output pane ends with.
Verdict == IF cancelled THEN "CANCELLED" ELSE IF yum.rc = 0 THEN "OK" ELSE "FAILED"

\* runner_poll has found the pipe at its end.
TimerDue == Looping /\ busy /\ yum.step = "exit"

\* The timer: the child is reaped, the verdict printed, after Refresh the
\* index is loaded again, and in every case the installed set is.
Timer ==
  /\ TimerDue
  /\ Reaped
  /\ busy' = FALSE
  /\ cancelled' = FALSE
  /\ \E t \in {IF last THEN LoadIndex(index) ELSE table} :
       ReloadInstalled(t, IF last THEN Len(t) ELSE nIndex)
  /\ UNCHANGED <<index, db, listing, cut, mode, last>>

\* WM_CLOSED: a running yum is told to stop and waited for.
Close ==
  /\ Looping
  /\ mode' = IF busy THEN "closing" ELSE "ended"
  /\ yum' = IF busy THEN Terminated ELSE yum
  /\ UNCHANGED <<index, db, listing, cut, list, busy, runner, cancelled, last>>

Closed ==
  /\ mode = "closing" /\ yum.step = "exit"
  /\ Reaped
  /\ busy' = FALSE
  /\ mode' = "ended"
  /\ UNCHANGED <<index, db, listing, cut, list, cancelled, last>>

\* The place in the list that is drawn on row r of the window, 0 below the last.
Drawn(r) == IF top + r <= Len(visible) THEN top + r ELSE 0

\* A click on a row.
Select ==
  /\ Looping
  /\ \E r \in 1..rows : sel' = Drawn(r)
  /\ UNCHANGED <<machine, control, table, nIndex, unknown, visible, filter, find, top, rows>>

SetFilter ==
  /\ Looping
  /\ \E f \in Filters \ {filter} : Rebuild(table, f, find, 0)
  /\ UNCHANGED <<machine, control, nIndex, unknown>>

\* A key: one more letter, Backspace or Escape changes the find text.
Find ==
  /\ Looping
  /\ \E p \in Patterns \ {find} : Rebuild(table, filter, p, 0)
  /\ UNCHANGED <<machine, control, nIndex, unknown>>

\* WM_SIZED and WM_FULLED.
Resize ==
  /\ Looping
  /\ \E r \in RowCounts : rows' = r /\ top' = Clamp(top, Len(visible), r)
  /\ UNCHANGED <<machine, control, table, nIndex, unknown, visible, sel, filter, find>>

\* WM_ARROWED: a line or a page.
Arrow ==
  /\ Looping
  /\ LET page == IF rows > 1 THEN rows - 1 ELSE 1
     IN \E d \in {-page, -1, 1, page} : top' = Clamp(top + d, Len(visible), rows)
  /\ UNCHANGED <<machine, control, table, nIndex, unknown, visible, sel, filter, find, rows>>

\* Where update_slider draws the slider, and the position a drag asks for.
SliderPos(t, most) == 1 + (t * 999 + most \div 2) \div most
NewScroll(pos, most) == ((pos - 1) * most + 499) \div 999

\* WM_VSLID.
Slide ==
  /\ Looping /\ Len(visible) > rows
  /\ \E pos \in Positions : top' = Clamp(NewScroll(pos, Len(visible) - rows), Len(visible), rows)
  /\ UNCHANGED <<machine, control, table, nIndex, unknown, visible, sel, filter, find, rows>>

-----------------------------------------------------------------------------
Init ==
  /\ index \in Indexes \cup {NoFile}
  /\ db \in Databases
  /\ listing \in {db, NoFile}
  /\ yum = NoYum /\ cut = FALSE
  /\ mode = "loop"
  /\ LET t == LoadIndex(index)
     IN /\ nIndex = Len(t)
        /\ table = IF listing = NoFile THEN t ELSE Applied(t, listing)
  /\ unknown = (listing = NoFile)
  /\ filter = "all" /\ find = Names
  /\ visible = [i \in DOMAIN table |-> i]
  /\ sel = 0 /\ top = 0 /\ rows \in RowCounts
  /\ busy = FALSE /\ runner = FALSE /\ cancelled = FALSE /\ last = FALSE

YumStep == YumCache \/ YumRpm \/ YumWrites \/ YumHangs \/ YumDies

Handler ==
  \/ \E b \in Verbs : Button(b)
  \/ Cancel \/ Timer \/ Close \/ Closed \/ Select \/ SetFilter \/ Find \/ Resize \/ Arrow \/ Slide

Next == YumStep \/ Handler

Spec == Init /\ [][Next]_vars

\* The event loop comes back every 100 ms while a yum runs, and every yum
\* goes on that does not hang: its other waits have timeouts.  Written out as weak fairness of
\* Timer, of YumStep and of Closed: each is enabled exactly when the state
\* predicate holds, and the only step that makes the change named is its own.
YumAlive == yum.step \in {"start", "rpm", "write"} \/ (yum.step = "hang" /\ yum.term)
FairSpec ==
  /\ Spec
  /\ ([]<>~TimerDue) \/ ([]<><<TimerDue /\ Looping' /\ ~busy'>>_vars)
  /\ ([]<>~YumAlive) \/ ([]<><<YumAlive /\ yum'.step # yum.step>>_vars)
  /\ WF_vars(Closed)

-----------------------------------------------------------------------------
Rows == [name : Names, vr : UNION {{f[n] : n \in DOMAIN f} : f \in Indexes \cup Databases},
         state : {"not_installed", "installed", "newer", "local_only"}]

\* The window's state has its type: the table never outgrows pkgs[], and the
\* index rows come first (ttpkg.c:31-49, runner.c:11-13).
TypeOK ==
  /\ table \in Seq(Rows) /\ Len(table) <= MAX_PKGS /\ nIndex \in 0..Len(table)
  /\ visible \in Seq(1..MAX_PKGS) /\ sel \in 0..MAX_PKGS
  /\ filter \in Filters /\ find \in Patterns /\ top \in 0..MAX_PKGS /\ rows \in RowCounts
  /\ yum.verb \in Verbs \cup {None} /\ yum.step \in {"none", "start", "rpm", "write", "hang", "exit"}
  /\ {unknown, cut, busy, runner, cancelled, last, yum.term} \subseteq BOOLEAN
  /\ mode \in {"loop", "closing", "ended"}

\* The rows on screen are exactly the rows of the present table that pass the
\* filter and the find text, and the first one shown is one of them: no
\* handler, the reload after a yum included, leaves an index of an older
\* table or a scroll position past the end behind (ttpkg.c:153-185, 687-723).
ListTrue ==
  /\ visible = Visible(table, filter, find)
  /\ top = Clamp(top, Len(visible), rows)
  /\ sel \in 0..Len(visible)

\* While no yum runs, the marks are those of the rpm database itself, unless
\* the last yum to call rpm was stopped before write_installed or that one
\* failed: a yum that failed half way is shown as far as it came
\* (yum:61-67, ttpkg.c:204-236, 704-717).
MarksTrue ==
  mode = "loop" /\ ~busy /\ ~cut /\ ~unknown =>
    /\ \A i \in DOMAIN table :
         LET n == table[i].name
         IN /\ (table[i].state = "not_installed") <=> (n \notin DOMAIN db)
            /\ table[i].state = "newer" => NewerInWindow(table[i].vr, db[n])
            /\ table[i].state = "installed" => ~NewerInWindow(table[i].vr, db[n])
    /\ Len(table) < MAX_PKGS => DOMAIN db \subseteq {table[i].name : i \in DOMAIN table}

\* The runner and the window agree on whether a yum runs, so that a button
\* that looks enabled starts one and Cancel always has a child to stop
\* (ttpkg.c:74, runner.c:13).
FlagsAgree == busy = runner /\ (busy <=> yum.step # "none")

\* Only a click moves the selection to another package; what else happens
\* keeps or clears it (ttpkg.c:155-177).  But when a yum has ended the
\* selection stays on its row of the table, and there may be another package
\* in that row: after Refresh in any, else among the local rows only, as the
\* rows of the index keep their places.
SelectedName == IF sel \in DOMAIN visible THEN table[visible[sel]].name ELSE None
Clicked == UNCHANGED <<table, visible>> /\ busy' = busy
RowRefilled == /\ busy /\ ~busy' /\ sel \in DOMAIN visible /\ visible'[sel'] = visible[sel]
               /\ last \/ visible[sel] > nIndex
SelectionFollows ==
  [][SelectedName' \notin {None, SelectedName} => Clicked \/ RowRefilled]_vars

\* After the verdict OK the list shows what was asked for: an installed
\* package as installed, a removed one as not installed or gone, unless
\* installed.tsv could not be written: yum ends as well then
\* (ttpkg.c:700-717 over yum:61-67, 153-159, 184-189).
OkShown ==
  [][(Verdict = "OK" /\ busy /\ ~busy' /\ Looping' /\ ~cut /\ ~unknown') =>
       \A i \in DOMAIN table' :
         table'[i].name = yum.arg =>
           CASE yum.verb = "install" -> table'[i].state # "not_installed"
             [] yum.verb = "remove" -> table'[i].state = "not_installed"
             [] OTHER -> TRUE]_vars

\* The buttons come back after every action and a closed window goes away,
\* whatever the yum was doing, unless it waits for a broker that is silently
\* dead: then Cancel is needed (ttpkg.c:687-723, 744-753).
BusyEnds == busy ~> ~busy \/ (yum.step = "hang" /\ ~yum.term)

\* The window shows the table and the table the database, in every state in which it can be looked at.
WindowTrue == TypeOK /\ ListTrue /\ MarksTrue /\ FlagsAgree

\* An action is followed to its end and its end is shown: the selection stays on its package or
\* its row, OK means done, and the buttons come back.
ActionsShown == SelectionFollows /\ OkShown /\ BusyEnds
=============================================================================
