------------------------------ MODULE BootDisk ------------------------------
(***************************************************************************)
(* The TT's boot card and the firmware that reads it.  The card tool       *)
(* applies a plan (or the plan that tt_tospkg.py makes of a recipe) to the *)
(* partitions and writes a new image; the card then goes into the machine  *)
(* and one of the ROMs runs.                                               *)
(***************************************************************************)
EXTENDS AtariFat, Firmware

CONSTANTS
    Drives,     \* in the order of the partition table
    Slots,      \* the table: four drives or "-"
    Cards,      \* the images the tool may start from: [Drives -> image]
    Ops,        \* the operations a plan may hold
    Recipes,    \* the recipes of tt_tospkg.py
    Machines,   \* the hardware a ROM may find
    MaxOps      \* operations in one plan

ASSUME PlanAssumption == MaxOps \in Nat

VARIABLES
    card,       \* the source image
    trees,      \* parts: each drive's root kids
    want,       \* what the plan asks for: the files of the card as a set of [path, data]
    ops,        \* operations applied
    todo,       \* paths the recipe's plan has still to delete
    pkg,        \* the recipe in use and the package made with it
    twin,       \* a plan put a directory beside a file of its name
    tool,       \* "plan", "written", or why nothing was written
    out         \* the image written

toolVars == <<card, trees, want, ops, todo, pkg, twin, tool, out>>
bootVars == <<toolVars, firmwareVars>>

NoPkg == [used |-> FALSE, files |-> {}, dir |-> <<>>, extra |-> {}]
AllFiles(ts) == UNION {Files(ts[d], d) : d \in Drives}

BootInit ==
    /\ card \in Cards
    /\ trees = [d \in Drives |-> Part(card[d])]
    /\ want = AllFiles(trees)
    /\ ops = 0 /\ todo = {} /\ pkg = NoPkg /\ twin = FALSE /\ out = card
    /\ machine \in Machines
    /\ rom \in machine.roms
    /\ tool = IF rom = 4 THEN "plan" ELSE "unused"
    /\ fw = FwInit /\ bus = Free /\ console = <<>>

-----------------------------------------------------------------------------
(* What an operation means for the files of the card, whatever the tree. *)

Dropped(files, p) == {f \in files : ~IsPrefix(p, f.path)}
Moved(files, p, q) ==
    {[f EXCEPT !.path = q \o SubSeq(f.path, Len(p) + 1, Len(f.path))] :
        f \in {g \in files : IsPrefix(p, g.path)}}
Below(node, p) == IF node.dir THEN {w \in Walk(node.kids, p) : Last(w.path) # "\\"}
                  ELSE {[path |-> p, data |-> node.data]}

Meant(o, files) ==
    CASE o.op = "move" -> Dropped(files, o.path) \union Moved(files, o.path, o.dst)
      [] o.op = "del" -> Dropped(files, o.path)
      [] o.op = "mkdir" -> files
      [] o.op = "put" -> Dropped(files, o.path) \union Below(HostNode(o.host), o.path)

-----------------------------------------------------------------------------
(* The tool *)

RECURSIVE HasTwins(_)
HasTwins(kids) ==
    \E i \in 1 .. Len(kids) :
        \/ HasTwins(kids[i].kids)
        \/ \E j \in 1 .. Len(kids) : i # j /\ kids[i].name = kids[j].name

NewDir == Node("", TRUE, <<>>, <<>>)

Less(ts, d, popped) == [ts EXCEPT ![d] = popped.kids]

\* One operation on the trees: [ok, trees].
Applied(o, ts) ==
    LET d == Head(o.path) p == Tail(o.path)
        popped == Pop(ts[d], p)
        less == Less(ts, d, popped)
        e == Head(o.dst)
        added == CASE o.op = "move" -> Add(less[e], Tail(o.dst), popped.node, FALSE)
                   [] o.op = "mkdir" -> Add(ts[d], p, NewDir, FALSE)
                   [] o.op = "put" -> Add(ts[d], p, HostNode(o.host), TRUE)
                   [] OTHER -> popped
    IN  CASE o.op = "del" -> [ok |-> popped.ok, trees |-> less]
          [] o.op = "move" -> [ok |-> popped.ok /\ added.ok, trees |-> [less EXCEPT ![e] = added.kids]]
          [] OTHER -> [ok |-> added.ok, trees |-> [ts EXCEPT ![d] = added.kids]]

Apply(o) ==
    /\ ops' = ops + 1
    /\ LET done == Applied(o, trees)
       IN  IF ~done.ok THEN tool' = "refused" /\ UNCHANGED <<trees, want, twin>>
           ELSE /\ trees' = done.trees
                /\ want' = Meant(o, want)
                /\ twin' = (twin \/ \E d \in Drives : HasTwins(done.trees[d]))
                /\ UNCHANGED tool
    /\ UNCHANGED <<card, out, firmwareVars>>

PlanOp(o) ==
    /\ tool = "plan" /\ ~pkg.used /\ ops < MaxOps
    /\ Apply(o)
    /\ UNCHANGED <<todo, pkg>>

\* tt_tospkg.py makes the package and, with --fat-plan, the list of deletions.
UseRecipe(r) ==
    /\ tool = "plan" /\ ~pkg.used /\ ops = 0
    /\ pkg' = [used |-> TRUE, files |-> Package(trees, r), dir |-> r.dir, extra |-> r.extra]
    /\ todo' = FatPlan(trees, r)
    /\ UNCHANGED <<card, trees, want, ops, twin, tool, out, firmwareVars>>

RecipeOp(p) ==
    /\ tool = "plan" /\ pkg.used
    /\ Apply([op |-> "del", path |-> p, dst |-> p])
    /\ todo' = todo \ {p}
    /\ UNCHANGED pkg

Verdict(d) == Buildable(Label(card[d]), trees[d])

\* Every drive is built in turn; the first that cannot be ends the tool, a difference is counted
\* over all drives, and only a run without one writes the image.
Finish ==
    /\ tool = "plan" /\ todo = {}
    /\ LET bad == {d \in Drives : Verdict(d) # "ok"}
           same == \A d \in Drives : Compared(Label(card[d]), trees[d], d)
       IN  IF bad # {} THEN tool' = Verdict(CHOOSE d \in bad : TRUE) /\ UNCHANGED out
           ELSE IF ~same THEN tool' = "mismatch" /\ UNCHANGED out
           ELSE /\ tool' = "written"
                /\ out' = [d \in Drives |-> Build(Label(card[d]), trees[d])]
    /\ UNCHANGED <<card, trees, want, ops, todo, pkg, twin, firmwareVars>>

-----------------------------------------------------------------------------
(* The card in the machine *)

Bpb == [lsec |-> 2, res |-> 1, nfats |-> 2, fatsz |-> 1, nroot |-> NRoot]
StartOf(d) == 20 * (CHOOSE p \in 1 .. Len(Slots) : Slots[p] = d)
Table == [p \in 1 .. Len(Slots) |-> IF Slots[p] = "-" THEN 0 ELSE StartOf(Slots[p])]
RootAt(d) == StartOf(d) + 6

\* The blocks of the card that the firmware may read.
Disk ==
    [b \in {0} \union {StartOf(d) : d \in Drives}
             \union UNION {RootAt(d) .. RootAt(d) + RootBlocks(Bpb) - 1 : d \in Drives} |->
        IF b = 0 THEN Table
        ELSE IF \E d \in Drives : b = StartOf(d) THEN Bpb
        ELSE LET d == CHOOSE x \in Drives : b \in RootAt(x) .. RootAt(x) + RootBlocks(Bpb) - 1
                 n == (b - RootAt(d)) * EPB
             IN  SubSeq(out[d].root, n + 1, IF n + EPB < NRoot THEN n + EPB ELSE NRoot)]

MachineStep ==
    /\ tool # "plan"
    /\ FirmwareStep(Disk) \/ TargetStep
    /\ UNCHANGED toolVars

ToolStep ==
    \/ \E o \in Ops : PlanOp(o)
    \/ \E r \in Recipes : UseRecipe(r)
    \/ \E p \in todo : RecipeOp(p)
    \/ Finish

-----------------------------------------------------------------------------
(* Properties *)

\* The records keep their shape: a path is never empty, an image covers every cluster, and the
\* firmware's counters stay in their loops.
BootTypes ==
    /\ ops \in 0 .. MaxOps + Cardinality(AllFiles([d \in Drives |-> Part(card[d])]))
    /\ \A d \in Drives : /\ DOMAIN out[d].fat = Clusters /\ DOMAIN out[d].clus = Clusters
                         /\ Len(out[d].root) = NRoot
                         /\ \A c \in Clusters : Len(out[d].clus[c]) = CSize
    /\ fw.mb \in 0 .. MaxMB /\ fw.t \in Targets /\ fw.sent \in 0 .. NCmd + NData + 2
    /\ fw.i \in -1 .. RootBlocks(Bpb) /\ Len(fw.buf) <= NData
    /\ bus.left \in 0 .. NCmd + NData

Written == tool = "written"

\* A written card holds exactly the files that the plan's operations mean, with their contents,
\* unless a plan made a directory beside a file of its name (atari_fat16.py:220-265 against what
\* move, del, mkdir and put mean).
AsPlanned == Written /\ ~twin => AllFiles([d \in Drives |-> Part(out[d])]) = want

\* The tool compares the two trees as dicts; the order of the entries, which is the order in which
\* the AUTO programs run, is not compared and is kept all the same.
OrderKept == Written => \A d \in Drives : Part(out[d]) = trees[d]

RECURSIVE Chains(_, _)
Chains(img, raw) ==
    FlattenSeq([i \in 1 .. Len(Live(raw)) |->
        <<[chain |-> Chain(img.fat, Live(raw)[i].clus), entry |-> Live(raw)[i]]>>
            \o (IF Live(raw)[i].t = "dir" THEN Chains(img, Body(img, Live(raw)[i].clus)) ELSE <<>>)])

\* In a written card no cluster belongs to two chains, a file's chain is as long as its size needs,
\* and both the lister's count and its paths agree with the tree.
WellFormed ==
    Written => \A d \in Drives :
        LET cs == Chains(out[d], out[d].root)
        IN  /\ \A i, j \in 1 .. Len(cs) :
                  i # j => ToSet(cs[i].chain) \intersect ToSet(cs[j].chain) = {}
            /\ \A i \in 1 .. Len(cs) :
                  cs[i].entry.t = "file" => Len(cs[i].chain) = Ceil(cs[i].entry.size)
            /\ Used(out[d]) = Cardinality(UNION {ToSet(cs[i].chain) : i \in 1 .. Len(cs)})
            /\ {l[1] : l \in Listing(out[d], out[d].root, <<d>>)} = {w.path : w \in Walk(trees[d], <<d>>)}

RECURSIVE Need(_)
Need(kids) ==
    IF kids = <<>> THEN 0
    ELSE Need(Tail(kids)) + Need(Head(kids).kids)
         + (IF Head(kids).dir THEN Len(Head(kids).kids) + 2 + CSize - 1
            ELSE Len(Head(kids).data) + CSize - 1) \div CSize
RECURSIVE Lower(_)
Lower(kids) == \E i \in 1 .. Len(kids) : Upper(kids[i].name) # kids[i].name \/ Lower(kids[i].kids)

\* The tool gives up on a plan only for a reason: a tree that does not fit, or a name that the
\* card cannot hold as it was written.
RefusedForCause ==
    /\ tool = "full" => \E d \in Drives : Need(trees[d]) > NClus
    /\ tool = "mismatch" => \E d \in Drives : Lower(trees[d])

\* With the plan that tt_tospkg.py writes, every file of the card is afterwards either in the
\* package or still on the card, and none is in both places; but for an extra that the recipe's
\* own exclude covers, which is taken from the card and not put into the package
\* (tt_tospkg.py:75, 97).
PackagedOrKept ==
    Written /\ pkg.used =>
        LET left == AllFiles([d \in Drives |-> Part(out[d])])
            packed == {f.rel : f \in pkg.files}
            InPkg(w) == \/ IsPrefix(pkg.dir, w.path)
                           /\ SubSeq(w.path, Len(pkg.dir) + 1, Len(w.path)) \in packed
                        \/ \E x \in pkg.extra : x.src = w.path /\ x.rel \in packed
            Discards(w) == \E x \in pkg.extra : x.src = w.path /\ x.rel \notin packed
        IN  \A w \in AllFiles([d \in Drives |-> Part(card[d])]) :
                (w \in left) # (InPkg(w) \/ Discards(w))

Lines(kind) == SelectSeq(console, LAMBDA l : l[1] = kind)
Ended == fw.pc = "halt" /\ Last(console) = <<"done">>

\* What rom3 prints for a target is a whole answer and came from that target, however the others
\* behave.
Attributed == \A i \in 1 .. Len(Lines("target")) :
    LET l == Lines("target")[i]
    IN  Len(l[3]) = NData /\ \A n \in 1 .. NData : l[3][n][1] = l[2]

\* A scan on a bus where nothing hangs finds every target that answers with all its bytes and
\* none that stops earlier, except one that is a single byte short: the phase is not looked at,
\* so its status passes for the last byte of data and its message for the status.
AllFound ==
    rom = 3 /\ Ended /\ (\A t \in Targets : machine.kind[t] # "flaky") =>
        {Lines("target")[i][2] : i \in 1 .. Len(Lines("target"))}
            = {t \in Targets : machine.kind[t] \in {"good", "short1"}}

FirstDrive == CHOOSE d \in Drives : \A e \in Drives : StartOf(d) <= StartOf(e)

\* When rom4 reports a whole listing, it has printed the root entries of the first partition, all
\* of them and in the card's order.
RootListed ==
    Ended /\ Len(Lines("listed")) = 1 =>
        LET es == Lines("entry") kids == Part(out[FirstDrive])
        IN  [i \in 1 .. Len(es) |-> es[i][2]] = [i \in 1 .. Len(kids) |-> kids[i].name]

\* The sizes reported are the memory fitted, up to the limit of the count.
SizedRight ==
    rom \in {1, 2} /\ Ended =>
        LET Cap(n) == IF n < MaxMB THEN n ELSE MaxMB
        IN  /\ Lines("st") = <<<<"st", Cap(machine.st)>>>>
            /\ Lines("tt") = <<<<"tt", Cap(machine.tt)>>>>

\* Whatever the hardware does, every ROM comes to its last line.
LastLine == tool \notin {"plan", "unused"} \/ rom \in 1 .. 3 ~> fw.pc = "halt" /\ Last(console) \in {<<"done">>, <<"nochip">>}
=============================================================================
