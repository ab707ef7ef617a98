------------------------------ MODULE AtariFat ------------------------------
(***************************************************************************)
(* scripts/atari_fat16.py: the tool that rebuilds the TT's FAT16 cards.    *)
(* It reads each partition into a tree, applies a plan (move, del, mkdir,  *)
(* put) to the trees, lays every tree out again from nothing, reads the    *)
(* result back, compares, and only then writes the image.  Beside it, the  *)
(* read-only lister atari_fat16_ls.py and tt_tospkg.py, which packages a   *)
(* directory of the card and writes the plan that deletes it.              *)
(*                                                                         *)
(* A partition is its volume label entries, its root directory, its FAT    *)
(* and its clusters.  A cluster holds CSize units; a directory entry is    *)
(* one unit, and so is a piece of a file.  A path is a sequence of names   *)
(* whose first is the drive.                                               *)
(***************************************************************************)
EXTENDS Integers, Sequences, FiniteSets, SequencesExt

CONSTANTS
    CSize,        \* units in a cluster
    NClus,        \* data clusters of a partition, numbered from 2
    NRoot,        \* units of the root directory
    Upper(_),     \* a name in upper case
    Fits8_3(_),   \* the name has the 8.3 form
    Tilde(_, _)   \* BASE~i for a long host name

ASSUME GeometryAssumption == CSize \in Nat \ {0} /\ NClus \in Nat /\ NRoot \in Nat

Clusters == 2 .. NClus + 1
EOC == -1

Entry(t, n, c, s) == [t |-> t, name |-> n, clus |-> c, size |-> s]
Zero == Entry("zero", "", 0, 0)
Zeros(n) == [i \in 1 .. n |-> Zero]
Node(n, d, bytes, ks) == [name |-> n, dir |-> d, data |-> bytes, kids |-> ks]
Padded(s, n) == s \o Zeros(n - Len(s))

-----------------------------------------------------------------------------
(* Reading a partition *)

RECURSIVE Chain(_, _)
Chain(fat, c) == IF c \in DOMAIN fat THEN <<c>> \o Chain(fat, fat[c]) ELSE <<>>

Body(img, c) ==
    FlattenSeq([i \in 1 .. Len(Chain(img.fat, c)) |-> img.clus[Chain(img.fat, c)[i]]])

\* Everything before the first free entry; deleted entries, labels and dots are passed over.
Live(raw) ==
    LET zeros == {i \in 1 .. Len(raw) : raw[i].t = "zero"}
        last == IF zeros = {} THEN Len(raw) ELSE (CHOOSE i \in zeros : \A j \in zeros : i <= j) - 1
    IN  SelectSeq(SubSeq(raw, 1, last), LAMBDA e : e.t \in {"file", "dir"})

RECURSIVE ReadDir(_, _)
ReadDir(img, raw) ==
    LET live == Live(raw)
    IN  [i \in 1 .. Len(live) |->
            LET e == live[i]
                body == Body(img, e.clus)
            IN  IF e.t = "dir" THEN Node(e.name, TRUE, <<>>, ReadDir(img, body))
                ELSE Node(e.name, FALSE, SubSeq(body, 1, e.size), <<>>)]

Label(img) == SelectSeq(img.root, LAMBDA e : e.t = "label")
Part(img) == ReadDir(img, img.root)

-----------------------------------------------------------------------------
(* Laying a tree out *)

Ceil(n) == (n + CSize - 1) \div CSize

\* How many clusters alloc takes for a node; an empty file takes none.
Alloc(node) == IF node.dir THEN Ceil(Len(node.kids) + 2) ELSE Ceil(Len(node.data))

\* Gives every node below its first cluster, in the order of a walk, from cluster nxt on.
RECURSIVE Place(_, _)
Place(kids, nxt) ==
    IF kids = <<>> THEN [kids |-> <<>>, nxt |-> nxt]
    ELSE LET k == Head(kids)
             below == Place(k.kids, nxt + Alloc(k))
             rest == Place(Tail(kids), below.nxt)
             placed == [name |-> k.name, dir |-> k.dir, data |-> k.data, kids |-> below.kids,
                        clus |-> IF Alloc(k) = 0 THEN 0 ELSE nxt]
         IN  [kids |-> <<placed>> \o rest.kids, nxt |-> rest.nxt]

Entries(kids) ==
    [i \in 1 .. Len(kids) |-> Entry(IF kids[i].dir THEN "dir" ELSE "file", Upper(kids[i].name),
                                    kids[i].clus, Len(kids[i].data))]

Dots(node, parent) == << Entry("dot", ".", node.clus, 0), Entry("dot", "..", parent, 0) >>

\* What emit stores for every placed node: its first cluster and its units.
RECURSIVE Emit(_, _)
Emit(kids, parent) ==
    UNION {LET k == kids[i]
               units == IF k.dir THEN Dots(k, parent) \o Entries(k.kids) ELSE k.data
           IN  (IF k.clus = 0 THEN {} ELSE {[clus |-> k.clus, units |-> units]})
               \union Emit(k.kids, k.clus)
           : i \in 1 .. Len(kids)}

InChunk(c, e) == c >= e.clus /\ c < e.clus + Ceil(Len(e.units))

\* Mutant: the last cluster of a chain is not marked.
Linked_NoEnd(c, e) == c + 1

Linked(c, e) == IF c = e.clus + Ceil(Len(e.units)) - 1 THEN EOC ELSE c + 1

RECURSIVE NamesFit(_)
NamesFit(kids) == \A i \in 1 .. Len(kids) : Fits8_3(kids[i].name) /\ NamesFit(kids[i].kids)

Full(nxt) == nxt - 2 > NClus

\* The verdict of build, in the order in which it finds out.
Buildable(label, kids) ==
    IF Full(Place(kids, 2).nxt) THEN "full"
    ELSE IF ~NamesFit(kids) THEN "badname"
    ELSE IF Len(label) + Len(kids) > NRoot THEN "rootfull"
    ELSE "ok"

Build(label, kids) ==
    LET placed == Place(kids, 2).kids
        chunks == Emit(placed, 0)
    IN  [root |-> Padded(label \o Entries(placed), NRoot),
         fat  |-> [c \in Clusters |->
                     IF \E e \in chunks : InChunk(c, e)
                     THEN Linked(c, CHOOSE e \in chunks : InChunk(c, e)) ELSE 0],
         clus |-> [c \in Clusters |->
                     IF \E e \in chunks : InChunk(c, e)
                     THEN LET e == CHOOSE e \in chunks : InChunk(c, e)
                              off == (c - e.clus) * CSize
                          IN  Padded(SubSeq(e.units, off + 1,
                                       IF off + CSize < Len(e.units) THEN off + CSize ELSE Len(e.units)),
                                     CSize)
                     ELSE Zeros(CSize)]]

-----------------------------------------------------------------------------
(* The tree as a map from paths to contents; a directory's path ends in a backslash. *)

RECURSIVE Walk(_, _)
Walk(kids, prefix) ==
    UNION {LET k == kids[i] p == Append(prefix, k.name)
           IN  IF k.dir THEN {[path |-> Append(p, "\\"), data |-> <<>>]} \union Walk(k.kids, p)
               ELSE {[path |-> p, data |-> k.data]}
           : i \in 1 .. Len(kids)}

\* dict(walk(...)): of two entries with one path the later one counts.  No directory that the
\* plans make holds two files of one name, so the set stands for the dict.
Compared(label, kids, d) == Walk(kids, <<d>>) = Walk(Part(Build(label, kids)), <<d>>)

Files(kids, d) == {w \in Walk(kids, <<d>>) : Last(w.path) # "\\"}

\* atari_fat16_ls.py, a second reader of the format: the paths it lists and the clusters it counts.
RECURSIVE Listing(_, _, _)
Listing(img, raw, prefix) ==
    UNION {LET e == Live(raw)[i] p == Append(prefix, e.name)
           IN  IF e.t = "dir" THEN {<<Append(p, "\\"), 0>>} \union Listing(img, Body(img, e.clus), p)
               ELSE {<<p, e.size>>}
           : i \in 1 .. Len(Live(raw))}
Used(img) == Cardinality({c \in Clusters : img.fat[c] # 0})

-----------------------------------------------------------------------------
(* Changing a tree; path is without the drive.  Refused stands for SystemExit. *)

Refused == [ok |-> FALSE, kids |-> <<>>, node |-> Node("", FALSE, <<>>, <<>>)]
Ok(ks, n) == [ok |-> TRUE, kids |-> ks, node |-> n]

First(hits) == IF hits = {} THEN 0 ELSE CHOOSE i \in hits : \A j \in hits : i <= j
DirNamed(kids, n) == First({i \in 1 .. Len(kids) : kids[i].name = n /\ kids[i].dir})
AnyNamed(kids, n) == First({i \in 1 .. Len(kids) : kids[i].name = n})
WithKids(k, ks) == [k EXCEPT !.kids = ks]

RECURSIVE Pop(_, _)
Pop(kids, path) ==
    LET i == IF Len(path) = 1 THEN AnyNamed(kids, path[1]) ELSE DirNamed(kids, path[1])
        sub == Pop(kids[i].kids, Tail(path))
    IN  IF i = 0 THEN Refused
        ELSE IF Len(path) = 1 THEN Ok(RemoveAt(kids, i), kids[i])
        ELSE IF sub.ok THEN Ok([kids EXCEPT ![i] = WithKids(kids[i], sub.kids)], sub.node)
        ELSE Refused

\* locate(create=True) and then either insert's refusal of a name that exists or put's removal.
RECURSIVE Add(_, _, _, _)
Add(kids, path, node, put) ==
    LET n == path[1]
        i == DirNamed(kids, n)
        named == [node EXCEPT !.name = n]
        sub == Add(IF i = 0 THEN <<>> ELSE kids[i].kids, Tail(path), node, put)
    IN  IF Len(path) = 1
        THEN IF put THEN Ok(Append(SelectSeq(kids, LAMBDA k : k.name # n), named), named)
             ELSE IF ~Fits8_3(n) \/ AnyNamed(kids, n) # 0 THEN Refused
             ELSE Ok(Append(kids, named), named)
        ELSE IF ~sub.ok \/ (i = 0 /\ ~Fits8_3(n)) THEN Refused
        ELSE IF i = 0 THEN Ok(Append(kids, Node(n, TRUE, <<>>, sub.kids)), node)
        ELSE Ok([kids EXCEPT ![i] = WithKids(kids[i], sub.kids)], node)

\* host_node: a host directory's names in 8.3 form, long ones as BASE~i not used before.
Short(n, used) ==
    IF Fits8_3(n) THEN Upper(n)
    ELSE Tilde(n, CHOOSE i \in 1 .. 99 : Tilde(n, i) \notin used
                                         /\ \A j \in 1 .. i - 1 : Tilde(n, j) \in used)
RECURSIVE HostKids(_, _)
HostKids(hosts, used) ==
    IF hosts = <<>> THEN <<>>
    ELSE LET n == Short(Head(hosts).name, used)
         IN  <<[Head(hosts) EXCEPT !.name = n, !.kids = HostKids(Head(hosts).kids, {})]>>
             \o HostKids(Tail(hosts), used \union {n})
HostNode(h) == [h EXCEPT !.kids = HostKids(h.kids, {})]

-----------------------------------------------------------------------------
(* tt_tospkg.py: r is a recipe with dir (a path), exclude (relative paths), extra. *)

FatTree(trees, dir) ==
    {[rel |-> SubSeq(w.path, Len(dir) + 1, Len(w.path)), data |-> w.data] :
        w \in {v \in UNION {Files(trees[d], d) : d \in DOMAIN trees} :
                 IsPrefix(dir, v.path) /\ Len(v.path) > Len(dir)}}

Excluded(rel, r) == \E x \in r.exclude : IsPrefix(x, rel)

\* extra is a set of [rel, src]: the file at src goes into the package as rel.
FatFile(trees, src) == CHOOSE w \in UNION {Files(trees[d], d) : d \in DOMAIN trees} : w.path = src
PackageTree(trees, r) ==
    FatTree(trees, r.dir)
        \union {[rel |-> x.rel, data |-> FatFile(trees, x.src).data] : x \in r.extra}
Package(trees, r) == {f \in PackageTree(trees, r) : ~Excluded(f.rel, r)}

\* The paths that the plan of --fat-plan deletes.
FatPlan(trees, r) ==
    {r.dir \o f.rel : f \in {g \in FatTree(trees, r.dir) : ~Excluded(g.rel, r)}}
        \union {x.src : x \in r.extra}
=============================================================================
