------------------------------- MODULE RpmDb -------------------------------
(***************************************************************************)
(* tt_rpmdb.py: registers packages in a copy of the TT's rpm database      *)
(* without the TT's rpm, and checks a database.  packages.rpm is a file of *)
(* blocks, each holding a header; the indexes map a key to the offsets of  *)
(* headers and are written one after the other by the db1 tool, which may  *)
(* fail, as the program may be stopped, at any point.                      *)
(***************************************************************************)
EXTENDS Integers, Sequences, SequencesExt

CONSTANTS
    Batches,     \* the argument lists of `add`: sequences of package files
                 \*   [name, group, trig, conf, req, prov, files (sequences of keys), es (header entries)]
    Olds,        \* the databases it starts from, sequences of registered packages
    Now,         \* the install time
    Keep         \* %_instchangelog: changelog entries rpm keeps

FileNames == 1027
InstallTime == 1008
FileStates == 1029
Changelog == {1080, 1081, 1082}
PrefixTag == 1098
InstPrefixTag == 1099

VARIABLES
    old,     \* the packages registered before
    args,    \* the argument list
    recs,    \* packages.rpm: a sequence of blocks [size, pkg, hdr], empty while truncated
    idx,     \* index lines on disk: a sequence of <<index, key, offset, file number>>
    add      \* the program: pc, n (next package), b (file in memory), lines, left (indexes to write), code

rpmVars == <<old, args, recs, idx, add>>

-----------------------------------------------------------------------------
(* Headers: an entry is [tag, ty, c, b] with b its bytes. *)

Align(ty) == CASE ty = 3 -> 2 [] ty = 4 -> 4 [] ty = 5 -> 8 [] OTHER -> 1
Width(ty) == CASE ty \in {1, 2, 7} -> 1 [] ty = 3 -> 2 [] ty = 4 -> 4 [] ty = 5 -> 8 [] OTHER -> 0
Zeros(n) == [i \in 1 .. n |-> 0]
Pad(n, a) == (a - (n % a)) % a

\* unload: entries in the order of their tags, each at an offset its type asks for.
RECURSIVE Packed(_, _, _)
Packed(es, ix, data) ==
    IF es = <<>> THEN [ix |-> ix, data |-> data]
    ELSE LET e == es[1]
             d == data \o Zeros(Pad(Len(data), Align(e.ty)))
         IN Packed(Tail(es), Append(ix, [tag |-> e.tag, ty |-> e.ty, o |-> Len(d), c |-> e.c]), d \o e.b)
ByTag(es) == SortSeq(es, LAMBDA x, y : x.tag < y.tag)
Unload(es) == Packed(ByTag(es), <<>>, <<>>)
HeaderLen(h) == 8 + 16 * Len(h.ix) + Len(h.data)

\* entries: the exact bytes of each entry; a string ends after its NUL.
RECURSIVE AfterNuls(_, _, _)
AfterNuls(data, e, n) ==
    IF n = 0 THEN e
    ELSE AfterNuls(data, 1 + CHOOSE i \in e .. Len(data) - 1 :
                               data[i + 1] = 0 /\ \A j \in e .. i - 1 : data[j + 1] # 0, n - 1)
Entries(h) ==
    [i \in 1 .. Len(h.ix) |->
        LET x == h.ix[i]
            e == IF x.ty \in {6, 8, 9} THEN AfterNuls(h.data, x.o, IF x.ty = 6 THEN 1 ELSE x.c)
                 ELSE x.o + x.c * Width(x.ty)
        IN [tag |-> x.tag, ty |-> x.ty, c |-> x.c, b |-> SubSeq(h.data, x.o + 1, e)]]

Tags(es) == {es[i].tag : i \in 1 .. Len(es)}
Of(es, t) == es[CHOOSE i \in 1 .. Len(es) : es[i].tag = t]

\* trimChangelog: the first Keep entries of the three lists.
Trimmed(e) == [e EXCEPT !.c = Keep,
                        !.b = SubSeq(@, 1, IF e.tag = 1080 THEN Keep * Width(4) ELSE AfterNuls(@, 0, Keep))]

\* db_header: the package's entries after rpm's install edits; no header without a list of file names.
Edited(es) ==
    LET long == 1080 \in Tags(es) /\ Of(es, 1080).c > Keep
        f == Of(es, FileNames)
    IN [i \in 1 .. Len(es) |-> IF long /\ es[i].tag \in Changelog THEN Trimmed(es[i]) ELSE es[i]]
       \o <<[tag |-> InstallTime, ty |-> 4, c |-> 1, b |-> Now],
            [tag |-> FileStates, ty |-> 1, c |-> f.c, b |-> Zeros(f.c)]>>
       \o (IF PrefixTag \in Tags(es)
           THEN <<[tag |-> InstPrefixTag, ty |-> 8, c |-> Of(es, PrefixTag).c, b |-> Of(es, PrefixTag).b]>> ELSE <<>>)
DbHeader(p) == Unload(Edited(p.es))

-----------------------------------------------------------------------------
(* The indexes. *)

Lines(f, keys, off) == [i \in 1 .. Len(keys) |-> <<f, keys[i], off, 0>>]
\* The elements of a sequence in the order of their first places.
FirstSeen(s) == LET first == {j \in 1 .. Len(s) : \A k \in 1 .. j - 1 : s[k] # s[j]} IN
                [i \in 1 .. Cardinality(first) |->
                    s[CHOOSE j \in first : Cardinality({k \in first : k < j}) = i - 1]]
Triggers(p) == FirstSeen(p.trig)

\* index_entries: as rpmdbAdd adds them, a trigger once.
IndexEntries(p, off) ==
    Lines("nameindex", <<p.name>>, off) \o Lines("groupindex", <<p.group>>, off)
    \o Lines("triggerindex", Triggers(p), off) \o Lines("conflictsindex", p.conf, off)
    \o Lines("requiredby", p.req, off) \o Lines("providesindex", p.prov, off)
    \o [i \in 1 .. Len(p.files) |-> <<"fileindex", p.files[i], off, i - 1>>]

\* What rpm itself (external) writes for a package.
RpmAdds(p, off) ==
    Lines("nameindex", <<p.name>>, off) \o Lines("groupindex", <<p.group>>, off)
    \o Lines("triggerindex", SetToSeq(ToSet(p.trig)), off) \o Lines("conflictsindex", p.conf, off)
    \o Lines("requiredby", p.req, off) \o Lines("providesindex", p.prov, off)
    \o [i \in 1 .. Len(p.files) |-> <<"fileindex", p.files[i], off, i - 1>>]

\* The file's length and the place of the next header; a block has 24 bytes beside its header and is
\* a multiple of 64 long.
FileLen(b) == 8 + FoldSeq(LAMBDA r, n : r.size + n, 0, b)
NextOff(b) == FileLen(b) + 16
BlockSize(h) == HeaderLen(h) + 24 + Pad(HeaderLen(h) + 24, 64)
Block(p) == LET h == DbHeader(p) IN [size |-> BlockSize(h), pkg |-> p, hdr |-> h]

\* records: the offset of every header, by walking the blocks.
OffsetOf(b, i) == 8 + FoldSeq(LAMBDA r, n : r.size + n, 0, SubSeq(b, 1, i - 1)) + 16
Names(b) == {b[i].pkg.name : i \in 1 .. Len(b)}

Count(s, x) == Cardinality({i \in 1 .. Len(s) : s[i] = x})
SameLines(s, t) == \A x \in ToSet(s) \union ToSet(t) : Count(s, x) = Count(t, x)

\* check: every index regenerated from the headers, and the headers from their packages.
Wanted(b) == FlattenSeq([i \in 1 .. Len(b) |-> IndexEntries(b[i].pkg, OffsetOf(b, i))])
CheckDb(b, lines) == /\ SameLines(Wanted(b), lines)
                   /\ \A i \in 1 .. Len(b) : DbHeader(b[i].pkg) = b[i].hdr

-----------------------------------------------------------------------------
Registered(ps) == [i \in 1 .. Len(ps) |-> Block(ps[i])]

\* The index lines of a database that rpm itself has made.
RpmLines(ps) == FlattenSeq([i \in 1 .. Len(ps) |-> RpmAdds(ps[i], OffsetOf(Registered(ps), i))])

RpmInit ==
    /\ old \in Olds /\ args \in Batches
    /\ recs = Registered(old)
    /\ idx = RpmLines(old)
    /\ add = [pc |-> "build", n |-> 1, b |-> <<>>, lines |-> <<>>, left |-> <<>>, code |-> "none"]

Stop(code) == add' = [add EXCEPT !.pc = "ended", !.code = code]

\* The tool is built before anything is touched.
Build == /\ add.pc = "build"
         /\ \/ add' = [add EXCEPT !.pc = "each", !.b = recs]
            \/ Stop("failed")
         /\ UNCHANGED <<old, args, recs, idx>>

\* One package of the list, in memory: refused without file names or when its name was registered when
\* the program started; a name that comes twice in the list is not noticed.
Refuses(p) == FileNames \notin Tags(p.es) \/ p.name \in Names(recs)
Register == /\ add.pc = "each" /\ add.n <= Len(args)
            /\ LET p == args[add.n] IN
               IF Refuses(p) THEN Stop("refused")
               ELSE add' = [add EXCEPT !.n = @ + 1, !.b = Append(@, Block(p)),
                                       !.lines = @ \o IndexEntries(p, NextOff(add.b))]
            /\ UNCHANGED <<old, args, recs, idx>>

\* open(p, "wb") truncates the file; then it is written.
Truncate == /\ add.pc = "each" /\ add.n > Len(args)
            /\ recs' = <<>> /\ add' = [add EXCEPT !.pc = "write"]
            /\ UNCHANGED <<old, args, idx>>
WriteFile == /\ add.pc = "write" /\ recs' = add.b
             /\ add' = [add EXCEPT !.pc = "index",
                                   !.left = FirstSeen([i \in 1 .. Len(add.lines) |-> add.lines[i][1]])]
             /\ UNCHANGED <<old, args, idx>>

\* The tool adds one index's lines; its failure ends the program.
WriteIndex == /\ add.pc = "index" /\ add.left # <<>>
              /\ \/ /\ idx' = idx \o SelectSeq(add.lines, LAMBDA l : l[1] = Head(add.left))
                    /\ add' = [add EXCEPT !.left = Tail(@)]
                 \/ Stop("failed") /\ idx' = idx
              /\ UNCHANGED <<old, args, recs>>
Finish == add.pc = "index" /\ add.left = <<>> /\ Stop("ok") /\ UNCHANGED <<old, args, recs, idx>>
Crash == add.pc # "ended" /\ Stop("crashed") /\ UNCHANGED <<old, args, recs, idx>>

RpmNext == Build \/ Register \/ Truncate \/ WriteFile \/ WriteIndex \/ Finish \/ Crash

-----------------------------------------------------------------------------
\* A header written by db_header is read back entry by entry with the bytes it was made from.
RoundTrip == \A i \in 1 .. Len(add.b) : Entries(add.b[i].hdr) = ByTag(Edited(add.b[i].pkg.es))

\* The database is what rpm itself would have made of these packages.
Consistent(ps) == recs = Registered(ps) /\ SameLines(idx, RpmLines(ps))

\* A refused list leaves the database as it was: one bad package stops the whole call before anything
\* is written.  After a call that ends well the old packages are in their places, those of the list
\* behind them with the headers and index lines rpm would have made for each, and no name that was
\* registered before is there again.  (One that the list has twice is: the refusal looks only at what
\* was registered when the call began.)
AllOrRefused ==
    /\ add.code = "refused" => Consistent(old)
    /\ add.code = "ok" => /\ Consistent(old \o args)
                          /\ Cardinality(Names(recs)) = Len(old) + Cardinality({args[i].name : i \in 1 .. Len(args)})

\* A database left half written by a crash or a failed index is seen by check: what passes is either
\* the old database or the complete new one.
HalfIsSeen == add.pc = "ended" /\ CheckDb(recs, idx) => Consistent(old) \/ Consistent(old \o args)
=============================================================================
