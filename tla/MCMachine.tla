----------------------------- MODULE MCMachine ------------------------------
(* Machine on two small partitions (C holds a label, a fragmented file, a deleted entry and a      *)
(* directory with one file, D one file) and with a screen of three rows of three bytes of two      *)
(* pixels.  The copies are every aligned rectangle and every row to every place, and clipped ones; *)
(* the fills every rectangle.                                                                      *)
EXTENDS Machine

MCUpper(n) == IF n = "h" THEN "H" ELSE n
MCFits(n) == n \notin {"LONG1", "LONG2"}
MCTilde(n, i) == IF i = 1 THEN "L~1" ELSE "L~2"

Data(f, n) == [i \in 1 .. n |-> Entry("data", f, 0, i)]
U(f, i) == Entry("data", f, 0, i)

CardC == [root |-> Padded(<<Entry("label", "VOL", 0, 0), Entry("file", "A", 4, 3),
                            Entry("del", "X", 2, 1), Entry("dir", "G", 3, 0)>>, 6),
          fat  |-> [c \in 2 .. 6 |-> CASE c = 4 -> 2 [] c = 2 -> -1 [] c = 3 -> 6 [] c = 6 -> -1
                                       [] c = 5 -> -1 [] OTHER -> 0],
          clus |-> [c \in 2 .. 6 |->
                      CASE c = 4 -> <<U("a", 1), U("a", 2)>> [] c = 2 -> <<U("a", 3), Zero>>
                        [] c = 3 -> <<Entry("dot", ".", 3, 0), Entry("dot", "..", 0, 0)>>
                        [] c = 6 -> <<Entry("file", "F", 5, 2), Zero>>
                        [] c = 5 -> <<U("f", 1), U("f", 2)>> [] OTHER -> Zeros(2)]]
CardD == [root |-> Padded(<<Entry("file", "B", 6, 1), Entry("file", "E", 0, 0)>>, 6),
          fat  |-> [c \in 2 .. 6 |-> IF c = 6 THEN -1 ELSE 0],
          clus |-> [c \in 2 .. 6 |-> IF c = 6 THEN <<U("b", 1), Zero>> ELSE Zeros(2)]]
MCCards == {[d \in {"C", "D"} |-> IF d = "C" THEN CardC ELSE CardD]}
MCSlots == <<"-", "C", "D", "-">>

Op(o, p) == [op |-> o, path |-> p, dst |-> p, host |-> NewDir]
Move(p, q) == [Op("move", p) EXCEPT !.dst = q]
Put(p, h) == [Op("put", p) EXCEPT !.host = h]
HostDir == Node("", TRUE, <<>>, <<Node("LONG1", FALSE, Data("l1", 1), <<>>),
                                  Node("LONG2", FALSE, Data("l2", 1), <<>>),
                                  Node("h", FALSE, <<>>, <<>>)>>)
MCOps == { Move(<<"C", "A">>, <<"D", "A">>), Move(<<"C", "G">>, <<"D", "G">>),
           Move(<<"C", "G", "F">>, <<"C", "F">>), Move(<<"C", "A">>, <<"C", "G", "A">>),
           Move(<<"C", "G">>, <<"C", "G", "G">>), Op("del", <<"C", "A">>), Op("del", <<"C", "G">>),
           Op("mkdir", <<"C", "H">>), Op("mkdir", <<"D", "h">>), Op("mkdir", <<"C", "LONG1">>),
           Put(<<"C", "A">>, Node("", FALSE, Data("n", 4), <<>>)), Put(<<"D", "G">>, HostDir),
           Put(<<"D", "LONG1">>, Node("", FALSE, <<>>, <<>>)),
           Put(<<"C", "A", "X">>, Node("", FALSE, Data("x", 1), <<>>)) }
MCRecipes == { [dir |-> <<"C">>, exclude |-> {<<"A">>}, extra |-> {}],
               [dir |-> <<"C", "G">>, exclude |-> {}, extra |-> {[rel |-> <<"B">>, src |-> <<"D", "B">>]}],
               [dir |-> <<"C", "G">>, exclude |-> {<<"B">>}, extra |-> {[rel |-> <<"B">>, src |-> <<"D", "B">>]}] }

Kinds == {"absent", "good", "short1", "short2", "check", "flaky"}
M(st, tt, fpu, chip, kind, roms) ==
    [st |-> st, tt |-> tt, fpu |-> fpu, chip |-> chip, kind |-> kind, roms |-> roms]
None == [t \in Targets |-> "absent"]
MCMachines ==
    {M(st, tt, fpu, TRUE, None, {1, 2}) : st \in 1 .. 3, tt \in 0 .. 5, fpu \in BOOLEAN}
    \union {M(1, 0, TRUE, chip, ks, {3}) : chip \in BOOLEAN, ks \in [Targets -> Kinds]}
    \union {M(1, 0, TRUE, TRUE, [None EXCEPT ![0] = ks], {4}) : ks \in {"good", "flaky"}}
    \union {M(1, 0, TRUE, FALSE, None, {4})}

-----------------------------------------------------------------------------
Corner == [on |-> TRUE, x1 |-> 1, y1 |-> 0, x2 |-> 4, y2 |-> 1]
Xs == 0 .. W - 1
Ys == 0 .. H - 1

Fit == {r \in [sx : Xs, sy : Ys, w : 1 .. W, h : 1 .. H, dx : Xs, dy : Ys, clip : {NoClip}] :
            /\ r.sx + r.w <= W /\ r.sy + r.h <= H /\ r.dx + r.w <= W /\ r.dy + r.h <= H
            /\ r.h > 1 => Aligned(r)}
Cut == {r \in [sx : Xs, sy : Ys, w : 1 .. W, h : 1 .. H, dx : -1 .. W - 1, dy : -1 .. H - 1,
               clip : {Corner}] : r.sx + r.w <= W /\ r.sy + r.h <= H}
MCCopyCalls == Fit \union {r \in Cut : r.h < 3 /\ r.w \in {2, 3}}
MCFillCalls == [x1 : Xs, y1 : Ys, x2 : Xs, y2 : Ys, clip : {NoClip}]
               \union {r \in [x1 : Xs, y1 : Ys, x2 : Xs, y2 : Ys, clip : {Corner}] : r.x1 <= r.x2 /\ r.y1 <= r.y2}
MCVrtCalls == [x1 : {-1, 0, W - 1}, y1 : {-1, 0}, x2 : {W - 1, W}, y2 : {H - 1, H}, clip : {NoClip, FullClip}]
=============================================================================
