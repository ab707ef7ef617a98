------------------------------ MODULE MCTTPkg ------------------------------
EXTENDS TTPkg
CONSTANTS a, b

MCOrder == <<a, b>>
V(ver, rel) == [ver |-> ver, rel |-> rel]

\* 1.2-1, 1.02-1 (equal to it), 1.10-1 (newer), 1.x-1 (older than any digit)
v12 == V(<<1, Dot, 2>>, <<1>>)
v102 == V(<<1, Dot, 0, 2>>, <<1>>)
v110 == V(<<1, Dot, 1, 0>>, <<1>>)
v1x == V(<<1, Dot, 33>>, <<1>>)
\* 1-5, below 1.2-1 by yum's rule
v1 == V(<<1>>, <<5>>)

At(ns, v) == [n \in ns |-> v]
MCIndexes == {At({a, b}, v12), At({b}, v110)}
MCDatabases == {[n \in {a, b} |-> IF n = a THEN v1x ELSE v102]}
MCPatterns == {{a, b}, {b}}

\* Every version string of at most three characters.
Strings == UNION {[1..n -> {Dot, 0, 1, 20, 33}] : n \in 0..3}

\* The window's order of version strings is the mirror's and yum's, it is
\* antisymmetric, and a tie means the same runs but for leading zeros.
ASSUME OneOrder ==
  \A x, y \in Strings : /\ PkgVercmp(x, y) = Rpmvercmp(x, y)
                        /\ PkgVercmp(x, y) = -PkgVercmp(y, x)

\* Dragging the slider to where it is drawn leaves the list where it is, for
\* every list the table can hold.
ASSUME SliderStays ==
  \A most \in 1..999 : \A t \in {0, 1, most \div 3, most \div 2, most - 1, most} :
     NewScroll(SliderPos(t, most), most) = t
=============================================================================
