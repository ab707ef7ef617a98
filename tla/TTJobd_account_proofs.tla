------------------------ MODULE TTJobd_account_proofs ------------------------
(***************************************************************************)
(* Every request of a client that stays is accounted for: the proof of     *)
(* Conservation.  It counts, place by place, what each step of the daemon  *)
(* takes out of one table and puts into another.                           *)
(***************************************************************************)
EXTENDS TTJobd_proofs, FiniteSetTheorems

USE DEF Slots, NoFd, Nodes

-----------------------------------------------------------------------------
(***************************************************************************)
(* Counting the entries of a table that are about one request.             *)
(***************************************************************************)
About(s, c) == {k \in DOMAIN s : s[k].cid = c}
One(e, c) == IF e.cid = c THEN 1 ELSE 0

\* A count is the size of a finite set.
LEMMA CountNat ==
  ASSUME NEW S, NEW s \in Seq(S), NEW c
  PROVE  IsFiniteSet(About(s, c)) /\ Count(s, c) \in Nat /\ Count(s, c) = Cardinality(About(s, c))
<1>1. Len(s) \in Nat /\ DOMAIN s = 1..Len(s)
  BY LenProperties
<1>2. IsFiniteSet(1..Len(s))
  BY <1>1, FS_Interval
<1>3. About(s, c) \subseteq 1..Len(s)
  BY <1>1 DEF About
<1>4. IsFiniteSet(About(s, c))
  BY <1>2, <1>3, FS_Subset
<1>5. Count(s, c) = Cardinality(About(s, c))
  BY DEF Count, About
<1>6. QED
  BY <1>4, <1>5, FS_CardinalityType

\* Nothing is in an empty table.
LEMMA CountEmpty == ASSUME NEW c PROVE Count(<<>>, c) = 0
<1>1. {k \in DOMAIN <<>> : <<>>[k].cid = c} = {}
  OBVIOUS
<1>2. QED
  BY <1>1, FS_EmptySet DEF Count

\* What is about no request of this number counts nothing.
LEMMA CountNone ==
  ASSUME NEW S, NEW s \in Seq(S), NEW c, \A e \in S : e.cid # c
  PROVE  Count(s, c) = 0
<1>1. \A k \in DOMAIN s : s[k] \in S
  BY LenProperties
<1>2. {k \in DOMAIN s : s[k].cid = c} = {}
  BY <1>1
<1>3. QED
  BY <1>2, FS_EmptySet DEF Count

\* An entry added counts once.
LEMMA CountAppend ==
  ASSUME NEW S, NEW s \in Seq(S), NEW e \in S, NEW c
  PROVE  Count(Append(s, e), c) = Count(s, c) + One(e, c)
<1> DEFINE t == Append(s, e)
           n == Len(s)
<1>1. /\ n \in Nat /\ DOMAIN s = 1..n /\ DOMAIN t = 1..n+1 /\ t[n+1] = e
      /\ \A k \in 1..n : t[k] = s[k]
  BY LenProperties, AppendProperties
<1> HIDE DEF t, n
<1>2. n + 1 \notin About(s, c)
  BY <1>1 DEF About
<1>3. CASE e.cid = c
  <2>1. About(t, c) = About(s, c) \union {n + 1}
    BY <1>1, <1>3 DEF About
  <2>2. Cardinality(About(t, c)) = Cardinality(About(s, c)) + 1
    BY <2>1, <1>2, CountNat, FS_AddElement
  <2>3. QED
    BY <2>2, <1>3 DEF Count, About, One, t
<1>4. CASE e.cid # c
  <2>1. About(t, c) = About(s, c)
    BY <1>1, <1>4 DEF About
  <2>2. Count(t, c) = Count(s, c)
    BY <2>1 DEF Count, About
  <2>3. QED
    BY <2>2, <1>4, CountNat DEF One, t
<1>5. QED
  BY <1>3, <1>4

\* Two tables joined count together.
LEMMA CountConcat ==
  ASSUME NEW S, NEW s \in Seq(S), NEW t \in Seq(S), NEW c
  PROVE  Count(s \o t, c) = Count(s, c) + Count(t, c)
<1> DEFINE n == Len(s)
           m == Len(t)
           u == s \o t
           Moved == {n + k : k \in About(t, c)}
<1>1. /\ n \in Nat /\ m \in Nat /\ DOMAIN s = 1..n /\ DOMAIN t = 1..m /\ DOMAIN u = 1..n+m
      /\ \A k \in 1..n : u[k] = s[k]
      /\ \A k \in 1..m : u[n + k] = t[k]
  <2>1. n \in Nat /\ m \in Nat /\ DOMAIN s = 1..n /\ DOMAIN t = 1..m
    BY LenProperties
  <2>2. u \in Seq(S) /\ Len(u) = n + m
    BY ConcatProperties
  <2>3. DOMAIN u = 1..n+m
    BY <2>2, LenProperties
  <2>4. \A k \in 1..n+m : u[k] = IF k <= n THEN s[k] ELSE t[k - n]
    BY ConcatProperties
  <2> HIDE DEF u, n, m
  <2>5. \A k \in 1..n : k \in 1..n+m /\ k <= n
    BY <2>1
  <2>6. \A k \in 1..m : n + k \in 1..n+m /\ ~(n + k <= n) /\ (n + k) - n = k
    BY <2>1
  <2>7. QED
    BY <2>1, <2>3, <2>4, <2>5, <2>6
<1> HIDE DEF n, m, u
<1>2. About(u, c) = About(s, c) \union Moved
  <2>1. \A k \in 1..n+m : k \in 1..n \/ (k - n \in 1..m /\ k = n + (k - n))
    BY <1>1
  <2>2. \A k \in 1..n : k \in 1..n+m
    BY <1>1
  <2>3. \A k \in 1..m : n + k \in 1..n+m
    BY <1>1
  <2>4. ASSUME NEW k \in About(u, c) PROVE k \in About(s, c) \union Moved
    <3>1. CASE k \in 1..n
      BY <3>1, <1>1 DEF About
    <3>2. CASE k - n \in 1..m /\ k = n + (k - n)
      <4>1. u[k] = t[k - n]
        BY <3>2, <1>1
      <4>2. k - n \in About(t, c)
        BY <4>1, <3>2, <1>1 DEF About
      <4>3. QED
        BY <4>2, <3>2
    <3>3. QED
      BY <3>1, <3>2, <2>1, <1>1 DEF About
  <2>5. About(s, c) \subseteq About(u, c)
    BY <1>1, <2>2 DEF About
  <2>6. Moved \subseteq About(u, c)
    BY <1>1, <2>3 DEF About
  <2>7. QED
    BY <2>4, <2>5, <2>6
<1>3. About(s, c) \cap Moved = {}
  BY <1>1 DEF About
<1>4. IsFiniteSet(Moved) /\ Cardinality(Moved) = Cardinality(About(t, c))
  <2> DEFINE f == [k \in About(t, c) |-> n + k]
  <2>1. f \in Bijection(About(t, c), Moved)
    <3>1. \A k, l \in About(t, c) : n + k = n + l => k = l
      BY <1>1 DEF About
    <3>2. f \in Injection(About(t, c), Moved)
      BY <3>1 DEF Injection, IsInjective
    <3>3. f \in Surjection(About(t, c), Moved)
      BY DEF Surjection
    <3>4. QED
      BY <3>2, <3>3 DEF Bijection
  <2>2. ExistsBijection(About(t, c), Moved)
    BY <2>1 DEF ExistsBijection
  <2>3. IsFiniteSet(About(t, c))
    BY CountNat
  <2> HIDE DEF Moved, f
  <2>4. QED
    BY <2>2, <2>3, FS_Bijection
<1>5. Cardinality(About(u, c)) = Cardinality(About(s, c)) + Cardinality(Moved)
  <2> HIDE DEF Moved
  <2>1. IsFiniteSet(About(s, c)) /\ Cardinality(About(s, c)) \in Nat /\ Cardinality(Moved) \in Nat
    BY CountNat, <1>4, FS_CardinalityType
  <2>2. Cardinality(About(s, c) \union Moved)
          = Cardinality(About(s, c)) + Cardinality(Moved) - Cardinality(About(s, c) \cap Moved)
    BY <2>1, <1>4, FS_Union
  <2>3. Cardinality(About(s, c) \cap Moved) = 0
    BY <1>3, FS_EmptySet
  <2>4. QED
    BY <1>2, <2>1, <2>2, <2>3
<1>6. QED
  BY <1>4, <1>5, CountNat DEF u, Count, About

\* What is left of a table from some place on.
LEMMA CutFact ==
  ASSUME NEW S, NEW s \in Seq(S), NEW m \in 0..Len(s)
  PROVE  /\ SubSeq(s, m+1, Len(s)) \in Seq(S) /\ Len(SubSeq(s, m+1, Len(s))) = Len(s) - m
         /\ \A k \in 1..Len(s)-m : SubSeq(s, m+1, Len(s))[k] = s[m+k]
  BY SubSeqProperties, LenProperties

\* A table cut in two.
LEMMA CountSplit ==
  ASSUME NEW S, NEW s \in Seq(S), NEW n \in 0..Len(s), NEW c
  PROVE  Count(s, c) = Count(SubSeq(s, 1, n), c) + Count(SubSeq(s, n+1, Len(s)), c)
<1> DEFINE a == SubSeq(s, 1, n)
           b == SubSeq(s, n+1, Len(s))
<1>1. a \in Seq(S) /\ Len(a) = n /\ \A k \in 1..n : a[k] = s[k]
  BY SubSeqProperties, LenProperties
<1>2. b \in Seq(S) /\ Len(b) = Len(s) - n /\ \A k \in 1..Len(s)-n : b[k] = s[n+k]
  BY SubSeqProperties, LenProperties
<1>3. Len(s) \in Nat /\ DOMAIN s = 1..Len(s) /\ s \in [1..Len(s) -> S]
  BY LenProperties
<1> HIDE DEF a, b
<1>4. a \o b = s
  <2>1. a \o b \in Seq(S) /\ Len(a \o b) = Len(s)
    BY <1>1, <1>2, <1>3, ConcatProperties
  <2>2. \A k \in 1..Len(s) : (a \o b)[k] = IF k <= n THEN a[k] ELSE b[k - n]
    BY <1>1, <1>2, <1>3, ConcatProperties
  <2>3. \A k \in 1..Len(s) : (a \o b)[k] = s[k]
    <3>1. ASSUME NEW k \in 1..Len(s) PROVE (a \o b)[k] = s[k]
      <4>1. CASE k <= n
        BY <4>1, <2>2, <1>1, <1>3
      <4>2. CASE ~(k <= n)
        <5>1. k - n \in 1..Len(s)-n /\ n + (k - n) = k
          BY <4>2, <1>3
        <5>2. QED
          BY <4>2, <5>1, <2>2, <1>2
      <4>3. QED
        BY <4>1, <4>2
    <3>2. QED
      BY <3>1
  <2>4. QED
    BY <2>1, <2>3, SeqEqual
<1>5. Count(a \o b, c) = Count(a, c) + Count(b, c)
  BY <1>1, <1>2, CountConcat
<1>6. QED
  BY <1>4, <1>5 DEF a, b

\* The first entry taken counts once.
LEMMA CountTail ==
  ASSUME NEW S, NEW s \in Seq(S), s # <<>>, NEW c
  PROVE  Count(s, c) = One(Head(s), c) + Count(Tail(s), c)
<1>1. <<Head(s)>> \in Seq(S) /\ Tail(s) \in Seq(S) /\ s = <<Head(s)>> \o Tail(s)
  OBVIOUS
<1> DEFINE h == <<Head(s)>>
           r == Tail(s)
<1> HIDE DEF h, r
<1>a. h \in Seq(S) /\ r \in Seq(S) /\ s = h \o r
  BY <1>1 DEF h, r
<1>b. Count(h \o r, c) = Count(h, c) + Count(r, c)
  BY <1>a, CountConcat
<1>2. Count(s, c) = Count(h, c) + Count(r, c)
  BY <1>a, <1>b
<1>3. Head(s) \in S /\ h = Append(<<>>, Head(s)) /\ <<>> \in Seq(S)
  BY DEF h
<1>c. Count(<<>>, c) = 0
  BY CountEmpty
<1>d. \A e \in S : Count(Append(<<>>, e), c) = Count(<<>>, c) + One(e, c)
  BY <1>3, CountAppend
<1>e. One(Head(s), c) \in Nat
  BY DEF One
<1>4. Count(h, c) = One(Head(s), c)
  BY <1>3, <1>c, <1>d, <1>e
<1>5. QED
  BY <1>2, <1>4 DEF r

\* One entry taken out of the middle.
LEMMA CountRemoveAt ==
  ASSUME NEW S, NEW s \in Seq(S), NEW q \in 1..Len(s), NEW c
  PROVE  Count(s, c) = Count(RemoveAt(s, q), c) + One(s[q], c)
<1> DEFINE a == SubSeq(s, 1, q-1)
           b == SubSeq(s, q, Len(s))
           d == SubSeq(s, q+1, Len(s))
<1>1. Len(s) \in Nat /\ q \in Nat /\ q-1 \in 0..Len(s) /\ (q-1)+1 = q /\ DOMAIN s = 1..Len(s)
  BY LenProperties
<1>2. Count(s, c) = Count(a, c) + Count(b, c)
  BY <1>1, CountSplit
<1>p. \A m \in 0..Len(s) :
        /\ SubSeq(s, m+1, Len(s)) \in Seq(S) /\ Len(SubSeq(s, m+1, Len(s))) = Len(s) - m
        /\ \A k \in 1..Len(s)-m : SubSeq(s, m+1, Len(s))[k] = s[m+k]
  BY CutFact
<1>3. /\ b \in Seq(S) /\ Len(b) = Len(s) - (q - 1) /\ \A k \in 1..Len(s)-(q-1) : b[k] = s[(q-1) + k]
      /\ d \in Seq(S) /\ Len(d) = Len(s) - q /\ \A k \in 1..Len(s)-q : d[k] = s[q + k]
      /\ a \in Seq(S)
  <2>1. a \in Seq(S)
    BY <1>1, SubSeqProperties
  <2>2. q \in 0..Len(s)
    BY <1>1
  <2>3. /\ b \in Seq(S) /\ Len(b) = Len(s) - (q - 1)
        /\ \A k \in 1..Len(s)-(q-1) : b[k] = s[(q-1) + k]
    BY <1>1, <1>p
  <2>4. d \in Seq(S) /\ Len(d) = Len(s) - q /\ \A k \in 1..Len(s)-q : d[k] = s[q + k]
    BY <1>p, <2>2
  <2>5. QED
    BY <2>1, <2>3, <2>4
<1> HIDE DEF a, b, d
<1>4. b # <<>> /\ Head(b) = s[q] /\ Tail(b) = d
  <2>1. b # <<>>
    BY <1>1, <1>3, EmptySeq
  <2>2. Head(b) = b[1]
    BY <1>3, <2>1
  <2>3. b[1] = s[q]
    <3>1. 1 \in 1..Len(s)-(q-1) /\ (q-1) + 1 = q
      BY <1>1
    <3>2. b[1] = s[(q-1) + 1]
      BY <1>3, <3>1
    <3>3. QED
      BY <3>1, <3>2
  <2>4. /\ Tail(b) \in Seq(S) /\ Len(Tail(b)) = Len(s) - q
        /\ \A k \in 1..Len(Tail(b)) : Tail(b)[k] = b[k + 1]
    BY <1>1, <1>3, <2>1, HeadTailProperties
  <2>5. \A k \in 1..Len(s)-q : Tail(b)[k] = d[k]
    <3>1. \A k \in 1..Len(s)-q : k + 1 \in 1..Len(s)-(q-1) /\ (q-1) + (k + 1) = q + k
      BY <1>1
    <3>2. \A k \in 1..Len(s)-q : Tail(b)[k] = b[k + 1]
      BY <2>4
    <3>3. \A k \in 1..Len(s)-q : b[k + 1] = s[(q-1) + (k + 1)]
      BY <1>3, <3>1
    <3>4. QED
      BY <1>3, <3>1, <3>2, <3>3
  <2>6. Tail(b) = d
    BY <1>3, <2>4, <2>5, SeqEqual
  <2>7. QED
    BY <2>1, <2>2, <2>3, <2>6
<1>5. Count(b, c) = One(s[q], c) + Count(d, c)
  BY <1>3, <1>4, CountTail
<1>6. RemoveAt(s, q) = a \o d
  BY DEF RemoveAt, a, d
<1>7. Count(RemoveAt(s, q), c) = Count(a, c) + Count(d, c)
  BY <1>3, <1>6, CountConcat
<1>8. Count(a, c) \in Nat /\ Count(d, c) \in Nat /\ One(s[q], c) \in Nat
  BY <1>3, CountNat DEF One
<1>9. QED
  BY <1>2, <1>5, <1>7, <1>8

\* poll_link's swap with the last entry takes one out.
LEMMA CountVacate ==
  ASSUME NEW S, NEW s \in Seq(S), NEW x \in 1..Len(s), NEW c
  PROVE  Count(s, c) = Count(Vacate(s, x), c) + One(s[x], c)
<1> DEFINE n == Len(s)
           v == Vacate(s, x)
           D == About(s, c)
           V == About(v, c)
<1>1. /\ n \in Nat /\ DOMAIN s = 1..n /\ DOMAIN v = 1..n-1 /\ v \in Seq(S)
      /\ \A k \in 1..n-1 : v[k] = s[IF k = x THEN n ELSE k]
  BY LenProperties, VacateFact
<1>2. IsFiniteSet(D) /\ Cardinality(D) = Count(s, c) /\ Cardinality(V) = Count(v, c)
      /\ Count(s, c) \in Nat /\ Count(v, c) \in Nat
  BY <1>1, CountNat
<1> HIDE DEF n, v
<1>3. \A k \in 1..n : k # x /\ k # n => (k \in V <=> k \in D)
  BY <1>1 DEF About
<1>4. n \notin V /\ (n \in D <=> s[n].cid = c) /\ (x \in D <=> s[x].cid = c) /\ n \in 1..n
  BY <1>1 DEF About, n
<1>5. x # n => (x \in V <=> n \in D)
  <2>1. ASSUME x # n PROVE x \in V <=> n \in D
    <3>1. x \in 1..n-1
      <4>1. Len(s) \in Nat
        BY LenProperties
      <4>2. QED
        BY <4>1, <2>1 DEF n
    <3>2. v[x] = s[n] /\ x \in DOMAIN v
      BY <1>1, <3>1
    <3>3. x \in V <=> v[x].cid = c
      BY <3>2 DEF About
    <3>4. QED
      BY <3>2, <3>3, <1>4
  <2>2. QED
    BY <2>1
<1>6. V \subseteq 1..n /\ D \subseteq 1..n
  BY <1>1 DEF About
<1> HIDE DEF D, V
<1>7. CASE x = n
  <2>1. V = D \ {x}
    BY <1>3, <1>4, <1>6, <1>7
  <2>2. CASE x \in D
    <3>1. Cardinality(V) = Cardinality(D) - 1
      BY <2>1, <2>2, <1>2, FS_RemoveElement
    <3>2. QED
      BY <3>1, <2>2, <1>2, <1>4 DEF One, v
  <2>3. CASE x \notin D
    <3>1. V = D
      BY <2>1, <2>3
    <3>2. QED
      BY <3>1, <2>3, <1>2, <1>4 DEF One, v
  <2>4. QED
    BY <2>2, <2>3
<1>8. CASE x # n
  <2>1. CASE n \in D /\ x \in D
    <3>1. V = D \ {n}
      BY <1>3, <1>4, <1>5, <1>6, <1>8, <2>1
    <3>2. Cardinality(V) = Cardinality(D) - 1
      BY <3>1, <2>1, <1>2, FS_RemoveElement
    <3>3. QED
      BY <3>2, <2>1, <1>2, <1>4 DEF One, v
  <2>2. CASE n \notin D /\ x \in D
    <3>1. V = D \ {x}
      BY <1>3, <1>4, <1>5, <1>6, <1>8, <2>2
    <3>2. Cardinality(V) = Cardinality(D) - 1
      BY <3>1, <2>2, <1>2, FS_RemoveElement
    <3>3. QED
      BY <3>2, <2>2, <1>2, <1>4 DEF One, v
  <2>3. CASE n \in D /\ x \notin D
    <3> DEFINE R == D \ {n}
    <3>1. V = R \union {x} /\ x \notin R
      BY <1>3, <1>4, <1>5, <1>6, <1>8, <2>3
    <3>2. IsFiniteSet(R) /\ Cardinality(R) = Cardinality(D) - 1
      BY <2>3, <1>2, FS_RemoveElement
    <3> HIDE DEF R
    <3>3. Cardinality(V) = Cardinality(R) + 1
      BY <3>1, <3>2, FS_AddElement
    <3>4. QED
      BY <3>2, <3>3, <2>3, <1>2, <1>4 DEF One, v
  <2>4. CASE n \notin D /\ x \notin D
    <3>0. \A k \in 1..n : k \in V <=> k \in D
      BY <1>3, <1>4, <1>5, <1>8, <2>4
    <3>1. V = D
      BY <3>0, <1>6
    <3>2. QED
      BY <3>1, <2>4, <1>2, <1>4 DEF One, v
  <2>5. QED
    BY <2>1, <2>2, <2>3, <2>4
<1>9. QED
  BY <1>7, <1>8

\* Jobs that go on for nobody are still the same jobs.
LEMMA CountOrphan ==
  ASSUME NEW J, J = QueuedJob \/ J = WiredJob, NEW s \in Seq(J), NEW i, NEW c
  PROVE  Count(Orphan(s, i), c) = Count(s, c)
<1>1. \A j \in J : [j EXCEPT !.fd = NoFd].cid = j.cid
  BY DEF QueuedJob, WiredJob
<1>2. \A k \in DOMAIN s : s[k] \in J
  BY LenProperties
<1>3. DOMAIN Orphan(s, i) = DOMAIN s /\ \A k \in DOMAIN s : Orphan(s, i)[k].cid = s[k].cid
  BY <1>1, <1>2 DEF Orphan
<1>4. {k \in DOMAIN Orphan(s, i) : Orphan(s, i)[k].cid = c} = {k \in DOMAIN s : s[k].cid = c}
  BY <1>3
<1>5. QED
  BY <1>4 DEF Count

\* One more of a table's first entries.
LEMMA FirstFact ==
  ASSUME NEW S, NEW s \in Seq(S), NEW k \in 1..Len(s)
  PROVE  /\ SubSeq(s, 1, k-1) \in Seq(S) /\ s[k] \in S
         /\ SubSeq(s, 1, k) = Append(SubSeq(s, 1, k-1), s[k])
<1>0. Len(s) \in Nat /\ k \in Nat /\ k-1 \in Nat /\ \A m \in 1..Len(s) : s[m] \in S
  BY LenProperties
<1>1. /\ SubSeq(s, 1, k-1) \in Seq(S) /\ Len(SubSeq(s, 1, k-1)) = k-1
      /\ \A m \in 1..k-1 : SubSeq(s, 1, k-1)[m] = s[m]
  BY <1>0, SubSeqProperties
<1>2. /\ SubSeq(s, 1, k) \in Seq(S) /\ Len(SubSeq(s, 1, k)) = k
      /\ \A m \in 1..k : SubSeq(s, 1, k)[m] = s[m]
  BY <1>0, SubSeqProperties
<1> DEFINE a == SubSeq(s, 1, k-1)
           b == SubSeq(s, 1, k)
<1> HIDE DEF a, b
<1>3. /\ a \in Seq(S) /\ Len(a) = k-1 /\ \A m \in 1..k-1 : a[m] = s[m]
      /\ b \in Seq(S) /\ Len(b) = k /\ \A m \in 1..k : b[m] = s[m]
  BY <1>1, <1>2 DEF a, b
<1>4. /\ Append(a, s[k]) \in Seq(S) /\ Len(Append(a, s[k])) = k
      /\ \A m \in 1..k-1 : Append(a, s[k])[m] = a[m]
      /\ Append(a, s[k])[(k-1)+1] = s[k]
  BY <1>0, <1>3, AppendProperties
<1>5. \A m \in 1..k : b[m] = Append(a, s[k])[m]
  BY <1>0, <1>3, <1>4
<1>6. b = Append(a, s[k])
  BY <1>3, <1>4, <1>5, SeqEqual
<1>7. QED
  BY <1>0, <1>3, <1>6 DEF a, b

\* go_down answers every job of slot i once, so none of its requests is dropped.
LEMMA CountDowns ==
  ASSUME NEW q, NEW i, NEW J, NEW c, inflight \in Seq(J), q \in Seq(J),
         \A j \in J : j.cid = c => j.fd = i
  PROVE  Count(Downs(q, i), c) = Count(inflight, c) + Count(q, c)
<1> DEFINE jobs == inflight \o q
           n == Len(jobs)
           f == CHOOSE g : g = DownLoop(jobs, i, g, n)
           First(k) == SubSeq(jobs, 1, k)
           R == {Reply(j.cid, "DOWN") : j \in J}
<1>r. \A j \in J : Reply(j.cid, "DOWN") \in R
  OBVIOUS
<1> HIDE DEF R
<1>j. jobs \in Seq(J)
  BY ConcatProperties
<1>t. Count(jobs, c) = Count(inflight, c) + Count(q, c)
  BY CountConcat
<1>1. n \in Nat /\ \A k \in 1..n : jobs[k] \in J
  BY <1>j, LenProperties
<1>2. Downs(q, i) = f[n]
  BY DEF Downs, DownLoop
<1>w. First(n) = jobs
  <2>1. \A s \in Seq(J) : SubSeq(s, 1, Len(s)) = s
    OBVIOUS
  <2> HIDE DEF jobs
  <2>2. QED
    BY <1>j, <2>1
<1>z. First(0) = <<>>
  BY SubSeqEmpty
<1>s. \A k \in 1..n : /\ First(k-1) \in Seq(J) /\ First(k) = Append(First(k-1), jobs[k])
  <2> HIDE DEF jobs
  <2>1. QED
    BY <1>j, FirstFact
<1> HIDE DEF jobs, n, First
<1>3. f = DownLoop(jobs, i, f, n)
  BY <1>1, DownLoopRuns
<1> HIDE DEF f
<1>4. \A k \in 0..n : f[k] = IF k = 0 THEN <<>>
                             ELSE IF jobs[k].fd = i THEN Append(f[k-1], Reply(jobs[k].cid, "DOWN"))
                             ELSE f[k-1]
  BY <1>3 DEF DownLoop
<1> DEFINE Bad == {k \in 0..n : ~(f[k] \in Seq(R) /\ Count(f[k], c) = Count(First(k), c))}
<1>5. CASE Bad # {}
  <2>1. PICK m \in Bad : \A k \in Bad : m <= k
    <3>1. Bad \subseteq Nat
      BY <1>1
    <3> HIDE DEF Bad
    <3>2. QED
      BY <3>1, <1>5, LeastNatural
  <2>2. m \in 0..n /\ ~(f[m] \in Seq(R) /\ Count(f[m], c) = Count(First(m), c))
    OBVIOUS
  <2>3. m # 0
    <3>1. <<>> \in Seq(R)
      OBVIOUS
    <3>2. m = 0 => f[m] = <<>> /\ First(m) = <<>>
      BY <2>2, <1>4, <1>z
    <3>3. QED
      BY <2>2, <3>1, <3>2
  <2>4. m \in 1..n /\ m-1 \in 0..n /\ m-1 \notin Bad
    BY <1>1, <2>1, <2>2, <2>3
  <2> DEFINE g == f[m-1]
             h == First(m-1)
             j == jobs[m]
  <2> HIDE DEF g, h, j
  <2>5. g \in Seq(R) /\ Count(g, c) = Count(h, c) /\ j \in J /\ h \in Seq(J) /\ First(m) = Append(h, j)
    <3>1. f[m-1] \in Seq(R) /\ Count(f[m-1], c) = Count(First(m-1), c)
      BY <2>4
    <3>2. QED
      BY <3>1, <1>1, <1>s, <2>4 DEF g, h, j
  <2>6. f[m] = IF j.fd = i THEN Append(g, Reply(j.cid, "DOWN")) ELSE g
    BY <1>4, <2>2, <2>3 DEF g, j
  <2>7. Count(First(m), c) = Count(h, c) + One(j, c)
    BY <2>5, CountAppend
  <2>n. Count(h, c) \in Nat
    BY <2>5, CountNat
  <2>8. f[m] \in Seq(R) /\ Count(f[m], c) = Count(First(m), c)
    <3>1. CASE j.fd = i
      <4> DEFINE r == Reply(j.cid, "DOWN")
      <4>1. r \in R /\ r.cid = j.cid
        BY <1>r, <2>5 DEF Reply
      <4> HIDE DEF r
      <4>2. f[m] = Append(g, r)
        BY <2>6, <3>1 DEF r
      <4>3. f[m] \in Seq(R) /\ Count(f[m], c) = Count(g, c) + One(r, c)
        BY <4>1, <4>2, <2>5, CountAppend, AppendProperties
      <4>4. One(r, c) = One(j, c)
        BY <4>1 DEF One
      <4>5. QED
        BY <4>3, <4>4, <2>5, <2>7
    <3>2. CASE j.fd # i
      <4>1. j.cid # c
        BY <2>5, <3>2
      <4>2. One(j, c) = 0 /\ f[m] = g
        BY <4>1, <3>2, <2>6 DEF One
      <4>3. QED
        BY <4>2, <2>5, <2>7, <2>n
    <3>3. QED
      BY <3>1, <3>2
  <2>9. QED
    BY <2>2, <2>8
<1>6. CASE Bad = {}
  <2>1. n \in 0..n
    BY <1>1
  <2>2. Count(f[n], c) = Count(First(n), c)
    BY <1>6, <2>1
  <2>3. QED
    BY <1>2, <1>t, <1>w, <2>2
<1>7. QED
  BY <1>5, <1>6

-----------------------------------------------------------------------------
(***************************************************************************)
(* What waits for a client: flush_out and wr lose no reply.                *)
(***************************************************************************)
Boxed(i, c) == Count(oq[i], c) + Count(sock[i], c)

\* flush_out moves replies to the socket of a client that is there, and drops none.
LEMMA CountFlushed ==
  ASSUME NEW S, NEW o \in Seq(S), NEW i \in Slots, sock[i] \in Seq(S), Len(sock[i]) <= SockCap,
         ~gone[i], NEW c
  PROVE  Count(WaitingAfter(o, i), c) + Count(SocketAfter(o, i), c) = Count(o, c) + Count(sock[i], c)
<1> DEFINE n == Fits(o, sock[i])
           a == SubSeq(o, 1, n)
           b == SubSeq(o, n+1, Len(o))
<1>0. Len(o) \in Nat /\ Len(sock[i]) \in Nat
  BY LenProperties
<1>1. n \in 0..Len(o)
  <2>1. \A x, y, z \in Nat : y <= z => (IF x < z - y THEN x ELSE z - y) \in 0..x
    OBVIOUS
  <2>2. n = IF Len(o) < SockCap - Len(sock[i]) THEN Len(o) ELSE SockCap - Len(sock[i])
    BY DEF Fits
  <2> HIDE DEF n
  <2>3. QED
    BY <1>0, <2>1, <2>2, BoundsAssumption
<1>2. WaitingAfter(o, i) = b /\ SocketAfter(o, i) = sock[i] \o a
  BY DEF WaitingAfter, SocketAfter
<1> HIDE DEF n
<1>3. Count(o, c) = Count(a, c) + Count(b, c)
  BY <1>1, CountSplit
<1>4. a \in Seq(S) /\ b \in Seq(S)
  BY <1>0, <1>1, SubSeqProperties, LenProperties
<1> HIDE DEF a, b
<1>5. Count(sock[i] \o a, c) = Count(sock[i], c) + Count(a, c)
  BY <1>4, CountConcat
<1>6. Count(a, c) \in Nat /\ Count(b, c) \in Nat /\ Count(sock[i], c) \in Nat
  BY <1>4, CountNat
<1>7. QED
  BY <1>2, <1>3, <1>5, <1>6

\* wr adds the replies it is given, whether or not the socket takes them.
LEMMA CountAnswered ==
  ASSUME NEW S, NEW out, Answer(out), NEW i \in Slots, oq[i] \in Seq(S), sock[i] \in Seq(S), out[i] \in Seq(S),
         Len(sock[i]) <= SockCap, ~gone[i], NEW c
  PROVE  Boxed(i, c)' = Boxed(i, c) + Count(out[i], c)
<1>1. /\ oq'[i] = IF out[i] = <<>> THEN oq[i] ELSE WaitingAfter(oq[i] \o out[i], i)
      /\ sock'[i] = IF out[i] = <<>> THEN sock[i] ELSE SocketAfter(oq[i] \o out[i], i)
  BY DEF Answer
<1>2. Count(oq[i], c) \in Nat /\ Count(sock[i], c) \in Nat
  BY CountNat
<1>3. CASE out[i] = <<>>
  <2>1. oq'[i] = oq[i] /\ sock'[i] = sock[i] /\ Count(out[i], c) = 0
    BY <1>1, <1>3, CountEmpty
  <2>2. Boxed(i, c)' = Boxed(i, c)
    BY <2>1 DEF Boxed, Count
  <2>3. QED
    BY <1>2, <2>1, <2>2 DEF Boxed
<1>4. CASE out[i] # <<>>
  <2> DEFINE o == oq[i] \o out[i]
  <2>1. o \in Seq(S) /\ Count(o, c) = Count(oq[i], c) + Count(out[i], c) /\ Count(out[i], c) \in Nat
    BY CountConcat, ConcatProperties, CountNat
  <2> HIDE DEF o
  <2>2. Count(WaitingAfter(o, i), c) + Count(SocketAfter(o, i), c) = Count(o, c) + Count(sock[i], c)
    BY <2>1, CountFlushed
  <2>3. oq'[i] = WaitingAfter(o, i) /\ sock'[i] = SocketAfter(o, i)
    BY <1>1, <1>4 DEF o
  <2>4. Boxed(i, c)' = Count(oq'[i], c) + Count(sock'[i], c)
    BY DEF Boxed, Count
  <2>5. QED
    BY <1>2, <2>1, <2>2, <2>3, <2>4 DEF Boxed
<1>5. QED
  BY <1>3, <1>4

\* A flush of some slots, while others start afresh.
LEMMA CountKept ==
  ASSUME NEW Some, NEW fresh, Flush(Some, fresh), NEW S, NEW i \in Slots, oq[i] \in Seq(S), sock[i] \in Seq(S),
         Len(sock[i]) <= SockCap, ~gone[i], i \notin fresh, NEW c
  PROVE  Boxed(i, c)' = Boxed(i, c)
<1>1. /\ oq'[i] = IF i \in Some THEN WaitingAfter(oq[i], i) ELSE oq[i]
      /\ sock'[i] = IF i \in Some THEN SocketAfter(oq[i], i) ELSE sock[i]
  BY DEF Flush
<1>2. Count(WaitingAfter(oq[i], i), c) + Count(SocketAfter(oq[i], i), c) = Count(oq[i], c) + Count(sock[i], c)
  BY CountFlushed
<1>3. Boxed(i, c)' = Count(oq'[i], c) + Count(sock'[i], c)
  BY DEF Boxed, Count
<1>4. QED
  BY <1>1, <1>2, <1>3 DEF Boxed

-----------------------------------------------------------------------------
(***************************************************************************)
(* What a client has written: headers, each that announces a payload       *)
(* followed by it, unless it is the last one and the payload is owed.      *)
(* This is lost when the daemon gives up on a payload, so the theorem asks *)
(* that it does so for no request but a lease, which it answers by closing *)
(* the connection.                                                         *)
(***************************************************************************)
\* No payload is given up: none stalls or finds no memory, or only a lease ever has one.
NoStalls == Faults \cap {"stall", "oom"} = {}
PayloadsTaken == NoStalls \/ \A r \in Requests : r.n > 0 => r.op = "L"

Announces(t) == t.t = "header" /\ t.n > 0
TokenOK(t) == /\ Announces(t) => NoStalls \/ t.op = "L"
              /\ t.t = "payload" => t.cid = 0

Chained(s, owed) ==
  /\ \A k \in 1..Len(s) : TokenOK(s[k])
  /\ \A k \in 2..Len(s) : s[k].t = "payload" <=> Announces(s[k - 1])
  /\ owed <=> s # <<>> /\ Announces(s[Len(s)])

Aligned(i) == /\ Chained(inq[i], pend[i])
              /\ inq[i] # <<>> => Head(inq[i]).t = "header"

\* A header written, when no payload is owed.
LEMMA ChainHeader ==
  ASSUME NEW s \in Seq(Token), NEW owed, Chained(s, owed), ~owed,
         NEW t \in Token, t.t = "header", TokenOK(t)
  PROVE  Chained(Append(s, t), t.n > 0)
<1> DEFINE n == Len(s)
           u == Append(s, t)
<1>1. /\ n \in Nat /\ u # <<>> /\ Len(u) = n + 1 /\ u[n+1] = t /\ \A k \in 1..n : u[k] = s[k]
  BY LenProperties, AppendProperties
<1>e. n = 0 \/ (n \in 1..n /\ s # <<>>)
  BY <1>1, EmptySeq
<1> HIDE DEF n, u
<1>2. \A k \in 1..n+1 : k \in 1..n \/ k = n + 1
  BY <1>1
<1>3. \A k \in 1..n+1 : TokenOK(u[k])
  BY <1>1, <1>2 DEF Chained, n
<1>4. ASSUME NEW k \in 2..n+1 PROVE u[k].t = "payload" <=> Announces(u[k - 1])
  <2>1. CASE k \in 2..n
    <3>1. k \in 1..n /\ k - 1 \in 1..n
      BY <1>1, <2>1
    <3>2. s[k].t = "payload" <=> Announces(s[k - 1])
      BY <2>1 DEF Chained, n
    <3>3. QED
      BY <1>1, <3>1, <3>2
  <2>2. CASE k = n + 1
    <3>1. k - 1 = n /\ n \in 1..n /\ s # <<>>
      BY <1>1, <1>e, <2>2
    <3>2. ~Announces(s[n])
      BY <3>1 DEF Chained, n
    <3>3. QED
      BY <1>1, <2>2, <3>1, <3>2
  <2>3. QED
    BY <1>1, <2>1, <2>2
<1>5. t.n > 0 <=> u # <<>> /\ Announces(u[n+1])
  BY <1>1 DEF Announces
<1>6. QED
  BY <1>1, <1>3, <1>4, <1>5 DEF Chained, u

\* The payload that is owed, written.
LEMMA ChainPayload ==
  ASSUME NEW s \in Seq(Token), NEW owed, Chained(s, owed), owed,
         NEW t \in Token, t.t = "payload", t.cid = 0
  PROVE  Chained(Append(s, t), FALSE) /\ s # <<>>
<1> DEFINE n == Len(s)
           u == Append(s, t)
<1>1. /\ n \in Nat /\ u # <<>> /\ Len(u) = n + 1 /\ u[n+1] = t /\ \A k \in 1..n : u[k] = s[k]
  BY LenProperties, AppendProperties
<1> HIDE DEF n, u
<1>2. \A k \in 1..n+1 : k \in 1..n \/ k = n + 1
  BY <1>1
<1>a. TokenOK(t) /\ ~Announces(t)
  BY DEF TokenOK, Announces
<1>b. s # <<>> /\ Announces(s[n])
  BY DEF Chained, n
<1>3. \A k \in 1..n+1 : TokenOK(u[k])
  BY <1>1, <1>2, <1>a DEF Chained, n
<1>4. ASSUME NEW k \in 2..n+1 PROVE u[k].t = "payload" <=> Announces(u[k - 1])
  <2>1. CASE k \in 2..n
    <3>1. k \in 1..n /\ k - 1 \in 1..n
      BY <1>1, <2>1
    <3>2. s[k].t = "payload" <=> Announces(s[k - 1])
      BY <2>1 DEF Chained, n
    <3>3. QED
      BY <1>1, <3>1, <3>2
  <2>2. CASE k = n + 1
    <3>1. k - 1 = n /\ n \in 1..n
      BY <1>1, <2>2
    <3>2. QED
      BY <1>1, <1>b, <2>2, <3>1
  <2>3. QED
    BY <1>1, <2>1, <2>2
<1>6. QED
  BY <1>1, <1>3, <1>4, <1>a, <1>b DEF Chained, u

\* One token read: the next is the payload exactly if this announced one.
LEMMA ChainTail ==
  ASSUME NEW s \in Seq(Token), NEW owed \in BOOLEAN, Chained(s, owed), s # <<>>
  PROVE  /\ Tail(s) \in Seq(Token) /\ Head(s) \in Token /\ TokenOK(Head(s))
         /\ Tail(s) # <<>> => (Head(Tail(s)).t = "payload" <=> Announces(Head(s)))
         /\ (Tail(s) # <<>> \/ ~Announces(Head(s))) => Chained(Tail(s), owed)
<1> DEFINE n == Len(s)
           u == Tail(s)
<1>1. /\ n \in Nat \ {0} /\ u \in Seq(Token) /\ Head(s) \in Token /\ Head(s) = s[1] /\ Len(u) = n - 1
      /\ \A k \in 1..n-1 : u[k] = s[k + 1]
  BY LenProperties, EmptySeq, HeadTailProperties
<1>h. u # <<>> => Head(u) = u[1]
  BY <1>1
<1> HIDE DEF n, u
<1>e. u # <<>> <=> n # 1
  <2>1. u = <<>> => Len(u) = 0
    BY EmptySeq
  <2>2. u # <<>> => Len(u) \in Nat \ {0}
    BY <1>1, EmptySeq
  <2>3. QED
    BY <1>1, <2>1, <2>2
<1>2. \A k \in 1..n-1 : k + 1 \in 1..n /\ k + 1 \in 2..n /\ (k + 1) - 1 = k
  BY <1>1
<1>3. \A k \in 1..n-1 : TokenOK(u[k]) /\ (u[k].t = "payload" <=> Announces(s[k]))
  BY <1>1, <1>2 DEF Chained, n
<1>4. \A k \in 2..n-1 : u[k].t = "payload" <=> Announces(u[k - 1])
  <2>1. \A k \in 2..n-1 : k \in 1..n-1 /\ k - 1 \in 1..n-1 /\ (k - 1) + 1 = k
    BY <1>1
  <2>2. QED
    BY <1>1, <1>3, <2>1
<1>5. TokenOK(Head(s))
  <2>1. 1 \in 1..n
    BY <1>1
  <2>2. QED
    BY <1>1, <2>1 DEF Chained, n
<1>6. u # <<>> => (Head(u).t = "payload" <=> Announces(Head(s)))
  <2>1. u # <<>> => 1 \in 1..n-1
    BY <1>1, <1>e
  <2>2. QED
    BY <1>1, <1>h, <1>3, <2>1
<1>7. CASE u # <<>>
  <2>1. n - 1 \in 1..n-1 /\ (n - 1) + 1 = n
    BY <1>1, <1>e, <1>7
  <2>2. u[n - 1] = s[n]
    BY <1>1, <2>1
  <2>3. owed <=> u # <<>> /\ Announces(u[n - 1])
    BY <2>2, <1>7 DEF Chained, n
  <2>4. Chained(u, owed)
    BY <1>1, <1>3, <1>4, <2>3 DEF Chained
  <2>5. QED
    BY <1>1, <1>5, <1>6, <2>4 DEF u
<1>8. CASE u = <<>> /\ ~Announces(Head(s))
  <2>1. n = 1
    BY <1>e, <1>8
  <2>2. ~owed
    BY <2>1, <1>1, <1>8 DEF Chained, n
  <2>3. Chained(u, owed)
    BY <1>1, <1>3, <1>4, <1>8, <2>2 DEF Chained
  <2>4. QED
    BY <1>1, <1>5, <1>6, <2>3 DEF u
<1>9. CASE u = <<>> /\ Announces(Head(s))
  BY <1>1, <1>5, <1>9 DEF u
<1>10. QED
  BY <1>7, <1>8, <1>9

\* The daemon has read h of a client that is there, and all that belongs to it.
Reads(i, h, rest) ==
  /\ inq[i] # <<>> /\ h = Head(inq[i])
  /\ \/ ~Announces(h) /\ rest = Tail(inq[i])
     \/ Announces(h) /\ Tail(inq[i]) # <<>> /\ rest = Tail(Tail(inq[i]))

\* What is read leaves a client's stream in order, and is one request.
LEMMA ReadsFact ==
  ASSUME Inv, NEW i \in Slots, Aligned(i), NEW h, NEW rest, Reads(i, h, rest)
  PROVE  /\ rest \in Seq(Token) /\ Chained(rest, pend[i])
         /\ rest # <<>> => Head(rest).t = "header"
         /\ \A c : c # 0 => Count(inq[i], c) = One(h, c) + Count(rest, c)
<1> DEFINE s == inq[i]
           u == Tail(s)
<1>1. s \in Seq(Token) /\ pend[i] \in BOOLEAN /\ Chained(s, pend[i]) /\ s # <<>> /\ h = Head(s)
  BY DEF Inv, TypeOK, ClientTypeOK, Aligned, Reads
<1> HIDE DEF s
<1>2. /\ u \in Seq(Token) /\ h \in Token
      /\ u # <<>> => (Head(u).t = "payload" <=> Announces(h))
      /\ (u # <<>> \/ ~Announces(h)) => Chained(u, pend[i])
  BY <1>1, ChainTail
<1>3. \A c : Count(s, c) = One(h, c) + Count(u, c)
  BY <1>1, CountTail
<1>r. \/ ~Announces(h) /\ rest = u
      \/ Announces(h) /\ u # <<>> /\ rest = Tail(u)
  BY DEF Reads, s
<1> HIDE DEF u
<1>t. \A t \in Token : t.t = "header" \/ t.t = "payload"
  BY DEF Token
<1>4. CASE ~Announces(h) /\ rest = u
  <2>1. u # <<>> => Head(u) \in Token
    BY <1>2, HeadTailProperties
  <2>2. QED
    BY <1>2, <1>3, <1>4, <1>t, <2>1 DEF s
<1>5. CASE Announces(h) /\ u # <<>> /\ rest = Tail(u)
  <2> DEFINE p == Head(u)
             v == Tail(u)
  <2>1. Chained(u, pend[i]) /\ p.t = "payload"
    BY <1>2, <1>5
  <2>2. /\ v \in Seq(Token) /\ p \in Token /\ TokenOK(p)
        /\ v # <<>> => (Head(v).t = "payload" <=> Announces(p))
        /\ (v # <<>> \/ ~Announces(p)) => Chained(v, pend[i])
    BY <1>1, <1>2, <1>5, <2>1, ChainTail
  <2>3. \A c : Count(u, c) = One(p, c) + Count(v, c)
    BY <1>2, <1>5, CountTail
  <2>4. \A c : Count(v, c) \in Nat
    BY <2>2, CountNat
  <2>5. v # <<>> => Head(v) \in Token
    BY <2>2, HeadTailProperties
  <2> HIDE DEF p, v
  <2>6. ~Announces(p) /\ p.cid = 0
    BY <2>1, <2>2 DEF Announces, TokenOK
  <2>7. \A c : c # 0 => One(p, c) = 0
    BY <2>6 DEF One
  <2>8. \A c : c # 0 => Count(u, c) = Count(v, c)
    BY <2>3, <2>4, <2>7
  <2>9. rest = v
    BY <1>5 DEF v
  <2>10. QED
    BY <1>3, <1>t, <2>2, <2>5, <2>6, <2>8, <2>9 DEF s
<1>6. QED
  BY <1>r, <1>4, <1>5

\* Whatever the daemon takes of a client that is there is a header and what it announced.
LEMMA HeaderRead ==
  ASSUME Inv, NEW i \in Slots, Aligned(i), ~gone[i], NEW h \in Headers(i), Fine(h)
  PROVE  /\ h.op = "L" => Reads(i, h, Tail(inq[i]))
         /\ h.op # "L" => \A p \in Payloads(i, h) : p.ok /\ Reads(i, h, p.rest)
         /\ h.op # "L" /\ "oom" \in Faults => Reads(i, h, Tail(inq[i]))
<1>1. inq[i] \in Seq(Token) /\ pend[i] \in BOOLEAN /\ big_max \in Nat
  BY JobSizes DEF Inv, TypeOK, ClientTypeOK, DaemonTypeOK
<1>2. inq[i] # <<>>
  BY DEF Headers
<1>3. h = Head(inq[i])
  BY <1>2 DEF Headers, Aligned
<1>4. h \in Token /\ TokenOK(h)
  BY <1>1, <1>2, <1>3, ChainTail DEF Aligned
<1>5. h.t = "header"
  BY <1>2, <1>3 DEF Aligned
<1>6. h.n \in Int /\ ~(h.n < 0)
  BY <1>4 DEF Token, Fine, TooBigFor
<1>7. Announces(h) <=> h.n # 0
  BY <1>5, <1>6 DEF Announces
<1>8. h.op = "L" => ~Announces(h)
  BY <1>7 DEF Fine
<1>9. h.op # "L" /\ Announces(h) => NoStalls
  BY <1>4 DEF TokenOK
<1>10. ASSUME h.op # "L", NEW p \in Payloads(i, h) PROVE p.ok /\ Reads(i, h, p.rest)
  <2> DEFINE rest == Tail(inq[i])
  <2>a. \/ h.n = 0 /\ p = [ok |-> TRUE, rest |-> rest]
        \/ h.n # 0 /\ rest # <<>> /\ p = [ok |-> TRUE, rest |-> Tail(rest)]
        \/ h.n # 0 /\ (gone[i] \/ "stall" \in Faults)
    BY DEF Payloads
  <2>b. h.n # 0 => ~(gone[i] \/ "stall" \in Faults)
    BY <1>7, <1>9, <1>10 DEF NoStalls
  <2> HIDE DEF rest
  <2>1. CASE h.n = 0 /\ p = [ok |-> TRUE, rest |-> rest]
    BY <2>1, <1>2, <1>3, <1>7 DEF Reads, rest
  <2>2. CASE h.n # 0 /\ rest # <<>> /\ p = [ok |-> TRUE, rest |-> Tail(rest)]
    BY <2>2, <1>2, <1>3, <1>7 DEF Reads, rest
  <2>3. QED
    BY <2>a, <2>b, <2>1, <2>2
<1>11. h.op # "L" /\ "oom" \in Faults => ~Announces(h)
  BY <1>9 DEF NoStalls
<1>12. QED
  BY <1>2, <1>3, <1>8, <1>10, <1>11 DEF Reads

\* A request answered or queued has been read, whole, of a client that is there.
LEMMA RequestRead ==
  ASSUME Inv, NEW i \in Slots, ~gone[i] => Aligned(i), NEW h \in Headers(i),
         \/ LeaseRefused(i, h) \/ NoNode(i, h) \/ Refused(i, h) \/ NotTaken(i, h)
         \/ Enqueue(i, h) \/ LeaseGranted(i, h)
  PROVE  \E rest : inq' = [inq EXCEPT ![i] = rest] /\ (~gone[i] => Reads(i, h, rest))
<1>0. Fine(h)
  BY DEF LeaseRefused, NoNode, Refused, NotTaken, Enqueue, LeaseGranted
<1>1. CASE LeaseRefused(i, h) \/ LeaseGranted(i, h)
  <2>1. h.op = "L" /\ inq' = [inq EXCEPT ![i] = Tail(inq[i])]
    BY <1>1 DEF LeaseRefused, LeaseGranted, OnlyAnswers
  <2>2. QED
    BY <2>1, <1>0, HeaderRead
<1>2. CASE NoNode(i, h) \/ Refused(i, h) \/ Enqueue(i, h)
  <2>1. h.op # "L"
    BY <1>2 DEF NoNode, Refused, Enqueue
  <2>2. PICK p \in Payloads(i, h) : inq' = [inq EXCEPT ![i] = p.rest]
    BY <1>2 DEF NoNode, Refused, Enqueue, OnlyAnswers
  <2>3. ~gone[i] => Reads(i, h, p.rest)
    BY <1>0, <2>1, HeaderRead
  <2>4. QED
    BY <2>2, <2>3
<1>3. CASE NotTaken(i, h)
  <2>1. h.op # "L"
    BY <1>3 DEF NotTaken
  <2>2. CASE "oom" \in Faults /\ OnlyAnswers(i, h, Tail(inq[i]), "DOWN")
    <3>1. inq' = [inq EXCEPT ![i] = Tail(inq[i])]
      BY <2>2 DEF OnlyAnswers
    <3>2. QED
      BY <3>1, <2>1, <2>2, <1>0, HeaderRead
  <2>3. ASSUME NEW p \in Payloads(i, h), ~p.ok, OnlyAnswers(i, h, p.rest, "DOWN")
        PROVE  \E rest : inq' = [inq EXCEPT ![i] = rest] /\ (~gone[i] => Reads(i, h, rest))
    <3>1. inq' = [inq EXCEPT ![i] = p.rest]
      BY <2>3 DEF OnlyAnswers
    <3>2. gone[i]
      BY <1>0, <2>1, <2>3, HeaderRead
    <3>3. QED
      BY <3>1, <3>2
  <2>4. QED
    BY <1>3, <2>2, <2>3 DEF NotTaken
<1>4. QED
  BY <1>1, <1>2, <1>3

-----------------------------------------------------------------------------
(***************************************************************************)
(* The accounts: streams in order, jobs that know whether their client is  *)
(* still there, and request numbers given out once.                        *)
(***************************************************************************)
Streams == \A i \in Slots : ~gone[i] => Aligned(i)

\* A job for nobody is OP_CAPS, a misread one, or one whose client has gone.
Live(j) == j.cid <= nreq /\ (j.fd = NoFd /\ j.cid # 0 => owner[j.cid] = 0)
LiveJobs(J) == {j \in J : Live(j)}
Tables(q, f) == q \in Seq(LiveJobs(QueuedJob)) /\ f \in Seq(LiveJobs(WiredJob))

Ledger ==
  /\ \A c \in 0..MaxReq : owner[c] <= nconn /\ (c > nreq => owner[c] = 0)
  /\ got \subseteq 0..nreq

Accounts == Streams /\ Tables(queue, inflight) /\ Ledger

\* The accounts are empty at the start.
LEMMA AccountsInit == Init => Accounts
<1> SUFFICES ASSUME Init PROVE Accounts
  OBVIOUS
<1>1. Streams
  <2>1. ASSUME NEW i \in Slots PROVE Aligned(i)
    <3>1. inq[i] = <<>> /\ pend[i] = FALSE
      BY DEF Init
    <3>2. Len(<<>>) = 0
      OBVIOUS
    <3>3. 1..0 = {} /\ 2..0 = {}
      OBVIOUS
    <3>4. Chained(<<>>, FALSE)
      BY <3>2, <3>3 DEF Chained
    <3>5. QED
      BY <3>1, <3>4 DEF Aligned
  <2>2. QED
    BY <2>1 DEF Streams
<1>2. Ledger
  BY DEF Init, Ledger
<1>3. Tables(queue, inflight)
  <2>1. CapsJob \in LiveJobs(QueuedJob)
    <3>1. CapsJob.cid = 0 /\ CapsJob \in QueuedJob
      BY CapsJobFact DEF CapsJob
    <3>2. nreq = 0
      BY DEF Init
    <3>3. QED
      BY <3>1, <3>2 DEF LiveJobs, Live
  <2>2. \A S : <<>> \in Seq(S) /\ \A j \in S : <<j>> \in Seq(S)
    OBVIOUS
  <2>3. (queue = <<>> \/ queue = <<CapsJob>>) /\ inflight = <<>>
    BY DEF Init
  <2>4. QED
    BY <2>1, <2>2, <2>3 DEF Tables
<1>4. QED
  BY <1>1, <1>2, <1>3 DEF Accounts

\* A client writes, reads or closes.
LEMMA AccountsClient ==
  ASSUME Inv, Routing, Accounts, PayloadsTaken, NEW i \in Slots, Client(i)
  PROVE  Accounts'
<1>t. /\ inq \in [Slots -> Seq(Token)] /\ pend \in [Slots -> BOOLEAN] /\ nreq \in Nat /\ nreq \in 0..MaxReq
      /\ owner \in [0..MaxReq -> 0..MaxConn] /\ nconn \in Nat /\ gone \in [Slots -> BOOLEAN]
  BY DEF Inv, TypeOK, ClientTypeOK
<1>1. ASSUME NEW r \in Requests, Submit(i, r) PROVE Accounts'
  <2> DEFINE t == [t |-> "header", cid |-> nreq + 1, op |-> r.op, node |-> r.node, n |-> r.n]
  <2>1. /\ inq' = [inq EXCEPT ![i] = Append(inq[i], t)] /\ pend' = [pend EXCEPT ![i] = r.n > 0]
        /\ nreq < MaxReq /\ nreq' = nreq + 1 /\ owner' = [owner EXCEPT ![nreq + 1] = conn[i]]
        /\ ~gone[i] /\ ~pend[i] /\ UNCHANGED <<gone, queue, inflight, nconn, got>>
    BY <1>1 DEF Submit, daemon
  <2>2. r.node \in Nat /\ r.n \in Int /\ r.op \in OpBytes /\ nreq + 1 \in 0..MaxReq
    <3>1. r \in [op : STRING, node : Nat, n : Int]
      BY InputsAssumption
    <3>2. r.node \in Nat /\ r.n \in Int
      BY <3>1
    <3>3. r.op \in OpBytes
      BY Zenon DEF OpBytes
    <3>4. nreq + 1 \in 0..MaxReq
      BY <1>t, <2>1, BoundsAssumption
    <3>5. QED
      BY <3>2, <3>3, <3>4
  <2>3. t \in Token /\ t.t = "header" /\ t.n = r.n /\ t.op = r.op
    BY <2>2 DEF Token
  <2> HIDE DEF t
  <2>4. TokenOK(t)
    BY <2>3 DEF TokenOK, Announces, PayloadsTaken
  <2>5. Streams'
    <3>1. ASSUME NEW k \in Slots, ~gone[k] PROVE Aligned(k)'
      <4>1. CASE k = i
        <5>1. Chained(inq[i], pend[i]) /\ (inq[i] # <<>> => Head(inq[i]).t = "header")
          BY <3>1, <4>1 DEF Accounts, Streams, Aligned
        <5>2. inq'[i] = Append(inq[i], t) /\ pend'[i] = (r.n > 0)
          BY <1>t, <2>1
        <5>3. Chained(Append(inq[i], t), t.n > 0)
          BY <5>1, <2>1, <2>3, <2>4, <1>t, ChainHeader
        <5>4. Head(Append(inq[i], t)).t = "header"
          <6>1. \A S : \A x \in Seq(S) : \A e \in S : Head(Append(x, e)) = IF x = <<>> THEN e ELSE Head(x)
            OBVIOUS
          <6>2. Head(Append(inq[i], t)) = IF inq[i] = <<>> THEN t ELSE Head(inq[i])
            BY <6>1, <1>t, <2>3
          <6>3. QED
            BY <6>2, <5>1, <2>3
        <5>5. QED
          BY <4>1, <5>2, <5>3, <5>4, <2>3 DEF Aligned
      <4>2. CASE k # i
        <5>1. inq'[k] = inq[k] /\ pend'[k] = pend[k]
          BY <2>1, <4>2, <1>t
        <5>2. QED
          BY <5>1, <3>1 DEF Accounts, Streams, Aligned
      <4>3. QED
        BY <4>1, <4>2
    <3>2. QED
      BY <3>1, <2>1 DEF Streams
  <2>6. Tables(queue, inflight)'
    <3>1. \A j : j.cid \in 0..MaxReq /\ Live(j) => Live(j)'
      BY <1>t, <2>1 DEF Live
    <3>2. LiveJobs(QueuedJob) \subseteq LiveJobs(QueuedJob)' /\ LiveJobs(WiredJob) \subseteq LiveJobs(WiredJob)'
      BY <3>1 DEF LiveJobs, QueuedJob, WiredJob
    <3>3. /\ Seq(LiveJobs(QueuedJob)) \subseteq Seq(LiveJobs(QueuedJob)')
          /\ Seq(LiveJobs(WiredJob)) \subseteq Seq(LiveJobs(WiredJob)')
      BY <3>2, SeqMonotone
    <3>4. QED
      BY <3>3, <2>1 DEF Accounts, Tables
  <2>7. Ledger'
    <3>1. conn[i] <= nconn
      BY DEF Routing, ConnsOK
    <3>2. \A c \in 0..MaxReq : owner'[c] = IF c = nreq + 1 THEN conn[i] ELSE owner[c]
      BY <1>t, <2>1
    <3>3. \A c \in 0..MaxReq : owner'[c] <= nconn' /\ (c > nreq' => owner'[c] = 0)
      BY <1>t, <2>1, <3>1, <3>2 DEF Accounts, Ledger
    <3>4. got' \subseteq 0..nreq'
      BY <1>t, <2>1 DEF Accounts, Ledger
    <3>5. QED
      BY <3>3, <3>4 DEF Ledger
  <2>8. QED
    BY <2>5, <2>6, <2>7 DEF Accounts
<1>2. CASE SendPayload(i)
  <2> DEFINE t == [t |-> "payload", cid |-> 0, op |-> "", node |-> 0, n |-> 0]
  <2>1. /\ inq' = [inq EXCEPT ![i] = Append(inq[i], t)] /\ pend' = [pend EXCEPT ![i] = FALSE]
        /\ ~gone[i] /\ pend[i] /\ UNCHANGED <<gone, queue, inflight, nconn, got, nreq, owner>>
    BY <1>2 DEF SendPayload, daemon
  <2>2. t \in Token /\ t.t = "payload" /\ t.cid = 0
    BY BoundsAssumption DEF Token, OpBytes
  <2> HIDE DEF t
  <2>3. Streams'
    <3>1. ASSUME NEW k \in Slots, ~gone[k] PROVE Aligned(k)'
      <4>1. CASE k = i
        <5>1. Chained(inq[i], pend[i]) /\ (inq[i] # <<>> => Head(inq[i]).t = "header")
          BY <3>1, <4>1 DEF Accounts, Streams, Aligned
        <5>2. inq'[i] = Append(inq[i], t) /\ pend'[i] = FALSE
          BY <1>t, <2>1
        <5>3. Chained(Append(inq[i], t), FALSE) /\ inq[i] # <<>>
          BY <5>1, <2>1, <2>2, <1>t, ChainPayload
        <5>4. Head(Append(inq[i], t)).t = "header"
          <6>1. \A S : \A x \in Seq(S) : \A e \in S : Head(Append(x, e)) = IF x = <<>> THEN e ELSE Head(x)
            OBVIOUS
          <6>2. Head(Append(inq[i], t)) = IF inq[i] = <<>> THEN t ELSE Head(inq[i])
            BY <6>1, <1>t, <2>2
          <6>3. QED
            BY <6>2, <5>1, <5>3
        <5>5. QED
          BY <4>1, <5>2, <5>3, <5>4 DEF Aligned
      <4>2. CASE k # i
        <5>1. inq'[k] = inq[k] /\ pend'[k] = pend[k]
          BY <2>1, <4>2, <1>t
        <5>2. QED
          BY <5>1, <3>1 DEF Accounts, Streams, Aligned
      <4>3. QED
        BY <4>1, <4>2
    <3>2. QED
      BY <3>1, <2>1 DEF Streams
  <2>4. (Tables(queue, inflight) /\ Ledger)'
    BY <2>1 DEF Accounts, Tables, LiveJobs, Live, Ledger
  <2>5. QED
    BY <2>3, <2>4 DEF Accounts
<1>3. CASE Receive(i) \/ Close(i)
  <2>1. /\ UNCHANGED <<inq, pend, queue, inflight, nconn, nreq, owner>>
        /\ \A k \in Slots : ~gone'[k] => ~gone[k]
    BY <1>3, <1>t DEF Receive, Close, daemon
  <2>2. Streams'
    BY <2>1 DEF Accounts, Streams, Aligned
  <2>3. Tables(queue, inflight)'
    BY <2>1 DEF Accounts, Tables, LiveJobs, Live
  <2>4. got' \subseteq 0..nreq
    <3>1. CASE Receive(i)
      <4>1. sock[i] \in Seq(OwnReplies(i)) /\ sock[i] # <<>> /\ got' = got \union {Head(sock[i]).cid}
        BY <3>1 DEF Receive, Routing, BoxesOK
      <4>2. Head(sock[i]) \in OwnReplies(i)
        BY <4>1, HeadTailProperties
      <4>3. Head(sock[i]).cid \in 0..nreq
        BY <4>2, <1>t DEF OwnReplies, ReplyType, Ours
      <4>4. QED
        BY <4>1, <4>3 DEF Accounts, Ledger
    <3>2. CASE Close(i)
      BY <3>2 DEF Close, Accounts, Ledger
    <3>3. QED
      BY <1>3, <3>1, <3>2
  <2>5. QED
    BY <2>1, <2>2, <2>3, <2>4 DEF Accounts, Ledger
<1>4. QED
  BY <1>1, <1>2, <1>3 DEF Client

\* The step leaves streams, requests and connections alone: what the tables hold stays live.
LEMMA AccountsKept ==
  ASSUME Accounts, Streams', UNCHANGED <<nreq, owner, nconn, got>>, Tables(queue', inflight')
  PROVE  Accounts'
<1>1. LiveJobs(QueuedJob)' = LiveJobs(QueuedJob) /\ LiveJobs(WiredJob)' = LiveJobs(WiredJob)
  BY DEF LiveJobs, Live
<1>2. Tables(queue, inflight)'
  BY <1>1 DEF Tables
<1>3. Ledger'
  BY DEF Accounts, Ledger
<1>4. QED
  BY <1>2, <1>3 DEF Accounts

\* A request taken leaves every stream in order.
LEMMA StreamsRead ==
  ASSUME Inv, Accounts, NEW i \in Slots, NEW h, NEW rest, inq' = [inq EXCEPT ![i] = rest],
         UNCHANGED <<pend, gone>>, ~gone[i] => Reads(i, h, rest)
  PROVE  Streams'
<1>1. ASSUME NEW k \in Slots, ~gone[k] PROVE Aligned(k)'
  <2>1. inq \in [Slots -> Seq(Token)]
    BY DEF Inv, TypeOK, ClientTypeOK
  <2>2. CASE k = i
    <3>1. Aligned(i) /\ Reads(i, h, rest)
      BY <1>1, <2>2 DEF Accounts, Streams
    <3>2. Chained(rest, pend[i]) /\ (rest # <<>> => Head(rest).t = "header")
      BY <3>1, ReadsFact
    <3>3. inq'[k] = rest /\ pend'[k] = pend[i]
      BY <2>1, <2>2
    <3>4. QED
      BY <3>2, <3>3 DEF Aligned
  <2>3. CASE k # i
    <3>1. inq'[k] = inq[k] /\ pend'[k] = pend[k]
      BY <2>1, <2>3
    <3>2. QED
      BY <3>1, <1>1 DEF Accounts, Streams, Aligned
  <2>4. QED
    BY <2>2, <2>3
<1>2. QED
  BY <1>1 DEF Streams

\* The OP_CAPS job is for nobody.
LEMMA CapsJobLive == ASSUME Inv PROVE CapsJob \in LiveJobs(QueuedJob) /\ CapsJob.cid = 0 /\ CapsJob.fd = NoFd
<1>1. CapsJob.cid = 0 /\ CapsJob.fd = NoFd /\ CapsJob \in QueuedJob
  BY CapsJobFact DEF CapsJob
<1>2. nreq \in Nat
  BY DEF Inv, TypeOK, ClientTypeOK
<1>3. QED
  BY <1>1, <1>2 DEF LiveJobs, Live

\* A boot queues nothing but the OP_CAPS job.
LEMMA BootLive ==
  ASSUME Inv, NEW q \in Seq(LiveJobs(QueuedJob)), Boot(q)
  PROVE  queue' \in Seq(LiveJobs(QueuedJob))
<1>1. queue' = q \/ queue' = Append(q, CapsJob)
  BY DEF Boot
<1>2. \A S : \A j \in S : \A s \in Seq(S) : Append(s, j) \in Seq(S)
  OBVIOUS
<1>3. QED
  BY <1>1, <1>2, CapsJobLive

\* The requests a client makes are answered, queued or refused; none changes the ledger.
LEMMA AccountsRequest ==
  ASSUME Inv, Routing, Accounts, NEW i \in Slots, NEW h \in Headers(i),
         \/ LeaseRefused(i, h) \/ NoNode(i, h) \/ Refused(i, h) \/ NotTaken(i, h)
         \/ Enqueue(i, h) \/ LeaseGranted(i, h)
  PROVE  Accounts'
<1>1. UNCHANGED <<pend, gone, nreq, owner, nconn, got>>
  BY DEF LeaseRefused, NoNode, Refused, NotTaken, OnlyAnswers, Enqueue, LeaseGranted
<1>2. ~gone[i] => Aligned(i)
  BY DEF Accounts, Streams
<1>3. PICK rest : inq' = [inq EXCEPT ![i] = rest] /\ (~gone[i] => Reads(i, h, rest))
  BY <1>2, RequestRead
<1>4. Streams'
  BY <1>1, <1>3, StreamsRead
<1>5. Tables(queue', inflight')
  <2>1. CASE LeaseRefused(i, h) \/ NoNode(i, h) \/ Refused(i, h) \/ NotTaken(i, h)
    <3>1. UNCHANGED <<queue, inflight>>
      BY <2>1 DEF LeaseRefused, NoNode, Refused, NotTaken, OnlyAnswers
    <3>2. QED
      BY <3>1 DEF Accounts
  <2>2. CASE LeaseGranted(i, h)
    <3>1. queue' = <<>> /\ inflight' = <<>>
      BY <2>2 DEF LeaseGranted, GoDown, Fallen
    <3>2. \A S : <<>> \in Seq(S)
      OBVIOUS
    <3>3. QED
      BY <3>1, <3>2 DEF Tables
  <2>3. CASE Enqueue(i, h)
    <3> DEFINE j == [fd |-> i, cid |-> h.cid, op |-> h.op, node |-> h.node, n |-> h.n]
    <3>1. Serving(i) /\ queue' = Append(queue, j) /\ inflight' = inflight
      BY <2>3 DEF Enqueue
    <3>2. j \in QueuedJob /\ j.fd = i /\ j.cid = h.cid
      <4>1. h.n \in Nat
        BY <2>3, HeaderFact DEF Enqueue, Fine, TooBigFor
      <4>2. QED
        BY <4>1, HeaderFact DEF QueuedJob
    <3> HIDE DEF j
    <3>3. Ours(h.cid, i)
      BY <3>1, HeaderOurs
    <3>4. i # NoFd
      BY BoundsAssumption
    <3>5. j \in LiveJobs(QueuedJob)
      BY <3>2, <3>3, <3>4 DEF LiveJobs, Live, Ours
    <3>6. \A S : \A e \in S : \A s \in Seq(S) : Append(s, e) \in Seq(S)
      OBVIOUS
    <3>7. QED
      BY <3>1, <3>5, <3>6 DEF Accounts, Tables
  <2>4. QED
    BY <2>1, <2>2, <2>3
<1>6. QED
  BY <1>1, <1>4, <1>5, AccountsKept

\* drop_client: the client's jobs go on for nobody, and its requests belong to nobody.
LEMMA AccountsDrop ==
  ASSUME Inv, Routing, Accounts, NEW i \in Slots, Serving(i), DropClient(i)
  PROVE  Accounts'
<1>1. /\ conn' = [conn EXCEPT ![i] = 0] /\ UNCHANGED <<nconn, nreq>>
      /\ inq' = [inq EXCEPT ![i] = <<>>] /\ inflight' = Orphan(inflight, i)
      /\ pend' = [pend EXCEPT ![i] = FALSE] /\ gone' = [gone EXCEPT ![i] = FALSE]
      /\ owner' = [c \in DOMAIN owner |-> IF owner[c] = conn[i] THEN 0 ELSE owner[c]]
      /\ got' \subseteq got
  BY DEF DropClient
<1>2. /\ owner \in [0..MaxReq -> 0..MaxConn] /\ inq \in [Slots -> Seq(Token)] /\ nconn \in Nat /\ nreq \in Nat
      /\ pend \in [Slots -> BOOLEAN] /\ gone \in [Slots -> BOOLEAN]
  BY DEF Inv, TypeOK, ClientTypeOK
<1>3. Streams'
  <2>1. ASSUME NEW k \in Slots, ~gone'[k] PROVE Aligned(k)'
    <3>1. CASE k = i
      <4>1. inq'[k] = <<>> /\ pend'[k] = FALSE
        BY <1>1, <1>2, <3>1
      <4>2. Len(<<>>) = 0 /\ 1..0 = {} /\ 2..0 = {}
        OBVIOUS
      <4>3. Chained(<<>>, FALSE)
        BY <4>2 DEF Chained
      <4>4. QED
        BY <4>1, <4>3 DEF Aligned
    <3>2. CASE k # i
      <4>1. inq'[k] = inq[k] /\ pend'[k] = pend[k] /\ gone'[k] = gone[k]
        BY <1>1, <1>2, <3>2
      <4>2. QED
        BY <4>1, <2>1 DEF Accounts, Streams, Aligned
    <3>3. QED
      BY <3>1, <3>2
  <2>2. QED
    BY <2>1 DEF Streams
<1>4. Ledger'
  BY <1>1, <1>2 DEF Accounts, Ledger
<1>5. ASSUME NEW J, J = QueuedJob \/ J = WiredJob, NEW s \in Seq(LiveJobs(J)), s \in Seq(OwnJobs(J))
      PROVE  Orphan(s, i) \in Seq(LiveJobs(J)')
  <2>1. /\ Orphan(s, i) = [k \in 1..Len(s) |-> IF s[k].fd = i THEN [s[k] EXCEPT !.fd = NoFd] ELSE s[k]]
        /\ Len(s) \in Nat /\ \A k \in 1..Len(s) : s[k] \in LiveJobs(J) /\ s[k] \in OwnJobs(J)
    BY <1>5 DEF Orphan
  <2>2. ASSUME NEW j \in LiveJobs(J), j \in OwnJobs(J)
        PROVE  (IF j.fd = i THEN [j EXCEPT !.fd = NoFd] ELSE j) \in LiveJobs(J)'
    <3>a. \A x \in J : /\ x.cid \in 0..MaxReq /\ x.fd \in Slots \union {NoFd}
                       /\ [x EXCEPT !.fd = NoFd] \in J /\ [x EXCEPT !.fd = NoFd].cid = x.cid
                       /\ [x EXCEPT !.fd = NoFd].fd = NoFd
      <4>1. CASE J = QueuedJob
        BY <4>1 DEF QueuedJob
      <4>2. CASE J = WiredJob
        BY <4>2 DEF WiredJob
      <4>3. QED
        BY <1>5, <4>1, <4>2
    <3>b. /\ j \in J /\ j.cid <= nreq /\ (j.fd = NoFd /\ j.cid # 0 => owner[j.cid] = 0)
          /\ (j.fd # NoFd => Ours(j.cid, j.fd)) /\ j.cid \in 0..MaxReq /\ DOMAIN owner = 0..MaxReq
      BY <2>2, <3>a, <1>2 DEF LiveJobs, Live, OwnJobs
    <3>1. CASE j.fd = i
      <4> DEFINE o == [j EXCEPT !.fd = NoFd]
      <4>1. o \in J /\ o.fd = NoFd /\ o.cid = j.cid
        BY <3>a, <3>b
      <4> HIDE DEF o
      <4>2. i # NoFd
        BY BoundsAssumption
      <4>3. j.cid # 0 => owner[j.cid] = conn[i]
        BY <3>1, <3>b, <4>2 DEF Ours, From
      <4>4. j.cid # 0 => owner'[j.cid] = 0
        BY <1>1, <3>b, <4>3
      <4>5. o \in LiveJobs(J)'
        BY <4>1, <4>4, <3>b, <1>1, <1>5 DEF LiveJobs, Live
      <4>6. QED
        BY <3>1, <4>5 DEF o
    <3>2. CASE j.fd # i
      <4>1. j.fd = NoFd /\ j.cid # 0 => owner'[j.cid] = 0
        BY <1>1, <3>b
      <4>2. j \in LiveJobs(J)'
        BY <4>1, <3>b, <1>1, <1>5 DEF LiveJobs, Live
      <4>3. QED
        BY <3>2, <4>2
    <3>3. QED
      BY <3>1, <3>2
  <2> HIDE DEF Slots
  <2>3. QED
    BY <2>1, <2>2
<1>6. Tables(queue, inflight)'
  <2>1. Orphan(inflight, i) \in Seq(LiveJobs(WiredJob)') /\ Orphan(queue, i) \in Seq(LiveJobs(QueuedJob)')
    BY <1>5 DEF Accounts, Tables, Routing, JobsOK
  <2>2. queue' \in {Orphan(queue, i), Append(Orphan(queue, i), CapsJob)}
    BY DEF DropClient, Boot
  <2>3. CapsJob \in LiveJobs(QueuedJob)'
    BY CapsJobLive, <1>1, <1>2 DEF LiveJobs, Live
  <2>4. \A S : \A j \in S : \A s \in Seq(S) : Append(s, j) \in Seq(S)
    OBVIOUS
  <2>5. queue' \in Seq(LiveJobs(QueuedJob)')
    BY <2>1, <2>2, <2>3, <2>4
  <2>6. QED
    BY <1>1, <2>1, <2>5 DEF Tables
<1>7. QED
  BY <1>3, <1>4, <1>6 DEF Accounts

\* The loop accepts a connection at most, under a number nobody has had.
LEMMA AccountsLoop ==
  ASSUME Inv, Accounts, Selected(FALSE) \/ Selected(TRUE) \/ Spin \/ SendDone \/ PollDone \/ WatchQuiet
  PROVE  Accounts'
<1>1. UNCHANGED <<queue, inflight, inq, pend, gone, nreq, owner, got>>
  BY DEF Selected, Spin, SendDone, PollDone, WatchQuiet, clients
<1>2. nconn \in Nat /\ (nconn' = nconn \/ nconn' = nconn + 1)
  BY DEF Selected, Spin, SendDone, PollDone, WatchQuiet, clients, Accept, Inv, TypeOK, ClientTypeOK
<1>3. Streams'
  BY <1>1 DEF Accounts, Streams, Aligned
<1>4. LiveJobs(QueuedJob)' = LiveJobs(QueuedJob) /\ LiveJobs(WiredJob)' = LiveJobs(WiredJob)
  BY <1>1 DEF LiveJobs, Live
<1>5. Tables(queue, inflight)'
  BY <1>1, <1>4 DEF Accounts, Tables
<1>6. \A c \in 0..MaxReq : owner[c] \in Nat
  BY DEF Inv, TypeOK, ClientTypeOK
<1>7. Ledger'
  BY <1>1, <1>2, <1>6 DEF Accounts, Ledger
<1>8. QED
  BY <1>3, <1>5, <1>7 DEF Accounts

\* A job sent is the job that was queued, with a node and a wire id.
LEMMA WiredFact ==
  ASSUME Inv, NEW q \in DOMAIN queue, NEW k \in Nodes, NEW d \in Dues
  PROVE  /\ queue[q] \in QueuedJob /\ Wired(queue[q], k, d) \in WiredJob
         /\ Wired(queue[q], k, d).fd = queue[q].fd /\ Wired(queue[q], k, d).cid = queue[q].cid
<1>1. queue[q] \in QueuedJob
  BY LenProperties DEF Inv, TypeOK, DaemonTypeOK
<1>2. QED
  BY <1>1, NextWidFact, BoundsAssumption DEF Wired, WiredJob, QueuedJob

\* A job that moves from one table to the other, or leaves, stays live.
LEMMA AccountsJobs ==
  ASSUME Inv, Accounts,
         \/ \E q \in DOMAIN queue, k \in Nodes : SendOne(q, k) \/ SendFails(q, k)
         \/ PollReply \/ PollOutOfStep \/ PollBadLength \/ WatchFire \/ Retry
  PROVE  Accounts'
<1>1. UNCHANGED <<inq, pend, gone, nreq, owner, nconn, got>>
  BY DEF SendOne, SendFails, PollReply, PollOutOfStep, PollBadLength, WatchFire, Retry, clients
<1>2. Streams'
  BY <1>1 DEF Accounts, Streams, Aligned
<1>3. queue \in Seq(LiveJobs(QueuedJob)) /\ inflight \in Seq(LiveJobs(WiredJob))
  BY DEF Accounts, Tables
<1>4. \A S : <<>> \in Seq(S) /\ \A e \in S : \A s \in Seq(S) : Append(s, e) \in Seq(S)
  OBVIOUS
<1>5. ASSUME NEW q \in DOMAIN queue, NEW k \in Nodes, SendOne(q, k) PROVE Tables(queue', inflight')
  <2>1. PICK d \in Dues : inflight' = Append(inflight, Wired(queue[q], k, d))
    BY <1>5 DEF SendOne
  <2>2. queue' = RemoveAt(queue, q)
    BY <1>5 DEF SendOne
  <2>3. q \in 1..Len(queue) /\ queue[q] \in LiveJobs(QueuedJob)
    BY <1>3, LenProperties
  <2>4. Wired(queue[q], k, d) \in LiveJobs(WiredJob)
    BY <2>3, WiredFact DEF LiveJobs, Live
  <2>5. RemoveAt(queue, q) \in Seq(LiveJobs(QueuedJob))
    BY <1>3, <2>3, RemoveAtFact
  <2>6. QED
    BY <1>3, <1>4, <2>1, <2>2, <2>4, <2>5 DEF Tables
<1>6. CASE (\E q \in DOMAIN queue, k \in Nodes : SendFails(q, k)) \/ PollBadLength
  <2>1. queue' = <<>> /\ inflight' = <<>>
    BY <1>6 DEF SendFails, PollBadLength, GoDown, Fallen
  <2>2. QED
    BY <2>1, <1>4, <1>1, <1>2, AccountsKept DEF Tables
<1>7. CASE WatchFire
  <2>1. Boot(<<>>) /\ inflight' = <<>>
    BY <1>7 DEF WatchFire, GoDown
  <2>2. <<>> \in Seq(LiveJobs(QueuedJob))
    BY <1>4
  <2>3. queue' \in Seq(LiveJobs(QueuedJob))
    BY <2>1, <2>2, BootLive
  <2>4. QED
    BY <2>1, <2>3, <1>4, <1>1, <1>2, AccountsKept DEF Tables
<1>8. CASE Retry
  <2>1. Boot(queue) /\ inflight' = inflight
    BY <1>8 DEF Retry
  <2>2. QED
    BY <2>1, <1>3, BootLive, <1>1, <1>2, AccountsKept DEF Tables
<1>9. CASE PollReply \/ PollOutOfStep
  <2>1. queue' = queue
    BY <1>9 DEF PollReply, PollOutOfStep
  <2>2. (\E x \in DOMAIN inflight : \E c : Finish(x, c)) \/ Drop
    BY <1>9 DEF PollReply, PollOutOfStep, Matching
  <2>3. inflight' = inflight \/ \E x \in DOMAIN inflight : inflight' = Vacate(inflight, x)
    BY <2>2 DEF Finish, Drop
  <2>4. \A x \in DOMAIN inflight : Vacate(inflight, x) \in Seq(LiveJobs(WiredJob))
    BY <1>3, LenProperties, VacateFact
  <2>5. inflight' \in Seq(LiveJobs(WiredJob))
    BY <1>3, <2>3, <2>4
  <2>6. QED
    BY <2>1, <2>5, <1>1, <1>2, <1>3, AccountsKept DEF Tables
<1>10. QED
  BY <1>1, <1>2, <1>5, <1>6, <1>7, <1>8, <1>9, AccountsKept

\* Every step keeps the accounts.
LEMMA AccountsNext ==
  ASSUME Inv, Routing, Accounts, PayloadsTaken, [Next]_vars
  PROVE  Accounts'
<1>1. CASE Select \/ SelectConnect \/ Spin \/ WatchQuiet
  BY <1>1, AccountsLoop DEF Select, SelectConnect
<1>2. CASE \E i \in Slots : ServeRequest(i)
  <2> PICK i \in Slots : ServeRequest(i)
    BY <1>2
  <2>1. CASE ClientGone(i)
    BY <2>1, AccountsDrop DEF ClientGone
  <2>2. ASSUME NEW h \in Headers(i), BadRequest(i, h) PROVE Accounts'
    BY <2>2, AccountsDrop DEF BadRequest
  <2>3. ASSUME NEW h \in Headers(i),
               \/ LeaseRefused(i, h) \/ NoNode(i, h) \/ Refused(i, h) \/ NotTaken(i, h)
               \/ Enqueue(i, h) \/ LeaseGranted(i, h)
        PROVE  Accounts'
    BY <2>3, AccountsRequest
  <2>4. QED
    BY <2>1, <2>2, <2>3 DEF ServeRequest
<1>3. CASE SendJobs
  BY <1>3, AccountsJobs, AccountsLoop DEF SendJobs
<1>4. CASE PollLink \/ WatchFire \/ Retry
  BY <1>4, AccountsJobs, AccountsLoop DEF PollLink
<1>5. CASE \E i \in Slots : Client(i)
  BY <1>5, AccountsClient
<1>6. CASE (\E j \in net, caps \in Caps : NodeReply(j, caps)) \/ UNCHANGED vars
  <2>1. UNCHANGED <<inq, pend, gone, nreq, owner, nconn, got, queue, inflight>>
    BY <1>6 DEF NodeReply, vars, daemon, clients
  <2>2. Streams' /\ Tables(queue', inflight')
    BY <2>1 DEF Accounts, Streams, Aligned
  <2>3. QED
    BY <2>1, <2>2, AccountsKept
<1>7. QED
  BY <1>1, <1>2, <1>3, <1>4, <1>5, <1>6 DEF Next, Daemon

-----------------------------------------------------------------------------
(***************************************************************************)
(* The balance of each step.                                               *)
(***************************************************************************)

\* Request c was made by the client now at slot i, which has not closed.
Stays(c, i) == Open(i) /\ ~gone[i] /\ owner[c] = conn[i]
Jobs(c) == Count(queue, c) + Count(inflight, c)
Had(c) == IF c \in got THEN 1 ELSE 0
Sum(i, c) == Count(inq[i], c) + Jobs(c) + Boxed(i, c) + Had(c)

\* The places of a request, as a sum of counts.
LEMMA PlacesSum ==
  ASSUME Inv, Routing, NEW i \in Slots, NEW c
  PROVE  /\ Count(inq[i], c) \in Nat /\ Count(queue, c) \in Nat /\ Count(inflight, c) \in Nat
         /\ Count(oq[i], c) \in Nat /\ Count(sock[i], c) \in Nat
         /\ Jobs(c) \in Nat /\ Boxed(i, c) \in Nat /\ Had(c) \in {0, 1}
         /\ Places(i, c) = Sum(i, c)
<1>1. /\ inq[i] \in Seq(Token) /\ queue \in Seq(QueuedJob) /\ inflight \in Seq(WiredJob)
      /\ oq[i] \in Seq(ReplyType) /\ sock[i] \in Seq(ReplyType)
  BY DEF Inv, TypeOK, DaemonTypeOK, ClientTypeOK, Routing, BoxesOK
<1>2. /\ Count(inq[i], c) \in Nat /\ Count(queue, c) \in Nat /\ Count(inflight, c) \in Nat
      /\ Count(oq[i], c) \in Nat /\ Count(sock[i], c) \in Nat
  BY <1>1, CountNat
<1>3. QED
  BY <1>2 DEF Places, Sum, Jobs, Boxed, Had

\* The same of the next state.
LEMMA PlacesSumNext ==
  ASSUME Inv', Routing', NEW i \in Slots, NEW c
  PROVE  /\ Count(inq'[i], c) \in Nat /\ Count(queue', c) \in Nat /\ Count(inflight', c) \in Nat
         /\ Count(oq'[i], c) \in Nat /\ Count(sock'[i], c) \in Nat
         /\ Places(i, c)' = Count(inq'[i], c) + (Count(queue', c) + Count(inflight', c))
                            + (Count(oq'[i], c) + Count(sock'[i], c)) + Had(c)'
<1>1. /\ inq'[i] \in Seq(Token) /\ queue' \in Seq(QueuedJob) /\ inflight' \in Seq(WiredJob)
      /\ oq'[i] \in Seq(ReplyType) /\ sock'[i] \in Seq(ReplyType)
  BY DEF Inv, TypeOK, DaemonTypeOK, ClientTypeOK, Routing, BoxesOK
<1>2. /\ Count(inq'[i], c) \in Nat /\ Count(queue', c) \in Nat /\ Count(inflight', c) \in Nat
      /\ Count(oq'[i], c) \in Nat /\ Count(sock'[i], c) \in Nat
  BY <1>1, CountNat
<1>3. Had(c)' \in {0, 1}
  BY DEF Had
<1>4. Places(i, c)' = Count(inq'[i], c) + Count(queue', c) + Count(inflight', c) + Count(oq'[i], c)
                      + Count(sock'[i], c) + Had(c)'
  BY DEF Places, Had, Count
<1>5. QED
  BY <1>2, <1>3, <1>4

\* What comes out of one place goes into another.
LEMMA Balanced ==
  ASSUME Inv, Routing, Inv', Routing', Conservation, NEW i \in Slots, NEW c \in 1..MaxReq, Stays(c, i),
         Count(inq'[i], c) + (Count(queue', c) + Count(inflight', c))
           + (Count(oq'[i], c) + Count(sock'[i], c)) + Had(c)' = Sum(i, c)
  PROVE  Places(i, c)' = 1
  BY PlacesSum, PlacesSumNext DEF Conservation, Stays

\* Two clients that stay do not share a request.
LEMMA OneClient ==
  ASSUME Routing, NEW i \in Slots, NEW k \in Slots, NEW c, c # 0, Stays(c, i), Ours(c, k)
  PROVE  k = i
  BY DEF Stays, Ours, From, Routing, ConnsOK, Open

HereJobs == (LiveJobs(QueuedJob) \cap OwnJobs(QueuedJob)) \union (LiveJobs(WiredJob) \cap OwnJobs(WiredJob))

\* The jobs in the tables are live, and those of a client are its own.
LEMMA JobsHere ==
  ASSUME Routing, Accounts
  PROVE  /\ queue \in Seq(HereJobs) /\ inflight \in Seq(HereJobs)
         /\ \A i \in Slots, c \in 1..MaxReq : Stays(c, i) =>
              \A j \in HereJobs : j.cid = c => j.fd = i
<1>1. \A A, B, C : A \cap B \subseteq C => \A s : s \in Seq(A) /\ s \in Seq(B) => s \in Seq(C)
  OBVIOUS
<1>2. /\ LiveJobs(QueuedJob) \cap OwnJobs(QueuedJob) \subseteq HereJobs
      /\ LiveJobs(WiredJob) \cap OwnJobs(WiredJob) \subseteq HereJobs
  BY DEF HereJobs
<1>3. queue \in Seq(LiveJobs(QueuedJob)) /\ queue \in Seq(OwnJobs(QueuedJob))
  BY DEF Accounts, Tables, Routing, JobsOK
<1>3a. inflight \in Seq(LiveJobs(WiredJob)) /\ inflight \in Seq(OwnJobs(WiredJob))
  BY DEF Accounts, Tables, Routing, JobsOK
<1>4. queue \in Seq(HereJobs) /\ inflight \in Seq(HereJobs)
  BY <1>1, <1>2, <1>3, <1>3a
<1>5. ASSUME NEW i \in Slots, NEW c \in 1..MaxReq, Stays(c, i), NEW j \in HereJobs, j.cid = c
      PROVE  j.fd = i
  <2>1. /\ j.fd = NoFd /\ j.cid # 0 => owner[j.cid] = 0
        /\ j.fd # NoFd => Ours(j.cid, j.fd)
        /\ j.fd \in Slots \union {NoFd}
    BY <1>5 DEF HereJobs, LiveJobs, Live, OwnJobs, QueuedJob, WiredJob
  <2>2. c # 0 /\ conn[i] # 0 /\ owner[c] = conn[i]
    BY <1>5, BoundsAssumption DEF Stays, Open
  <2>3. j.fd # NoFd
    BY <1>5, <2>1, <2>2
  <2>4. QED
    BY <1>5, <2>1, <2>2, <2>3, OneClient
<1>6. QED
  BY <1>4, <1>5

\* One reply to one slot.
LEMMA CountOnly ==
  ASSUME NEW fd, NEW cid, NEW st, NEW i \in Slots, NEW c
  PROVE  Count(Only(fd, Reply(cid, st))[i], c) = IF i = fd /\ cid = c THEN 1 ELSE 0
<1>1. CASE i = fd
  <2> DEFINE r == Reply(cid, st)
  <2>1. Only(fd, r)[i] = <<r>> /\ r.cid = cid
    BY <1>1 DEF Only, Reply
  <2> HIDE DEF r
  <2>2. <<>> \in Seq({r}) /\ r \in {r} /\ <<r>> = Append(<<>>, r)
    OBVIOUS
  <2>3. Count(Append(<<>>, r), c) = Count(<<>>, c) + One(r, c)
    BY <2>2, CountAppend
  <2>4. Count(<<r>>, c) = 0 + One(r, c)
    BY <2>2, <2>3, CountEmpty
  <2>5. QED
    BY <1>1, <2>1, <2>4 DEF One, r
<1>2. CASE i # fd
  BY <1>2, CountEmpty DEF Only
<1>3. QED
  BY <1>1, <1>2

\* The OP_CAPS job is no request's.
LEMMA CountBoot ==
  ASSUME Inv, NEW q \in Seq(QueuedJob), Boot(q), NEW c \in 1..MaxReq
  PROVE  Count(queue', c) = Count(q, c)
<1>1. queue' = q \/ queue' = Append(q, CapsJob)
  BY DEF Boot
<1>2. Count(Append(q, CapsJob), c) = Count(q, c) + One(CapsJob, c)
  BY CapsJobFact, CountAppend
<1>3. One(CapsJob, c) = 0 /\ Count(q, c) \in Nat
  BY BoundsAssumption, CountNat DEF CapsJob, One
<1>4. Count(Append(q, CapsJob), c) = Count(q, c)
  BY <1>2, <1>3
<1>5. CASE queue' = q
  BY <1>5
<1>6. CASE queue' = Append(q, CapsJob)
  <2> DEFINE u == Append(q, CapsJob)
  <2>1. queue' = u /\ Count(u, c) = Count(q, c)
    BY <1>4, <1>6
  <2> HIDE DEF u
  <2>2. QED
    BY <2>1
<1>7. QED
  BY <1>1, <1>5, <1>6

\* Replies given out are added to what waits.
LEMMA CountGiven ==
  ASSUME Routing, NEW out, Answer(out), NEW i \in Slots, out[i] \in Seq(OwnReplies(i)), ~gone[i], NEW c
  PROVE  Count(oq'[i], c) + Count(sock'[i], c) = Boxed(i, c) + Count(out[i], c)
<1>1. oq[i] \in Seq(OwnReplies(i)) /\ sock[i] \in Seq(OwnReplies(i)) /\ Len(sock[i]) <= SockCap
  BY DEF Routing, BoxesOK
<1>2. Boxed(i, c)' = Boxed(i, c) + Count(out[i], c)
  BY <1>1, CountAnswered
<1>3. Boxed(i, c)' = Count(oq'[i], c) + Count(sock'[i], c)
  BY DEF Boxed, Count
<1>4. QED
  BY <1>2, <1>3

\* go_down moves every job of a client that stays to what waits for it.
LEMMA CountGoDown ==
  ASSUME Inv, Routing, Accounts, NEW extra, GoDown(queue, extra), Fallen \/ Boot(<<>>),
         NEW i \in Slots, extra[i] \in Seq(OwnReplies(i)), NEW c \in 1..MaxReq, Stays(c, i)
  PROVE  /\ Count(queue', c) = 0 /\ Count(inflight', c) = 0
         /\ Count(oq'[i], c) + Count(sock'[i], c) = Boxed(i, c) + (Jobs(c) + Count(extra[i], c))
<1>1. inflight' = <<>> /\ (queue' = <<>> \/ Boot(<<>>))
  BY DEF GoDown, Fallen
<1>2. <<>> \in Seq(QueuedJob) /\ Count(<<>>, c) = 0
  BY CountEmpty
<1>3. Count(queue', c) = 0 /\ Count(inflight', c) = 0
  BY <1>1, <1>2, CountBoot
<1>4. /\ queue \in Seq(HereJobs) /\ inflight \in Seq(HereJobs)
      /\ \A j \in HereJobs : j.cid = c => j.fd = i
  BY JobsHere
<1>5. ASSUME NEW j \in HereJobs, j.fd = i PROVE Reply(j.cid, "DOWN") \in OwnReplies(i)
  <2>0. i # NoFd
    BY BoundsAssumption
  <2>1. j.cid \in 0..MaxReq /\ Ours(j.cid, i)
    BY <1>5, <2>0 DEF HereJobs, OwnJobs, QueuedJob, WiredJob
  <2>2. [cid |-> j.cid, st |-> "DOWN"] \in ReplyType
    BY <2>1 DEF ReplyType, Statuses
  <2>3. QED
    BY <2>1, <2>2 DEF OwnReplies, Reply
<1>6. Count(Downs(queue, i), c) = Count(inflight, c) + Count(queue, c)
  BY <1>4, CountDowns
<1>7. Downs(queue, i) \in Seq(OwnReplies(i))
  <2>1. inflight \o queue \in Seq(HereJobs)
    BY <1>4, ConcatProperties
  <2>2. QED
    BY <2>1, <1>5, DownsFact
<1> DEFINE out == [k \in Slots |-> Downs(queue, k) \o extra[k]]
<1>8. Answer(out) /\ out[i] = Downs(queue, i) \o extra[i]
  BY DEF GoDown
<1> HIDE DEF out
<1>9. out[i] \in Seq(OwnReplies(i)) /\ Count(out[i], c) = Count(Downs(queue, i), c) + Count(extra[i], c)
  BY <1>7, <1>8, CountConcat, ConcatProperties
<1>10. Count(oq'[i], c) + Count(sock'[i], c) = Boxed(i, c) + Count(out[i], c)
  BY <1>8, <1>9, CountGiven DEF Stays
<1>11. Count(inflight, c) \in Nat /\ Count(queue, c) \in Nat
  BY PlacesSum
<1>12. QED
  BY <1>3, <1>6, <1>9, <1>10, <1>11 DEF Jobs

\* What is to be shown of a step, client by client.
LEMMA Conserved ==
  ASSUME \A c \in 1..MaxReq, i \in Slots : Stays(c, i)' => Places(i, c)' = 1
  PROVE  Conservation'
  BY DEF Conservation, Stays, Open

\* A client that stays was there before, unless it or its request is new.
LEMMA StayedOn ==
  ASSUME UNCHANGED <<conn, gone, owner>>, NEW c, NEW i, Stays(c, i)'
  PROVE  Stays(c, i)
  BY DEF Stays, Open

\* The loop's own steps move replies to sockets at most; a new connection has made no request.
LEMMA ConservedLoop ==
  ASSUME Inv, Routing, Accounts, Conservation, Inv', Routing',
         Selected(FALSE) \/ Selected(TRUE) \/ Spin \/ SendDone \/ PollDone \/ WatchQuiet
  PROVE  Conservation'
<1>1. UNCHANGED <<queue, inflight, inq, gone, owner, got>>
  BY DEF Selected, Spin, SendDone, PollDone, WatchQuiet, clients
<1>2. \/ UNCHANGED <<conn, oq, sock>>
      \/ \E Some : UNCHANGED conn /\ Flush(Some, {})
      \/ \E Some : /\ conn' = [i \in Slots |-> IF i \in FreeSlot THEN nconn + 1 ELSE conn[i]]
                   /\ Flush(Some, FreeSlot)
  BY DEF Selected, Spin, SendDone, PollDone, WatchQuiet, clients, Accept, Silence
<1>3. ASSUME NEW c \in 1..MaxReq, NEW i \in Slots, Stays(c, i)' PROVE Places(i, c)' = 1
  <2>1. conn'[i] = conn[i] /\ (i \notin FreeSlot \/ UNCHANGED conn)
    <3>1. CASE UNCHANGED conn
      BY <3>1
    <3>2. CASE conn' = [k \in Slots |-> IF k \in FreeSlot THEN nconn + 1 ELSE conn[k]]
      <4>1. owner'[c] = conn'[i] /\ c \in 0..MaxReq
        BY <1>3, BoundsAssumption DEF Stays
      <4>2. owner[c] <= nconn /\ owner[c] \in Nat /\ nconn \in Nat
        BY <4>1 DEF Accounts, Ledger, Inv, TypeOK, ClientTypeOK
      <4>3. i \notin FreeSlot
        BY <1>1, <3>2, <4>1, <4>2
      <4>4. QED
        BY <3>2, <4>3
    <3>3. QED
      BY <1>2, <3>1, <3>2
  <2>2. Stays(c, i)
    BY <1>1, <1>3, <2>1 DEF Stays, Open
  <2>3. oq[i] \in Seq(OwnReplies(i)) /\ sock[i] \in Seq(OwnReplies(i)) /\ Len(sock[i]) <= SockCap
    BY DEF Routing, BoxesOK
  <2>4. Boxed(i, c)' = Boxed(i, c)
    <3>1. CASE UNCHANGED <<oq, sock>>
      BY <3>1 DEF Boxed, Count
    <3>2. ASSUME NEW Some, Flush(Some, {}) PROVE Boxed(i, c)' = Boxed(i, c)
      BY <2>2, <2>3, <3>2, CountKept DEF Stays
    <3>3. ASSUME NEW Some, Flush(Some, FreeSlot), i \notin FreeSlot PROVE Boxed(i, c)' = Boxed(i, c)
      BY <2>2, <2>3, <3>3, CountKept DEF Stays
    <3>4. ASSUME NEW Some, Flush(Some, FreeSlot), UNCHANGED conn,
                 conn' = [k \in Slots |-> IF k \in FreeSlot THEN nconn + 1 ELSE conn[k]]
          PROVE i \notin FreeSlot
      BY <2>2, <3>4 DEF FreeSlot, Stays
    <3>5. QED
      BY <1>2, <2>1, <3>1, <3>2, <3>3, <3>4
  <2>5. Boxed(i, c)' = Count(oq'[i], c) + Count(sock'[i], c)
    BY DEF Boxed, Count
  <2>6. Had(c)' = Had(c) /\ Jobs(c) = Count(queue', c) + Count(inflight', c) /\ inq'[i] = inq[i]
    BY <1>1 DEF Had, Jobs
  <2>7. QED
    BY <2>2, <2>4, <2>5, <2>6, Balanced DEF Sum
<1>4. QED
  BY <1>3, Conserved

\* A request refused, granted or queued leaves the stream for one other place.
LEMMA ConservedRequest ==
  ASSUME Inv, Routing, Accounts, Conservation, Inv', Routing', NEW k \in Slots, NEW h \in Headers(k),
         \/ LeaseRefused(k, h) \/ NoNode(k, h) \/ Refused(k, h) \/ NotTaken(k, h)
         \/ Enqueue(k, h) \/ LeaseGranted(k, h)
  PROVE  Conservation'
<1>1. Serving(k) /\ UNCHANGED <<conn, gone, owner, got>>
  BY DEF LeaseRefused, NoNode, Refused, NotTaken, OnlyAnswers, Enqueue, LeaseGranted
<1>2. ~gone[k] => Aligned(k)
  BY DEF Accounts, Streams
<1>3. PICK rest : inq' = [inq EXCEPT ![k] = rest] /\ (~gone[k] => Reads(k, h, rest))
  BY <1>2, RequestRead
<1>4. h.cid \in 0..MaxReq /\ Ours(h.cid, k)
  BY <1>1, HeaderOurs
<1>5. ASSUME NEW c \in 1..MaxReq, NEW i \in Slots, Stays(c, i)' PROVE Places(i, c)' = 1
  <2>1. Stays(c, i) /\ c # 0
    BY <1>1, <1>5, StayedOn
  <2> DEFINE moved == IF i = k /\ h.cid = c THEN 1 ELSE 0
  <2>2. moved \in {0, 1} /\ moved = One(h, c)
    BY <1>4, <2>1, OneClient DEF One
  <2>3. Count(inq[i], c) = Count(inq'[i], c) + moved
    <3>0. inq \in [Slots -> Seq(Token)] /\ Count(inq[i], c) \in Nat
      BY PlacesSum DEF Inv, TypeOK, ClientTypeOK
    <3>1. CASE i = k
      <4>1. Reads(k, h, rest) /\ Aligned(k)
        BY <1>2, <1>3, <2>1, <3>1 DEF Stays
      <4>2. Count(inq[i], c) = One(h, c) + Count(rest, c) /\ rest \in Seq(Token)
        BY <2>1, <3>1, <4>1, ReadsFact
      <4>3. inq'[i] = rest /\ Count(rest, c) \in Nat
        BY <1>3, <3>0, <3>1, <4>2, CountNat
      <4>4. QED
        BY <2>2, <4>2, <4>3
    <3>2. CASE i # k
      <4>1. inq'[i] = inq[i] /\ moved = 0
        BY <1>3, <3>0, <3>2
      <4>2. QED
        BY <3>0, <4>1
    <3>3. QED
      BY <3>1, <3>2
  <2>4. Had(c)' = Had(c)
    BY <1>1 DEF Had
  <2>5. \A st \in Statuses : /\ Count(Only(k, Reply(h.cid, st))[i], c) = moved
                             /\ Only(k, Reply(h.cid, st))[i] \in Seq(OwnReplies(i))
    <3>1. ASSUME NEW st \in Statuses
          PROVE  /\ Count(Only(k, Reply(h.cid, st))[i], c) = moved
                 /\ Only(k, Reply(h.cid, st))[i] \in Seq(OwnReplies(i))
      <4>1. Count(Only(k, Reply(h.cid, st))[i], c) = moved
        BY CountOnly
      <4>2. Only(k, Reply(h.cid, st))[i] \in Seq(OwnReplies(i))
        BY <1>4, OnlyFact
      <4>3. QED
        BY <4>1, <4>2
    <3>2. QED
      BY <3>1
  <2> HIDE DEF moved
  <2>6. /\ Count(inq'[i], c) \in Nat /\ Count(queue, c) \in Nat /\ Count(inflight, c) \in Nat
        /\ Boxed(i, c) \in Nat /\ Jobs(c) \in Nat /\ Had(c) \in {0, 1} /\ Count(inq[i], c) \in Nat
    BY PlacesSum, PlacesSumNext
  <2>7. CASE LeaseRefused(k, h) \/ NoNode(k, h) \/ Refused(k, h) \/ NotTaken(k, h)
    <3>1. PICK st \in {"DOWN", "NONODE"} : Answer(Only(k, Reply(h.cid, st))) /\ UNCHANGED <<queue, inflight>>
      BY <2>7 DEF LeaseRefused, NoNode, Refused, NotTaken, OnlyAnswers
    <3>2. st \in Statuses
      BY DEF Statuses
    <3> DEFINE out == Only(k, Reply(h.cid, st))
    <3>3. Answer(out) /\ out[i] \in Seq(OwnReplies(i)) /\ Count(out[i], c) = moved
      BY <2>5, <3>1, <3>2
    <3> HIDE DEF out
    <3>4. Count(oq'[i], c) + Count(sock'[i], c) = Boxed(i, c) + Count(out[i], c)
      BY <2>1, <3>3, CountGiven DEF Stays
    <3>5. Count(queue', c) + Count(inflight', c) = Jobs(c)
      BY <3>1 DEF Jobs
    <3>6. QED
      BY <2>1, <2>2, <2>3, <2>4, <2>6, <3>3, <3>4, <3>5, Balanced DEF Sum
  <2>8. CASE LeaseGranted(k, h)
    <3> DEFINE out == Only(k, Reply(h.cid, "OK"))
    <3>1. GoDown(queue, out) /\ Fallen
      BY <2>8 DEF LeaseGranted
    <3>2. out[i] \in Seq(OwnReplies(i)) /\ Count(out[i], c) = moved
      BY <2>5 DEF Statuses
    <3> HIDE DEF out
    <3>3. /\ Count(queue', c) = 0 /\ Count(inflight', c) = 0
          /\ Count(oq'[i], c) + Count(sock'[i], c) = Boxed(i, c) + (Jobs(c) + Count(out[i], c))
      BY <2>1, <3>1, <3>2, CountGoDown
    <3>4. QED
      BY <2>1, <2>2, <2>3, <2>4, <2>6, <3>2, <3>3, Balanced DEF Sum
  <2>9. CASE Enqueue(k, h)
    <3> DEFINE j == [fd |-> k, cid |-> h.cid, op |-> h.op, node |-> h.node, n |-> h.n]
    <3>1. queue' = Append(queue, j) /\ UNCHANGED <<inflight, oq, sock>>
      BY <2>9 DEF Enqueue
    <3>2. j \in QueuedJob /\ j.cid = h.cid
      <4>1. h.n \in Nat
        BY <2>9, HeaderFact DEF Enqueue, Fine, TooBigFor
      <4>2. QED
        BY <4>1, HeaderFact DEF QueuedJob
    <3> HIDE DEF j
    <3>3. Count(Append(queue, j), c) = Count(queue, c) + One(j, c) /\ One(j, c) = moved
      <4>1. queue \in Seq(QueuedJob)
        BY DEF Inv, TypeOK, DaemonTypeOK
      <4>2. One(j, c) = One(h, c)
        BY <3>2 DEF One
      <4>3. QED
        BY <2>2, <3>2, <4>1, <4>2, CountAppend
    <3>4. Count(queue', c) = Count(queue, c) + moved
      BY <3>1, <3>3, Zenon
    <3>5. Count(oq'[i], c) + Count(sock'[i], c) = Boxed(i, c) /\ Count(inflight', c) = Count(inflight, c)
      BY <3>1 DEF Boxed
    <3>6. QED
      BY <2>1, <2>2, <2>3, <2>4, <2>6, <3>4, <3>5, Balanced DEF Sum, Jobs
  <2>10. QED
    BY <2>7, <2>8, <2>9
<1>6. QED
  BY <1>5, Conserved

\* A client dropped takes its own requests out of the account and nobody else's.
LEMMA ConservedDrop ==
  ASSUME Inv, Routing, Accounts, Conservation, Inv', Routing', NEW k \in Slots, Serving(k), DropClient(k)
  PROVE  Conservation'
<1>1. /\ conn' = [conn EXCEPT ![k] = 0]
      /\ oq' = [oq EXCEPT ![k] = <<>>] /\ sock' = [sock EXCEPT ![k] = <<>>]
      /\ inq' = [inq EXCEPT ![k] = <<>>] /\ gone' = [gone EXCEPT ![k] = FALSE]
      /\ inflight' = Orphan(inflight, k)
      /\ owner' = [c \in DOMAIN owner |-> IF owner[c] = conn[k] THEN 0 ELSE owner[c]]
      /\ got' = {c \in got : owner[c] # conn[k]}
      /\ queue' = Orphan(queue, k) \/ Boot(Orphan(queue, k))
  BY DEF DropClient
<1>2. /\ conn \in [Slots -> 0..MaxConn] /\ owner \in [0..MaxReq -> 0..MaxConn]
      /\ inq \in [Slots -> Seq(Token)] /\ gone \in [Slots -> BOOLEAN]
      /\ oq \in [Slots -> Seq(ReplyType)] /\ sock \in [Slots -> Seq(ReplyType)]
      /\ queue \in Seq(QueuedJob) /\ inflight \in Seq(WiredJob)
  BY DEF Inv, TypeOK, ClientTypeOK, DaemonTypeOK, Routing, BoxesOK
<1>3. ASSUME NEW c \in 1..MaxReq, NEW i \in Slots, Stays(c, i)' PROVE Places(i, c)' = 1
  <2>0. c \in 0..MaxReq
    BY BoundsAssumption
  <2>1. i # k
    BY <1>1, <1>2, <1>3 DEF Stays, Open
  <2>2. conn'[i] = conn[i] /\ gone'[i] = gone[i] /\ inq'[i] = inq[i] /\ oq'[i] = oq[i] /\ sock'[i] = sock[i]
    BY <1>1, <1>2, <2>1
  <2>3. conn[i] # 0 /\ ~gone[i] /\ owner'[c] = conn[i]
    BY <1>3, <2>2 DEF Stays, Open
  <2>4. owner[c] = conn[i] /\ owner[c] # conn[k]
    BY <1>1, <1>2, <2>0, <2>3
  <2>5. Stays(c, i)
    BY <2>3, <2>4 DEF Stays, Open
  <2>6. Had(c)' = Had(c)
    BY <1>1, <2>4 DEF Had
  <2>7. Count(inflight', c) = Count(inflight, c)
    BY <1>1, <1>2, CountOrphan
  <2>8. Count(queue', c) = Count(queue, c)
    <3>1. Count(Orphan(queue, k), c) = Count(queue, c) /\ Orphan(queue, k) \in Seq(QueuedJob)
      BY <1>2, CountOrphan, OrphanFact
    <3>2. CASE queue' = Orphan(queue, k)
      BY <3>1, <3>2
    <3>3. CASE Boot(Orphan(queue, k))
      BY <3>1, <3>3, CountBoot
    <3>4. QED
      BY <1>1, <3>2, <3>3
  <2>9. Count(inq'[i], c) = Count(inq[i], c) /\ Count(oq'[i], c) + Count(sock'[i], c) = Boxed(i, c)
    BY <2>2 DEF Boxed
  <2>10. QED
    BY <2>5, <2>6, <2>7, <2>8, <2>9, Balanced DEF Sum, Jobs
<1>4. QED
  BY <1>3, Conserved

\* What the daemon does with its jobs between clients' turns.
LEMMA ConservedJobs ==
  ASSUME Inv, Routing, Accounts, Conservation, Inv', Routing',
         \/ \E q \in DOMAIN queue, k \in Nodes : SendOne(q, k)
         \/ PollReply \/ PollOutOfStep \/ PollBadLength \/ WatchFire \/ Retry
  PROVE  Conservation'
<1>1. UNCHANGED <<inq, gone, owner, conn, got>>
  BY DEF SendOne, PollReply, PollOutOfStep, PollBadLength, WatchFire, Retry, clients
<1>2. queue \in Seq(QueuedJob) /\ inflight \in Seq(WiredJob)
  BY DEF Inv, TypeOK, DaemonTypeOK
<1>3. ASSUME NEW c \in 1..MaxReq, NEW i \in Slots, Stays(c, i)' PROVE Places(i, c)' = 1
  <2>1. Stays(c, i) /\ Had(c)' = Had(c) /\ Count(inq'[i], c) = Count(inq[i], c)
    BY <1>1, <1>3, StayedOn DEF Had
  <2>2. /\ Count(queue, c) \in Nat /\ Count(inflight, c) \in Nat /\ Count(queue', c) \in Nat
        /\ Count(inflight', c) \in Nat /\ Boxed(i, c) \in Nat /\ Jobs(c) \in Nat
        /\ Had(c) \in {0, 1} /\ Count(inq[i], c) \in Nat
    BY PlacesSum, PlacesSumNext
  <2>3. ASSUME NEW q \in DOMAIN queue, NEW k \in Nodes, SendOne(q, k) PROVE Places(i, c)' = 1
    <3>1. PICK d \in Dues : inflight' = Append(inflight, Wired(queue[q], k, d))
      BY <2>3 DEF SendOne
    <3>2. queue' = RemoveAt(queue, q) /\ UNCHANGED <<oq, sock>>
      BY <2>3 DEF SendOne, clients
    <3> DEFINE j == Wired(queue[q], k, d)
    <3>3. j \in WiredJob /\ j.cid = queue[q].cid /\ q \in 1..Len(queue)
      BY <1>2, WiredFact, LenProperties
    <3> HIDE DEF j
    <3>4. Count(queue, c) = Count(queue', c) + One(queue[q], c)
      BY <1>2, <3>2, <3>3, CountRemoveAt
    <3>5. Count(Append(inflight, j), c) = Count(inflight, c) + One(j, c)
      BY <1>2, <3>3, CountAppend
    <3>6. inflight' = Append(inflight, j)
      BY <3>1 DEF j
    <3>7. Count(inflight', c) = Count(inflight, c) + One(j, c)
      BY <3>5, <3>6, Zenon
    <3>8. One(j, c) = One(queue[q], c) /\ One(j, c) \in {0, 1}
      BY <3>3 DEF One
    <3>9. Count(oq'[i], c) + Count(sock'[i], c) = Boxed(i, c)
      BY <3>2 DEF Boxed
    <3>10. Count(queue', c) + Count(inflight', c) = Jobs(c)
      BY <2>2, <3>4, <3>7, <3>8 DEF Jobs
    <3>11. QED
      BY <2>1, <3>9, <3>10, Balanced DEF Sum
  <2>4. CASE PollBadLength \/ WatchFire
    <3>1. GoDown(queue, Nothing) /\ (Fallen \/ Boot(<<>>)) /\ Nothing[i] = <<>>
      BY <2>4 DEF PollBadLength, WatchFire, Nothing
    <3>2. Nothing[i] \in Seq(OwnReplies(i)) /\ Count(Nothing[i], c) = 0
      BY <3>1, CountEmpty
    <3>3. /\ Count(queue', c) = 0 /\ Count(inflight', c) = 0
          /\ Count(oq'[i], c) + Count(sock'[i], c) = Boxed(i, c) + (Jobs(c) + Count(Nothing[i], c))
      BY <2>1, <3>1, <3>2, CountGoDown
    <3>4. QED
      BY <2>1, <2>2, <3>2, <3>3, Balanced DEF Sum
  <2>5. CASE Retry
    <3>1. Boot(queue) /\ UNCHANGED <<inflight, oq, sock>>
      BY <2>5 DEF Retry, clients
    <3>2. Count(queue', c) = Count(queue, c)
      BY <1>2, <3>1, CountBoot
    <3>3. QED
      BY <2>1, <3>1, <3>2, Balanced DEF Sum, Jobs, Boxed
  <2>6. CASE PollReply \/ PollOutOfStep
    <3>1. queue' = queue
      BY <2>6 DEF PollReply, PollOutOfStep
    <3>2. (\E x \in DOMAIN inflight : \E a : Finish(x, a)) \/ Drop
      BY <2>6 DEF PollReply, PollOutOfStep, Matching
    <3>3. CASE Drop
      <4>1. UNCHANGED <<inflight, oq, sock>>
        BY <3>3 DEF Drop, Silence
      <4>2. QED
        BY <2>1, <3>1, <4>1, Balanced DEF Sum, Jobs, Boxed
    <3>4. ASSUME NEW x \in DOMAIN inflight, NEW a, Finish(x, a) PROVE Places(i, c)' = 1
      <4> DEFINE j == inflight[x]
                 out == Only(j.fd, Reply(j.cid, "RAN"))
      <4>1. inflight' = Vacate(inflight, x) /\ Answer(out)
        BY <3>4 DEF Finish
      <4>2. x \in 1..Len(inflight) /\ j \in WiredJob /\ j \in HereJobs
        BY <1>2, JobsHere, LenProperties
      <4>3. Count(inflight, c) = Count(inflight', c) + One(j, c)
        BY <1>2, <4>1, <4>2, CountVacate
      <4>4. Count(out[i], c) = IF i = j.fd /\ j.cid = c THEN 1 ELSE 0
        BY CountOnly
      <4>5. j.cid = c => j.fd = i
        BY <2>1, <4>2, JobsHere
      <4>6. out[i] \in Seq(OwnReplies(i))
        <5>1. "RAN" \in Statuses /\ (j.fd \in Slots => j.cid \in 0..MaxReq /\ Ours(j.cid, j.fd))
          <6>1. \A fd \in Slots : fd # NoFd
            BY BoundsAssumption
          <6>2. j \in OwnJobs(WiredJob)
            BY <4>2, LenProperties DEF Routing, JobsOK
          <6>3. QED
            BY <6>1, <6>2 DEF OwnJobs, WiredJob, Statuses
        <5>2. QED
          BY <5>1, OnlyFact
      <4> HIDE DEF out, j
      <4>7. Count(out[i], c) = One(j, c) /\ One(j, c) \in {0, 1}
        BY <4>4, <4>5 DEF One
      <4>8. Count(oq'[i], c) + Count(sock'[i], c) = Boxed(i, c) + Count(out[i], c)
        BY <2>1, <4>1, <4>6, CountGiven DEF Stays
      <4>9. QED
        BY <2>1, <2>2, <3>1, <4>3, <4>7, <4>8, Balanced DEF Sum, Jobs
    <3>5. QED
      BY <3>2, <3>3, <3>4
  <2>7. QED
    BY <2>3, <2>4, <2>5, <2>6
<1>4. QED
  BY <1>3, Conserved

\* A request is written once, and its reply read once.
LEMMA ConservedClient ==
  ASSUME Inv, Routing, Accounts, Conservation, Inv', Routing', NEW k \in Slots, Client(k)
  PROVE  Conservation'
<1>1. /\ inq \in [Slots -> Seq(Token)] /\ owner \in [0..MaxReq -> 0..MaxConn] /\ nreq \in 0..MaxReq
      /\ gone \in [Slots -> BOOLEAN] /\ sock \in [Slots -> Seq(ReplyType)] /\ nreq \in Nat
      /\ queue \in Seq(QueuedJob) /\ inflight \in Seq(WiredJob)
  <2>1. sock \in [Slots -> Seq(ReplyType)]
    BY DEF Routing, BoxesOK
  <2>2. /\ inq \in [Slots -> Seq(Token)] /\ owner \in [0..MaxReq -> 0..MaxConn] /\ nreq \in 0..MaxReq
        /\ gone \in [Slots -> BOOLEAN]
    BY DEF Inv, TypeOK, ClientTypeOK
  <2>3. queue \in Seq(QueuedJob) /\ inflight \in Seq(WiredJob)
    BY DEF Inv, TypeOK, DaemonTypeOK
  <2>4. nreq \in Nat
    BY <2>2, BoundsAssumption
  <2>5. QED
    BY <2>1, <2>2, <2>3, <2>4, Zenon
<1>2. ASSUME NEW r \in Requests, Submit(k, r) PROVE Conservation'
  <2> DEFINE t == [t |-> "header", cid |-> nreq + 1, op |-> r.op, node |-> r.node, n |-> r.n]
  <2>1. /\ inq' = [inq EXCEPT ![k] = Append(inq[k], t)] /\ nreq < MaxReq
        /\ owner' = [owner EXCEPT ![nreq + 1] = conn[k]] /\ Open(k) /\ ~gone[k]
        /\ UNCHANGED <<queue, inflight, oq, sock, conn, gone, got>>
    BY <1>2 DEF Submit, daemon
  <2>2. t \in Token /\ t.cid = nreq + 1
    <3>1. r \in [op : STRING, node : Nat, n : Int]
      BY InputsAssumption
    <3>2. r.node \in Nat /\ r.n \in Int
      BY <3>1
    <3>3. r.op \in OpBytes
      BY Zenon DEF OpBytes
    <3>4. nreq + 1 \in 0..MaxReq
      BY <1>1, <2>1, BoundsAssumption
    <3>5. QED
      BY <3>2, <3>3, <3>4 DEF Token
  <2> HIDE DEF t
  <2>3. \A c, i : i \in Slots => Count(inq'[i], c) = Count(inq[i], c) + (IF i = k THEN One(t, c) ELSE 0)
    <3>1. ASSUME NEW c, NEW i \in Slots
          PROVE  Count(inq'[i], c) = Count(inq[i], c) + (IF i = k THEN One(t, c) ELSE 0)
      <4>1. Count(inq[i], c) \in Nat
        BY PlacesSum
      <4>2. CASE i = k
        <5>1. inq'[i] = Append(inq[i], t)
          BY <1>1, <2>1, <4>2
        <5>2. Count(Append(inq[i], t), c) = Count(inq[i], c) + One(t, c)
          BY <1>1, <2>2, CountAppend
        <5>3. Count(inq'[i], c) = Count(inq[i], c) + One(t, c)
          BY <5>1, <5>2, Zenon
        <5>4. QED
          BY <4>2, <5>3
      <4>3. CASE i # k
        <5>1. inq'[i] = inq[i]
          BY <1>1, <2>1, <4>3
        <5>2. QED
          BY <4>1, <4>3, <5>1
      <4>4. QED
        BY <4>2, <4>3
    <3>2. QED
      BY <3>1
  <2>4. ASSUME NEW c \in 1..MaxReq, NEW i \in Slots, Stays(c, i)' PROVE Places(i, c)' = 1
    <3>0. c \in 0..MaxReq
      BY BoundsAssumption
    <3>1. Open(i) /\ ~gone[i] /\ owner'[c] = conn[i]
      BY <2>1, <2>4 DEF Stays, Open
    <3>2. Had(c)' = Had(c) /\ Count(oq'[i], c) + Count(sock'[i], c) = Boxed(i, c)
          /\ Count(queue', c) + Count(inflight', c) = Jobs(c)
      BY <2>1 DEF Had, Boxed, Jobs
    <3>3. CASE c = nreq + 1
      <4>1. i = k
        <5>1. conn[i] = conn[k]
          BY <1>1, <2>1, <3>0, <3>1, <3>3
        <5>2. QED
          BY <3>1, <5>1 DEF Routing, ConnsOK
      <4>2. Count(inq[i], c) = 0
        <5>1. inq[i] \in Seq(OwnTokens(i))
          BY DEF Routing, TokensOK
        <5>2. \A e \in OwnTokens(i) : e.cid <= nreq
          BY DEF OwnTokens, Ours
        <5>3. \A e \in OwnTokens(i) : e.cid # c
          BY <1>1, <3>3, <5>2
        <5>4. QED
          BY <5>1, <5>3, CountNone
      <4>3. Boxed(i, c) = 0
        <5>1. /\ oq[i] \in Seq(OwnReplies(i)) /\ sock[i] \in Seq(OwnReplies(i))
              /\ \A e \in OwnReplies(i) : e.cid # c
          BY <1>1, <3>3 DEF Routing, BoxesOK, OwnReplies, Ours, ReplyType
        <5>2. Count(oq[i], c) = 0 /\ Count(sock[i], c) = 0
          BY <5>1, CountNone
        <5>3. QED
          BY <5>2 DEF Boxed
      <4>4. Jobs(c) = 0
        <5>1. \A e \in HereJobs : e.cid # c
          BY <1>1, <3>3 DEF HereJobs, LiveJobs, Live, QueuedJob, WiredJob
        <5>2. queue \in Seq(HereJobs) /\ inflight \in Seq(HereJobs)
          BY JobsHere
        <5>3. Count(queue, c) = 0 /\ Count(inflight, c) = 0
          BY <5>1, <5>2, CountNone
        <5>4. QED
          BY <5>3 DEF Jobs
      <4>5. Had(c) = 0
        BY <1>1, <3>3 DEF Had, Accounts, Ledger
      <4>6. Count(inq'[i], c) = 1
        <5>1. One(t, c) = 1
          BY <2>2, <3>3 DEF One
        <5>2. Count(inq'[i], c) = Count(inq[i], c) + One(t, c)
          BY <2>3, <4>1
        <5>3. QED
          BY <4>2, <5>1, <5>2
      <4>7. QED
        BY <3>2, <4>3, <4>4, <4>5, <4>6, PlacesSumNext
    <3>4. CASE c # nreq + 1
      <4>1. Stays(c, i)
        BY <1>1, <2>1, <3>0, <3>1, <3>4 DEF Stays
      <4>2. One(t, c) = 0 /\ Count(inq[i], c) \in Nat
        BY <2>2, <3>4, PlacesSum DEF One
      <4>3. Count(inq'[i], c) = Count(inq[i], c)
        BY <2>3, <4>2
      <4>4. QED
        BY <3>2, <4>1, <4>3, Balanced DEF Sum
    <3>5. QED
      BY <3>3, <3>4
  <2>5. QED
    BY <2>4, Conserved
<1>3. CASE SendPayload(k)
  <2> DEFINE t == [t |-> "payload", cid |-> 0, op |-> "", node |-> 0, n |-> 0]
  <2>1. /\ inq' = [inq EXCEPT ![k] = Append(inq[k], t)]
        /\ UNCHANGED <<queue, inflight, oq, sock, conn, gone, got, owner>>
    BY <1>3 DEF SendPayload, daemon
  <2>2. t \in Token /\ t.cid = 0
    BY BoundsAssumption DEF Token, OpBytes
  <2> HIDE DEF t
  <2>3. ASSUME NEW c \in 1..MaxReq, NEW i \in Slots, Stays(c, i)' PROVE Places(i, c)' = 1
    <3>1. Stays(c, i) /\ c # 0
      BY <2>1, <2>3, StayedOn
    <3>2. Had(c)' = Had(c) /\ Count(oq'[i], c) + Count(sock'[i], c) = Boxed(i, c)
          /\ Count(queue', c) + Count(inflight', c) = Jobs(c)
      BY <2>1 DEF Had, Boxed, Jobs
    <3>3. Count(inq'[i], c) = Count(inq[i], c)
      <4>1. Count(Append(inq[i], t), c) = Count(inq[i], c) + One(t, c) /\ Count(inq[i], c) \in Nat
        BY <1>1, <2>2, CountAppend, CountNat
      <4>2. One(t, c) = 0
        BY <2>2, <3>1 DEF One
      <4>3. Count(Append(inq[i], t), c) = Count(inq[i], c)
        BY <4>1, <4>2
      <4>4. inq'[i] = inq[i] \/ inq'[i] = Append(inq[i], t)
        BY <1>1, <2>1
      <4>5. QED
        BY <4>3, <4>4, Zenon
    <3>4. QED
      BY <3>1, <3>2, <3>3, Balanced DEF Sum
  <2>4. QED
    BY <2>3, Conserved
<1>4. CASE Receive(k)
  <2> DEFINE r == Head(sock[k])
  <2>1. /\ got' = got \union {r.cid} /\ sock' = [sock EXCEPT ![k] = Tail(sock[k])] /\ sock[k] # <<>>
        /\ Open(k) /\ UNCHANGED <<queue, inflight, oq, inq, conn, gone, owner>>
    BY <1>4 DEF Receive, daemon
  <2>2. r \in OwnReplies(k)
    <3>1. sock[k] \in Seq(OwnReplies(k))
      BY DEF Routing, BoxesOK
    <3>2. QED
      BY <2>1, <3>1, HeadTailProperties
  <2>3. Ours(r.cid, k) /\ r.cid \in 0..MaxReq
    BY <2>2 DEF OwnReplies, ReplyType
  <2>4. \A c : Count(sock[k], c) = One(r, c) + Count(Tail(sock[k]), c)
    BY <1>1, <2>1, CountTail
  <2> HIDE DEF r
  <2>5. ASSUME NEW c \in 1..MaxReq, NEW i \in Slots, Stays(c, i)' PROVE Places(i, c)' = 1
    <3>1. Stays(c, i) /\ c # 0 /\ Count(inq'[i], c) = Count(inq[i], c)
          /\ Count(queue', c) + Count(inflight', c) = Jobs(c)
      BY <2>1, <2>5, StayedOn DEF Jobs
    <3>2. /\ Count(oq[i], c) \in Nat /\ Count(sock[i], c) \in Nat /\ Count(sock'[i], c) \in Nat
          /\ Count(inq[i], c) \in Nat /\ Jobs(c) \in Nat /\ Had(c) \in {0, 1} /\ oq'[i] = oq[i]
          /\ Boxed(i, c) = Count(oq[i], c) + Count(sock[i], c)
      BY <2>1, PlacesSum, PlacesSumNext DEF Boxed
    <3>3. CASE r.cid = c
      <4>1. i = k
        BY <2>3, <3>1, <3>3, OneClient
      <4>2. Count(sock[i], c) = 1 + Count(sock'[i], c)
        BY <1>1, <2>1, <2>4, <3>3, <4>1 DEF One
      <4>3. Sum(i, c) = 1
        BY <3>1, PlacesSum DEF Conservation, Stays
      <4>4. Had(c) = 0
        BY <3>2, <4>2, <4>3 DEF Sum
      <4>5. Had(c)' = 1
        BY <2>1, <3>3 DEF Had
      <4>6. QED
        BY <3>1, <3>2, <4>2, <4>4, <4>5, Balanced DEF Sum
    <3>4. CASE r.cid # c
      <4>1. Had(c)' = Had(c)
        BY <2>1, <3>4 DEF Had
      <4>2. Count(sock'[i], c) = Count(sock[i], c)
        <5>1. CASE i = k
          <6>1. Count(sock[i], c) = 0 + Count(sock'[i], c)
            BY <1>1, <2>1, <2>4, <3>4, <5>1 DEF One
          <6>2. QED
            BY <3>2, <6>1
        <5>2. CASE i # k
          BY <1>1, <2>1, <5>2
        <5>3. QED
          BY <5>1, <5>2
      <4>3. QED
        BY <3>1, <3>2, <4>1, <4>2, Balanced DEF Sum
    <3>5. QED
      BY <3>3, <3>4
  <2>6. QED
    BY <2>5, Conserved
<1>5. CASE Close(k)
  <2>1. gone' = [gone EXCEPT ![k] = TRUE] /\ UNCHANGED <<queue, inflight, oq, sock, inq, conn, got, owner>>
    BY <1>5 DEF Close, daemon
  <2>2. ASSUME NEW c \in 1..MaxReq, NEW i \in Slots, Stays(c, i)' PROVE Places(i, c)' = 1
    <3>1. ~gone[i]
      BY <1>1, <2>1, <2>2 DEF Stays
    <3>2. Stays(c, i)
      BY <2>1, <2>2, <3>1 DEF Stays, Open
    <3>3. QED
      BY <2>1, <3>2, Balanced DEF Sum, Jobs, Boxed, Had
  <2>3. QED
    BY <2>2, Conserved
<1>6. QED
  BY <1>2, <1>3, <1>4, <1>5 DEF Client

\* Every step conserves every request, while no write to the link fails.
LEMMA ConservedNext ==
  ASSUME Inv, Routing, Accounts, Conservation, Inv', Routing', "linkfail" \notin Faults, [Next]_vars
  PROVE  Conservation'
<1>1. CASE Select \/ SelectConnect \/ Spin \/ WatchQuiet
  BY <1>1, ConservedLoop DEF Select, SelectConnect
<1>2. CASE \E i \in Slots : ServeRequest(i)
  <2> PICK i \in Slots : ServeRequest(i)
    BY <1>2
  <2>1. CASE ClientGone(i)
    BY <2>1, ConservedDrop DEF ClientGone
  <2>2. ASSUME NEW h \in Headers(i), BadRequest(i, h) PROVE Conservation'
    BY <2>2, ConservedDrop DEF BadRequest
  <2>3. ASSUME NEW h \in Headers(i),
               \/ LeaseRefused(i, h) \/ NoNode(i, h) \/ Refused(i, h) \/ NotTaken(i, h)
               \/ Enqueue(i, h) \/ LeaseGranted(i, h)
        PROVE  Conservation'
    BY <2>3, ConservedRequest
  <2>4. QED
    BY <2>1, <2>2, <2>3 DEF ServeRequest
<1>3. CASE SendJobs
  <2>1. ~(\E q \in DOMAIN queue, k \in Nodes : SendFails(q, k))
    BY DEF SendFails
  <2>2. QED
    BY <1>3, <2>1, ConservedJobs, ConservedLoop DEF SendJobs
<1>4. CASE PollLink \/ WatchFire \/ Retry
  BY <1>4, ConservedJobs, ConservedLoop DEF PollLink
<1>5. CASE \E i \in Slots : Client(i)
  BY <1>5, ConservedClient
<1>6. CASE (\E j \in net, caps \in Caps : NodeReply(j, caps)) \/ UNCHANGED vars
  <2>1. UNCHANGED <<queue, inflight, oq, sock, inq, conn, gone, got, owner>>
    BY <1>6 DEF NodeReply, vars, daemon, clients
  <2>2. QED
    BY <2>1 DEF Conservation, Open, Places, Count
<1>7. QED
  BY <1>1, <1>2, <1>3, <1>4, <1>5, <1>6 DEF Next, Daemon

\* ttjobd loses no request of a client that stays and answers none twice, through lease,
\* go_down, watchdog, reboot, slot reuse and replies out of step, for any number of clients
\* and jobs: at every moment the request is still unread, queued, in flight, answered and
\* waiting, or received. Two faults are excluded because the code does lose requests then: a
\* failed link write (the job is out of the queue), and a payload that is given up.
THEOREM ConservationHolds ==
  ASSUME "linkfail" \notin Faults, PayloadsTaken
  PROVE  Spec => []Conservation
<1>1. Init => Accounts /\ Conservation
  <2>1. Init => Conservation
    BY DEF Init, Conservation, Open
  <2>2. QED
    BY <2>1, AccountsInit
<1>2. Inv /\ Routing /\ Inv' /\ Routing' /\ Accounts /\ Conservation /\ [Next]_vars => (Accounts /\ Conservation)'
  BY AccountsNext, ConservedNext
<1>3. QED
  BY <1>1, <1>2, RoutingKept, PTL DEF Spec
=============================================================================
