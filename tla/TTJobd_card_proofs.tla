------------------------- MODULE TTJobd_card_proofs -------------------------
(***************************************************************************)
(* Proofs about ttjobd's use of the card: wire ids name one job at a time, *)
(* each reply on the link has the one job in flight it answers, and what   *)
(* the daemon does to the card is what JobCard lets it do.                 *)
(***************************************************************************)
EXTENDS TTJobd_proofs, FiniteSetTheorems

USE DEF Slots, NoFd, Nodes

-----------------------------------------------------------------------------
(***************************************************************************)
(* Wire ids.  A boot forgets every id in use, so between two boots no more *)
(* ids are given out than jobs can come: the OP_CAPS job and one for each  *)
(* header that can still be read, the payloads misread as one included.    *)
(***************************************************************************)
\* The wire ids in use: of jobs in flight, of jobs on the card, of replies on the link.
Used == {inflight[x].wid : x \in DOMAIN inflight} \union {j.wid : j \in net}
        \union {link[k].wid : k \in DOMAIN link}

\* How many ids have been given out since w was.
Age(w) == IF w <= nextwid THEN nextwid - w ELSE nextwid + WIDS - w

\* What clients have written and the daemon has not read, and the payloads they owe.
Unread == {t \in Slots \X Nat : t[2] \in 1..Len(inq[t[1]])}
Owing == {i \in Slots : pend[i]}

\* How many headers the daemon may still read, at most.
Coming == 2 * (MaxReq - nreq) + Cardinality(Unread) + Cardinality(Owing)

\* Ids in use are younger than the jobs since the last boot are many.
Budget ==
  /\ IsFiniteSet(Unread) /\ Coming <= 2 * MaxReq
  /\ Used \subseteq 0..WIDS-1
  /\ \E s \in Nat : s + Len(queue) + Coming <= 2 * MaxReq + 1 /\ \A w \in Used : Age(w) < s

\* The id the next job will get is in use nowhere.
IdFree == NextWid \notin Used /\ Used \subseteq 0..WIDS-1

\* The sizes Budget adds up are numbers.
LEMMA Sizes ==
  ASSUME Inv, IsFiniteSet(Unread)
  PROVE  /\ Cardinality(Unread) \in Nat
         /\ IsFiniteSet(Owing) /\ Cardinality(Owing) \in Nat
         /\ Coming \in Int /\ Len(queue) \in Nat
<1>1. IsFiniteSet(Owing)
  <2>1. MAXCL - 1 \in Int
    BY BoundsAssumption
  <2>2. IsFiniteSet(Slots)
    BY <2>1, FS_Interval
  <2>3. Owing \in SUBSET Slots
    BY DEF Owing
  <2>4. QED
    BY <2>2, <2>3, FS_Subset
<1>2. Cardinality(Unread) \in Nat /\ Cardinality(Owing) \in Nat
  BY <1>1, FS_CardinalityType
<1>3. nreq \in Int /\ Len(queue) \in Nat
  BY DEF Inv, TypeOK, ClientTypeOK, DaemonTypeOK
<1>4. QED
  BY <1>1, <1>2, <1>3, BoundsAssumption DEF Coming

\* Reading shrinks what is unread, and dropping a client what it owes.
LEMMA ComingFalls ==
  ASSUME Inv, IsFiniteSet(Unread), Unread' \subseteq Unread, Owing' \subseteq Owing, nreq' = nreq
  PROVE  /\ IsFiniteSet(Unread') /\ Coming' <= Coming /\ Coming' \in Int
         /\ Unread' # Unread => Coming' <= Coming - 1
<1>1. /\ IsFiniteSet(Unread') /\ Cardinality(Unread') \in Nat
      /\ Cardinality(Unread') <= Cardinality(Unread)
      /\ Unread' # Unread => Cardinality(Unread') # Cardinality(Unread)
  BY FS_Subset, FS_CardinalityType
<1>2. Cardinality(Owing') \in Nat /\ Cardinality(Owing') <= Cardinality(Owing)
  BY Sizes, FS_Subset, FS_CardinalityType
<1>3. Coming' = 2 * (MaxReq - nreq) + Cardinality(Unread') + Cardinality(Owing')
  BY DEF Coming
<1>4. nreq \in Int
  BY DEF Inv, TypeOK, ClientTypeOK
<1>5. QED
  BY <1>1, <1>2, <1>3, <1>4, Sizes, BoundsAssumption DEF Coming

\* A request, or its payload, written: one token more to read, for one that was to come.
LEMMA ComingWritten ==
  ASSUME Inv, IsFiniteSet(Unread), NEW i \in Slots, (\E r \in Requests : Submit(i, r)) \/ SendPayload(i)
  PROVE  IsFiniteSet(Unread') /\ Coming' <= Coming /\ Coming' \in Int
<1>1. inq \in [Slots -> Seq(Token)] /\ pend \in [Slots -> BOOLEAN] /\ nreq \in Nat
  BY DEF Inv, TypeOK, ClientTypeOK
<1>2. \E t : inq' = [inq EXCEPT ![i] = Append(@, t)]
  BY DEF Submit, SendPayload
<1>3. /\ \A k \in Slots : k # i => inq'[k] = inq[k]
      /\ Len(inq'[i]) = Len(inq[i]) + 1 /\ Len(inq[i]) \in Nat
  BY <1>1, <1>2
<1>4. Unread' = Unread \union {<<i, Len(inq[i]) + 1>>}
  <2> DEFINE n == Len(inq[i])
             N == Len(inq'[i])
  <2>1. N = n + 1 /\ n \in Nat
    BY <1>3
  <2>2. ASSUME NEW t \in Slots \X Nat
        PROVE  t \in Unread' <=> t \in Unread \/ t = <<i, n + 1>>
    <3>1. CASE t[1] = i
      <4>1. t \in Unread' <=> t[2] \in 1..N
        BY <3>1 DEF Unread
      <4>2. t \in Unread <=> t[2] \in 1..n
        BY <3>1 DEF Unread
      <4>3. t = <<i, n + 1>> <=> t[2] = n + 1
        BY <3>1
      <4> HIDE DEF n, N
      <4>4. QED
        BY <4>1, <4>2, <4>3, <2>1
    <3>2. CASE t[1] # i
      BY <3>2, <1>3 DEF Unread
    <3>3. QED
      BY <3>1, <3>2
  <2>3. <<i, n + 1>> \in Slots \X Nat
    BY <2>1
  <2>4. Unread \subseteq Slots \X Nat /\ Unread' \subseteq Slots \X Nat
    BY DEF Unread
  <2> HIDE DEF n
  <2>5. Unread' = Unread \union {<<i, n + 1>>}
    BY <2>2, <2>3, <2>4, Zenon
  <2>6. QED
    BY <2>5 DEF n
<1>5. <<i, Len(inq[i]) + 1>> \notin Unread
  BY <1>3 DEF Unread
<1>6. IsFiniteSet(Unread') /\ Cardinality(Unread') = Cardinality(Unread) + 1
  BY <1>4, <1>5, FS_AddElement
<1>7. CASE \E r \in Requests : Submit(i, r)
  <2>1. nreq' = nreq + 1 /\ Owing' \subseteq Owing \union {i}
    BY <1>7, <1>1 DEF Submit, Owing
  <2>2. /\ IsFiniteSet(Owing \union {i})
        /\ Cardinality(Owing \union {i}) \in {Cardinality(Owing), Cardinality(Owing) + 1}
    BY Sizes, FS_AddElement
  <2>3. Cardinality(Owing') \in Nat /\ Cardinality(Owing') <= Cardinality(Owing \union {i})
    BY <2>1, <2>2, FS_Subset, FS_CardinalityType
  <2>4. Coming' = 2 * (MaxReq - nreq') + Cardinality(Unread') + Cardinality(Owing')
    BY DEF Coming
  <2>5. /\ MaxReq \in Nat /\ nreq \in Nat /\ Cardinality(Unread) \in Nat /\ Cardinality(Owing) \in Nat
        /\ Cardinality(Owing') <= Cardinality(Owing) + 1
    BY <1>1, <2>2, <2>3, Sizes, BoundsAssumption
  <2>6. Coming = 2 * (MaxReq - nreq) + Cardinality(Unread) + Cardinality(Owing)
    BY DEF Coming
  <2> HIDE DEF Coming
  <2>7. Coming' <= Coming /\ Coming' \in Int
    BY <1>6, <2>1, <2>3, <2>4, <2>5, <2>6
  <2>8. QED
    BY <1>6, <2>7
<1>8. CASE SendPayload(i)
  <2>1. nreq' = nreq /\ Owing' = Owing \ {i} /\ i \in Owing
    BY <1>8, <1>1 DEF SendPayload, Owing
  <2>2. Cardinality(Owing') = Cardinality(Owing) - 1
    BY <2>1, Sizes, FS_RemoveElement
  <2>3. Coming' = 2 * (MaxReq - nreq') + Cardinality(Unread') + Cardinality(Owing')
    BY DEF Coming
  <2>4. QED
    BY <1>1, <1>6, <2>1, <2>2, <2>3, Sizes, BoundsAssumption DEF Coming
<1>9. QED
  BY <1>6, <1>7, <1>8

\* What the daemon takes from a client it reads: the rest is shorter.
LEMMA ComingRead ==
  ASSUME Inv, IsFiniteSet(Unread), NEW i \in Slots, NEW rest \in Seq(Token), Len(rest) < Len(inq[i]),
         inq' = [inq EXCEPT ![i] = rest], UNCHANGED <<pend, nreq>>
  PROVE  IsFiniteSet(Unread') /\ Coming' <= Coming - 1 /\ Coming' \in Int
<1>1. inq \in [Slots -> Seq(Token)]
  BY DEF Inv, TypeOK, ClientTypeOK
<1>2. \A k \in Slots : Len(inq'[k]) <= Len(inq[k]) /\ Len(inq'[k]) \in Nat /\ Len(inq[k]) \in Nat
  BY <1>1
<1>3. Unread' \subseteq Unread
  BY <1>2 DEF Unread
<1>4. <<i, Len(inq[i])>> \in Unread /\ <<i, Len(inq[i])>> \notin Unread'
  BY <1>1, <1>2 DEF Unread
<1>5. Owing' \subseteq Owing
  BY DEF Owing
<1>6. QED
  BY <1>3, <1>4, <1>5, ComingFalls

\* The rest of a client's bytes after a header, with or without its payload.
LEMMA RestShorter ==
  ASSUME Inv, NEW i \in Slots, NEW h \in Headers(i)
  PROVE  /\ Len(Tail(inq[i])) < Len(inq[i]) /\ Tail(inq[i]) \in Seq(Token)
         /\ \A p \in Payloads(i, h) : Len(p.rest) < Len(inq[i]) /\ p.rest \in Seq(Token)
<1>1. inq[i] \in Seq(Token) /\ inq[i] # <<>>
  BY RestFact DEF Inv, TypeOK, ClientTypeOK
<1>2. \A s \in Seq(Token) : s # <<>> => Tail(s) \in Seq(Token) /\ Len(Tail(s)) = Len(s) - 1 /\ Len(s) \in Nat \ {0}
  OBVIOUS
<1>3. Len(<<>>) = 0
  OBVIOUS
<1>4. ASSUME NEW p \in Payloads(i, h) PROVE Len(p.rest) < Len(inq[i])
  <2> DEFINE rest == Tail(inq[i])
  <2>1. rest \in Seq(Token) /\ Len(rest) = Len(inq[i]) - 1 /\ Len(inq[i]) \in Nat \ {0}
    BY <1>1, <1>2
  <2> HIDE DEF rest
  <2>a. \/ p = [ok |-> TRUE, rest |-> rest]
        \/ rest # <<>> /\ p = [ok |-> TRUE, rest |-> Tail(rest)]
        \/ p = [ok |-> FALSE, rest |-> <<>>]
    BY DEF Payloads, rest
  <2>2. p.rest = rest \/ (rest # <<>> /\ p.rest = Tail(rest)) \/ p.rest = <<>>
    BY <2>a
  <2>3. rest # <<>> => Len(Tail(rest)) = Len(rest) - 1
    BY <2>1, <1>2
  <2>4. QED
    BY <2>1, <2>2, <2>3, <1>3
<1>5. QED
  BY <1>1, <1>2, <1>4, RestFact

\* A step that gives out no id and brings no work keeps the budget.
LEMMA BudgetCalm ==
  ASSUME Inv, Inv', Budget, nextwid' = nextwid, Used' \subseteq Used,
         IsFiniteSet(Unread'), Coming' \in Int, Coming' <= Coming, Len(queue') + Coming' <= Len(queue) + Coming
  PROVE  Budget'
<1>1. PICK s \in Nat : s + Len(queue) + Coming <= 2 * MaxReq + 1 /\ \A w \in Used : Age(w) < s
  BY DEF Budget
<1>2. Len(queue) \in Nat /\ Len(queue') \in Nat /\ Coming \in Int
  BY Sizes DEF Inv, TypeOK, DaemonTypeOK, Budget
<1>3. s + Len(queue') + Coming' <= 2 * MaxReq + 1 /\ Coming' <= 2 * MaxReq
  BY <1>1, <1>2, BoundsAssumption DEF Budget
<1>4. \A w \in Used' : Age(w)' < s
  BY <1>1 DEF Age
<1>5. QED
  BY <1>3, <1>4 DEF Budget

\* A step that gives out the next id to a job of the queue keeps it.
LEMMA BudgetSpent ==
  ASSUME Inv, Inv', Budget, nextwid' = NextWid, Used' \subseteq Used \union {NextWid},
         IsFiniteSet(Unread'), Coming' \in Int, Coming' <= Coming, Len(queue') <= Len(queue) - 1,
         2 * MaxReq + 1 < WIDS
  PROVE  Budget'
<1>1. PICK s \in Nat : s + Len(queue) + Coming <= 2 * MaxReq + 1 /\ \A w \in Used : Age(w) < s
  BY DEF Budget
<1>2. Len(queue) \in Nat /\ Len(queue') \in Nat /\ Coming \in Int
  BY Sizes DEF Inv, TypeOK, DaemonTypeOK, Budget
<1>3. s + 1 + Len(queue') + Coming' <= 2 * MaxReq + 1 /\ Coming' <= 2 * MaxReq
  BY <1>1, <1>2, BoundsAssumption DEF Budget
<1>4. nextwid \in 0..WIDS-1 /\ NextWid \in 0..WIDS-1
  BY NextWidFact DEF Inv, TypeOK, DaemonTypeOK
<1>5. Used' \subseteq 0..WIDS-1
  BY <1>4 DEF Budget
<1>6. ASSUME NEW w \in Used' PROVE Age(w)' < s + 1
  <2>1. CASE w = NextWid
    BY <2>1, <1>4 DEF Age
  <2>2. CASE w # NextWid
    <3>1. w \in Used /\ w \in 0..WIDS-1 /\ Age(w) < s
      BY <2>2, <1>1, <1>5
    <3>2. Age(w)' = Age(w) + 1
      BY <2>2, <3>1, <1>4, BoundsAssumption DEF Age, NextWid
    <3>3. Age(w) \in Int
      BY <3>1, <1>4, BoundsAssumption DEF Age
    <3>4. QED
      BY <3>1, <3>2, <3>3
  <2>3. QED
    BY <2>1, <2>2
<1>7. QED
  BY <1>3, <1>5, <1>6 DEF Budget

\* A boot forgets every id.
LEMMA BudgetBoot ==
  ASSUME Inv, Inv', Budget, net' = {}, link' = <<>>, inflight' = <<>>, Len(queue') \in 0..1,
         IsFiniteSet(Unread'), Coming' \in Int, Coming' <= Coming
  PROVE  Budget'
<1>1. Used' = {}
  BY DEF Used
<1>2. Coming' <= 2 * MaxReq
  BY Sizes, BoundsAssumption DEF Budget
<1>3. 0 + Len(queue') + Coming' <= 2 * MaxReq + 1
  <2>1. \A l \in 0..1, c \in Int : c <= 2 * MaxReq => 0 + l + c <= 2 * MaxReq + 1
    BY BoundsAssumption
  <2>2. QED
    BY <1>2, <2>1
<1>4. QED
  BY <1>1, <1>2, <1>3 DEF Budget

-----------------------------------------------------------------------------
(***************************************************************************)
(* Each step of the daemon and of its environment, seen from the link.     *)
(***************************************************************************)
\* Nothing new on the card, no id given out, and the queue no longer than what was read allows.
Calm == /\ nextwid' = nextwid /\ Used' \subseteq Used
        /\ IsFiniteSet(Unread') /\ Coming' \in Int /\ Coming' <= Coming
        /\ Len(queue') + Coming' <= Len(queue) + Coming
Spends == /\ nextwid' = NextWid /\ Used' \subseteq Used \union {NextWid}
          /\ IsFiniteSet(Unread') /\ Coming' \in Int /\ Coming' <= Coming
          /\ Len(queue') <= Len(queue) - 1
Boots == /\ net' = {} /\ link' = <<>> /\ inflight' = <<>> /\ Len(queue') \in 0..1
         /\ IsFiniteSet(Unread') /\ Coming' \in Int /\ Coming' <= Coming

\* What is unread and owed changes only with inq, pend and nreq.
LEMMA ComingSame ==
  ASSUME Inv, IsFiniteSet(Unread), UNCHANGED <<inq, pend, nreq>>
  PROVE  IsFiniteSet(Unread') /\ Coming' = Coming /\ Coming' \in Int
  BY Sizes DEF Coming, Unread, Owing

\* The loop's own steps touch nothing of it.
LEMMA CalmLoop ==
  ASSUME Inv, Budget, Selected(FALSE) \/ Selected(TRUE) \/ Spin \/ SendDone \/ PollDone \/ WatchQuiet \/ UNCHANGED vars
  PROVE  Calm
<1>1. UNCHANGED <<inq, pend, nreq, queue, inflight, net, link, nextwid>>
  BY DEF Selected, Spin, SendDone, PollDone, WatchQuiet, clients, card, vars, daemon
<1>2. Used' = Used
  BY <1>1 DEF Used
<1>3. QED
  BY <1>1, <1>2, ComingSame, Sizes DEF Calm, Budget

\* A client writes or reads, a node answers.
LEMMA CalmEnvironment ==
  ASSUME Inv, Budget, \/ \E i \in Slots : Client(i)
                      \/ \E j \in net, caps \in Caps : NodeReply(j, caps)
  PROVE  Calm
<1>1. CASE \E i \in Slots : Client(i)
  <2>1. PICK i \in Slots : Client(i)
    BY <1>1
  <2>2. UNCHANGED <<queue, inflight, net, link, nextwid>>
    BY <2>1 DEF Client, Submit, SendPayload, Receive, Close, daemon, card
  <2>3. Used' = Used
    BY <2>2 DEF Used
  <2>4. IsFiniteSet(Unread') /\ Coming' <= Coming /\ Coming' \in Int
    <3>1. CASE (\E r \in Requests : Submit(i, r)) \/ SendPayload(i)
      BY <3>1, ComingWritten DEF Budget
    <3>2. CASE Receive(i) \/ Close(i)
      <4>1. UNCHANGED <<inq, pend, nreq>>
        BY <3>2 DEF Receive, Close
      <4>2. QED
        BY <4>1, ComingSame DEF Budget
    <3>3. QED
      BY <2>1, <3>1, <3>2 DEF Client
  <2>5. QED
    BY <2>2, <2>3, <2>4, Sizes DEF Calm, Budget
<1>2. ASSUME NEW j \in net, NEW caps \in Caps, NodeReply(j, caps) PROVE Calm
  <2> DEFINE r == [wid |-> j.wid, caps |-> IF j.op = "K" THEN caps ELSE 0]
  <2>1. net' = net \ {j} /\ link' = Append(link, r) /\ r.wid = j.wid
    BY <1>2 DEF NodeReply
  <2> HIDE DEF r
  <2>2. UNCHANGED <<inq, pend, nreq, queue, inflight, nextwid>>
    BY <1>2 DEF NodeReply, daemon, clients
  <2>3. Used' \subseteq Used
    <3>1. \A k \in DOMAIN link' : link'[k] = r \/ \E l \in DOMAIN link : link'[k] = link[l]
      BY <2>1
    <3>2. QED
      BY <2>1, <2>2, <3>1 DEF Used
  <2>4. QED
    BY <2>2, <2>3, ComingSame, Sizes DEF Calm, Budget
<1>3. QED
  BY <1>1, <1>2

\* A request refused or queued leaves the card alone and has been read.
LEMMA CalmRequest ==
  ASSUME Inv, Inv', Budget, NEW i \in Slots, NEW h \in Headers(i),
         \/ LeaseRefused(i, h) \/ NoNode(i, h) \/ Refused(i, h) \/ NotTaken(i, h)
         \/ Enqueue(i, h) \/ LeaseGranted(i, h)
  PROVE  Calm
<1>1. PICK rest \in Seq(Token) : Len(rest) < Len(inq[i]) /\ inq' = [inq EXCEPT ![i] = rest]
  <2>1. CASE LeaseRefused(i, h) \/ LeaseGranted(i, h)
    <3>1. inq' = [inq EXCEPT ![i] = Tail(inq[i])]
      BY <2>1 DEF LeaseRefused, LeaseGranted, OnlyAnswers
    <3>2. QED
      BY <3>1, RestShorter
  <2>2. CASE NoNode(i, h) \/ Refused(i, h) \/ NotTaken(i, h) \/ Enqueue(i, h)
    <3>1. \/ inq' = [inq EXCEPT ![i] = Tail(inq[i])]
          \/ \E p \in Payloads(i, h) : inq' = [inq EXCEPT ![i] = p.rest]
      BY <2>2 DEF NoNode, Refused, NotTaken, Enqueue, OnlyAnswers
    <3>2. QED
      BY <3>1, RestShorter
  <2>3. QED
    BY <2>1, <2>2
<1>2. UNCHANGED <<pend, nreq, net, link, nextwid>> /\ (inflight' = inflight \/ inflight' = <<>>)
  BY DEF LeaseRefused, NoNode, Refused, NotTaken, Enqueue, LeaseGranted, OnlyAnswers, NoBoot, GoDown, card
<1>3. Used' \subseteq Used
  BY <1>2 DEF Used
<1>4. IsFiniteSet(Unread') /\ Coming' <= Coming - 1 /\ Coming' \in Int
  BY <1>1, <1>2, ComingRead DEF Budget
<1>5. Len(queue') <= Len(queue) + 1
  <2>1. queue' = queue \/ queue' = <<>> \/ \E j : queue' = Append(queue, j)
    BY DEF LeaseRefused, NoNode, Refused, NotTaken, Enqueue, LeaseGranted, OnlyAnswers, Fallen
  <2>2. queue \in Seq(QueuedJob)
    BY DEF Inv, TypeOK, DaemonTypeOK
  <2>3. QED
    BY <2>1, <2>2
<1>6. Len(queue') \in Nat /\ Len(queue) \in Nat /\ Coming \in Int
  BY Sizes DEF Inv, TypeOK, DaemonTypeOK, Budget
<1>7. QED
  BY <1>2, <1>3, <1>4, <1>5, <1>6 DEF Calm

\* A client that goes takes its unread bytes along; a lease holder's boot forgets the card.
LEMMA DropCalmOrBoots ==
  ASSUME Inv, Inv', Budget, NEW i \in Slots, DropClient(i)
  PROVE  Calm \/ Boots
<1>1. /\ inq' = [inq EXCEPT ![i] = <<>>] /\ pend' = [pend EXCEPT ![i] = FALSE]
      /\ nextwid' = nextwid /\ nreq' = nreq /\ inflight' = Orphan(inflight, i)
  BY DEF DropClient
<1>2. inq \in [Slots -> Seq(Token)] /\ pend \in [Slots -> BOOLEAN]
  BY DEF Inv, TypeOK, ClientTypeOK
<1>3. \A k \in Slots : Len(inq'[k]) <= Len(inq[k]) /\ Len(inq'[k]) \in Nat /\ Len(inq[k]) \in Nat
  BY <1>1, <1>2
<1>4. Unread' \subseteq Unread /\ Owing' \subseteq Owing
  BY <1>1, <1>2, <1>3 DEF Unread, Owing
<1>5. IsFiniteSet(Unread') /\ Coming' <= Coming /\ Coming' \in Int
  BY <1>1, <1>4, ComingFalls DEF Budget
<1>6. queue \in Seq(QueuedJob) /\ inflight \in Seq(WiredJob)
  BY DEF Inv, TypeOK, DaemonTypeOK
<1>7. CASE i = leased
  <2>1. queue = <<>> /\ inflight = <<>>
    BY <1>7 DEF Inv, LeaseExclusive, DownIsEmpty
  <2>2. Orphan(queue, i) = <<>> /\ Orphan(inflight, i) = <<>>
    BY <2>1 DEF Orphan
  <2>3. Boot(<<>>)
    BY <1>7, <2>2 DEF DropClient
  <2>a. net' = {} /\ link' = <<>> /\ (queue' = <<>> \/ queue' = Append(<<>>, CapsJob))
    BY <2>3 DEF Boot
  <2>b. Len(<<>>) = 0 /\ \A j : Len(Append(<<>>, j)) = 1
    OBVIOUS
  <2>c. queue' = <<>> => Len(queue') \in 0..1
    BY <2>b
  <2>d. queue' = Append(<<>>, CapsJob) => Len(queue') \in 0..1
    BY <2>b
  <2>4. net' = {} /\ link' = <<>> /\ Len(queue') \in 0..1
    BY <2>a, <2>c, <2>d
  <2>5. QED
    BY <1>1, <1>5, <2>2, <2>4 DEF Boots
<1>8. CASE i # leased
  <2>1. queue' = Orphan(queue, i) /\ UNCHANGED <<net, link>>
    BY <1>8 DEF DropClient, NoBoot
  <2>2. Len(Orphan(queue, i)) = Len(queue) /\ Len(queue) \in Nat
    BY <1>6, OrphanFact
  <2>3. DOMAIN inflight' = DOMAIN inflight /\ \A x \in DOMAIN inflight : inflight'[x].wid = inflight[x].wid
    <3>1. \A j \in WiredJob : [j EXCEPT !.fd = NoFd].wid = j.wid
      BY DEF WiredJob
    <3>2. \A x \in DOMAIN inflight : inflight[x] \in WiredJob
      BY <1>6
    <3>3. QED
      BY <1>1, <3>1, <3>2 DEF Orphan
  <2>4. Used' = Used
    BY <2>1, <2>3 DEF Used
  <2>5. QED
    BY <1>1, <1>5, <2>1, <2>2, <2>4, Sizes DEF Calm, Budget
<1>9. QED
  BY <1>7, <1>8

\* send_jobs gives out one id, whether the link takes the job or not.
LEMMA SendSpends ==
  ASSUME Inv, Inv', Budget, NEW q \in DOMAIN queue, NEW k \in Nodes, SendOne(q, k) \/ SendFails(q, k)
  PROVE  Spends
<1>1. UNCHANGED <<inq, pend, nreq>> /\ nextwid' = NextWid /\ link' = link
  BY DEF SendOne, SendFails, clients, NoBoot
<1>2. queue \in Seq(QueuedJob) /\ q \in 1..Len(queue) /\ Len(queue) \in Nat /\ inflight \in Seq(WiredJob)
  BY DEF Inv, TypeOK, DaemonTypeOK
<1>3. Len(RemoveAt(queue, q)) = Len(queue) - 1
  BY <1>2, RemoveAtFact
<1>4. CASE SendOne(q, k)
  <2>1. PICK d \in Dues :
          /\ inflight' = Append(inflight, Wired(queue[q], k, d))
          /\ net' = net \union (IF Answerable(Wired(queue[q], k, d))
                                THEN {[wid |-> Wired(queue[q], k, d).wid, op |-> Wired(queue[q], k, d).op]} ELSE {})
    BY <1>4 DEF SendOne
  <2>2. Wired(queue[q], k, d).wid = NextWid
    BY DEF Wired
  <2> DEFINE j == Wired(queue[q], k, d)
  <2>3. /\ \A x \in DOMAIN inflight' : inflight'[x] = j \/ \E y \in DOMAIN inflight : inflight'[x] = inflight[y]
        /\ \A m \in net' : m \in net \/ m.wid = NextWid
    <3> HIDE DEF j
    <3>1. \A x \in DOMAIN inflight' : inflight'[x] = j \/ \E y \in DOMAIN inflight : inflight'[x] = inflight[y]
      BY <2>1, <1>2 DEF j
    <3>2. \A m \in net' : m \in net \/ m.wid = NextWid
      BY <2>1, <2>2
    <3>3. QED
      BY <3>1, <3>2
  <2> HIDE DEF j
  <2>4. j.wid = NextWid
    BY <2>2 DEF j
  <2>5. Used' \subseteq Used \union {NextWid}
    BY <1>1, <2>3, <2>4 DEF Used
  <2>6. queue' = RemoveAt(queue, q)
    BY <1>4 DEF SendOne
  <2>7. QED
    BY <1>1, <1>2, <1>3, <2>5, <2>6, ComingSame, Sizes DEF Spends, Budget
<1>5. CASE SendFails(q, k)
  <2>1. inflight' = <<>> /\ queue' = <<>> /\ net' = net
    BY <1>5 DEF SendFails, GoDown, Fallen, NoBoot
  <2>2. Used' \subseteq Used
    BY <1>1, <2>1 DEF Used
  <2>3. QED
    BY <1>1, <1>2, <2>1, <2>2, ComingSame, Sizes DEF Spends, Budget
<1>6. QED
  BY <1>4, <1>5

\* poll_link uses ids up; it gives none out.
LEMMA PollCalm ==
  ASSUME Inv, Inv', CardOK, Budget, PollReply \/ PollOutOfStep \/ PollBadLength
  PROVE  Calm
<1>1. UNCHANGED <<inq, pend, nreq, nextwid, net>>
  BY DEF PollReply, PollOutOfStep, PollBadLength, NoBoot
<1>2. Len(queue') <= Len(queue)
  <2>1. queue' = queue \/ queue' = <<>>
    BY DEF PollReply, PollOutOfStep, PollBadLength, Fallen
  <2>2. queue \in Seq(QueuedJob)
    BY DEF Inv, TypeOK, DaemonTypeOK
  <2>3. QED
    BY <2>1, <2>2
<1>3. link' = link \/ (link # <<>> /\ link' = Tail(link))
  BY DEF PollReply, PollOutOfStep, PollBadLength, NoBoot
<1>4. \/ inflight' = inflight \/ inflight' = <<>>
      \/ \E x \in DOMAIN inflight : inflight' = Vacate(inflight, x)
  BY DEF PollReply, PollOutOfStep, PollBadLength, GoDown, Drop, Finish, Matching
<1>5. \A x \in DOMAIN inflight' : \E y \in DOMAIN inflight : inflight'[x] = inflight[y]
  <2>1. inflight \in Seq(WiredJob)
    BY DEF Inv, TypeOK, DaemonTypeOK
  <2>2. ASSUME NEW x \in DOMAIN inflight, inflight' = Vacate(inflight, x)
        PROVE  \A k \in DOMAIN inflight' : \E y \in DOMAIN inflight : inflight'[k] = inflight[y]
    <3>0. DOMAIN inflight = 1..Len(inflight) /\ Len(inflight) \in Nat
      BY <2>1
    <3>a. x \in 1..Len(inflight)
      BY <3>0
    <3>1. /\ DOMAIN Vacate(inflight, x) = 1..Len(inflight)-1
          /\ \A k \in 1..Len(inflight)-1 : Vacate(inflight, x)[k] = inflight[IF k = x THEN Len(inflight) ELSE k]
      BY <2>1, <3>0, <3>a DEF Vacate
    <3>3. \A k \in 1..Len(inflight)-1 : (IF k = x THEN Len(inflight) ELSE k) \in DOMAIN inflight
      BY <3>0
    <3>4. QED
      BY <2>2, <3>1, <3>3
  <2>3. ASSUME inflight' = <<>> PROVE DOMAIN inflight' = {}
    BY <2>3
  <2>4. QED
    BY <1>4, <2>2, <2>3
<1>6. \A k \in DOMAIN link' : \E l \in DOMAIN link : link'[k] = link[l]
  <2>1. \A S : \A s \in Seq(S) : s # <<>> => \A k \in DOMAIN Tail(s) : k + 1 \in DOMAIN s /\ Tail(s)[k] = s[k + 1]
    OBVIOUS
  <2>2. QED
    BY <1>3, <2>1 DEF CardOK
<1>7. Used' \subseteq Used
  BY <1>1, <1>5, <1>6 DEF Used
<1>8. Len(queue') \in Nat /\ Len(queue) \in Nat
  BY DEF Inv, TypeOK, DaemonTypeOK
<1>9. QED
  BY <1>1, <1>2, <1>7, <1>8, ComingSame, Sizes DEF Calm, Budget

\* The watchdog's boot and the retry find the tables empty or empty them.
LEMMA WatchBoots ==
  ASSUME Inv, Inv', Budget, WatchFire \/ Retry
  PROVE  Boots
<1>1. UNCHANGED <<inq, pend, nreq>>
  BY DEF WatchFire, Retry, clients
<1>2. inflight' = <<>>
  BY DEF WatchFire, Retry, RetryDue, GoDown, Inv, DownIsEmpty
<1>a. Boot(<<>>)
  BY DEF WatchFire, Retry, RetryDue, Inv, DownIsEmpty
<1>b. net' = {} /\ link' = <<>> /\ (queue' = <<>> \/ queue' = <<CapsJob>>)
  BY <1>a DEF Boot
<1>c. Len(<<>>) = 0 /\ \A j : Len(<<j>>) = 1
  OBVIOUS
<1>d. Len(queue') = 0 \/ Len(queue') = 1
  <2>1. queue' = <<>> => Len(queue') = 0
    BY <1>c
  <2>2. queue' = <<CapsJob>> => Len(queue') = 1
    BY <1>c
  <2>3. QED
    BY <1>b, <2>1, <2>2
<1>3. net' = {} /\ link' = <<>> /\ Len(queue') \in 0..1
  BY <1>b, <1>d
<1>4. QED
  BY <1>1, <1>2, <1>3, ComingSame DEF Boots, Budget

\* Every step is one of the three kinds.
LEMMA ThreeKinds ==
  ASSUME Inv, Inv', CardOK, Budget, [Next]_vars
  PROVE  Calm \/ Spends \/ Boots
<1>1. CASE Select \/ SelectConnect \/ Spin \/ WatchQuiet \/ UNCHANGED vars
  BY <1>1, CalmLoop DEF Select, SelectConnect
<1>2. CASE \E i \in Slots : ServeRequest(i)
  <2> PICK i \in Slots : ServeRequest(i)
    BY <1>2
  <2>1. CASE DropClient(i)
    BY <2>1, DropCalmOrBoots
  <2>2. ASSUME NEW h \in Headers(i),
               \/ LeaseRefused(i, h) \/ NoNode(i, h) \/ Refused(i, h) \/ NotTaken(i, h)
               \/ Enqueue(i, h) \/ LeaseGranted(i, h)
        PROVE  Calm
    BY <2>2, CalmRequest
  <2>3. QED
    BY <2>1, <2>2 DEF ServeRequest, ClientGone, BadRequest
<1>3. CASE SendJobs
  BY <1>3, SendSpends, CalmLoop DEF SendJobs
<1>4. CASE PollLink
  BY <1>4, PollCalm, CalmLoop DEF PollLink
<1>5. CASE WatchFire \/ Retry
  BY <1>5, WatchBoots
<1>6. CASE \/ \E i \in Slots : Client(i)
           \/ \E j \in net, caps \in Caps : NodeReply(j, caps)
  BY <1>6, CalmEnvironment
<1>7. QED
  BY <1>1, <1>2, <1>3, <1>4, <1>5, <1>6 DEF Next, Daemon

\* Before the first job no id is in use.
LEMMA BudgetInit == Init => Budget
<1> SUFFICES ASSUME Init PROVE Budget
  OBVIOUS
<1>1. Unread = {} /\ Owing = {} /\ Used = {}
  BY DEF Init, Unread, Owing, Used
<1>2. Coming = 2 * MaxReq
  BY <1>1, FS_EmptySet, BoundsAssumption DEF Coming, Init
<1>3. Len(queue) \in 0..1
  BY DEF Init
<1>4. Coming \in Nat /\ 2 * MaxReq \in Nat
  BY <1>2, BoundsAssumption
<1>5. 0 + Len(queue) + Coming <= 2 * MaxReq + 1
  <2>1. \A l \in 0..1 : 0 + l + 2 * MaxReq <= 2 * MaxReq + 1
    BY BoundsAssumption
  <2>2. QED
    BY <1>2, <1>3, <2>1
<1>6. Coming <= 2 * MaxReq /\ IsFiniteSet(Unread) /\ Used \subseteq 0..WIDS-1
  BY <1>1, <1>2, <1>4, FS_EmptySet
<1>7. \A w \in Used : Age(w) < 0
  BY <1>1
<1>8. QED
  BY <1>5, <1>6, <1>7 DEF Budget

\* With more wire ids than jobs can be sent between two boots, send_jobs always has a free one:
\* nextwid may come round, but not to an id still in use.
THEOREM FreshIds ==
  ASSUME 2 * MaxReq + 1 < WIDS
  PROVE  Spec => []IdFree
<1>1. Inv /\ Inv' /\ CardOK /\ Budget /\ [Next]_vars => Budget'
  BY ThreeKinds, BudgetCalm, BudgetSpent, BudgetBoot DEF Calm, Spends, Boots
<1>2. Inv /\ Budget => IdFree
  <2> SUFFICES ASSUME Inv, Budget, NextWid \in Used PROVE FALSE
    BY DEF IdFree, Budget
  <2>1. PICK s \in Nat : s + Len(queue) + Coming <= 2 * MaxReq + 1 /\ \A w \in Used : Age(w) < s
    BY DEF Budget
  <2>2. Coming \in Int /\ Len(queue) \in Nat /\ Coming >= 0
    <3>1. 2 * (MaxReq - nreq) \in Nat
      BY BoundsAssumption DEF Inv, TypeOK, ClientTypeOK
    <3>2. QED
      BY <3>1, Sizes DEF Coming, Budget
  <2>3. nextwid \in 0..WIDS-1
    BY DEF Inv, TypeOK, DaemonTypeOK
  <2>4. Age(NextWid) = WIDS - 1
    BY <2>3, BoundsAssumption DEF Age, NextWid
  <2>5. QED
    BY <2>1, <2>2, <2>4, BoundsAssumption
<1>3. QED
  BY <1>1, <1>2, BudgetInit, Invariance, PTL DEF Spec

-----------------------------------------------------------------------------
(***************************************************************************)
(* What is on the card and on the link, and the jobs it answers.           *)
(***************************************************************************)
\* A wire id is on the card or on the link once.
IdsOnce ==
  /\ \A j, k \in net : j.wid = k.wid => j = k
  /\ \A j \in net, k \in DOMAIN link : link[k].wid # j.wid
  /\ \A k, l \in DOMAIN link : link[k].wid = link[l].wid => k = l

\* The daemon reads replies in step with the card that answers them.
InStep == up /\ rgot # "stale"

\* In step, each id on the card or the link is one job's in flight.
JobsKnown ==
  InStep => /\ \A x, y \in DOMAIN inflight : inflight[x].wid = inflight[y].wid => x = y
            /\ \A j \in net : \E x \in DOMAIN inflight : inflight[x].wid = j.wid
            /\ \A k \in DOMAIN link : \E x \in DOMAIN inflight : inflight[x].wid = link[k].wid

\* The five things a step can be to the card.
Aside == /\ UNCHANGED <<net, link>>
         /\ InStep' => /\ InStep /\ DOMAIN inflight' = DOMAIN inflight
                       /\ \A x \in DOMAIN inflight : inflight'[x].wid = inflight[x].wid
Sends(j) == /\ j.wid = NextWid
            /\ inflight' = Append(inflight, j)
            /\ net' = net \union (IF Answerable(j) THEN {[wid |-> j.wid, op |-> j.op]} ELSE {})
            /\ UNCHANGED <<link, up, rgot>>
Replies(j, r) == /\ j \in net /\ r.wid = j.wid
                 /\ net' = net \ {j} /\ link' = Append(link, r)
                 /\ UNCHANGED <<inflight, up, rgot>>
Takes == /\ link # <<>> /\ link' = Tail(link) /\ net' = net
         /\ InStep' => /\ InStep
                       /\ \/ \E x \in Matching(Head(link).wid) : inflight' = Vacate(inflight, x)
                          \/ Matching(Head(link).wid) = {} /\ inflight' = inflight
Resets == net' = {} /\ link' = <<>> /\ inflight' = <<>>

\* drop_client leaves the wire ids of inflight[] alone, or boots with nothing in flight.
LEMMA DropAsideOrResets ==
  ASSUME Inv, NEW i \in Slots, DropClient(i)
  PROVE  Aside \/ Resets
<1>1. inflight' = Orphan(inflight, i) /\ inflight \in Seq(WiredJob)
  BY DEF DropClient, Inv, TypeOK, DaemonTypeOK
<1>2. CASE i = leased
  <2>1. inflight = <<>>
    BY <1>2 DEF Inv, LeaseExclusive, DownIsEmpty
  <2>2. inflight' = <<>>
    BY <1>1, <2>1 DEF Orphan
  <2>3. QED
    BY <1>2, <2>2 DEF DropClient, Boot, Resets
<1>3. CASE i # leased
  <2>1. UNCHANGED <<net, link, up, rgot>>
    BY <1>3 DEF DropClient, NoBoot
  <2>2. \A j \in WiredJob : [j EXCEPT !.fd = NoFd].wid = j.wid
    BY DEF WiredJob
  <2>3. \A x \in DOMAIN inflight : inflight[x] \in WiredJob
    BY <1>1
  <2>4. DOMAIN inflight' = DOMAIN inflight /\ \A x \in DOMAIN inflight : inflight'[x].wid = inflight[x].wid
    BY <1>1, <2>2, <2>3 DEF Orphan
  <2>5. QED
    BY <2>1, <2>4 DEF Aside, InStep
<1>4. QED
  BY <1>2, <1>3

\* Every step is one of the five.
LEMMA FiveKinds ==
  ASSUME Inv, CardOK, [Next]_vars
  PROVE  \/ Aside \/ Takes \/ Resets
         \/ \E j \in WiredJob : Sends(j)
         \/ \E j \in net, r \in [wid : Nat, caps : Nat] : Replies(j, r)
<1>1. CASE \/ Select \/ SelectConnect \/ Spin \/ SendDone \/ PollDone \/ WatchQuiet \/ UNCHANGED vars
           \/ \E i \in Slots : Client(i)
  <2>1. UNCHANGED <<net, link, inflight, up>> /\ (rgot' = rgot \/ rgot # "stale")
    BY <1>1 DEF Select, SelectConnect, Selected, Spin, SendDone, PollDone, WatchQuiet, vars, daemon, card,
                Client, Submit, SendPayload, Receive, Close, clients
  <2>2. QED
    BY <2>1 DEF Aside, InStep
<1>2. CASE \E i \in Slots : ServeRequest(i)
  <2> PICK i \in Slots : ServeRequest(i)
    BY <1>2
  <2>1. CASE DropClient(i)
    BY <2>1, DropAsideOrResets
  <2>2. CASE UNCHANGED <<net, link>> /\ (~up' \/ UNCHANGED <<inflight, up, rgot>>)
    BY <2>2 DEF Aside, InStep
  <2>3. QED
    BY <2>1, <2>2 DEF ServeRequest, ClientGone, BadRequest, LeaseRefused, LeaseGranted, NoNode, Refused,
                      NotTaken, Enqueue, OnlyAnswers, Fallen, NoBoot, card
<1>3. ASSUME NEW q \in DOMAIN queue, NEW k \in Nodes, SendOne(q, k)
      PROVE  \E j \in WiredJob : Sends(j)
  <2>1. queue[q] \in QueuedJob
    BY DEF Inv, TypeOK, DaemonTypeOK
  <2>2. PICK d \in Dues :
          /\ inflight' = Append(inflight, Wired(queue[q], k, d))
          /\ net' = net \union (IF Answerable(Wired(queue[q], k, d))
                                THEN {[wid |-> Wired(queue[q], k, d).wid, op |-> Wired(queue[q], k, d).op]} ELSE {})
    BY <1>3 DEF SendOne
  <2>3. Wired(queue[q], k, d) \in WiredJob /\ Wired(queue[q], k, d).wid = NextWid
    BY <2>1, NextWidFact, BoundsAssumption DEF Wired, WiredJob, QueuedJob
  <2>4. QED
    BY <1>3, <2>2, <2>3 DEF SendOne, Sends
<1>4. ASSUME NEW q \in DOMAIN queue, NEW k \in Nodes, SendFails(q, k)
      PROVE  Aside
  BY <1>4 DEF SendFails, Fallen, NoBoot, Aside, InStep
<1>5. CASE PollReply
  <2>1. /\ link # <<>> /\ link' = Tail(link) /\ UNCHANGED <<net, up>> /\ rgot # "stale"
        /\ \/ \E x \in Matching(Head(link).wid) : inflight' = Vacate(inflight, x)
           \/ Matching(Head(link).wid) = {} /\ inflight' = inflight
    BY <1>5 DEF PollReply, Finish, Drop
  <2>2. QED
    BY <2>1 DEF Takes, InStep
<1>6. CASE PollOutOfStep
  BY <1>6 DEF PollOutOfStep, Takes, InStep
<1>7. CASE PollBadLength
  BY <1>7 DEF PollBadLength, Fallen, NoBoot, Aside, InStep
<1>8. CASE WatchFire
  BY <1>8 DEF WatchFire, GoDown, Boot, Resets
<1>9. CASE Retry
  BY <1>9 DEF Retry, RetryDue, Boot, Resets, Inv, DownIsEmpty
<1>10. ASSUME NEW j \in net, NEW caps \in Caps, NodeReply(j, caps)
       PROVE  \E r \in [wid : Nat, caps : Nat] : Replies(j, r)
  <2> DEFINE r == [wid |-> j.wid, caps |-> IF j.op = "K" THEN caps ELSE 0]
  <2>1. r \in [wid : Nat, caps : Nat] /\ r.wid = j.wid
    BY InputsAssumption DEF CardOK
  <2>2. net' = net \ {j} /\ link' = Append(link, r)
    BY <1>10 DEF NodeReply
  <2> HIDE DEF r
  <2>3. UNCHANGED <<inflight, up, rgot>>
    BY <1>10 DEF NodeReply, daemon
  <2>4. QED
    BY <2>1, <2>2, <2>3 DEF Replies
<1>11. QED
  BY <1>1, <1>2, <1>3, <1>4, <1>5, <1>6, <1>7, <1>8, <1>9, <1>10 DEF Next, Daemon, SendJobs, PollLink

\* The ids stay apart and the jobs stay known, whatever the step is to the card.
LEMMA KnownStep ==
  ASSUME Inv, CardOK, IdFree, IdsOnce, JobsKnown, [Next]_vars
  PROVE  IdsOnce' /\ JobsKnown'
<1>t. inflight \in Seq(WiredJob) /\ link \in Seq([wid : Nat, caps : Nat])
  BY DEF Inv, TypeOK, DaemonTypeOK, CardOK
<1>1. CASE Aside
  <2>1. IdsOnce'
    BY <1>1 DEF Aside, IdsOnce
  <2>2. JobsKnown'
    BY <1>1 DEF Aside, JobsKnown, InStep
  <2>3. QED
    BY <2>1, <2>2
<1>2. CASE Resets
  <2>1. IdsOnce'
    BY <1>2 DEF Resets, IdsOnce
  <2>2. JobsKnown'
    BY <1>2 DEF Resets, JobsKnown
  <2>3. QED
    BY <2>1, <2>2
<1>3. ASSUME NEW j \in WiredJob, Sends(j) PROVE IdsOnce' /\ JobsKnown'
  <2> DEFINE m == [wid |-> j.wid, op |-> j.op]
  <2>1. m.wid = NextWid
    BY <1>3 DEF Sends
  <2>2. /\ \A k \in net : k.wid # NextWid
        /\ \A k \in DOMAIN link : link[k].wid # NextWid
        /\ \A x \in DOMAIN inflight : inflight[x].wid # NextWid
    BY DEF IdFree, Used
  <2>3. net' = net \/ net' = net \union {m}
    BY <1>3 DEF Sends
  <2> HIDE DEF m
  <2>4. link' = link
    BY <1>3 DEF Sends
  <2>5. IdsOnce'
    <3>1. CASE net' = net
      BY <3>1, <2>4 DEF IdsOnce
    <3>2. CASE net' = net \union {m}
      BY <3>2, <2>1, <2>2, <2>4 DEF IdsOnce
    <3>3. QED
      BY <2>3, <3>1, <3>2
  <2>6. /\ DOMAIN inflight' = DOMAIN inflight \union {Len(inflight) + 1}
        /\ Len(inflight) + 1 \notin DOMAIN inflight
        /\ inflight'[Len(inflight) + 1].wid = NextWid
        /\ \A x \in DOMAIN inflight : inflight'[x] = inflight[x]
    BY <1>3, <1>t DEF Sends
  <2>7. JobsKnown'
    <3>1. SUFFICES ASSUME InStep' PROVE JobsKnown'
      BY DEF JobsKnown
    <3>2. InStep
      BY <3>1, <1>3 DEF Sends, InStep
    <3>3. \A x, y \in DOMAIN inflight' : inflight'[x].wid = inflight'[y].wid => x = y
      BY <3>2, <2>2, <2>6 DEF JobsKnown
    <3>4. \A k \in net' : \E x \in DOMAIN inflight' : inflight'[x].wid = k.wid
      BY <3>2, <2>1, <2>3, <2>6 DEF JobsKnown
    <3>5. \A k \in DOMAIN link' : \E x \in DOMAIN inflight' : inflight'[x].wid = link'[k].wid
      BY <3>2, <2>4, <2>6 DEF JobsKnown
    <3>6. QED
      BY <3>3, <3>4, <3>5 DEF JobsKnown
  <2>8. QED
    BY <2>5, <2>7
<1>4. ASSUME NEW j \in net, NEW r \in [wid : Nat, caps : Nat], Replies(j, r) PROVE IdsOnce' /\ JobsKnown'
  <2>1. r.wid = j.wid /\ net' = net \ {j} /\ UNCHANGED <<inflight, up, rgot>>
    BY <1>4 DEF Replies
  <2>2. /\ DOMAIN link' = DOMAIN link \union {Len(link) + 1} /\ Len(link) + 1 \notin DOMAIN link
        /\ link'[Len(link) + 1] = r
        /\ \A k \in DOMAIN link : link'[k] = link[k]
    BY <1>4, <1>t DEF Replies
  <2>3. IdsOnce'
    <3>1. \A a, b \in net' : a.wid = b.wid => a = b
      BY <2>1 DEF IdsOnce
    <3>2. \A a \in net', k \in DOMAIN link' : link'[k].wid # a.wid
      BY <2>1, <2>2 DEF IdsOnce
    <3>3. \A k, l \in DOMAIN link' : link'[k].wid = link'[l].wid => k = l
      BY <2>1, <2>2 DEF IdsOnce
    <3>4. QED
      BY <3>1, <3>2, <3>3 DEF IdsOnce
  <2>4. JobsKnown'
    BY <2>1, <2>2 DEF JobsKnown, InStep
  <2>5. QED
    BY <2>3, <2>4
<1>5. CASE Takes
  <2>1. /\ net' = net /\ 1 \in DOMAIN link /\ Head(link) = link[1]
        /\ \A k \in DOMAIN link' : k + 1 \in DOMAIN link /\ link'[k] = link[k + 1] /\ k \in Nat \ {0}
    BY <1>5, <1>t DEF Takes
  <2>2. IdsOnce'
    <3>1. \A a \in net', k \in DOMAIN link' : link'[k].wid # a.wid
      BY <2>1 DEF IdsOnce
    <3>2. \A k, l \in DOMAIN link' : link'[k].wid = link'[l].wid => k = l
      BY <2>1 DEF IdsOnce
    <3>3. QED
      BY <2>1, <3>1, <3>2 DEF IdsOnce
  <2>3. JobsKnown'
    <3>1. SUFFICES ASSUME InStep' PROVE JobsKnown'
      BY DEF JobsKnown
    <3>2. InStep
      BY <3>1, <1>5 DEF Takes
    <3>3. PICK x \in DOMAIN inflight : inflight[x].wid = link[1].wid /\ inflight' = Vacate(inflight, x)
      <4>1. Matching(Head(link).wid) # {}
        BY <3>2, <2>1 DEF JobsKnown, Matching
      <4>2. QED
        BY <4>1, <3>1, <2>1, <1>5 DEF Takes, Matching
    <3> DEFINE n == Len(inflight)
               at(k) == IF k = x THEN n ELSE k
    <3>4. n \in Nat /\ DOMAIN inflight = 1..n /\ x \in 1..n
      BY <1>t
    <3>5. DOMAIN inflight' = 1..n-1 /\ \A k \in 1..n-1 : inflight'[k] = inflight[at(k)]
      BY <3>3, <3>4 DEF Vacate
    <3> HIDE DEF n
    <3>6. \A k \in 1..n-1 : at(k) \in 1..n /\ at(k) # x
      BY <3>4
    <3>7. \A y \in 1..n : y # x => \E k \in 1..n-1 : at(k) = y
      <4>1. ASSUME NEW y \in 1..n, y # x PROVE \E k \in 1..n-1 : at(k) = y
        <5>1. CASE y = n
          <6>1. x \in 1..n-1 /\ at(x) = y
            BY <5>1, <4>1, <3>4
          <6>2. QED
            BY <6>1
        <5>2. CASE y # n
          <6>1. y \in 1..n-1 /\ at(y) = y
            BY <5>2, <4>1, <3>4
          <6>2. QED
            BY <6>1
        <5>3. QED
          BY <5>1, <5>2
      <4>2. QED
        BY <4>1
    <3>8. \A k, l \in 1..n-1 : at(k) = at(l) => k = l
      BY <3>4
    <3>9. \A a, b \in 1..n : inflight[a].wid = inflight[b].wid => a = b
      BY <3>2, <3>4 DEF JobsKnown
    <3>10. \A k, l \in DOMAIN inflight' : inflight'[k].wid = inflight'[l].wid => k = l
      <4> HIDE DEF at
      <4>1. QED
        BY <3>5, <3>6, <3>8, <3>9
    <3>11. ASSUME NEW w, w # link[1].wid, \E y \in 1..n : inflight[y].wid = w
           PROVE  \E k \in DOMAIN inflight' : inflight'[k].wid = w
      <4> HIDE DEF at
      <4>1. PICK y \in 1..n : inflight[y].wid = w
        BY <3>11
      <4>2. PICK k \in 1..n-1 : at(k) = y
        BY <4>1, <3>11, <3>3, <3>7
      <4>3. QED
        BY <4>1, <4>2, <3>5
    <3>12. \A j \in net' : j.wid # link[1].wid /\ \E y \in 1..n : inflight[y].wid = j.wid
      BY <2>1, <3>2, <3>4 DEF JobsKnown, IdsOnce
    <3>13. \A k \in DOMAIN link' : link'[k].wid # link[1].wid /\ \E y \in 1..n : inflight[y].wid = link'[k].wid
      BY <2>1, <3>2, <3>4 DEF JobsKnown, IdsOnce
    <3>14. QED
      BY <3>10, <3>11, <3>12, <3>13 DEF JobsKnown
  <2>4. QED
    BY <2>2, <2>3
<1>6. QED
  BY <1>1, <1>2, <1>3, <1>4, <1>5, FiveKinds

\* Wire ids stay apart as long as each new one is free.
LEMMA Known ==
  ASSUME 2 * MaxReq + 1 < WIDS
  PROVE  Spec => [](Inv /\ CardOK /\ IdFree /\ IdsOnce /\ JobsKnown)
<1>1. Init => IdsOnce /\ JobsKnown
  <2> SUFFICES ASSUME Init PROVE IdsOnce /\ JobsKnown
    OBVIOUS
  <2>1. net = {} /\ link = <<>> /\ inflight = <<>>
    BY DEF Init
  <2>2. QED
    BY <2>1 DEF IdsOnce, JobsKnown
<1>2. Inv /\ CardOK /\ IdFree /\ IdsOnce /\ JobsKnown /\ [Next]_vars => IdsOnce' /\ JobsKnown'
  BY KnownStep
<1>3. QED
  BY <1>1, <1>2, FreshIds, Invariance, PTL DEF Spec

\* No reply can be given to another client's job: in step with the card, every reply it owes
\* or has sent is for exactly one job in flight, as long as nextwid cannot lap an id in use.
THEOREM LinkCorrect ==
  ASSUME 2 * MaxReq + 1 < WIDS
  PROVE  Spec => []LinkMatches
<1>1. IdsOnce /\ JobsKnown => LinkMatches
  <2> SUFFICES ASSUME IdsOnce, JobsKnown, InStep PROVE LinkMatches
    BY DEF LinkMatches, InStep
  <2>1. ASSUME NEW w, \E x \in DOMAIN inflight : inflight[x].wid = w
        PROVE  Cardinality(Matching(w)) = 1
    <3>1. PICK x \in DOMAIN inflight : inflight[x].wid = w
      BY <2>1
    <3>2. Matching(w) = {x}
      BY <3>1 DEF Matching, JobsKnown
    <3>3. QED
      BY <3>2, FS_Singleton
  <2>2. \A j \in net : Cardinality(Matching(j.wid)) = 1
    BY <2>1 DEF JobsKnown
  <2>3. \A k \in DOMAIN link : Cardinality(Matching(link[k].wid)) = 1
    BY <2>1 DEF JobsKnown
  <2>4. QED
    BY <2>2, <2>3 DEF LinkMatches, IdsOnce, JobsKnown
<1>2. QED
  BY <1>1, Known, PTL

\* What a step is to the card is a step JobCard allows: it takes a job under an id that is
\* in use neither on it nor on the link, answers one it took, delivers in order, or is reset.
LEMMA CardSteps ==
  ASSUME Inv, CardOK, IdFree, IdsOnce, [Next]_vars
  PROVE  [Card!Next]_(Card!vars)
<1> DEFINE ids == {j.wid : j \in net}
           wids == [k \in DOMAIN link |-> link[k].wid]
<1>t. link \in Seq([wid : Nat, caps : Nat])
  BY DEF CardOK
<1>s. wids \in Seq(Nat) /\ Len(wids) = Len(link) /\ DOMAIN wids = DOMAIN link
  <2>1. DOMAIN link = 1..Len(link) /\ Len(link) \in Nat /\ \A k \in 1..Len(link) : link[k].wid \in Nat
    <3> DEFINE Out == [wid : Nat, caps : Nat]
    <3>1. \A r \in Out : r.wid \in Nat
      OBVIOUS
    <3> HIDE DEF Out
    <3>2. link \in Seq(Out)
      BY <1>t DEF Out
    <3>3. DOMAIN link = 1..Len(link) /\ Len(link) \in Nat /\ \A k \in 1..Len(link) : link[k] \in Out
      BY <3>2, LenProperties
    <3>4. QED
      BY <3>1, <3>3
  <2>2. wids \in [1..Len(link) -> Nat]
    BY <2>1
  <2>3. \A n, f : n \in Nat /\ f \in [1..n -> Nat] => f \in Seq(Nat) /\ Len(f) = n
    OBVIOUS
  <2> HIDE DEF wids
  <2>4. QED
    BY <2>1, <2>2, <2>3
<1>r. Card!ToSet(wids) = {link[k].wid : k \in DOMAIN link}
  BY <1>s DEF Card!ToSet
<1>1. CASE Aside
  <2>1. ids' = ids /\ wids' = wids
    BY <1>1 DEF Aside
  <2>2. QED
    BY <2>1 DEF Card!vars
<1>2. CASE Resets
  <2>1. ids' = {} /\ wids' = <<>>
    BY <1>2 DEF Resets
  <2>2. QED
    BY <2>1 DEF Card!Next, Card!Reset
<1>3. ASSUME NEW j \in WiredJob, Sends(j) PROVE [Card!Next]_(Card!vars)
  <2>1. NextWid \in 0..WIDS-1
    BY NextWidFact
  <2>2. NextWid \notin ids /\ NextWid \notin Card!ToSet(wids)
    BY <1>r DEF IdFree, Used
  <2>3. wids' = wids
    BY <1>3 DEF Sends
  <2> DEFINE m == [wid |-> j.wid, op |-> j.op]
  <2>4. m.wid = NextWid /\ (net' = net \/ net' = net \union {m})
    BY <1>3 DEF Sends
  <2> HIDE DEF m
  <2>5. ids' = ids \/ ids' = ids \union {NextWid}
    <3>1. CASE net' = net
      BY <3>1
    <3>2. CASE net' = net \union {m}
      BY <3>2, <2>4
    <3>3. QED
      BY <2>4, <3>1, <3>2
  <2>6. QED
    BY <2>1, <2>2, <2>3, <2>5 DEF Card!Next, Card!Take, Card!vars
<1>4. ASSUME NEW j \in net, NEW r \in [wid : Nat, caps : Nat], Replies(j, r) PROVE [Card!Next]_(Card!vars)
  <2>1. r.wid = j.wid /\ net' = net \ {j} /\ link' = Append(link, r)
    BY <1>4 DEF Replies
  <2>2. ids' = ids \ {j.wid}
    BY <2>1 DEF IdsOnce
  <2>3. wids' = Append(wids, j.wid)
    <3>1. /\ DOMAIN link' = 1..Len(link)+1 /\ link'[Len(link)+1] = r
          /\ DOMAIN link = 1..Len(link) /\ Len(link) \in Nat
          /\ \A k \in DOMAIN link : link'[k] = link[k]
      BY <2>1, <1>t
    <3>2. /\ DOMAIN Append(wids, j.wid) = 1..Len(link)+1
          /\ Append(wids, j.wid)[Len(link)+1] = j.wid
          /\ \A k \in 1..Len(link) : Append(wids, j.wid)[k] = wids[k]
      <4> HIDE DEF wids
      <4>1. QED
        BY <1>s
    <3>3. \A k \in 1..Len(link)+1 : wids'[k] = Append(wids, j.wid)[k]
      <4>1. wids'[Len(link)+1] = j.wid
        BY <3>1, <2>1
      <4>2. \A k \in 1..Len(link) : wids'[k] = link[k].wid /\ wids[k] = link[k].wid
        BY <3>1
      <4> HIDE DEF wids
      <4>3. QED
        BY <3>1, <3>2, <4>1, <4>2
    <3>4. wids' = [k \in 1..Len(link)+1 |-> wids'[k]]
      BY <3>1
    <3>5. Append(wids, j.wid) = [k \in 1..Len(link)+1 |-> Append(wids, j.wid)[k]]
      <4>1. Append(wids, j.wid) \in [1..Len(link)+1 -> Nat]
        <5> HIDE DEF wids
        <5>1. j.wid \in Nat
          BY DEF CardOK
        <5>2. \A q \in Seq(Nat), x \in Nat : Append(q, x) \in [1..Len(q)+1 -> Nat]
          BY AppendProperties, LenProperties
        <5>3. QED
          BY <5>1, <5>2, <1>s
      <4> HIDE DEF wids
      <4>2. QED
        BY <4>1
    <3> HIDE DEF wids
    <3>6. QED
      BY <3>3, <3>4, <3>5
  <2>4. j.wid \in 0..WIDS-1
    BY DEF IdFree, Used
  <2>5. QED
    BY <2>2, <2>3, <2>4 DEF Card!Next, Card!Reply
<1>5. CASE Takes
  <2>1. /\ DOMAIN link' = 1..Len(link)-1 /\ Len(link) \in Nat \ {0} /\ DOMAIN link = 1..Len(link)
        /\ \A k \in 1..Len(link)-1 : link'[k] = link[k + 1]
        /\ net' = net
    BY <1>5, <1>t DEF Takes
  <2>2. /\ DOMAIN Tail(wids) = 1..Len(link)-1 /\ wids # <<>>
        /\ \A k \in 1..Len(link)-1 : Tail(wids)[k] = wids[k + 1]
        /\ Tail(wids) = [k \in 1..Len(link)-1 |-> wids[k + 1]]
    <3> HIDE DEF wids
    <3>1. \A q \in Seq(Nat) : Len(q) # 0 => /\ q # <<>> /\ DOMAIN Tail(q) = 1..Len(q)-1
                                            /\ Tail(q) = [k \in 1..Len(q)-1 |-> q[k + 1]]
      <4> SUFFICES ASSUME NEW q \in Seq(Nat), Len(q) # 0
                   PROVE  /\ q # <<>> /\ DOMAIN Tail(q) = 1..Len(q)-1
                          /\ Tail(q) = [k \in 1..Len(q)-1 |-> q[k + 1]]
        OBVIOUS
      <4>1. q # <<>>
        OBVIOUS
      <4>2. /\ Tail(q) \in Seq(Nat) /\ Len(Tail(q)) = Len(q) - 1
            /\ \A k \in 1..Len(Tail(q)) : Tail(q)[k] = q[k + 1]
        BY <4>1, HeadTailProperties
      <4>3. Tail(q) \in [1..Len(q)-1 -> Nat]
        BY <4>2, LenProperties
      <4>4. QED
        BY <4>1, <4>2, <4>3
    <3>2. Len(wids) # 0
      BY <2>1, <1>s
    <3>3. QED
      BY <2>1, <3>1, <3>2, <1>s
  <2>3. \A k \in 1..Len(link)-1 : wids[k + 1] = link[k + 1].wid
    BY <2>1
  <2>4. wids' = [k \in 1..Len(link)-1 |-> link[k + 1].wid]
    BY <2>1
  <2>5. wids' = Tail(wids)
    BY <2>2, <2>3, <2>4
  <2>6. ids' = ids
    BY <2>1
  <2> HIDE DEF ids, wids
  <2>7. QED
    BY <2>2, <2>5, <2>6 DEF Card!Next, Card!Deliver, ids, wids
<1>6. QED
  BY <1>1, <1>2, <1>3, <1>4, <1>5, FiveKinds

\* ttjobd implements JobCard: it gives the card no wire id that is still in use there, and
\* a boot forgets the old jobs.
THEOREM CardCorrect ==
  ASSUME 2 * MaxReq + 1 < WIDS
  PROVE  Spec => UsesCard
<1>1. Init => Card!Init
  BY DEF Init, Card!Init
<1>2. Inv /\ CardOK /\ IdFree /\ IdsOnce /\ [Next]_vars => [Card!Next]_(Card!vars)
  BY CardSteps
<1>3. QED
  BY <1>1, <1>2, Known, PTL DEF Spec, UsesCard, Card!Spec
=============================================================================
