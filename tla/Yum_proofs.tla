----------------------------- MODULE Yum_proofs ------------------------------
(***************************************************************************)
(* Proofs about the package client with its mirror and build service, for  *)
(* any packages, requirements, runs and numbers of requests: FilesTrue,    *)
(* NeverBack and GoesOn (Yum).                                             *)
(***************************************************************************)
EXTENDS Yum, SequenceTheorems, FiniteSetTheorems, WellFoundedInduction, TLAPS

-----------------------------------------------------------------------------
(***************************************************************************)
(* The mirror.                                                             *)
(***************************************************************************)
IndexRun == [at : {"idle", "scan", "serial", "signed", "tsv"}, snap : [Pkgs -> Versions], serial : 0..MaxIndex]

\* A run of cmd_index that will still take a serial.
Due(r) == IF ix[r].at \in {"scan", "serial"} THEN 1 ELSE 0

\* No serial is above the number of runs begun, not counting those that have none yet.
SerialsFit ==
  LET n == runs - (Due("sync") + Due("add"))
  IN tsv.serial <= n /\ signed.serial <= n /\ \A r \in Runs : ix[r].serial <= n

MirrorInv == MirrorTypeOK /\ SerialsFit

\* newer: the listed version is one of the two, and there if one of them is.
LEMMA ListedFact ==
  ASSUME MirrorTypeOK, NEW p \in Pkgs
  PROVE  Listed(p) \in Versions /\ Listed(p) >= pool[p] /\ Listed(p) >= built[p]
<1>1. pool[p] \in 0..MaxVersion /\ built[p] \in 0..MaxVersion
  BY DEF MirrorTypeOK, Versions
<1>2. \A a, b \in Nat : /\ Max({a, b}) \in {a, b}
                        /\ Max({a, b}) >= a /\ Max({a, b}) >= b
  <2> SUFFICES ASSUME NEW a \in Nat, NEW b \in Nat
               PROVE  Max({a, b}) \in {a, b} /\ Max({a, b}) >= a /\ Max({a, b}) >= b
    OBVIOUS
  <2>1. \E x \in {a, b} : \A y \in {a, b} : x >= y
    OBVIOUS
  <2>2. QED
    BY <2>1 DEF Max
<1>3. QED
  BY <1>1, <1>2, MirrorAssumption DEF Listed, Versions

\* What cmd_index lists is a version for every package.
LEMMA ListingFact == ASSUME MirrorTypeOK PROVE Listing \in [Pkgs -> Versions]
  BY ListedFact DEF Listing

\* The mirror as first synced.
LEMMA MirrorStart == MirrorInit => MirrorInv
<1> SUFFICES ASSUME MirrorInit PROVE MirrorInv
  OBVIOUS
<1>1. pool \in [Pkgs -> Versions] /\ built \in [Pkgs -> Versions]
  BY MirrorAssumption DEF MirrorInit, Versions
<1>2. \A p \in Pkgs : Listed(p) \in Versions
  <2>1. \A a, b \in Nat : Max({a, b}) \in {a, b}
    <3> SUFFICES ASSUME NEW a \in Nat, NEW b \in Nat PROVE Max({a, b}) \in {a, b}
      OBVIOUS
    <3>1. \E x \in {a, b} : \A y \in {a, b} : x >= y
      OBVIOUS
    <3>2. QED
      BY <3>1 DEF Max
  <2>2. \A p \in Pkgs : pool[p] \in 0..MaxVersion /\ built[p] \in 0..MaxVersion
    BY <1>1 DEF Versions
  <2>3. QED
    BY <2>1, <2>2, MirrorAssumption DEF Listed, Versions
<1>3. Listing \in [Pkgs -> Versions]
  BY <1>2 DEF Listing
<1>4. signed \in Lists /\ tsv \in Lists /\ runs = 0 /\ runs \in 0..MaxIndex
  BY <1>3, MirrorAssumption DEF MirrorInit, Lists
<1>5. NoRun \in IndexRun
  BY MirrorAssumption DEF NoRun, IndexRun, Versions
<1>6. ix \in [Runs -> IndexRun]
  BY <1>5 DEF MirrorInit
<1>7. SerialsFit
  <2>1. \A r \in Runs : ix[r].at = "idle" /\ ix[r].serial = 0
    BY DEF MirrorInit, NoRun
  <2>2. Due("sync") = 0 /\ Due("add") = 0
    BY <2>1 DEF Due, Runs
  <2>3. tsv.serial = 0 /\ signed.serial = 0 /\ runs = 0
    BY DEF MirrorInit
  <2>4. QED
    BY <2>1, <2>2, <2>3 DEF SerialsFit
<1>8. QED
  BY <1>1, <1>4, <1>6, <1>7 DEF MirrorInv, MirrorTypeOK, IndexRun

\* What the programs that change the mirror do to it.
IndexStep(r) == Scan(r) \/ TakeSerial(r) \/ PublishSigned(r) \/ PublishTsv(r) \/ IndexFails(r)
Dropped == /\ ix["add"].at = "tsv" => "crash" \in MirrorFaults
           /\ ix' = [ix EXCEPT !["add"] = NoRun]
           /\ UNCHANGED <<pool, built, signed, tsv, runs>>
MirrorAct ==
  \/ \E p \in Upstream, v \in Versions : Sync(p, v)
  \/ \E p \in Pkgs : Add(p)
  \/ \E r \in Runs : IndexStep(r)
  \/ Dropped
  \/ UNCHANGED mirrorVars

\* The type of the mirror's variables.
LEMMA MirrorTyped ==
  ASSUME MirrorInv, MirrorAct
  PROVE  MirrorTypeOK'
<1> USE DEF IndexRun
<1>0. /\ pool \in [Pkgs -> Versions] /\ built \in [Pkgs -> Versions]
      /\ signed \in Lists /\ tsv \in Lists /\ runs \in 0..MaxIndex
      /\ ix \in [Runs -> IndexRun]
  BY DEF MirrorInv, MirrorTypeOK
<1>n. NoRun \in IndexRun
  BY MirrorAssumption DEF NoRun, Versions
<1>1. ASSUME NEW p \in Upstream, NEW v \in Versions, Sync(p, v) PROVE MirrorTypeOK'
  <2>1. /\ pool' \in [Pkgs -> Versions] /\ runs' \in 0..MaxIndex
    BY <1>0, <1>1, MirrorAssumption DEF Sync, Free, Begin
  <2>2. ix' \in [Runs -> IndexRun]
    BY <1>0, <1>1 DEF Sync, Begin
  <2>3. QED
    BY <1>0, <1>1, <2>1, <2>2 DEF Sync, MirrorTypeOK
<1>2. ASSUME NEW p \in Pkgs, Add(p) PROVE MirrorTypeOK'
  <2>1. /\ built' \in [Pkgs -> Versions] /\ runs' \in 0..MaxIndex
    BY <1>0, <1>2, MirrorAssumption DEF Add, Free, Begin, Versions
  <2>2. ix' \in [Runs -> IndexRun]
    BY <1>0, <1>2 DEF Add, Begin
  <2>3. QED
    BY <1>0, <1>2, <2>1, <2>2 DEF Add, MirrorTypeOK
<1>3. ASSUME NEW r \in Runs, Scan(r) PROVE MirrorTypeOK'
  <2>1. Listing \in [Pkgs -> Versions]
    BY ListingFact DEF MirrorInv
  <2> HIDE DEF Listing
  <2>2. ix' \in [Runs -> IndexRun]
    BY <1>0, <1>3, <2>1, MirrorAssumption DEF Scan
  <2>3. QED
    BY <1>0, <1>3, <2>2 DEF Scan, MirrorTypeOK
<1>4. ASSUME NEW r \in Runs, TakeSerial(r) PROVE MirrorTypeOK'
  <2>1. SerialFor \in 0..MaxIndex
    <3>1. tsv.serial \in Nat /\ runs \in Nat /\ runs <= MaxIndex
      BY <1>0, MirrorAssumption DEF Lists
    <3>2. Due(r) = 1 /\ Due("sync") \in {0, 1} /\ Due("add") \in {0, 1}
      BY <1>4 DEF TakeSerial, Due
    <3>3. Due("sync") + Due("add") >= 1
      BY <3>2 DEF Runs
    <3>4. tsv.serial <= runs - (Due("sync") + Due("add"))
      BY DEF MirrorInv, SerialsFit
    <3>5. QED
      BY <3>1, <3>2, <3>3, <3>4, MirrorAssumption DEF SerialFor
  <2>2. ix' \in [Runs -> IndexRun]
    BY <1>0, <1>4, <2>1 DEF TakeSerial
  <2>3. QED
    BY <1>0, <1>4, <2>2 DEF TakeSerial, MirrorTypeOK
<1>5. ASSUME NEW r \in Runs, PublishSigned(r) PROVE MirrorTypeOK'
  <2>1. ix' \in [Runs -> IndexRun] /\ signed' \in Lists
    BY <1>0, <1>5 DEF PublishSigned, Lists
  <2>2. QED
    BY <1>0, <1>5, <2>1 DEF PublishSigned, MirrorTypeOK
<1>6. ASSUME NEW r \in Runs, PublishTsv(r) PROVE MirrorTypeOK'
  <2>1. ix' \in [Runs -> IndexRun] /\ tsv' \in Lists
    BY <1>0, <1>6, <1>n DEF PublishTsv, Lists
  <2>2. QED
    BY <1>0, <1>6, <2>1 DEF PublishTsv, MirrorTypeOK
<1>7. ASSUME NEW r \in Runs, IndexFails(r) PROVE MirrorTypeOK'
  <2>1. ix' \in [Runs -> IndexRun]
    BY <1>0, <1>7, <1>n DEF IndexFails
  <2>2. QED
    BY <1>0, <1>7, <2>1 DEF IndexFails, MirrorTypeOK
<1>8. ASSUME Dropped PROVE MirrorTypeOK'
  <2>1. ix' \in [Runs -> IndexRun]
    BY <1>0, <1>8, <1>n DEF Dropped
  <2>2. QED
    BY <1>0, <1>8, <2>1 DEF Dropped, MirrorTypeOK
<1>9. ASSUME UNCHANGED mirrorVars PROVE MirrorTypeOK'
  BY <1>0, <1>9 DEF mirrorVars, MirrorTypeOK
<1>10. QED
  BY <1>1, <1>2, <1>3, <1>4, <1>5, <1>6, <1>7, <1>8, <1>9 DEF MirrorAct, IndexStep

\* Serials stay below the number of runs, whichever runs overlap or stop.
LEMMA SerialsKept ==
  ASSUME MirrorInv, MirrorAct
  PROVE  SerialsFit'
<1> USE DEF IndexRun
<1>0. /\ signed.serial \in Nat /\ tsv.serial \in Nat /\ runs \in Nat
      /\ ix \in [Runs -> IndexRun] /\ \A r \in Runs : ix[r].serial \in Nat
  BY MirrorAssumption DEF MirrorInv, MirrorTypeOK, Lists
<1>s. /\ Due("sync") \in {0, 1} /\ Due("add") \in {0, 1} /\ Due("sync")' \in {0, 1} /\ Due("add")' \in {0, 1}
  BY DEF Due
<1>f. /\ tsv.serial <= runs - (Due("sync") + Due("add"))
      /\ signed.serial <= runs - (Due("sync") + Due("add"))
      /\ \A r \in Runs : ix[r].serial <= runs - (Due("sync") + Due("add"))
  BY DEF MirrorInv, SerialsFit
<1>a. \A r, o \in Runs : r # o => Due("sync") + Due("add") = Due(r) + Due(o)
  BY <1>s DEF Runs
<1>b. ASSUME NEW r \in Runs, NEW e, ix' = [ix EXCEPT ![r] = e]
      PROVE  \A o \in Runs : o # r => ix'[o] = ix[o] /\ Due(o)' = Due(o)
  BY <1>0, <1>b DEF Due
\* A run that begins takes a number.
<1>1. ASSUME NEW r \in Runs, Free(r), Begin(r), UNCHANGED <<signed, tsv>> PROVE SerialsFit'
  <2>1. runs' = runs + 1 /\ ix[r].at = "idle" /\ ix'[r].at = "scan" /\ ix'[r].serial = ix[r].serial
    BY <1>0, <1>1 DEF Free, Begin
  <2>2. \A o \in Runs : o # r => ix'[o] = ix[o]
    BY <1>0, <1>1 DEF Begin
  <2>3. Due("sync")' + Due("add")' = Due("sync") + Due("add") + 1
    <3>1. CASE r = "sync"
      BY <3>1, <2>1, <2>2, <1>s DEF Due, Runs
    <3>2. CASE r = "add"
      BY <3>2, <2>1, <2>2, <1>s DEF Due, Runs
    <3>3. QED
      BY <3>1, <3>2 DEF Runs
  <2>4. \A o \in Runs : ix'[o].serial = ix[o].serial
    BY <2>1, <2>2
  <2>5. QED
    BY <1>0, <1>1, <1>s, <1>f, <2>1, <2>3, <2>4 DEF SerialsFit
<1> DEFINE d == Due("sync") + Due("add")
           dd == Due("sync")' + Due("add")'
\* A run that goes on needs no more serials than before.
<1>2. ASSUME NEW r \in Runs, runs' = runs, \A o \in Runs : o # r => ix'[o] = ix[o],
             Due(r)' <= Due(r),
             tsv'.serial <= runs - dd, signed'.serial <= runs - dd, ix'[r].serial <= runs - dd
      PROVE  SerialsFit'
  <2>1. dd <= d /\ dd \in Nat /\ d \in Nat
    <3>1. CASE r = "sync"
      BY <3>1, <1>2, <1>s DEF Due, Runs
    <3>2. CASE r = "add"
      BY <3>2, <1>2, <1>s DEF Due, Runs
    <3>3. QED
      BY <3>1, <3>2 DEF Runs
  <2>2. \A o \in Runs : o # r => ix'[o].serial <= runs - dd
    <3>1. \A o \in Runs : ix[o].serial <= runs - d
      BY <1>f
    <3> HIDE DEF d, dd
    <3>2. QED
      BY <1>0, <1>2, <2>1, <3>1
  <2>3. QED
    BY <1>2, <2>2 DEF SerialsFit
<1>3. ASSUME NEW r \in Runs, Scan(r) PROVE SerialsFit'
  <2>1. ix[r].at = "scan" /\ ix'[r].at = "serial" /\ ix'[r].serial = 0 /\ \A o \in Runs : o # r => ix'[o] = ix[o]
    BY <1>0, <1>3 DEF Scan
  <2>2. Due(r)' = Due(r) /\ dd = d
    BY <2>1 DEF Due, Runs
  <2>3. UNCHANGED <<signed, tsv, runs>>
    BY <1>3 DEF Scan
  <2>4. 0 <= runs - dd
    BY <1>0, <1>s, <1>f, <2>2
  <2>5. tsv'.serial <= runs - dd /\ signed'.serial <= runs - dd /\ ix'[r].serial <= runs - dd /\ Due(r)' <= Due(r)
    BY <1>f, <1>s, <2>1, <2>2, <2>3, <2>4 DEF Runs
  <2> HIDE DEF d, dd
  <2>6. QED
    BY <1>2, <2>1, <2>3, <2>5
<1>4. ASSUME NEW r \in Runs, TakeSerial(r) PROVE SerialsFit'
  <2>1. ix[r].at = "serial" /\ ix'[r].at = "signed" /\ ix'[r].serial = tsv.serial + 1
        /\ \A o \in Runs : o # r => ix'[o] = ix[o]
    BY <1>0, <1>4 DEF TakeSerial, SerialFor
  <2>2. Due(r)' = 0 /\ Due(r) = 1 /\ dd = d - 1
    <3>1. Due(r)' = 0 /\ Due(r) = 1
      BY <2>1 DEF Due
    <3>2. CASE r = "sync"
      BY <3>1, <3>2, <2>1, <1>s DEF Due, Runs
    <3>3. CASE r = "add"
      BY <3>1, <3>3, <2>1, <1>s DEF Due, Runs
    <3>4. QED
      BY <3>1, <3>2, <3>3 DEF Runs
  <2>3. UNCHANGED <<signed, tsv, runs>>
    BY <1>4 DEF TakeSerial
  <2>4. d \in Nat /\ tsv.serial <= runs - d /\ signed.serial <= runs - d
    BY <1>f, <1>s
  <2> HIDE DEF d, dd
  <2>5. tsv'.serial <= runs - dd /\ signed'.serial <= runs - dd /\ ix'[r].serial <= runs - dd
    BY <1>0, <2>1, <2>2, <2>3, <2>4
  <2>6. QED
    BY <1>2, <2>1, <2>2, <2>3, <2>5
<1>5. ASSUME NEW r \in Runs, PublishSigned(r) \/ PublishTsv(r) \/ IndexFails(r) \/ (Dropped /\ r = "add")
      PROVE  SerialsFit'
  <2>1. \A o \in Runs : o # r => ix'[o] = ix[o]
    BY <1>0, <1>5 DEF PublishSigned, PublishTsv, IndexFails, Dropped
  <2>2. Due(r)' = 0 /\ ix'[r].serial \in {ix[r].serial, 0}
    BY <1>0, <1>5 DEF PublishSigned, PublishTsv, IndexFails, Dropped, NoRun, Due
  <2>3. /\ runs' = runs /\ signed'.serial \in {signed.serial, ix[r].serial} /\ tsv'.serial \in {tsv.serial, ix[r].serial}
    BY <1>5 DEF PublishSigned, PublishTsv, IndexFails, Dropped
  <2>4. d \in Nat /\ tsv.serial <= runs - d /\ signed.serial <= runs - d /\ ix[r].serial <= runs - d
    BY <1>f, <1>s
  <2>5. dd <= d /\ dd \in Nat
    <3>1. CASE r = "sync"
      BY <3>1, <2>1, <2>2, <1>s DEF Due, Runs
    <3>2. CASE r = "add"
      BY <3>2, <2>1, <2>2, <1>s DEF Due, Runs
    <3>3. QED
      BY <3>1, <3>2 DEF Runs
  <2> HIDE DEF d, dd
  <2>6. tsv'.serial <= runs - dd /\ signed'.serial <= runs - dd /\ ix'[r].serial <= runs - dd
    BY <1>0, <2>2, <2>3, <2>4, <2>5
  <2>7. Due(r)' <= Due(r)
    BY <2>2, <1>s DEF Runs
  <2>8. QED
    BY <1>2, <2>1, <2>3, <2>6, <2>7
<1>6. ASSUME UNCHANGED mirrorVars PROVE SerialsFit'
  BY <1>f, <1>6 DEF mirrorVars, SerialsFit, Due
<1>7. QED
  <2>1. ASSUME NEW p \in Upstream, NEW v \in Versions, Sync(p, v) PROVE SerialsFit'
    <3>1. Free("sync") /\ Begin("sync") /\ UNCHANGED <<signed, tsv>> /\ "sync" \in Runs
      BY <2>1 DEF Sync, Runs
    <3>2. QED
      BY <3>1, <1>1
  <2>2. ASSUME NEW p \in Pkgs, Add(p) PROVE SerialsFit'
    <3>1. Free("add") /\ Begin("add") /\ UNCHANGED <<signed, tsv>> /\ "add" \in Runs
      BY <2>2 DEF Add, Runs
    <3>2. QED
      BY <3>1, <1>1
  <2>3. Dropped => SerialsFit'
    <3>1. "add" \in Runs
      BY DEF Runs
    <3>2. QED
      BY <3>1, <1>5
  <2>4. QED
    BY <2>1, <2>2, <2>3, <1>3, <1>4, <1>5, <1>6 DEF MirrorAct, IndexStep

-----------------------------------------------------------------------------
(***************************************************************************)
(* The mirror's serials, when runs of cmd_index neither overlap nor stop   *)
(* between the two files.                                                  *)
(***************************************************************************)
OneRun == \A r, o \in Runs : ix[r].at # "idle" /\ ix[o].at # "idle" => r = o

\* index.signed and index.tsv have one serial, but for a run between the two.
InStep ==
  /\ \A r \in Runs : ix[r].at = "signed" => ix[r].serial = tsv.serial + 1
  /\ \A r \in Runs : ix[r].at = "tsv" => ix[r].serial = tsv.serial + 1 /\ signed.serial = tsv.serial + 1
  /\ (\A r \in Runs : ix[r].at # "tsv") => signed.serial = tsv.serial

PublishInv == OneRun /\ InStep

\* The first index has been published.
LEMMA PublishStart == MirrorInit => PublishInv
<1> SUFFICES ASSUME MirrorInit PROVE PublishInv
  OBVIOUS
<1>1. \A r \in Runs : ix[r].at = "idle"
  BY DEF MirrorInit, NoRun
<1>2. signed.serial = tsv.serial
  BY DEF MirrorInit
<1>3. QED
  BY <1>1, <1>2 DEF PublishInv, OneRun, InStep

\* One run at a time keeps the two files in step.
LEMMA PublishKept ==
  ASSUME MirrorInv, PublishInv, MirrorAct, MirrorFaults = {}
  PROVE  PublishInv'
<1> USE DEF IndexRun
<1>0. /\ signed.serial \in Nat /\ tsv.serial \in Nat
      /\ ix \in [Runs -> IndexRun] /\ \A r \in Runs : ix[r].serial \in Nat
  BY MirrorAssumption DEF MirrorInv, MirrorTypeOK, Lists
<1>r. Runs = {"sync", "add"}
  BY DEF Runs
<1>1. ASSUME NEW r \in Runs, Free(r), Begin(r), UNCHANGED <<signed, tsv>> PROVE PublishInv'
  <2>1. \A o \in Runs : ix[o].at = "idle"
    BY <1>1 DEF Free, Others
  <2>2. ix'[r].at = "scan" /\ \A o \in Runs : o # r => ix'[o].at = "idle"
    BY <1>0, <1>1, <2>1 DEF Begin
  <2>3. OneRun'
    BY <2>2 DEF OneRun
  <2>4. \A o \in Runs : ix'[o].at \notin {"signed", "tsv"}
    BY <2>2
  <2>5. InStep'
    BY <2>1, <2>4, <1>1 DEF PublishInv, InStep
  <2>6. QED
    BY <2>3, <2>5 DEF PublishInv
<1>2. ASSUME NEW r \in Runs, IndexStep(r) PROVE PublishInv'
  <2>1. ix[r].at # "idle" /\ \A o \in Runs : o # r => ix[o].at = "idle" /\ ix'[o] = ix[o]
    BY <1>0, <1>2 DEF IndexStep, Scan, TakeSerial, PublishSigned, PublishTsv, IndexFails, PublishInv, OneRun
  <2>2. OneRun'
    BY <2>1 DEF OneRun
  <2>3. \A o \in Runs : o # r => ix'[o].at = "idle"
    BY <2>1
  <2>4. CASE Scan(r)
    <3>1. ix'[r].at = "serial" /\ UNCHANGED <<signed, tsv>> /\ ix[r].at = "scan"
      BY <1>0, <2>4 DEF Scan
    <3>2. QED
      BY <3>1, <2>1, <2>2, <2>3 DEF PublishInv, InStep
  <2>5. CASE TakeSerial(r)
    <3>1. ix'[r].at = "signed" /\ ix'[r].serial = tsv.serial + 1 /\ UNCHANGED <<signed, tsv>> /\ ix[r].at = "serial"
      BY <1>0, <2>5 DEF TakeSerial, SerialFor
    <3>2. QED
      BY <3>1, <2>1, <2>2, <2>3 DEF PublishInv, InStep
  <2>6. CASE PublishSigned(r)
    <3>1. /\ ix'[r].at = "tsv" /\ ix'[r].serial = ix[r].serial /\ UNCHANGED tsv /\ ix[r].at = "signed"
          /\ signed'.serial = ix[r].serial
      BY <1>0, <2>6 DEF PublishSigned
    <3>2. QED
      BY <3>1, <2>1, <2>2, <2>3 DEF PublishInv, InStep
  <2>7. CASE PublishTsv(r)
    <3>1. /\ ix'[r].at = "idle" /\ UNCHANGED signed /\ ix[r].at = "tsv" /\ tsv'.serial = ix[r].serial
      BY <1>0, <2>7 DEF PublishTsv, NoRun
    <3>2. QED
      BY <3>1, <2>1, <2>2, <2>3 DEF PublishInv, InStep
  <2>8. CASE IndexFails(r)
    <3>1. ix'[r].at = "idle" /\ UNCHANGED <<signed, tsv>> /\ ix[r].at \in {"scan", "serial"}
      BY <1>0, <2>8 DEF IndexFails, NoRun
    <3>2. QED
      BY <3>1, <2>1, <2>2, <2>3 DEF PublishInv, InStep
  <2>9. QED
    BY <1>2, <2>4, <2>5, <2>6, <2>7, <2>8 DEF IndexStep
<1>3. ASSUME Dropped PROVE PublishInv'
  <2>1. /\ ix'["add"].at = "idle" /\ ix'["sync"] = ix["sync"] /\ UNCHANGED <<signed, tsv>>
        /\ ix["add"].at # "tsv"
    BY <1>0, <1>3, <1>r DEF Dropped, NoRun
  <2>2. OneRun'
    BY <2>1, <1>r DEF OneRun
  <2>3. QED
    BY <2>1, <2>2, <1>r DEF PublishInv, InStep
<1>4. ASSUME UNCHANGED mirrorVars PROVE PublishInv'
  BY <1>4 DEF mirrorVars, PublishInv, OneRun, InStep
<1>5. ASSUME NEW p \in Upstream, NEW v \in Versions, Sync(p, v) PROVE PublishInv'
  <2>1. Free("sync") /\ Begin("sync") /\ UNCHANGED <<signed, tsv>>
    BY <1>5 DEF Sync
  <2>2. QED
    BY <2>1, <1>1, <1>r
<1>6. ASSUME NEW p \in Pkgs, Add(p) PROVE PublishInv'
  <2>1. Free("add") /\ Begin("add") /\ UNCHANGED <<signed, tsv>>
    BY <1>6 DEF Add
  <2>2. QED
    BY <2>1, <1>1, <1>r
<1>7. QED
  BY <1>2, <1>3, <1>4, <1>5, <1>6 DEF MirrorAct

\* A published index has a higher serial than the one before.
LEMMA PublishGrows ==
  ASSUME MirrorInv, PublishInv, MirrorAct, signed' # signed
  PROVE  signed'.serial > signed.serial
<1>1. PICK r \in Runs : PublishSigned(r)
  BY DEF MirrorAct, Sync, Add, IndexStep, Scan, TakeSerial, PublishTsv, IndexFails, Dropped, mirrorVars
<1>2. signed'.serial = ix[r].serial /\ ix[r].at = "signed"
  BY <1>1 DEF PublishSigned
<1>3. \A o \in Runs : ix[o].at # "tsv"
  BY <1>2 DEF PublishInv, OneRun
<1>4. signed.serial = tsv.serial /\ ix[r].serial = tsv.serial + 1
  BY <1>2, <1>3 DEF PublishInv, InStep
<1>5. tsv.serial \in Nat
  BY MirrorAssumption DEF MirrorInv, MirrorTypeOK, Lists
<1>6. QED
  BY <1>2, <1>4, <1>5

-----------------------------------------------------------------------------
(***************************************************************************)
(* The build service: types.                                               *)
(***************************************************************************)
Asked == 1..Len(req)
Request0 == [pkg : Pkgs, ts : 0..(MaxNow + 1)]
JobPlaces == {"idle", "look", "build", "publish", "index", "record"}

\* What is known of a request by its id has been asked.
BuildTyped ==
  /\ now \in 0..MaxNow /\ req \in Seq(Request0) /\ Len(req) <= MaxReqs
  /\ inbox \subseteq Asked /\ subs \subseteq Ids /\ {up, loading} \subseteq BOOLEAN /\ seen \subseteq Asked
  /\ said \in [Ids -> Seq(Verbs)] /\ accepted \in [Ids -> Nat] /\ lost \in [Ids -> Nat]
  /\ DOMAIN seenFile \subseteq Asked /\ \A r \in DOMAIN seenFile : seenFile[r] \in 0..MaxNow
  /\ work \in Seq(Ids) /\ \A i \in DOMAIN work : work[i] \in Asked
  /\ human \subseteq Pkgs /\ stops \in 0..MaxStops
  /\ job \in [id : {0} \union Ids, at : JobPlaces] /\ (job.at # "idle" => job.id \in Asked)

\* The stronger typing gives the model's own.
LEMMA BuildTypes == BuildTyped => BuildTypeOK
<1> SUFFICES ASSUME BuildTyped PROVE BuildTypeOK
  OBVIOUS
<1>1. Asked \subseteq Ids
  BY BuildAssumption DEF BuildTyped, Asked, Ids
<1>2. \A r \in DOMAIN req : req[r].pkg \in Pkgs /\ req[r].ts \in 0..(MaxNow + 1)
  <2>1. \A r \in DOMAIN req : req[r] \in Request0
    BY DEF BuildTyped
  <2>2. QED
    BY <2>1 DEF Request0
<1>3. QED
  BY <1>1, <1>2 DEF BuildTyped, BuildTypeOK, JobPlaces

\* A service that has just been started.
LEMMA BuildStart == BuildInit => BuildTyped
<1> SUFFICES ASSUME BuildInit PROVE BuildTyped
  OBVIOUS
<1>1. /\ now \in 0..MaxNow /\ req \in Seq(Request0) /\ Len(req) <= MaxReqs /\ stops \in 0..MaxStops
  BY BuildAssumption DEF BuildInit
<1>2. /\ said \in [Ids -> Seq(Verbs)] /\ accepted \in [Ids -> Nat] /\ lost \in [Ids -> Nat]
  BY DEF BuildInit
<1>3. job \in [id : {0} \union Ids, at : JobPlaces] /\ job.at = "idle"
  BY DEF BuildInit, NoJob, JobPlaces
<1>4. work \in Seq(Ids) /\ DOMAIN work = {} /\ DOMAIN seenFile = {}
  BY DEF BuildInit
<1>5. QED
  BY <1>1, <1>2, <1>3, <1>4 DEF BuildInit, BuildTyped

\* A sequence whose elements have a property, with one more that has it.
LEMMA AppendIn ==
  ASSUME NEW S, NEW T, NEW s \in Seq(S), \A i \in DOMAIN s : s[i] \in T, NEW x \in S, x \in T
  PROVE  Append(s, x) \in Seq(S) /\ \A i \in DOMAIN Append(s, x) : Append(s, x)[i] \in T
<1>1. /\ Len(s) \in Nat /\ DOMAIN s = 1..Len(s)
      /\ Append(s, x) \in Seq(S) /\ DOMAIN Append(s, x) = 1..(Len(s) + 1)
      /\ \A i \in 1..Len(s) : Append(s, x)[i] = s[i]
      /\ Append(s, x)[Len(s) + 1] = x
  OBVIOUS
<1>2. ASSUME NEW i \in 1..(Len(s) + 1) PROVE Append(s, x)[i] \in T
  <2>1. CASE i = Len(s) + 1
    BY <1>1, <2>1
  <2>2. CASE i # Len(s) + 1
    <3>1. i \in 1..Len(s)
      BY <1>1, <2>2
    <3>2. QED
      BY <1>1, <3>1
  <2>3. QED
    BY <2>1, <2>2
<1>3. QED
  BY <1>1, <1>2

\* Such a sequence without its first.
LEMMA TailIn ==
  ASSUME NEW S, NEW T, NEW s \in Seq(S), \A i \in DOMAIN s : s[i] \in T, s # <<>>
  PROVE  /\ Head(s) \in T /\ Head(s) \in S
         /\ Tail(s) \in Seq(S) /\ \A i \in DOMAIN Tail(s) : Tail(s)[i] \in T
<1>1. /\ Len(s) \in Nat /\ Len(s) >= 1 /\ DOMAIN s = 1..Len(s) /\ Head(s) = s[1]
      /\ Tail(s) \in Seq(S) /\ DOMAIN Tail(s) = 1..(Len(s) - 1)
      /\ \A i \in 1..(Len(s) - 1) : Tail(s)[i] = s[i + 1]
  OBVIOUS
<1>2. 1 \in DOMAIN s /\ s[1] \in S
  BY <1>1
<1>3. ASSUME NEW i \in 1..(Len(s) - 1) PROVE Tail(s)[i] \in T
  <2>1. i + 1 \in 1..Len(s)
    BY <1>1
  <2>2. QED
    BY <1>1, <2>1
<1>4. QED
  BY <1>1, <1>2, <1>3

\* What a status message does to the messages on their way.
LEMMA SayFact ==
  ASSUME said \in [Ids -> Seq(Verbs)], NEW r \in Ids, NEW v \in Verbs, Say(r, v)
  PROVE  said' \in [Ids -> Seq(Verbs)]
  BY DEF Say

\* A request's package.
LEMMA PkgFact ==
  ASSUME BuildTyped, NEW r \in Asked
  PROVE  Pkg(r) \in Pkgs /\ r \in Ids
<1>1. req[r] \in Request0
  BY DEF BuildTyped, Asked
<1>2. r \in Ids
  BY BuildAssumption DEF BuildTyped, Asked, Ids
<1>3. QED
  BY <1>1, <1>2 DEF Pkg, Request0

\* The steps of the build service and of sync keep the types.
LEMMA ServiceTyped ==
  ASSUME BuildTyped, ServiceStep
  PROVE  BuildTyped'
<1> USE DEF BuildTyped
<1>0. Asked \subseteq Ids /\ req \in Seq(Request0)
  BY BuildAssumption DEF Asked, Ids
<1>v. {"progress", "done", "failed", "queued"} = Verbs
  BY DEF Verbs
<1>n. NoJob \in [id : {0} \union Ids, at : JobPlaces] /\ NoJob.at = "idle"
  BY DEF NoJob, JobPlaces
<1>1. ASSUME NEW r \in inbox, Receive(r) PROVE BuildTyped'
  <2>1. r \in Asked /\ r \in Ids
    BY <1>0
  <2>2. UNCHANGED <<now, req, subs, up, loading, job, human, stops, lost>> /\ Asked' = Asked /\ inbox' \subseteq Asked
    BY <1>1 DEF Receive, Asked
  <2>3. said' \in [Ids -> Seq(Verbs)]
    BY <1>1, <1>v, <2>1, SayFact DEF Receive
  <2>4. CASE Authorized(r)
    <3>1. /\ seen' = seen \union {r} /\ accepted' = [accepted EXCEPT ![r] = @ + 1] /\ work' = Append(work, r)
          /\ seenFile' = [i \in DOMAIN seenFile \union {r} |-> IF i = r THEN now ELSE seenFile[i]]
      BY <1>1, <2>4 DEF Receive
    <3>2. accepted' \in [Ids -> Nat]
      BY <3>1, <2>1
    <3>3. work' \in Seq(Ids) /\ \A i \in DOMAIN work' : work'[i] \in Asked
      BY <3>1, <2>1, AppendIn
    <3>4. DOMAIN seenFile' = DOMAIN seenFile \union {r} /\ \A i \in DOMAIN seenFile' : seenFile'[i] \in 0..MaxNow
      BY <3>1
    <3>5. QED
      BY <2>1, <2>2, <2>3, <3>1, <3>2, <3>3, <3>4
  <2>5. CASE ~Authorized(r)
    BY <1>1, <2>2, <2>3, <2>5 DEF Receive
  <2>6. QED
    BY <2>4, <2>5
<1>2. ASSUME NEW r \in inbox, Undelivered(r) PROVE BuildTyped'
  BY <1>2 DEF Undelivered, Asked
<1>3. ASSUME NEW r \in DOMAIN req, Again(r) PROVE BuildTyped'
  <2>1. r \in Asked /\ stops' \in 0..MaxStops
    BY <1>3, BuildAssumption DEF Again, Asked
  <2>2. QED
    BY <1>3, <2>1 DEF Again, Asked
<1>4. ASSUME Take PROVE BuildTyped'
  <2>1. work # <<>> /\ work' = Tail(work) /\ job' = [id |-> Head(work), at |-> "look"]
    BY <1>4 DEF Take
  <2>2. Head(work) \in Asked /\ work' \in Seq(Ids) /\ \A i \in DOMAIN work' : work'[i] \in Asked
    BY <2>1, TailIn
  <2>3. UNCHANGED <<now, req, inbox, subs, up, loading, seen, seenFile, stops, accepted, lost, said, human>>
    BY <1>4 DEF Take, service, Silent
  <2>4. job' \in [id : {0} \union Ids, at : JobPlaces] /\ job'.id \in Asked
    BY <2>1, <2>2, <1>0 DEF JobPlaces
  <2>5. QED
    BY <2>2, <2>3, <2>4 DEF Asked
\* The worker's other steps.
<1>w. ASSUME job.id \in Asked, UNCHANGED <<now, req, inbox, subs, up, loading, seen, seenFile, stops, accepted, lost, work>>,
             human' \subseteq Pkgs, said' = said \/ (\E v \in Verbs : Say(job.id, v)),
             job' = job \/ (\E l \in JobPlaces : JobTo(l))
      PROVE  BuildTyped'
  <2>1. said' \in [Ids -> Seq(Verbs)]
    BY <1>w, <1>0, SayFact
  <2>2. job' \in [id : {0} \union Ids, at : JobPlaces] /\ (job'.at # "idle" => job'.id \in Asked)
    <3>1. CASE job' = job
      BY <3>1
    <3>2. ASSUME NEW l \in JobPlaces, JobTo(l)
          PROVE  job' \in [id : {0} \union Ids, at : JobPlaces] /\ (job'.at # "idle" => job'.id \in Asked)
      BY <3>2, <1>w, <1>n DEF JobTo
    <3>3. QED
      BY <1>w, <3>1, <3>2
  <2>3. QED
    BY <1>w, <2>1, <2>2 DEF Asked
<1>j. {"idle", "look", "build", "publish", "index", "record"} = JobPlaces
  BY DEF JobPlaces
<1>5. ASSUME Look PROVE BuildTyped'
  <2>1. job.id \in Asked /\ Pkg(job.id) \in Pkgs
    BY <1>5, PkgFact DEF Look, At
  <2>2. human' \subseteq Pkgs
    BY <1>5, <2>1 DEF Look
  <2>3. said' = said \/ (\E v \in Verbs : Say(job.id, v))
    BY <1>5, <1>v DEF Look, Silent
  <2>4. \E l \in JobPlaces : JobTo(l)
    BY <1>5, <1>j DEF Look
  <2>5. UNCHANGED <<now, req, inbox, subs, up, loading, seen, seenFile, stops, accepted, lost, work>>
    BY <1>5 DEF Look, service
  <2>6. QED
    BY <1>w, <2>1, <2>2, <2>3, <2>4, <2>5
<1>6. ASSUME Build \/ Publish \/ Index \/ Finish PROVE BuildTyped'
  <2>1. job.id \in Asked /\ human' \subseteq Pkgs
    BY <1>6 DEF Build, Publish, Index, Finish, At
  <2>3. said' = said \/ (\E v \in Verbs : Say(job.id, v))
    BY <1>6, <1>v DEF Build, Publish, Index, Finish, Silent
  <2>4. job' = job \/ \E l \in JobPlaces : JobTo(l)
    BY <1>6, <1>j DEF Build, Publish, Index, Finish
  <2>5. UNCHANGED <<now, req, inbox, subs, up, loading, seen, seenFile, stops, accepted, lost, work>>
    BY <1>6 DEF Build, Publish, Index, Finish, service
  <2>6. QED
    BY <1>w, <2>1, <2>3, <2>4, <2>5
<1>7. ASSUME Stop PROVE BuildTyped'
  <2>1. stops' \in 0..MaxStops /\ job' = NoJob /\ work' \in Seq(Ids) /\ DOMAIN work' = {}
    BY <1>7, BuildAssumption DEF Stop
  <2>2. QED
    BY <1>7, <1>n, <2>1 DEF Stop, Asked
<1>8. ASSUME Load \/ Rewrite \/ StopLoading PROVE BuildTyped'
  <2>1. Kept \subseteq DOMAIN seenFile /\ Asked' = Asked
    BY <1>8 DEF Kept, Load, Rewrite, StopLoading, Asked
  <2>2. CASE Load
    BY <2>1, <2>2 DEF Load
  <2>3. CASE Rewrite
    <3>1. DOMAIN seenFile' = seen /\ \A r \in seen : seenFile'[r] = now
      BY <2>3 DEF Rewrite
    <3>2. QED
      BY <2>1, <2>3, <3>1 DEF Rewrite
  <2>4. CASE StopLoading
    <3>1. lost' \in [Ids -> Nat]
      BY <2>4 DEF StopLoading
    <3>2. QED
      BY <2>1, <2>4, <3>1 DEF StopLoading
  <2>5. QED
    BY <1>8, <2>2, <2>3, <2>4
<1>9. ASSUME Tick PROVE BuildTyped'
  <2>1. now' \in 0..MaxNow
    BY <1>9, BuildAssumption DEF Tick
  <2>2. QED
    BY <1>9, <2>1 DEF Tick, Asked
<1>10. ASSUME UNCHANGED buildVars PROVE BuildTyped'
  BY <1>10 DEF buildVars, Asked
<1>11. QED
  BY <1>1, <1>2, <1>3, <1>4, <1>5, <1>6, <1>7, <1>8, <1>9, <1>10 DEF ServiceStep, Worker

\* What the service's steps do to the mirror.
LEMMA ServiceOnMirror ==
  ASSUME BuildTyped, ServiceStep
  PROVE  MirrorAct
<1>1. ASSUME Publish PROVE MirrorAct
  <2>1. job.id \in Asked
    BY <1>1 DEF Publish, At, BuildTyped
  <2>2. Pkg(job.id) \in Pkgs
    BY <2>1, PkgFact
  <2>3. QED
    BY <1>1, <2>2 DEF Publish, MirrorAct
<1>2. ASSUME Index PROVE MirrorAct
  BY <1>2 DEF Index, MirrorAct, IndexStep, Runs
<1>3. ASSUME Stop PROVE MirrorAct
  BY <1>3 DEF Stop, MirrorAct, Dropped
<1>4. ASSUME MirrorStep PROVE MirrorAct
  BY <1>4 DEF MirrorStep, MirrorAct, IndexStep, Runs
<1>5. ASSUME Take \/ Look \/ Build \/ Finish \/ Load \/ Rewrite \/ StopLoading \/ Tick
      PROVE  UNCHANGED mirrorVars
  BY <1>5 DEF Take, Look, Build, Finish, Load, Rewrite, StopLoading, Tick
<1>6. ASSUME NEW r, Receive(r) \/ Undelivered(r) \/ Again(r)
      PROVE  UNCHANGED mirrorVars
  BY <1>6 DEF Receive, Undelivered, Again
<1>7. QED
  BY <1>1, <1>2, <1>3, <1>4, <1>5, <1>6 DEF ServiceStep, Worker, MirrorAct

-----------------------------------------------------------------------------
(***************************************************************************)
(* The build service: a request is acted on once.                          *)
(***************************************************************************)
\* What the runs of yum do to it: one asks, or listens.
Asks ==
  /\ Len(req) < MaxReqs /\ \E p \in Pkgs, s \in Skews : req' = Append(req, [pkg |-> p, ts |-> now + s])
  /\ subs' = subs \union {Len(req) + 1}
  /\ UNCHANGED <<now, inbox, said, up, loading, seen, seenFile, work, job, human, stops, accepted, lost>>
Attends ==
  /\ inbox' \subseteq Asked /\ subs' \subseteq Ids /\ said' \in [Ids -> Seq(Verbs)]
  /\ UNCHANGED <<now, req, up, loading, seen, seenFile, work, job, human, stops, accepted, lost>>
BuildAct == ServiceStep \/ ((Asks \/ Attends) /\ UNCHANGED mirrorVars)

\* One more request.
LEMMA AsksFact ==
  ASSUME BuildTyped, Asks
  PROVE  /\ req' \in Seq(Request0) /\ Len(req') = Len(req) + 1 /\ Len(req) \in Nat
         /\ Asked' = Asked \union {Len(req) + 1} /\ Len(req) + 1 \in Ids /\ Len(req') <= MaxReqs
         /\ \A r \in Asked : req'[r] = req[r]
         /\ \E s \in Skews : req'[Len(req) + 1].ts = now + s
<1>1. PICK p \in Pkgs, s \in Skews : req' = Append(req, [pkg |-> p, ts |-> now + s])
  BY DEF Asks
<1>2. now \in 0..MaxNow /\ MaxNow \in Nat /\ s \in {0, 1} /\ req \in Seq(Request0)
  BY BuildAssumption DEF BuildTyped
<1>3. [pkg |-> p, ts |-> now + s] \in Request0
  BY <1>2 DEF Request0
<1>4. /\ req' \in Seq(Request0) /\ Len(req') = Len(req) + 1 /\ Len(req) \in Nat
      /\ \A r \in 1..Len(req) : req'[r] = req[r]
      /\ req'[Len(req) + 1] = [pkg |-> p, ts |-> now + s]
  BY <1>1, <1>2, <1>3
<1>5. Len(req) + 1 <= MaxReqs
  BY <1>4, BuildAssumption DEF Asks
<1>6. QED
  BY <1>4, <1>5, BuildAssumption DEF Asked, Ids

\* The types are kept by every step.
LEMMA BuildKept ==
  ASSUME BuildTyped, BuildAct
  PROVE  BuildTyped'
<1>1. CASE ServiceStep
  BY <1>1, ServiceTyped
<1>2. CASE Asks
  <2>1. Asked \subseteq Asked' /\ req' \in Seq(Request0) /\ Len(req') <= MaxReqs /\ subs' \subseteq Ids
    BY <1>2, AsksFact DEF Asks, BuildTyped
  <2>2. UNCHANGED <<now, inbox, said, up, loading, seen, seenFile, work, job, human, stops, accepted, lost>>
    BY <1>2 DEF Asks
  <2>3. QED
    BY <2>1, <2>2 DEF BuildTyped
<1>3. CASE Attends
  BY <1>3 DEF Attends, BuildTyped, Asked
<1>4. QED
  BY <1>1, <1>2, <1>3 DEF BuildAct

\* An id taken before is remembered, in the file too, as long as its time stamp would pass; while
\* the file is empty for its rewriting, in memory.  An id is taken again only if it was lost since.
Remembered(r) == IF loading THEN r \in seen
                 ELSE r \in DOMAIN seenFile /\ seenFile[r] >= req[r].ts /\ (up => r \in seen)
Once ==
  /\ \A r \in Asked : req[r].ts <= now
  /\ loading => ~up
  /\ \A r \in Ids : accepted[r] <= 1 + lost[r] /\ (accepted[r] # 0 => r \in Asked)
  /\ \A r \in Asked : accepted[r] > lost[r] => now > req[r].ts + 1 \/ Remembered(r)

\* Nothing has been taken yet.
LEMMA OnceStart == BuildInit => Once
  <1>1. ASSUME BuildInit, NEW r \in Ids PROVE accepted[r] = 0 /\ lost[r] = 0
    BY <1>1 DEF BuildInit
  <1>2. QED
    BY <1>1 DEF BuildInit, Once, Asked

\* Stale or known requests are refused, and what is forgotten at a restart is stale.
LEMMA OnceKept ==
  ASSUME BuildTyped, Once, BuildAct, Skews \subseteq {0}
  PROVE  Once'
<1>1. /\ now \in Nat /\ \A r \in Asked : req[r].ts \in Nat
      /\ accepted \in [Ids -> Nat] /\ lost \in [Ids -> Nat] /\ Asked \subseteq Ids
      /\ \A r \in Ids : accepted[r] \in Nat /\ lost[r] \in Nat
  <2>1. \A r \in Asked : req[r] \in Request0
    BY DEF BuildTyped, Asked
  <2>2. QED
    BY <2>1, BuildAssumption DEF BuildTyped, Request0, Asked, Ids
<1>f. \A r \in DOMAIN seenFile : seenFile[r] \in Nat /\ r \in Asked
  BY BuildAssumption DEF BuildTyped
<1>2. ASSUME NEW r \in inbox, Receive(r) PROVE Once'
  <2>1. r \in Asked /\ up /\ ~loading
    BY <1>2 DEF BuildTyped, Receive, Once
  <2>2. UNCHANGED <<now, req, up, loading, lost>> /\ Asked' = Asked
    BY <1>2 DEF Receive, Asked
  <2>3. CASE Authorized(r)
    <3>1. /\ seen' = seen \union {r} /\ accepted' = [accepted EXCEPT ![r] = @ + 1]
          /\ seenFile' = [i \in DOMAIN seenFile \union {r} |-> IF i = r THEN now ELSE seenFile[i]]
      BY <1>2, <2>3 DEF Receive
    <3>2. ~(accepted[r] > lost[r])
      <4>1. req[r].ts <= now /\ Abs(now, req[r].ts) <= 1 /\ r \notin seen
        BY <2>1, <2>3 DEF Once, Authorized
      <4>2. now <= req[r].ts + 1
        BY <4>1, <2>1, <1>1 DEF Abs
      <4>3. ~(now > req[r].ts + 1) /\ ~Remembered(r)
        BY <4>1, <4>2, <2>1, <1>1 DEF Remembered
      <4>4. QED
        BY <4>3, <2>1 DEF Once
    <3>3. accepted'[r] = accepted[r] + 1 /\ \A i \in Ids : i # r => accepted'[i] = accepted[i]
      BY <3>1, <2>1, <1>1
    <3>a. accepted'[r] <= 1 + lost'[r]
      BY <3>2, <3>3, <2>1, <2>2, <1>1
    <3>4. r \in DOMAIN seenFile' /\ seenFile'[r] = now /\ r \in seen'
      BY <3>1
    <3>5. Remembered(r)'
      BY <3>4, <2>1, <2>2, <1>1 DEF Remembered, Once
    <3>6. \A i \in Asked : i # r /\ Remembered(i) => Remembered(i)'
      BY <3>1, <2>1, <2>2 DEF Remembered
    <3>7. QED
      BY <3>3, <3>a, <3>5, <3>6, <2>1, <2>2, <1>1 DEF Once
  <2>4. CASE ~Authorized(r)
    BY <1>2, <2>2, <2>4 DEF Receive, Once, Remembered
  <2>5. QED
    BY <2>3, <2>4
\* What the file does not say any more is stale, or lost.
<1>3. ASSUME Load \/ Rewrite \/ StopLoading PROVE Once'
  <2>1. UNCHANGED <<now, req, accepted>> /\ Asked' = Asked
    BY <1>3 DEF Load, Rewrite, StopLoading, Asked
  <2>2. CASE Load
    <3>1. ~loading /\ loading' /\ ~up' /\ lost' = lost /\ seen' = Kept
      BY <2>2 DEF Load
    <3>2. ASSUME NEW r \in Asked, accepted[r] > lost[r], ~(now > req[r].ts + 1) PROVE Remembered(r)'
      <4>1. r \in DOMAIN seenFile /\ seenFile[r] >= req[r].ts /\ req[r].ts <= now
        BY <3>1, <3>2 DEF Once, Remembered
      <4>2. now - seenFile[r] <= 1
        BY <4>1, <3>2, <1>1, <1>f
      <4>3. QED
        BY <3>1, <4>1, <4>2 DEF Kept, Remembered
    <3>3. QED
      BY <2>1, <3>1, <3>2 DEF Once
  <2>3. CASE Rewrite
    <3>1. loading /\ ~loading' /\ up' /\ lost' = lost /\ seen' = seen /\ seenFile' = [r \in seen |-> now]
      BY <2>3 DEF Rewrite
    <3>2. ASSUME NEW r \in Asked, Remembered(r) PROVE Remembered(r)'
      <4>1. r \in seen /\ req[r].ts <= now
        BY <3>1, <3>2 DEF Remembered, Once
      <4>2. QED
        BY <2>1, <3>1, <4>1 DEF Remembered
    <3>3. QED
      BY <2>1, <3>1, <3>2 DEF Once
  <2>4. CASE StopLoading
    <3>1. /\ loading /\ ~loading' /\ up' = up /\ seenFile' = seenFile
          /\ lost' = [r \in Ids |-> IF r \in seen THEN lost[r] + 1 ELSE lost[r]]
      BY <2>4 DEF StopLoading
    <3>2. ASSUME NEW r \in Ids PROVE accepted[r] <= 1 + lost'[r]
      <4>1. accepted[r] <= 1 + lost[r] /\ lost'[r] \in {lost[r], lost[r] + 1}
        BY <3>1 DEF Once
      <4>2. QED
        BY <4>1, <1>1
    <3>3. ASSUME NEW r \in Asked, accepted[r] > lost'[r] PROVE now > req[r].ts + 1
      <4>1. r \in Ids /\ accepted[r] <= 1 + lost[r] /\ lost'[r] = IF r \in seen THEN lost[r] + 1 ELSE lost[r]
        BY <3>1, <1>1 DEF Once
      <4>2. r \notin seen /\ accepted[r] > lost[r]
        BY <3>3, <4>1, <1>1
      <4>3. QED
        BY <3>1, <4>2 DEF Once, Remembered
    <3>4. QED
      BY <2>1, <3>1, <3>2, <3>3 DEF Once
  <2>5. QED
    BY <1>3, <2>2, <2>3, <2>4
<1>4. ASSUME Tick PROVE Once'
  <2>1. now' = now + 1 /\ UNCHANGED <<req, accepted, lost, loading, seen, seenFile, up>> /\ Asked' = Asked
    BY <1>4 DEF Tick, Asked
  <2>2. \A r \in Asked : Remembered(r) => Remembered(r)'
    BY <2>1 DEF Remembered
  <2>3. QED
    BY <2>1, <2>2, <1>1 DEF Once
<1>5. ASSUME UNCHANGED <<now, req, accepted, lost, loading, seenFile>>, (seen' = seen /\ up' = up) \/ (up /\ up' = FALSE)
      PROVE  Once'
  <2>1. Asked' = Asked
    BY <1>5 DEF Asked
  <2>2. \A r \in Asked : Remembered(r) => Remembered(r)'
    BY <1>5 DEF Remembered, Once
  <2>3. QED
    BY <1>5, <2>1, <2>2 DEF Once
<1>6. ASSUME Asks PROVE Once'
  <2>1. /\ Asked' = Asked \union {Len(req) + 1} /\ Len(req) \in Nat /\ Len(req) + 1 \notin Asked
        /\ \A r \in Asked : req'[r] = req[r]
        /\ req'[Len(req) + 1].ts = now
    <3>1. now + 0 = now
      BY <1>1
    <3>2. \A s \in Skews : now + s = now
      BY <3>1
    <3>3. QED
      BY <1>6, <3>2, AsksFact DEF Asked
  <2>2. UNCHANGED <<now, seen, seenFile, up, loading, accepted, lost>>
    BY <1>6 DEF Asks
  <2>3. \A r \in Asked : Remembered(r) => Remembered(r)'
    BY <2>1, <2>2 DEF Remembered
  <2>4. ~(accepted'[Len(req) + 1] > lost'[Len(req) + 1])
    <3>1. Len(req) + 1 \in Ids /\ accepted[Len(req) + 1] = 0
      BY <1>6, <2>1, AsksFact DEF Once
    <3>2. QED
      BY <2>2, <3>1, <1>1
  <2>5. now <= now
    BY <1>1
  <2>6. QED
    BY <2>1, <2>2, <2>3, <2>4, <2>5 DEF Once
<1>7. ASSUME Take \/ Look \/ Build \/ Publish \/ Index \/ Finish PROVE Once'
  BY <1>5, <1>7 DEF Take, Look, Build, Publish, Index, Finish, service
<1>8. ASSUME NEW r, Undelivered(r) \/ Again(r) PROVE Once'
  BY <1>5, <1>8 DEF Undelivered, Again
<1>9. ASSUME Stop PROVE Once'
  BY <1>5, <1>9 DEF Stop
<1>10. ASSUME UNCHANGED buildVars PROVE Once'
  BY <1>5, <1>10 DEF buildVars
<1>11. ASSUME Attends PROVE Once'
  BY <1>5, <1>11 DEF Attends
<1>12. QED
  BY <1>2, <1>3, <1>4, <1>6, <1>7, <1>8, <1>9, <1>10, <1>11 DEF BuildAct, ServiceStep, Worker

\* AtMostOnce follows.
LEMMA OnceEnough == Once => AtMostOnce
  BY DEF Once, AtMostOnce

-----------------------------------------------------------------------------
(***************************************************************************)
(* The build service: what is reported as built is in the index.           *)
(***************************************************************************)
\* The run of cmd_index is the worker's while it waits for it.
Indexes == ix["add"].at # "idle" <=> job.at = "index"

\* The package just built is in built/, and in every list read since.
Has(l) == l[Pkg(job.id)] # 0
ListedInv ==
  job.at \in {"index", "record"} =>
    /\ built[Pkg(job.id)] = 1
    /\ \A r \in Runs : ix[r].at \in {"serial", "signed", "tsv"} => Has(ix[r].snap)
    /\ ix["add"].at = "tsv" \/ job.at = "record" => Has(signed.has)
WorkerInv == Indexes /\ ListedInv

\* No run of cmd_index and no job.
LEMMA WorkerStart == MirrorInit /\ BuildInit => WorkerInv
  BY DEF MirrorInit, BuildInit, NoRun, NoJob, WorkerInv, Indexes, ListedInv, Runs

\* What a list of all packages read now says of the package built.
LEMMA ScanFinds ==
  ASSUME MirrorTypeOK, NEW p \in Pkgs, built[p] = 1
  PROVE  Listing[p] # 0
<1>1. Listed(p) \in 0..MaxVersion /\ Listed(p) >= 1
  BY ListedFact DEF Versions
<1>2. QED
  BY <1>1, MirrorAssumption DEF Listing

\* A step of cmd_index on the mirror, the worker's job being the same.
LEMMA IndexLists ==
  ASSUME MirrorInv, BuildTyped, WorkerInv, NEW r \in Runs, IndexStep(r),
         UNCHANGED <<req, job>>, ix'["add"].at # "idle" <=> job.at = "index"
  PROVE  WorkerInv'
<1> USE DEF IndexRun
<1>0. /\ ix \in [Runs -> IndexRun] /\ MirrorTypeOK /\ Runs = {"sync", "add"}
  BY DEF MirrorInv, MirrorTypeOK, Runs
<1>1. Indexes'
  BY DEF Indexes
<1>2. SUFFICES ASSUME job.at \in {"index", "record"} PROVE ListedInv'
  BY <1>1 DEF WorkerInv, ListedInv
<1>3. job.id \in Asked /\ Pkg(job.id) \in Pkgs /\ Pkg(job.id)' = Pkg(job.id)
  BY <1>2, PkgFact DEF BuildTyped, Pkg
<1> DEFINE p == Pkg(job.id)
<1>4. /\ built[p] = 1
      /\ \A o \in Runs : ix[o].at \in {"serial", "signed", "tsv"} => ix[o].snap[p] # 0
      /\ ix["add"].at = "tsv" \/ job.at = "record" => signed.has[p] # 0
  BY <1>2 DEF WorkerInv, ListedInv, Has
<1>5. \A o \in Runs : o # r => ix'[o] = ix[o]
  BY <1>0 DEF IndexStep, Scan, TakeSerial, PublishSigned, PublishTsv, IndexFails
<1>6. built' = built
  BY DEF IndexStep, Scan, TakeSerial, PublishSigned, PublishTsv, IndexFails
<1>h. ListedInv' <=> /\ built'[p] = 1
                     /\ \A o \in Runs : ix'[o].at \in {"serial", "signed", "tsv"} => ix'[o].snap[p] # 0
                     /\ ix'["add"].at = "tsv" \/ job.at = "record" => signed'.has[p] # 0
  BY <1>2, <1>3 DEF ListedInv, Has
<1>x. Listing[p] # 0
  BY <1>0, <1>3, <1>4, ScanFinds
<1> HIDE DEF p
<1>7. CASE Scan(r)
  <2>1. ix'[r].at = "serial" /\ ix'[r].snap = Listing /\ signed' = signed /\ ix[r].at = "scan"
    BY <1>0, <1>7 DEF Scan
  <2>2. QED
    BY <1>0, <2>1, <1>4, <1>5, <1>6, <1>h, <1>x
<1>8. CASE TakeSerial(r)
  <2>1. ix'[r].at = "signed" /\ ix'[r].snap = ix[r].snap /\ ix[r].at = "serial" /\ signed' = signed
    BY <1>0, <1>8 DEF TakeSerial
  <2>2. QED
    BY <1>0, <2>1, <1>4, <1>5, <1>6, <1>h
<1>9. CASE PublishSigned(r)
  <2>1. ix'[r].at = "tsv" /\ ix'[r].snap = ix[r].snap /\ ix[r].at = "signed" /\ signed'.has = ix[r].snap
    BY <1>0, <1>9 DEF PublishSigned
  <2>2. QED
    BY <1>0, <2>1, <1>4, <1>5, <1>6, <1>h
<1>10. CASE PublishTsv(r)
  <2>1. ix'[r].at = "idle" /\ ix[r].at = "tsv" /\ signed' = signed
    BY <1>0, <1>10 DEF PublishTsv, NoRun
  <2>2. QED
    BY <1>0, <2>1, <1>4, <1>5, <1>6, <1>h
<1>11. CASE IndexFails(r)
  <2>1. ix'[r].at = "idle" /\ signed' = signed
    BY <1>0, <1>11 DEF IndexFails, NoRun
  <2>2. QED
    BY <1>0, <2>1, <1>4, <1>5, <1>6, <1>h
<1>12. QED
  BY <1>7, <1>8, <1>9, <1>10, <1>11 DEF IndexStep

\* Without a second run of cmd_index the list published is the one that was read.
LEMMA WorkerKept ==
  ASSUME MirrorInv, BuildTyped, WorkerInv, BuildAct, MirrorFaults = {}
  PROVE  WorkerInv'
<1> USE DEF IndexRun
<1>0. /\ ix \in [Runs -> IndexRun] /\ MirrorTypeOK /\ Runs = {"sync", "add"}
      /\ built \in [Pkgs -> Versions]
  BY DEF MirrorInv, MirrorTypeOK, Runs
<1>a. job.at # "idle" => job.id \in Asked /\ Pkg(job.id) \in Pkgs
  BY PkgFact DEF BuildTyped
\* A step that leaves the mirror alone and ends or begins no wait for it.
<1>1. ASSUME UNCHANGED <<built, signed, ix>>, job'.at \notin {"index", "record"}, job.at # "index" PROVE WorkerInv'
  BY <1>1 DEF WorkerInv, Indexes, ListedInv
<1>2. ASSUME UNCHANGED <<built, signed, ix, job>>, job.at # "idle" => req'[job.id] = req[job.id] PROVE WorkerInv'
  BY <1>2 DEF WorkerInv, Indexes, ListedInv, Has, Pkg
<1>3. ASSUME Take \/ Look \/ Build \/ Finish PROVE WorkerInv'
  <2>1. job.at # "index" /\ job'.at \notin {"index", "record"}
    BY <1>3 DEF Take, Look, Build, Finish, At, JobTo, NoJob, BuildTyped
  <2>2. QED
    BY <1>1, <1>3, <2>1 DEF Take, Look, Build, Finish, mirrorVars
<1>4. ASSUME Publish PROVE WorkerInv'
  <2>1. /\ job.at = "publish" /\ job'.at = "index" /\ job'.id = job.id /\ req' = req
        /\ Free("add") /\ Begin("add") /\ built' = [built EXCEPT ![Pkg(job.id)] = 1]
    BY <1>4 DEF Publish, At, JobTo, BuildTyped, service, Add
  <2>2. ix'["add"].at = "scan" /\ ix'["sync"] = ix["sync"] /\ ix["sync"].at = "idle"
    BY <1>0, <2>1 DEF Free, Begin, Others
  <2>3. Pkg(job.id)' = Pkg(job.id) /\ Pkg(job.id) \in Pkgs
    BY <1>a, <2>1 DEF Pkg
  <2>4. built'[Pkg(job.id)'] = 1
    BY <1>0, <2>1, <2>3
  <2>5. QED
    BY <1>0, <2>1, <2>2, <2>4 DEF WorkerInv, Indexes, ListedInv
<1>5. ASSUME Index PROVE WorkerInv'
  <2>1. job.at = "index" /\ req' = req
    BY <1>5 DEF Index, At, service
  <2>2. CASE (Scan("add") \/ TakeSerial("add") \/ PublishSigned("add")) /\ job' = job
    <3>1. ix'["add"].at # "idle"
      BY <1>0, <2>2 DEF Scan, TakeSerial, PublishSigned
    <3>2. IndexStep("add") /\ "add" \in Runs
      BY <1>0, <2>2 DEF IndexStep
    <3>3. QED
      BY <2>1, <2>2, <3>1, <3>2, IndexLists
  <2>3. CASE PublishTsv("add") /\ JobTo("record")
    <3>1. /\ ix["add"].at = "tsv" /\ ix'["add"].at = "idle" /\ ix'["sync"] = ix["sync"]
          /\ UNCHANGED <<built, signed>>
      BY <1>0, <2>3 DEF PublishTsv, NoRun
    <3>2. job'.at = "record" /\ job'.id = job.id
      BY <2>3 DEF JobTo, BuildTyped
    <3>3. Pkg(job.id)' = Pkg(job.id)
      BY <3>2, <2>1 DEF Pkg
    <3>4. QED
      BY <1>0, <2>1, <3>1, <3>2, <3>3 DEF WorkerInv, Indexes, ListedInv, Has
  <2>4. CASE IndexFails("add") /\ JobTo("idle")
    <3>1. ix'["add"].at = "idle" /\ job'.at = "idle"
      BY <1>0, <2>4 DEF IndexFails, NoRun, JobTo, NoJob
    <3>2. QED
      BY <3>1 DEF WorkerInv, Indexes, ListedInv
  <2>5. QED
    BY <1>5, <2>2, <2>3, <2>4 DEF Index
<1>6. ASSUME Stop PROVE WorkerInv'
  <2>1. ix'["add"].at = "idle" /\ job'.at = "idle"
    BY <1>0, <1>6 DEF Stop, NoRun, NoJob
  <2>2. QED
    BY <2>1 DEF WorkerInv, Indexes, ListedInv
<1>7. ASSUME NEW r, Receive(r) \/ Undelivered(r) \/ Again(r) PROVE WorkerInv'
  BY <1>2, <1>7 DEF Receive, Undelivered, Again, mirrorVars
<1>8. ASSUME Load \/ Rewrite \/ StopLoading \/ Tick PROVE WorkerInv'
  BY <1>2, <1>8 DEF Load, Rewrite, StopLoading, Tick, mirrorVars
<1>9. ASSUME Attends, UNCHANGED mirrorVars PROVE WorkerInv'
  BY <1>2, <1>9 DEF Attends, mirrorVars
<1>10. ASSUME Asks, UNCHANGED mirrorVars PROVE WorkerInv'
  <2>1. \A r \in Asked : req'[r] = req[r]
    BY <1>10, AsksFact
  <2>2. UNCHANGED <<built, signed, ix, job>>
    BY <1>10 DEF Asks, mirrorVars
  <2>3. QED
    BY <1>2, <1>a, <2>1, <2>2
<1>11. ASSUME NEW p \in Upstream, NEW v \in Versions, Sync(p, v), UNCHANGED buildVars PROVE WorkerInv'
  <2>1. UNCHANGED <<built, signed, job, req>> /\ Begin("sync") /\ ix["sync"].at = "idle"
    BY <1>11 DEF Sync, Free, buildVars
  <2>2. ix'["sync"].at = "scan" /\ ix'["add"] = ix["add"]
    BY <1>0, <2>1 DEF Begin
  <2>3. QED
    BY <1>0, <2>1, <2>2 DEF WorkerInv, Indexes, ListedInv, Has, Pkg
<1>12. ASSUME IndexStep("sync"), UNCHANGED buildVars PROVE WorkerInv'
  <2>1. ix'["add"] = ix["add"]
    BY <1>0, <1>12 DEF IndexStep, Scan, TakeSerial, PublishSigned, PublishTsv, IndexFails
  <2>2. ix'["add"].at # "idle" <=> job.at = "index"
    BY <2>1 DEF WorkerInv, Indexes
  <2>3. UNCHANGED <<req, job>> /\ "sync" \in Runs
    BY <1>0, <1>12 DEF buildVars
  <2>4. QED
    BY <1>12, <2>2, <2>3, IndexLists
<1>13. ASSUME MirrorStep, UNCHANGED buildVars PROVE WorkerInv'
  BY <1>11, <1>12, <1>13 DEF MirrorStep, IndexStep
<1>14. QED
  BY <1>3, <1>4, <1>5, <1>6, <1>7, <1>8, <1>9, <1>10, <1>13 DEF BuildAct, ServiceStep, Worker

\* DoneIsListed follows.
LEMMA WorkerEnough == WorkerInv => DoneIsListed
  BY DEF WorkerInv, ListedInv, Has, DoneIsListed

-----------------------------------------------------------------------------
(***************************************************************************)
(* The plan.                                                               *)
(***************************************************************************)
Entries == Pkgs \X Versions

\* A finite set as a sequence: each element once.
LEMMA ToSeq ==
  ASSUME NEW T, IsFiniteSet(T)
  PROVE  /\ Cardinality(T) \in Nat
         /\ SetToSeq(T) \in [1..Cardinality(T) -> T]
         /\ \A t \in T : \E i \in 1..Cardinality(T) : SetToSeq(T)[i] = t
<1> DEFINE n == Cardinality(T)
           f == SetToSeq(T)
<1>1. n \in Nat /\ ExistsBijection(1..n, T)
  BY FS_CardinalityType
<1>2. \E g \in [1..n -> T] : IsInjective(g)
  BY <1>1 DEF ExistsBijection, Bijection, Injection
<1>3. f \in [1..n -> T] /\ IsInjective(f)
  BY <1>2 DEF SetToSeq
<1>4. IsFiniteSet(1..n) /\ Cardinality(1..n) = n
  BY <1>1, FS_Interval
<1> HIDE DEF f, n
<1>5. f \in Injection(1..n, T)
  BY <1>3 DEF Injection
<1>6. f \in Surjection(1..n, T)
  BY <1>4, <1>5, FS_Injection DEF n
<1>7. QED
  BY <1>1, <1>3, <1>6 DEF Surjection, f, n

\* The plan's lines are the packages to get, with the versions of the index.
LEMMA GetsFact ==
  ASSUME cidx \in Lists, NEW S, S \subseteq Pkgs
  PROVE  /\ Gets(S) \in Seq(Entries) /\ Len(Gets(S)) \in Nat /\ Len(Gets(S)) <= Cardinality(Pkgs)
         /\ DOMAIN Gets(S) = 1..Len(Gets(S))
         /\ \A i \in 1..Len(Gets(S)) : \E p \in S : Gets(S)[i] = <<p, cidx.has[p]>>
         /\ \A p \in S : \E i \in 1..Len(Gets(S)) : Gets(S)[i] = <<p, cidx.has[p]>>
<1> DEFINE T == {<<p, cidx.has[p]>> : p \in S}
           g == [p \in S |-> <<p, cidx.has[p]>>]
           n == Cardinality(T)
<1>1. IsFiniteSet(S) /\ Cardinality(S) <= Cardinality(Pkgs) /\ Cardinality(S) \in Nat /\ Cardinality(Pkgs) \in Nat
  BY MirrorAssumption, FS_Subset, FS_CardinalityType
<1>2. g \in Surjection(S, T)
  BY DEF Surjection
<1>3. IsFiniteSet(T) /\ n <= Cardinality(S)
  <2> HIDE DEF T, g
  <2>1. QED
    BY <1>1, <1>2, FS_Surjection
<1>4. T \subseteq Entries
  BY DEF Lists, Entries
<1>5. Gets(S) = SetToSeq(T)
  BY DEF Gets
<1>6. /\ n \in Nat /\ Gets(S) \in [1..n -> T] /\ \A t \in T : \E i \in 1..n : Gets(S)[i] = t
  <2> HIDE DEF T
  <2>1. QED
    BY <1>3, <1>5, ToSeq
<1>7. \A i \in 1..n : Gets(S)[i] \in T
  BY <1>6
<1>8. Gets(S) \in Seq(Entries) /\ Len(Gets(S)) = n /\ DOMAIN Gets(S) = 1..n
  <2> DEFINE h == Gets(S)
  <2> HIDE DEF T, h, n
  <2>1. h \in [1..n -> Entries] /\ n \in Nat
    BY <1>4, <1>6 DEF h
  <2>2. h \in Seq(Entries) /\ Len(h) = n /\ DOMAIN h = 1..n
    BY <2>1
  <2>3. QED
    BY <2>2 DEF h
<1>9. \A p \in S : <<p, cidx.has[p]>> \in T
  OBVIOUS
<1>10. \A t \in T : \E p \in S : t = <<p, cidx.has[p]>>
  OBVIOUS
<1>11. /\ \A i \in 1..n : \E p \in S : Gets(S)[i] = <<p, cidx.has[p]>>
       /\ \A p \in S : \E i \in 1..n : Gets(S)[i] = <<p, cidx.has[p]>>
  <2> DEFINE h == Gets(S)
  <2> HIDE DEF T, n, h
  <2>1. /\ \A i \in 1..n : h[i] \in T
        /\ \A t \in T : \E i \in 1..n : h[i] = t
    BY <1>6, <1>7 DEF h
  <2>2. /\ \A i \in 1..n : \E p \in S : h[i] = <<p, cidx.has[p]>>
        /\ \A p \in S : \E i \in 1..n : h[i] = <<p, cidx.has[p]>>
    BY <1>9, <1>10, <2>1
  <2>3. QED
    BY <2>2 DEF h
<1>12. n <= Cardinality(Pkgs)
  <2> HIDE DEF n
  <2>1. QED
    BY <1>1, <1>3, <1>6
<1> HIDE DEF T, n
<1>13. QED
  BY <1>6, <1>8, <1>11, <1>12

-----------------------------------------------------------------------------
(***************************************************************************)
(* resolve.awk's closure.                                                  *)
(***************************************************************************)
\* The loop as a function of the round.
Rounds(want, f, n) == [k \in 0..n |-> IF k = 0 THEN want ELSE f[k - 1] \union Needed(f[k - 1])]

\* Every non-empty set of naturals has a least element.
LEMMA LeastNatural ==
  ASSUME NEW T, T \subseteq Nat, T # {}
  PROVE  \E x \in T : \A y \in T : x <= y
<1>1. IsWellFoundedOn(OpToRel(<, Nat), Nat)
  BY NatLessThanWellFounded
<1>2. \A x, y \in Nat : y < x => <<y, x>> \in OpToRel(<, Nat)
  BY DEF OpToRel
<1>3. PICK L : IsWellFoundedOn(L, Nat) /\ \A x, y \in Nat : y < x => <<y, x>> \in L
  BY <1>1, <1>2
<1>4. PICK x \in T : \A y \in T : ~(<<y, x>> \in L)
  BY <1>3, WFMin
<1>5. \A y \in T : ~(y < x)
  BY <1>3, <1>4
<1>6. QED
  BY <1>5

\* The loop is defined for any number of rounds.
LEMMA RoundsRun ==
  ASSUME NEW want, NEW n \in Nat
  PROVE  \E f : f = Rounds(want, f, n)
<1> DEFINE Stuck == {m \in Nat : ~\E f : f = Rounds(want, f, m)}
<1>1. SUFFICES ASSUME Stuck # {} PROVE FALSE
  OBVIOUS
<1>2. PICK m \in Stuck : \A k \in Stuck : m <= k
  BY <1>1, LeastNatural
<1>3. m \in Nat /\ ~\E f : f = Rounds(want, f, m)
  OBVIOUS
<1>4. CASE m = 0
  <2> DEFINE g == [k \in 0..0 |-> want]
  <2>1. g = Rounds(want, g, 0)
    BY DEF Rounds
  <2>2. QED
    BY <1>3, <1>4, <2>1
<1>5. CASE m # 0
  <2>1. m-1 \in Nat /\ m-1 \notin Stuck
    BY <1>2, <1>3, <1>5
  <2>2. PICK f : f = Rounds(want, f, m-1)
    BY <2>1
  <2> DEFINE next == f[m-1] \union Needed(f[m-1])
             g == [k \in 0..m |-> IF k = m THEN next ELSE f[k]]
  <2>3. \A k \in 0..m-1 : f[k] = IF k = 0 THEN want ELSE f[k-1] \union Needed(f[k-1])
    BY <2>2 DEF Rounds
  <2> HIDE DEF next
  <2>4. \A k \in 0..m : k # m => g[k] = f[k]
    OBVIOUS
  <2>5. \A k \in 0..m : k # 0 => g[k-1] = f[k-1]
    BY <1>3
  <2>6. g[m] = next
    BY <1>3
  <2>7. ASSUME NEW k \in 0..m
        PROVE  g[k] = IF k = 0 THEN want ELSE g[k-1] \union Needed(g[k-1])
    <3>1. CASE k = m
      BY <3>1, <2>5, <2>6, <1>5 DEF next
    <3>2. CASE k # m
      <4>1. k \in 0..m-1
        BY <3>2, <1>3
      <4>2. QED
        BY <4>1, <3>2, <2>3, <2>4, <2>5
    <3>3. QED
      BY <3>1, <3>2
  <2> HIDE DEF g
  <2>8. g = [k \in 0..m |-> g[k]]
    BY DEF g
  <2>9. g = Rounds(want, g, m)
    BY <2>7, <2>8 DEF Rounds
  <2>10. QED
    BY <1>3, <2>9
<1>6. QED
  BY <1>4, <1>5

\* What the closure is: what is wanted, what the index has of what it requires, and nothing is missing.
LEMMA ClosureFact ==
  ASSUME NEW want, want \subseteq Pkgs, want # {}
  PROVE  /\ want \subseteq Closure(want) /\ Closure(want) \subseteq Pkgs
         /\ \A q \in Closure(want) : q \in want \/ cidx.has[q] # 0
         /\ Needed(Closure(want)) \subseteq Closure(want)
<1> DEFINE N == Cardinality(Pkgs)
           f == CHOOSE g : g = Rounds(want, g, N)
<1>1. N \in Nat
  BY MirrorAssumption, FS_CardinalityType
<1>2. Closure(want) = f[N]
  BY DEF Closure, Rounds
<1> HIDE DEF N
<1>3. f = Rounds(want, f, N)
  BY <1>1, RoundsRun
<1> HIDE DEF f
<1>4. \A k \in 0..N : f[k] = IF k = 0 THEN want ELSE f[k - 1] \union Needed(f[k - 1])
  BY <1>3 DEF Rounds
<1>5. f[0] = want /\ \A k \in 1..N : f[k] = f[k - 1] \union Needed(f[k - 1])
  <2>1. 0 \in 0..N /\ \A k \in 1..N : k \in 0..N /\ k # 0
    BY <1>1
  <2>2. QED
    BY <2>1, <1>4
<1>6. \A S : Needed(S) \subseteq Pkgs /\ \A q \in Needed(S) : cidx.has[q] # 0
  BY DEF Needed
<1> DEFINE Good(k) == want \subseteq f[k] /\ f[k] \subseteq Pkgs /\ \A q \in f[k] : q \in want \/ cidx.has[q] # 0
           Bad == {k \in 0..N : ~Good(k)}
<1>7. \A k \in 0..N : Good(k)
  <2> SUFFICES ASSUME Bad # {} PROVE FALSE
    OBVIOUS
  <2>1. Bad \subseteq Nat
    BY <1>1
  <2>2. PICK k \in Bad : \A j \in Bad : k <= j
    <3> HIDE DEF Bad
    <3>1. QED
      BY <2>1, LeastNatural
  <2>3. k \in 0..N /\ ~Good(k)
    OBVIOUS
  <2>4. k # 0
    <3>1. Good(0)
      BY <1>5
    <3>2. QED
      BY <2>3, <3>1
  <2>5. k \in 1..N /\ k - 1 \in 0..N /\ ~(k <= k - 1)
    BY <2>3, <2>4, <1>1
  <2>6. Good(k - 1)
    <3>1. k - 1 \notin Bad
      <4> HIDE DEF Bad
      <4>1. QED
        BY <2>2, <2>5
    <3>2. QED
      BY <3>1, <2>5
  <2>7. f[k] = f[k - 1] \union Needed(f[k - 1])
    BY <2>5, <1>5
  <2>8. Good(k)
    BY <2>6, <2>7, <1>6
  <2>9. QED
    BY <2>3, <2>8
<1>8. N \in 0..N
  BY <1>1
\* Once a round adds nothing, no later one does.
<1> DEFINE Fixed == {k \in 0..N : Needed(f[k]) \subseteq f[k]}
<1>9. \A k \in Fixed : k # N => k + 1 \in Fixed
  <2> SUFFICES ASSUME NEW k \in Fixed, k # N PROVE k + 1 \in Fixed
    OBVIOUS
  <2>1. k \in 0..N /\ Needed(f[k]) \subseteq f[k]
    OBVIOUS
  <2>2. k + 1 \in 1..N /\ k + 1 \in 0..N /\ (k + 1) - 1 = k
    BY <2>1, <1>1
  <2>3. f[k + 1] = f[k]
    BY <2>1, <2>2, <1>5
  <2>4. QED
    BY <2>1, <2>2, <2>3
<1>10. ASSUME N \notin Fixed PROVE Fixed = {}
  <2> DEFINE Dist == {N - k : k \in Fixed}
  <2> SUFFICES ASSUME Dist # {} PROVE FALSE
    OBVIOUS
  <2>1. Dist \subseteq Nat
    BY <1>1
  <2>2. PICK d \in Dist : \A e \in Dist : d <= e
    <3> HIDE DEF Dist
    <3>1. QED
      BY <2>1, LeastNatural
  <2>3. PICK k \in Fixed : d = N - k
    OBVIOUS
  <2>4. k \in 0..N
    OBVIOUS
  <2> HIDE DEF Fixed
  <2>5. k # N
    BY <1>10
  <2>6. N - (k + 1) \in Dist
    BY <2>5, <1>9
  <2>7. d <= N - (k + 1)
    <3> HIDE DEF Dist
    <3>1. QED
      BY <2>2, <2>6
  <2>8. QED
    BY <2>3, <2>4, <2>7, <1>1
\* As long as rounds add something the number of packages taken grows, so at most N do.
<1>11. N \in Fixed
  <2> SUFFICES ASSUME Fixed = {} PROVE FALSE
    <3> HIDE DEF Fixed
    <3>1. QED
      BY <1>10
  <2> DEFINE Small == {k \in 0..N : Cardinality(f[k]) <= k}
  <2>0. \A k \in 0..N : IsFiniteSet(f[k]) /\ Cardinality(f[k]) \in Nat /\ Cardinality(f[k]) <= N
    <3>1. \A k \in 0..N : f[k] \subseteq Pkgs
      BY <1>7
    <3>2. QED
      BY <3>1, MirrorAssumption, FS_Subset, FS_CardinalityType DEF N
  <2>1. \A k \in 0..N : ~(Needed(f[k]) \subseteq f[k])
    OBVIOUS
  <2> HIDE DEF Fixed
  <2>2. N \in Small
    BY <2>0, <1>8
  <2>3. Small \subseteq Nat /\ Small # {}
    BY <2>2, <1>1
  <2>4. PICK k \in Small : \A j \in Small : k <= j
    <3> HIDE DEF Small
    <3>1. QED
      BY <2>3, LeastNatural
  <2>5. k \in 0..N /\ Cardinality(f[k]) <= k
    OBVIOUS
  <2>6. k # 0
    <3>1. Cardinality(f[0]) # 0
      BY <2>0, <1>1, <1>5, FS_EmptySet
    <3>2. QED
      BY <2>5, <3>1, <2>0
  <2>7. k \in 1..N /\ k - 1 \in 0..N /\ ~(k <= k - 1)
    BY <2>5, <2>6, <1>1
  <2>8. k - 1 \notin Small
    <3> HIDE DEF Small
    <3>1. QED
      BY <2>4, <2>7
  <2>9. Cardinality(f[k - 1]) >= k
    BY <2>0, <2>7, <2>8
  <2>10. f[k - 1] \subseteq f[k] /\ f[k - 1] # f[k]
    BY <2>1, <2>7, <1>5
  <2>11. Cardinality(f[k - 1]) <= Cardinality(f[k]) /\ Cardinality(f[k - 1]) # Cardinality(f[k])
    BY <2>0, <2>5, <2>10, FS_Subset
  <2>12. Cardinality(f[k]) \in Nat /\ Cardinality(f[k - 1]) \in Nat /\ k \in Nat
    BY <2>0, <2>5, <2>7
  <2> HIDE DEF Small
  <2>13. QED
    BY <2>5, <2>9, <2>11, <2>12
<1>12. QED
  BY <1>2, <1>7, <1>8, <1>11

-----------------------------------------------------------------------------
(***************************************************************************)
(* The runs of yum: types.                                                 *)
(***************************************************************************)
Steps == {"off", "fresh", "fetchidx", "mv", "echo", "resolve", "planned", "sub", "pub", "hang", "wait",
          "fetch", "rpm", "qa", "mvinst"}
RunRec == [at : Steps, verb : {"none", "install", "update", "remove"}, want : Pkgs \union {Off.want},
           nodeps : BOOLEAN, built : BOOLEAN, refreshed : BOOLEAN, new : Lists, ret : {"resolve", "fresh"}, id : {0} \union Ids,
           todo : SUBSET Pkgs, pos : 0..(Cardinality(Pkgs) + 1), files : SUBSET Entries, rc : {"ok", "fail"}]

\* What a run waits for is a request of its own, for a package it still misses, before any build.
Sound(r, q) ==
  /\ r.verb = "install" => r.want \in Pkgs
  /\ r.at \in {"sub", "pub", "wait"} => ~r.built
  /\ r.at \in {"pub", "wait"} => r.id \in 1..Len(q) /\ q[r.id].pkg \in r.todo
  /\ r.at = "fetch" => r.pos >= 1
  /\ r.at = "mvinst" => \A p \in Pkgs : \E f \in r.files : f[1] = p

Running == c \in [Yums -> RunRec] /\ \A y \in Yums : Sound(c[y], req)
PlanOK(pl) ==
  /\ pl \in [missing : SUBSET Pkgs, unmet : BOOLEAN, get : Seq(Entries)]
  /\ Len(pl.get) <= Cardinality(Pkgs)
CacheTyped ==
  /\ cidx \in Lists /\ cserial \in 0..MaxIndex /\ PlanOK(plan)
  /\ file \in [Pkgs -> Versions] /\ db \in [Pkgs -> Versions] /\ inst \in [Pkgs -> Versions]
  /\ old \in Lists /\ begun \in 0..MaxYums
TypeInv == MirrorInv /\ BuildTyped /\ Running /\ CacheTyped /\ torn \subseteq {"serial", "installed"}

\* The numbers the types are made of.
LEMMA Numbers ==
  /\ Cardinality(Pkgs) \in Nat /\ 0 \in Versions /\ 1 \in Versions /\ 0 \in 0..MaxIndex
  /\ NoIndex \in Lists /\ PlanOK(NoPlan)
<1>1. Cardinality(Pkgs) \in Nat
  BY MirrorAssumption, FS_CardinalityType
<1>2. 0 \in Versions /\ 1 \in Versions /\ 0 \in 0..MaxIndex
  BY MirrorAssumption DEF Versions
<1>3. NoIndex \in Lists
  BY <1>2 DEF NoIndex, Lists
<1>4. <<>> \in Seq(Entries) /\ Len(<<>>) = 0
  OBVIOUS
<1>5. PlanOK(NoPlan)
  BY <1>1, <1>4 DEF NoPlan, PlanOK
<1>6. QED
  BY <1>1, <1>2, <1>3, <1>5

\* A run that is over.
LEMMA OffFact == Off \in RunRec /\ \A q : Sound(Off, q)
<1>1. 0 \in 0..(Cardinality(Pkgs) + 1) /\ NoIndex \in Lists
  BY Numbers
<1> DEFINE w == Off.want
           W == Pkgs \union {Off.want}
<1>2. w \in W
  OBVIOUS
<1>3. Off = [at |-> "off", verb |-> "none", want |-> w, nodeps |-> FALSE, built |-> FALSE, refreshed |-> FALSE,
             new |-> NoIndex, ret |-> "resolve", id |-> 0, todo |-> {}, pos |-> 0, files |-> {}, rc |-> "fail"]
  BY DEF Off
<1>r. RunRec = [at : Steps, verb : {"none", "install", "update", "remove"}, want : W,
                nodeps : BOOLEAN, built : BOOLEAN, refreshed : BOOLEAN, new : Lists, ret : {"resolve", "fresh"}, id : {0} \union Ids,
                todo : SUBSET Pkgs, pos : 0..(Cardinality(Pkgs) + 1), files : SUBSET Entries, rc : {"ok", "fail"}]
  BY DEF RunRec
<1>4. Off \in RunRec
  <2> HIDE DEF w, W
  <2>1. "off" \in Steps
    BY DEF Steps
  <2>2. QED
    BY <1>1, <1>2, <1>3, <1>r, <2>1
<1>5. \A q : Sound(Off, q)
  BY DEF Off, Sound
<1>6. QED
  BY <1>4, <1>5

\* One run goes on: the others are as sound as before, as requests stay.
LEMMA Becomes ==
  ASSUME BuildTyped, Running, NEW y \in Yums, NEW r \in RunRec, Become(y, r), Sound(r, req'),
         req' = req \/ Asks
  PROVE  Running'
<1>1. Len(req) \in Nat /\ Len(req') \in Nat /\ Len(req) <= Len(req') /\ \A i \in 1..Len(req) : req'[i] = req[i]
  <2>1. CASE req' = req
    BY <2>1 DEF BuildTyped
  <2>2. CASE Asks
    BY <2>2, AsksFact DEF Asked
  <2>3. QED
    BY <2>1, <2>2
<1>2. c' \in [Yums -> RunRec] /\ c'[y] = r /\ \A o \in Yums : o # y => c'[o] = c[o]
  BY DEF Become, Running
<1>3. ASSUME NEW o \in Yums, o # y PROVE Sound(c'[o], req')
  <2>1. c'[o] = c[o] /\ Sound(c[o], req)
    BY <1>2, <1>3 DEF Running
  <2>2. \A i \in 1..Len(req) : i \in 1..Len(req') /\ req'[i] = req[i]
    BY <1>1
  <2>3. QED
    BY <2>1, <2>2 DEF Sound
<1>4. QED
  BY <1>2, <1>3 DEF Running

\* The run ends.
LEMMA Exits ==
  ASSUME BuildTyped, Running, NEW y \in Yums, NEW code \in {"ok", "fail"}, Exit(y, code), req' = req
  PROVE  Running'
<1> DEFINE r == [Off EXCEPT !.rc = code]
<1>1. r \in RunRec /\ r.at = "off" /\ r.verb = "none"
  <2>1. Off \in RunRec /\ Off.at = "off" /\ Off.verb = "none"
    BY OffFact DEF Off
  <2> HIDE DEF Off
  <2>2. QED
    BY <2>1 DEF RunRec
<1>2. Sound(r, req')
  BY <1>1 DEF Sound
<1>3. Become(y, r)
  BY DEF Exit
<1> HIDE DEF r
<1>4. QED
  BY <1>1, <1>2, <1>3, Becomes

\* The run goes to its next step.
LEMMA Goes ==
  ASSUME BuildTyped, Running, NEW y \in Yums, NEW l \in Steps \ {"sub", "pub", "wait", "fetch", "mvinst"},
         Goto(y, l), req' = req
  PROVE  Running'
<1> DEFINE r == [c[y] EXCEPT !.at = l]
<1>0. c[y] \in RunRec /\ Sound(c[y], req)
  BY DEF Running
<1>1. r \in RunRec /\ r.at = l /\ r.verb = c[y].verb /\ r.want = c[y].want
  BY <1>0 DEF RunRec
<1>2. Sound(r, req')
  BY <1>0, <1>1 DEF Sound
<1>3. Become(y, r)
  BY DEF Become, Goto, Running
<1> HIDE DEF r
<1>4. QED
  BY <1>1, <1>2, <1>3, Becomes

\* What the plan can be.
LEMMA ResolveTyped ==
  ASSUME CacheTyped
  PROVE  PlanOK(UpdatePlan) /\ \A p \in Pkgs : PlanOK(InstallPlan(p))
<1>1. PlanOK(NoPlan)
  BY Numbers
<1>2. ASSUME NEW S, S \subseteq Pkgs PROVE Gets(S) \in Seq(Entries) /\ Len(Gets(S)) <= Cardinality(Pkgs)
  BY <1>2, GetsFact DEF CacheTyped
<1>4. PlanOK(UpdatePlan)
  <2> DEFINE S == {q \in Pkgs : q \in Installed /\ cidx.has[q] > db[q]}
  <2>1. S = {q \in Installed : cidx.has[q] > db[q]}
    BY DEF Installed
  <2>2. Gets(S) \in Seq(Entries) /\ Len(Gets(S)) <= Cardinality(Pkgs)
    BY <1>2
  <2>3. UpdatePlan = [NoPlan EXCEPT !.get = Gets(S)]
    BY <2>1 DEF UpdatePlan
  <2> HIDE DEF S
  <2>4. QED
    BY <2>2, <2>3 DEF NoPlan, PlanOK
<1>5. ASSUME NEW p \in Pkgs PROVE PlanOK(InstallPlan(p))
  <2>0. Closure({p}) \subseteq Pkgs
    BY ClosureFact
  <2> DEFINE g == Gets(Closure({p}))
             u == \E q \in Closure({p}) : \E r \in Req[q] : r \notin Installed /\ cidx.has[r] = 0
  <2>1. g \in Seq(Entries) /\ Len(g) <= Cardinality(Pkgs)
    BY <1>2, <2>0
  <2>2. u \in BOOLEAN
    OBVIOUS
  <2>3. \/ InstallPlan(p) = NoPlan
        \/ InstallPlan(p) = [NoPlan EXCEPT !.missing = {p}]
        \/ InstallPlan(p) = [missing |-> {}, get |-> g, unmet |-> u]
    BY DEF InstallPlan
  <2> HIDE DEF g, u
  <2>4. PlanOK([missing |-> {}, get |-> g, unmet |-> u])
    BY <2>1, <2>2 DEF PlanOK
  <2>5. PlanOK([NoPlan EXCEPT !.missing = {p}])
    BY <1>1 DEF PlanOK, NoPlan
  <2>6. QED
    BY <1>1, <2>3, <2>4, <2>5
<1>6. QED
  BY <1>4, <1>5

-----------------------------------------------------------------------------
(***************************************************************************)
(* The steps of a run keep the types.                                      *)
(***************************************************************************)
\* A run begins.
LEMMA RunTyped ==
  ASSUME TypeInv, NEW y \in Yums, NEW v \in {"install", "update", "remove"}, NEW p,
         Run(y, v, p), IF v = "update" THEN p = Off.want ELSE p \in Pkgs
  PROVE  Running' /\ begun' \in 0..MaxYums
<1>1. Run(y, v, p) /\ (v # "update" => p \in Pkgs) /\ (v = "update" => p = Off.want)
  OBVIOUS
<1> DEFINE r == [Off EXCEPT !.at = IF v = "remove" THEN "rpm" ELSE "fresh", !.verb = v, !.want = p]
<1>2. Become(y, r) /\ req' = req /\ begun' = begun + 1 /\ begun < MaxYums
  BY <1>1 DEF Run, buildVars
<1>3. r \in RunRec /\ r.at \in {"rpm", "fresh"} /\ r.want = p /\ r.verb = v
  <2>1. Off \in RunRec /\ p \in Pkgs \union {Off.want} /\ v \in {"none", "install", "update", "remove"}
    BY <1>1, OffFact
  <2>2. (IF v = "remove" THEN "rpm" ELSE "fresh") \in Steps
    BY DEF Steps
  <2> HIDE DEF Off
  <2>3. QED
    BY <2>1, <2>2 DEF RunRec
<1> HIDE DEF r
<1>4. Sound(r, req')
  BY <1>1, <1>3 DEF Sound
<1>5. Running'
  BY <1>2, <1>3, <1>4, Becomes DEF TypeInv
<1>6. begun' \in 0..MaxYums
  BY <1>2, YumAssumption DEF TypeInv, CacheTyped
<1>7. QED
  BY <1>5, <1>6

\* makecache, up to the move.
LEMMA MakecacheTyped ==
  ASSUME TypeInv, NEW y \in Yums, FreshCache(y) \/ FetchIndex(y) \/ MoveIndex(y) \/ WriteSerial(y)
  PROVE  Running' /\ cidx' \in Lists /\ cserial' \in 0..MaxIndex
<1>0. /\ c[y] \in RunRec /\ Sound(c[y], req) /\ BuildTyped /\ Running /\ CacheTyped /\ signed \in Lists
  BY DEF TypeInv, Running, MirrorInv, MirrorTypeOK
<1>1. req' = req
  BY DEF FreshCache, FetchIndex, MoveIndex, WriteSerial, Rest, outside, buildVars
<1>s. {"resolve", "fetchidx", "mv", "echo", "fresh"} \subseteq Steps \ {"sub", "pub", "wait", "fetch", "mvinst"}
  BY DEF Steps
<1>2. CASE FreshCache(y)
  <2>1. UNCHANGED <<cidx, cserial>>
    BY <1>2 DEF FreshCache, Rest, cache
  <2>2. CASE Goto(y, "resolve")
    BY <2>1, <2>2, <1>0, <1>1, <1>s, Goes DEF CacheTyped
  <2>3. CASE Become(y, [c[y] EXCEPT !.at = "fetchidx", !.ret = "resolve"])
    <3> DEFINE r == [c[y] EXCEPT !.at = "fetchidx", !.ret = "resolve"]
    <3>1. r \in RunRec /\ Sound(r, req')
      BY <1>0, <1>1 DEF RunRec, Sound, Steps
    <3>2. Become(y, r)
      BY <2>3
    <3> HIDE DEF r
    <3>3. QED
      BY <2>1, <3>1, <3>2, <1>0, <1>1, Becomes DEF CacheTyped
  <2>4. QED
    BY <1>2, <2>2, <2>3 DEF FreshCache
<1>3. CASE FetchIndex(y)
  <2>1. UNCHANGED <<cidx, cserial>>
    BY <1>3 DEF FetchIndex, Rest, cache
  <2>2. ASSUME NEW l \in Lists, Become(y, [c[y] EXCEPT !.at = "mv", !.new = l]) PROVE Running'
    <3> DEFINE r == [c[y] EXCEPT !.at = "mv", !.new = l]
    <3>1. r \in RunRec /\ Sound(r, req')
      BY <1>0, <1>1 DEF RunRec, Sound, Steps
    <3>2. Become(y, r)
      BY <2>2
    <3> HIDE DEF r
    <3>3. QED
      BY <3>1, <3>2, <1>0, <1>1, Becomes
  <2>3. Exit(y, "fail") => Running'
    BY <1>0, <1>1, Exits
  <2>4. \/ Exit(y, "fail")
        \/ \E l \in {signed, old} : Become(y, [c[y] EXCEPT !.at = "mv", !.new = l])
    BY <1>3 DEF FetchIndex
  <2>5. signed \in Lists /\ old \in Lists
    BY <1>0 DEF CacheTyped
  <2>6. QED
    BY <2>1, <2>2, <2>3, <2>4, <2>5, <1>0 DEF CacheTyped
<1>4. CASE MoveIndex(y)
  <2>1. Running'
    BY <1>0, <1>1, <1>4, <1>s, Goes DEF MoveIndex
  <2>2. c[y].new \in Lists
    BY <1>0 DEF RunRec
  <2>3. QED
    BY <1>0, <1>4, <2>1, <2>2 DEF MoveIndex, CacheTyped
<1>5. CASE WriteSerial(y)
  <2> DEFINE r == [c[y] EXCEPT !.at = c[y].ret, !.new = NoIndex]
  <2>1. r \in RunRec /\ r.at \in {"fresh", "resolve"} /\ r.verb = c[y].verb /\ r.want = c[y].want
    <3>1. NoIndex \in Lists /\ c[y].ret \in {"fresh", "resolve"} /\ {"fresh", "resolve"} \subseteq Steps
      BY <1>0, Numbers DEF RunRec, Steps
    <3>2. QED
      BY <1>0, <3>1 DEF RunRec
  <2>2. Sound(r, req')
    BY <1>0, <2>1 DEF Sound
  <2>3. Become(y, r)
    BY <1>5 DEF WriteSerial
  <2> HIDE DEF r
  <2>4. Running'
    BY <2>1, <2>2, <2>3, <1>0, <1>1, Becomes
  <2>5. c[y].new \in Lists
    BY <1>0 DEF RunRec
  <2>6. cserial' \in 0..MaxIndex
    BY <1>5, <2>5, Numbers DEF WriteSerial, Lists
  <2>7. QED
    BY <1>0, <1>5, <2>4, <2>6 DEF WriteSerial, CacheTyped
<1>6. QED
  BY <1>2, <1>3, <1>4, <1>5

\* The plan and what the shell does with it.
LEMMA PlanningTyped ==
  ASSUME TypeInv, NEW y \in Yums, Resolve(y) \/ FollowPlan(y)
  PROVE  Running' /\ PlanOK(plan')
<1>0. /\ c[y] \in RunRec /\ Sound(c[y], req) /\ BuildTyped /\ Running /\ CacheTyped /\ Cardinality(Pkgs) \in Nat
  BY Numbers DEF TypeInv, Running
<1>1. req' = req
  BY DEF Resolve, FollowPlan, Rest, outside, buildVars
<1>2. CASE Resolve(y)
  <2>1. "planned" \in Steps \ {"sub", "pub", "wait", "fetch", "mvinst"}
    BY DEF Steps
  <2>2. Running'
    BY <1>0, <1>1, <1>2, <2>1, Goes DEF Resolve
  <2>3. PlanOK(plan')
    <3>1. CASE c[y].verb = "install"
      <4>1. c[y].want \in Pkgs /\ plan' = InstallPlan(c[y].want)
        BY <1>0, <1>2, <3>1 DEF Sound, Resolve
      <4>2. QED
        BY <1>0, <4>1, ResolveTyped
    <3>2. CASE c[y].verb # "install"
      <4>1. plan' = UpdatePlan
        BY <1>2, <3>2 DEF Resolve
      <4>2. QED
        BY <1>0, <4>1, ResolveTyped
    <3>3. QED
      BY <3>1, <3>2
  <2>4. QED
    BY <2>2, <2>3
<1>3. CASE FollowPlan(y)
  <2>1. plan' = plan /\ PlanOK(plan)
    BY <1>0, <1>3 DEF FollowPlan, Rest, cache, CacheTyped
  <2>2. CASE \E code \in {"ok", "fail"} : Exit(y, code)
    BY <1>0, <1>1, <2>1, <2>2, Exits
  <2>3. CASE ~c[y].built /\ Become(y, [c[y] EXCEPT !.at = "sub", !.todo = plan.missing])
    <3> DEFINE r == [c[y] EXCEPT !.at = "sub", !.todo = plan.missing]
    <3>1. plan.missing \in SUBSET Pkgs
      BY <2>1 DEF PlanOK
    <3>2. r \in RunRec /\ Sound(r, req')
      BY <1>0, <1>1, <2>3, <3>1 DEF RunRec, Sound, Steps
    <3>3. Become(y, r)
      BY <2>3
    <3> HIDE DEF r
    <3>4. QED
      BY <2>1, <3>2, <3>3, <1>0, <1>1, Becomes
  <2>4. CASE Become(y, [c[y] EXCEPT !.at = "fetch", !.pos = 1, !.files = {}, !.nodeps = @ \/ plan.unmet])
    <3> DEFINE n == c[y].nodeps \/ plan.unmet
               r == [c[y] EXCEPT !.at = "fetch", !.pos = 1, !.files = {}, !.nodeps = n]
    <3>1. 1 \in 0..(Cardinality(Pkgs) + 1)
      BY <1>0
    <3>2. r \in RunRec /\ r.at = "fetch" /\ r.pos = 1 /\ r.verb = c[y].verb /\ r.want = c[y].want
      <4>1. "fetch" \in Steps /\ {} \in SUBSET Entries /\ n \in BOOLEAN
        BY DEF Steps
      <4> HIDE DEF n
      <4>2. QED
        BY <1>0, <3>1, <4>1 DEF RunRec
    <3>3. Become(y, r) /\ Sound(r, req')
      BY <1>0, <2>4, <3>2 DEF Sound
    <3> HIDE DEF r
    <3>4. QED
      BY <2>1, <3>2, <3>3, <1>0, <1>1, Becomes
  <2>5. QED
    BY <1>3, <2>2, <2>3, <2>4 DEF FollowPlan
<1>4. QED
  BY <1>2, <1>3

\* build_on_miss: what it does to the service, and to the runs.
LEMMA MissTyped ==
  ASSUME TypeInv, NEW y \in Yums, Subscribe(y) \/ Request(y) \/ Hear(y) \/ NoAnswer(y) \/ Kill(y)
  PROVE  Running' /\ (Asks \/ Attends)
<1>0. /\ c[y] \in RunRec /\ Sound(c[y], req) /\ BuildTyped /\ Running
      /\ inbox \subseteq Asked /\ subs \subseteq Ids /\ said \in [Ids -> Seq(Verbs)]
      /\ c[y].id \in {0} \union Ids /\ c[y].todo \subseteq Pkgs
  BY DEF TypeInv, Running, BuildTyped, RunRec
<1>u. Unsubscribe(y) => subs' \subseteq Ids /\ said' \in [Ids -> Seq(Verbs)]
  <2>1. <<>> \in Seq(Verbs)
    OBVIOUS
  <2>2. QED
    BY <1>0, <2>1 DEF Unsubscribe
<1>1. CASE Subscribe(y)
  <2>1. PICK p \in c[y].todo, s \in Skews : req' = Append(req, [pkg |-> p, ts |-> now + s])
    BY <1>1 DEF Subscribe
  <2>2. /\ Len(req) < MaxReqs /\ subs' = subs \union {Len(req) + 1}
        /\ UNCHANGED <<now, inbox, said, up, loading, seen, seenFile, work, job, human, stops, accepted, lost>>
    BY <1>1 DEF Subscribe
  <2>3. Asks
    BY <1>0, <2>1, <2>2 DEF Asks
  <2>4. Len(req) + 1 \in Ids /\ Len(req') = Len(req) + 1 /\ Len(req) \in Nat
    BY <1>0, <2>3, AsksFact
  <2>5. req'[Len(req) + 1].pkg = p
    <3>1. req'[Len(req) + 1] = [pkg |-> p, ts |-> now + s]
      BY <1>0, <2>1, <2>4 DEF BuildTyped
    <3>2. QED
      BY <3>1
  <2> DEFINE r == [c[y] EXCEPT !.at = "pub", !.id = Len(req) + 1]
  <2>6. Become(y, r)
    BY <1>1 DEF Subscribe
  <2>7. /\ r \in RunRec /\ r.at = "pub" /\ r.id = Len(req) + 1 /\ r.todo = c[y].todo /\ r.built = c[y].built
        /\ r.verb = c[y].verb /\ r.want = c[y].want
    BY <1>0, <2>4 DEF RunRec, Steps
  <2>8. c[y].at = "sub"
    BY <1>1 DEF Subscribe
  <2> HIDE DEF r
  <2>9. Sound(r, req')
    BY <1>0, <2>4, <2>5, <2>7, <2>8 DEF Sound
  <2>10. QED
    BY <1>0, <2>3, <2>6, <2>7, <2>9, Becomes
<1>2. CASE Request(y)
  <2>1. req' = req /\ c[y].at = "pub" /\ inbox' \in {inbox, inbox \union {c[y].id}}
    BY <1>2 DEF Request
  <2>2. c[y].id \in Asked
    BY <1>0, <2>1 DEF Sound, Asked
  <2>3. Attends
    BY <1>0, <1>2, <2>1, <2>2 DEF Request, Attends
  <2>a. PICK l \in {"wait", "hang"} : Goto(y, l)
    BY <1>2 DEF Request
  <2> DEFINE r == [c[y] EXCEPT !.at = l]
  <2>4. Become(y, r)
    BY <2>a DEF Goto, Become
  <2>5. /\ r \in RunRec /\ r.at \in {"wait", "hang"} /\ r.id = c[y].id /\ r.todo = c[y].todo /\ r.built = c[y].built
        /\ r.verb = c[y].verb /\ r.want = c[y].want
    BY <1>0 DEF RunRec, Steps
  <2> HIDE DEF r
  <2>6. Sound(r, req')
    BY <1>0, <2>1, <2>5 DEF Sound
  <2>7. QED
    BY <1>0, <2>1, <2>3, <2>4, <2>5, <2>6, Becomes
<1>3. CASE Hear(y)
  <2>1. /\ req' = req /\ c[y].at = "wait" /\ inbox' = inbox
        /\ UNCHANGED <<now, req, up, loading, seen, seenFile, work, job, human, stops, accepted, lost>>
    BY <1>3 DEF Hear
  <2>2. c[y].id \in Ids
    BY <1>0, <2>1, BuildAssumption DEF Sound, Ids, BuildTyped
  <2>3. CASE said' = [said EXCEPT ![c[y].id] = Tail(@)] /\ UNCHANGED <<subs, c>> /\ said[c[y].id] # <<>>
    <3>1. said[c[y].id] \in Seq(Verbs)
      BY <1>0, <2>2
    <3>2. Tail(said[c[y].id]) \in Seq(Verbs)
      BY <2>3, <3>1
    <3>3. said' \in [Ids -> Seq(Verbs)]
      BY <1>0, <2>3, <3>2
    <3>4. QED
      BY <1>0, <2>1, <2>3, <3>3 DEF Attends, Running
  <2>4. CASE Unsubscribe(y) /\ Become(y, Built(y))
    <3> DEFINE left == c[y].todo \ {Pkg(c[y].id)}
               r == IF left # {} THEN [c[y] EXCEPT !.at = "sub", !.todo = left]
                    ELSE [c[y] EXCEPT !.at = "fetchidx", !.ret = "fresh", !.built = TRUE, !.todo = {}, !.id = 0]
    <3>1. r = Built(y)
      BY DEF Built
    <3>2. left \in SUBSET Pkgs /\ {"sub", "fetchidx"} \subseteq Steps
      BY <1>0 DEF Steps
    <3> HIDE DEF left
    <3>3. /\ r \in RunRec /\ r.at \in {"sub", "fetchidx"} /\ r.verb = c[y].verb /\ r.want = c[y].want
          /\ (r.at = "sub" => r.built = c[y].built)
      BY <1>0, <3>2 DEF RunRec
    <3> HIDE DEF r
    <3>4. Sound(r, req')
      BY <1>0, <2>1, <3>3 DEF Sound
    <3>5. QED
      BY <1>0, <1>u, <2>1, <2>4, <3>1, <3>3, <3>4, Becomes DEF Attends
  <2>5. CASE Unsubscribe(y) /\ Exit(y, "fail")
    BY <1>0, <1>u, <2>1, <2>5, Exits DEF Attends
  <2>6. QED
    BY <1>3, <2>3, <2>4, <2>5 DEF Hear
<1>4. CASE NoAnswer(y)
  <2>1. Exit(y, "fail") /\ req' = req
    BY <1>4 DEF NoAnswer
  <2>2. /\ inbox' = inbox /\ (UNCHANGED <<subs, said>> \/ Unsubscribe(y))
        /\ UNCHANGED <<now, req, up, loading, seen, seenFile, work, job, human, stops, accepted, lost>>
    BY <1>4 DEF NoAnswer
  <2>3. QED
    BY <1>0, <1>u, <2>1, <2>2, Exits DEF Attends
<1>5. CASE Kill(y)
  <2>1. Exit(y, "fail") /\ req' = req
    BY <1>5 DEF Kill
  <2>2. subs' \subseteq Ids /\ said' \in [Ids -> Seq(Verbs)]
    BY <1>0, <1>5 DEF Kill
  <2>3. UNCHANGED <<now, req, inbox, up, loading, seen, seenFile, work, job, human, stops, accepted, lost>>
    BY <1>5 DEF Kill
  <2>4. QED
    BY <1>0, <2>1, <2>2, <2>3, Exits DEF Attends
<1>6. QED
  BY <1>1, <1>2, <1>3, <1>4, <1>5

\* The next line of the plan.
LEMMA FetchTyped ==
  ASSUME TypeInv, NEW y \in Yums, Fetch(y) \/ Fetched(y)
  PROVE  Running' /\ file' \in [Pkgs -> Versions]
<1>0. /\ c[y] \in RunRec /\ Sound(c[y], req) /\ BuildTyped /\ Running /\ Cardinality(Pkgs) \in Nat
      /\ PlanOK(plan) /\ file \in [Pkgs -> Versions]
  BY Numbers DEF TypeInv, Running, CacheTyped
<1>1. req' = req
  BY DEF Fetch, Fetched, Rest, outside, buildVars
<1>2. CASE Fetched(y)
  <2>1. "rpm" \in Steps \ {"sub", "pub", "wait", "fetch", "mvinst"}
    BY DEF Steps
  <2>2. file' = file
    BY <1>2 DEF Fetched, Rest, cache
  <2>3. QED
    BY <1>0, <1>1, <1>2, <2>1, <2>2, Goes DEF Fetched
<1>3. CASE Fetch(y)
  <2> DEFINE i == c[y].pos
             p == plan.get[i][1]
             v == plan.get[i][2]
             next == [c[y] EXCEPT !.pos = @ + 1, !.files = @ \union {<<p, v>>}]
             again == [c[y] EXCEPT !.at = "fetchidx", !.ret = "fresh", !.refreshed = TRUE]
  <2>1. c[y].at = "fetch" /\ i <= Len(plan.get) /\ i \in Nat /\ i >= 1
    <3>1. c[y].at = "fetch" /\ i <= Len(plan.get)
      BY <1>3 DEF Fetch
    <3>2. i \in 0..(Cardinality(Pkgs) + 1)
      BY <1>0 DEF RunRec
    <3>3. i >= 1
      BY <1>0, <3>1 DEF Sound
    <3>4. QED
      BY <1>0, <3>1, <3>2, <3>3
  <2>2. /\ plan.get \in Seq(Entries) /\ Len(plan.get) \in Nat /\ Len(plan.get) <= Cardinality(Pkgs)
    BY <1>0 DEF PlanOK
  <2>3. p \in Pkgs /\ v \in Versions
    <3>1. plan.get[i] \in Entries
      BY <2>1, <2>2
    <3>2. QED
      BY <3>1 DEF Entries
  <2>4. \/ Become(y, next) /\ UNCHANGED file
        \/ Become(y, next) /\ file' = [file EXCEPT ![p] = v]
        \/ file' = [file EXCEPT ![p] = 0] /\ (Exit(y, "fail") \/ Become(y, again))
    BY <1>3 DEF Fetch
  <2>5. file' \in [Pkgs -> Versions]
    BY <1>0, <2>3, <2>4, Numbers
  <2>6. next \in RunRec /\ next.at = "fetch" /\ next.pos >= 1 /\ next.verb = c[y].verb /\ next.want = c[y].want
    <3>1. i + 1 \in 0..(Cardinality(Pkgs) + 1) /\ i + 1 >= 1
      BY <1>0, <2>1, <2>2
    <3>2. c[y].files \union {<<p, v>>} \in SUBSET Entries
      BY <1>0, <2>3 DEF RunRec, Entries
    <3>3. next = [c[y] EXCEPT !.pos = i + 1, !.files = c[y].files \union {<<p, v>>}]
      BY <1>0 DEF RunRec
    <3> HIDE DEF p, v, i
    <3>4. QED
      BY <1>0, <2>1, <3>1, <3>2, <3>3 DEF RunRec
  <2>7. Sound(next, req')
    <3> HIDE DEF next
    <3>1. QED
      BY <1>0, <2>6 DEF Sound
  <2>8. again \in RunRec /\ again.at = "fetchidx" /\ again.verb = c[y].verb /\ again.want = c[y].want
    BY <1>0 DEF RunRec, Steps
  <2>9. Sound(again, req')
    <3> HIDE DEF again
    <3>1. QED
      BY <1>0, <2>8 DEF Sound
  <2>10. Become(y, next) => Running'
    <3> HIDE DEF next
    <3>1. QED
      BY <1>0, <1>1, <2>6, <2>7, Becomes
  <2>11. Become(y, again) => Running'
    <3> HIDE DEF again
    <3>1. QED
      BY <1>0, <1>1, <2>8, <2>9, Becomes
  <2>12. Exit(y, "fail") => Running'
    BY <1>0, <1>1, Exits
  <2> HIDE DEF next, again
  <2>13. QED
    BY <2>4, <2>5, <2>10, <2>11, <2>12
<1>4. QED
  BY <1>2, <1>3

\* The database after rpm.
LEMMA WithFact ==
  ASSUME db \in [Pkgs -> Versions], NEW S \in SUBSET Entries
  PROVE  /\ With(S) \in [Pkgs -> Versions] /\ Names(S) \subseteq Pkgs
         /\ \A p \in Pkgs : p \notin Names(S) => With(S)[p] = db[p]
         /\ \A p \in Names(S) : \E f \in S : f[1] = p /\ With(S)[p] = f[2]
<1>1. \A f \in S : f[1] \in Pkgs /\ f[2] \in Versions
  BY DEF Entries
<1>2. Names(S) \subseteq Pkgs
  BY <1>1 DEF Names
<1>3. ASSUME NEW p \in Names(S)
      PROVE  \E f \in S : f[1] = p /\ With(S)[p] = f[2]
  <2>1. \E f \in S : f[1] = p
    BY DEF Names
  <2> DEFINE g == CHOOSE f \in S : f[1] = p
  <2>2. g \in S /\ g[1] = p
    BY <2>1
  <2>3. With(S)[p] = g[2]
    BY <1>2 DEF With
  <2>4. QED
    BY <2>2, <2>3
<1>4. \A p \in Pkgs : p \notin Names(S) => With(S)[p] = db[p]
  BY DEF With
<1>5. \A p \in Pkgs : With(S)[p] \in Versions
  BY <1>1, <1>3, <1>4
<1>6. With(S) \in [Pkgs -> Versions]
  <2>1. With(S) = [p \in Pkgs |-> With(S)[p]]
    BY DEF With
  <2>2. QED
    BY <1>5, <2>1
<1>7. QED
  BY <1>2, <1>3, <1>4, <1>6

\* rpm, and the list of installed packages.
LEMMA RpmTyped ==
  ASSUME TypeInv, NEW y \in Yums, Rpm(y) \/ Query(y) \/ WriteInstalled(y)
  PROVE  Running' /\ file' \in [Pkgs -> Versions] /\ db' \in [Pkgs -> Versions] /\ inst' \in [Pkgs -> Versions]
<1>0. /\ c[y] \in RunRec /\ Sound(c[y], req) /\ BuildTyped /\ Running /\ 0 \in Versions
      /\ file \in [Pkgs -> Versions] /\ db \in [Pkgs -> Versions] /\ inst \in [Pkgs -> Versions]
      /\ c[y].files \in SUBSET Entries
  BY Numbers DEF TypeInv, Running, CacheTyped, RunRec
<1>1. req' = req
  BY DEF Rpm, Query, WriteInstalled, outside, buildVars
\* The old list may stay.
<1>o. OldListStays(y) => Running' /\ inst' = inst
  <2>1. c[y].rc \in {"ok", "fail"}
    BY <1>0 DEF RunRec
  <2>2. QED
    BY <1>0, <1>1, <2>1, Exits DEF OldListStays
<1>2. CASE Rpm(y)
  <2>1. \/ \E S \in SUBSET c[y].files : db' = With(S)
        \/ db' = [db EXCEPT ![c[y].want] = 0]
    BY <1>2 DEF Rpm
  <2>2. db' \in [Pkgs -> Versions]
    BY <1>0, <2>1, WithFact
  <2>3. file' \in [Pkgs -> Versions] /\ inst' = inst
    BY <1>0, <1>2 DEF Rpm
  <2>4. PICK code \in {"ok", "fail"} : Become(y, [c[y] EXCEPT !.at = "qa", !.rc = code])
    BY <1>2 DEF Rpm
  <2> DEFINE r == [c[y] EXCEPT !.at = "qa", !.rc = code]
  <2>5. r \in RunRec /\ r.at = "qa" /\ r.verb = c[y].verb /\ r.want = c[y].want
    BY <1>0 DEF RunRec, Steps
  <2>6. Become(y, r)
    BY <2>4
  <2> HIDE DEF r
  <2>7. Sound(r, req')
    BY <1>0, <2>5 DEF Sound
  <2>8. QED
    BY <1>0, <1>1, <2>2, <2>3, <2>5, <2>6, <2>7, Becomes
<1>3. CASE Query(y)
  <2> DEFINE Q == {<<p, db[p]>> : p \in Pkgs}
             r == [c[y] EXCEPT !.at = "mvinst", !.files = Q]
  <2>1. Q \in SUBSET Entries /\ \A p \in Pkgs : \E f \in Q : f[1] = p
    <3>1. \A p \in Pkgs : <<p, db[p]>> \in Entries
      BY <1>0 DEF Entries
    <3>2. \A p \in Pkgs : <<p, db[p]>> \in Q /\ <<p, db[p]>>[1] = p
      OBVIOUS
    <3>3. Q \subseteq Entries
      BY <3>1
    <3> HIDE DEF Q
    <3>4. QED
      BY <3>2, <3>3
  <2>2. (Become(y, r) /\ inst' = inst) \/ OldListStays(y)
    BY <1>3 DEF Query
  <2>a. UNCHANGED <<file, db>>
    BY <1>3 DEF Query
  <2> HIDE DEF Q
  <2>3. r \in RunRec /\ r.at = "mvinst" /\ r.verb = c[y].verb /\ r.want = c[y].want /\ r.files = Q
    BY <1>0, <2>1 DEF RunRec, Steps
  <2> HIDE DEF r
  <2>4. Sound(r, req')
    BY <1>0, <2>1, <2>3 DEF Sound
  <2>5. QED
    BY <1>0, <1>1, <1>o, <2>2, <2>a, <2>3, <2>4, Becomes
<1>4. CASE WriteInstalled(y)
  <2>0. c[y].at = "mvinst" /\ UNCHANGED <<file, db>>
    BY <1>4 DEF WriteInstalled
  <2>a. CASE OldListStays(y)
    BY <1>0, <1>o, <2>0, <2>a
  <2> SUFFICES ASSUME ~OldListStays(y)
               PROVE  Running' /\ file' \in [Pkgs -> Versions] /\ db' \in [Pkgs -> Versions] /\ inst' \in [Pkgs -> Versions]
    BY <2>a
  <2>1. inst' = [p \in Pkgs |-> (CHOOSE f \in c[y].files : f[1] = p)[2]]
    BY <1>4 DEF WriteInstalled
  <2>2. ASSUME NEW p \in Pkgs PROVE (CHOOSE f \in c[y].files : f[1] = p)[2] \in Versions
    <3>1. \E f \in c[y].files : f[1] = p
      BY <1>0, <2>0 DEF Sound
    <3>2. (CHOOSE f \in c[y].files : f[1] = p) \in c[y].files
      BY <3>1
    <3>3. QED
      BY <1>0, <3>2 DEF Entries
  <2>3. inst' \in [Pkgs -> Versions]
    BY <2>1, <2>2
  <2>4. c[y].rc \in {"ok", "fail"} /\ Exit(y, c[y].rc)
    BY <1>0, <1>4 DEF RunRec, WriteInstalled
  <2>5. Running'
    BY <1>0, <1>1, <2>4, Exits
  <2>6. QED
    BY <1>0, <2>0, <2>3, <2>5
<1>5. QED
  BY <1>2, <1>3, <1>4

-----------------------------------------------------------------------------
(***************************************************************************)
(* Every step.                                                             *)
(***************************************************************************)
MissStep(y) == Subscribe(y) \/ Request(y) \/ Hear(y) \/ NoAnswer(y) \/ Kill(y)
CardStep(y) == \/ FreshCache(y) \/ FetchIndex(y) \/ MoveIndex(y) \/ WriteSerial(y) \/ Resolve(y) \/ FollowPlan(y)
               \/ Fetch(y) \/ Fetched(y) \/ Rpm(y) \/ Query(y) \/ WriteInstalled(y)
Starts(y) == Run(y, "update", Off.want) \/ \E v \in {"install", "remove"}, p \in Pkgs : Run(y, v, p)

\* The kinds of steps.
LEMMA NextCases ==
  ASSUME Next
  PROVE  Service \/ \E y \in Yums : MissStep(y) \/ CardStep(y) \/ Starts(y)
  BY Zenon DEF Next, YumStep, MissStep, CardStep, Starts

\* What each kind leaves alone.
LEMMA CardFrame ==
  ASSUME NEW y, CardStep(y)
  PROVE  UNCHANGED <<mirrorVars, buildVars, old, begun>>
  BY DEF CardStep, FreshCache, FetchIndex, MoveIndex, WriteSerial, Resolve, FollowPlan, Fetch, Fetched, Rpm, Query,
     WriteInstalled, Rest, outside

\* What may be torn.
LEMMA TornFact ==
  ASSUME torn \subseteq {"serial", "installed"}, [Next]_vars
  PROVE  torn' \subseteq {"serial", "installed"}
<1>1. CASE Service \/ UNCHANGED vars
  BY <1>1 DEF Service, vars
<1>2. ASSUME NEW y \in Yums, MissStep(y) PROVE torn' \subseteq {"serial", "installed"}
  BY <1>2 DEF MissStep, Subscribe, Request, Hear, NoAnswer, Kill, Cut
<1>3. ASSUME NEW y \in Yums, CardStep(y)
      PROVE  torn' = torn \/ \E f \in {"serial", "installed"} : torn' \in {torn \ {f}, torn \union {f}}
  BY <1>3 DEF CardStep, FreshCache, FetchIndex, MoveIndex, WriteSerial, Resolve, FollowPlan, Fetch, Fetched, Rpm,
     Query, WriteInstalled, OldListStays, Rest
<1>4. ASSUME NEW y \in Yums, Starts(y) PROVE torn' = torn
  BY <1>4 DEF Starts, Run
<1>5. QED
  BY <1>1, <1>2, <1>3, <1>4, NextCases

\* The cache and the database during a request.
LEMMA MissFrame ==
  ASSUME NEW y, MissStep(y)
  PROVE  UNCHANGED <<mirrorVars, cache, db, old, begun>>
  BY DEF MissStep, Subscribe, Request, Hear, NoAnswer, Kill

\* A run that begins changes only itself.
LEMMA StartFrame ==
  ASSUME NEW y, Starts(y)
  PROVE  UNCHANGED <<mirrorVars, buildVars, cache, db, torn, old>>
  BY DEF Starts, Run

\* The steps of the mirror and the service leave requests as they are.
LEMMA ServiceFrame ==
  ASSUME Service
  PROVE  ServiceStep /\ UNCHANGED <<c, cache, db, torn, begun, req>> /\ old' \in {old, signed}
<1>1. ServiceStep => req' = req
  BY DEF ServiceStep, Worker, Take, Look, Build, Publish, Index, Finish, service, Stop, Load, Rewrite, StopLoading, Tick, Receive,
     Undelivered, Again, buildVars
<1>2. QED
  BY <1>1 DEF Service

\* What any step is to the mirror and to the build service.
LEMMA OnService ==
  ASSUME TypeInv, [Next]_vars
  PROVE  MirrorAct /\ (BuildAct \/ (UNCHANGED buildVars /\ UNCHANGED mirrorVars))
<1>1. CASE UNCHANGED vars
  BY <1>1 DEF vars, MirrorAct
<1>2. CASE Service
  BY <1>2, ServiceFrame, ServiceOnMirror DEF BuildAct, TypeInv
<1>3. ASSUME NEW y \in Yums, MissStep(y) PROVE MirrorAct /\ BuildAct
  <2>1. UNCHANGED mirrorVars
    BY <1>3, MissFrame
  <2>2. Asks \/ Attends
    BY <1>3, MissTyped DEF MissStep
  <2>3. QED
    BY <2>1, <2>2 DEF BuildAct, MirrorAct
<1>4. ASSUME NEW y \in Yums, CardStep(y) \/ Starts(y) PROVE UNCHANGED buildVars /\ UNCHANGED mirrorVars
  BY <1>4, CardFrame, StartFrame
<1>5. QED
  BY <1>1, <1>2, <1>3, <1>4, NextCases DEF MirrorAct

\* The types hold at the start ...
LEMMA TypeStart == Init => TypeInv
<1> SUFFICES ASSUME Init PROVE TypeInv
  OBVIOUS
<1>1. MirrorInv /\ BuildTyped
  BY MirrorStart, BuildStart DEF Init
<1>2. Running
  BY OffFact DEF Init, Running
<1>t. torn \subseteq {"serial", "installed"}
  BY DEF Init
<1>3. CacheTyped
  <2>1. PICK S \in SUBSET Upstream : /\ db = [q \in Pkgs |-> IF q \in S THEN 1 ELSE 0]
                                     /\ cidx = IF S = {} THEN NoIndex ELSE signed
    BY DEF Init
  <2>2. db \in [Pkgs -> Versions] /\ file \in [Pkgs -> Versions] /\ inst \in [Pkgs -> Versions]
    BY <2>1, Numbers DEF Init
  <2>3. cidx \in Lists /\ old \in Lists
    BY <1>1, <2>1, Numbers DEF Init, MirrorInv, MirrorTypeOK
  <2>4. cserial \in 0..MaxIndex /\ PlanOK(plan) /\ begun \in 0..MaxYums
    BY Numbers, YumAssumption DEF Init
  <2>5. QED
    BY <2>2, <2>3, <2>4 DEF CacheTyped
<1>4. QED
  BY <1>1, <1>2, <1>t, <1>3 DEF TypeInv

\* ... and after every step.
LEMMA TypeKept ==
  ASSUME TypeInv, [Next]_vars
  PROVE  TypeInv'
<1>1. MirrorInv'
  BY OnService, MirrorTyped, SerialsKept DEF TypeInv, MirrorInv
<1>2. BuildTyped'
  <2>1. CASE BuildAct
    BY <2>1, BuildKept DEF TypeInv
  <2>2. CASE UNCHANGED buildVars
    BY <2>2 DEF buildVars, TypeInv, BuildTyped, Asked
  <2>3. QED
    BY <2>1, <2>2, OnService
<1>3. Running' /\ CacheTyped'
  <2>0. Running /\ CacheTyped /\ signed \in Lists
    BY DEF TypeInv, MirrorInv, MirrorTypeOK
  <2>1. CASE UNCHANGED vars
    BY <2>0, <2>1 DEF vars, cache, Running, CacheTyped, buildVars
  <2>2. CASE Service
    BY <2>0, <2>2, ServiceFrame DEF cache, Running, CacheTyped
  <2>3. ASSUME NEW y \in Yums, MissStep(y) PROVE Running' /\ CacheTyped'
    <3>1. Running'
      BY <2>3, MissTyped DEF MissStep
    <3>2. UNCHANGED <<cache, db, old, begun>>
      BY <2>3, MissFrame
    <3>3. QED
      BY <2>0, <3>1, <3>2 DEF cache, CacheTyped
  <2>4. ASSUME NEW y \in Yums, Starts(y) PROVE Running' /\ CacheTyped'
    <3>1. Running' /\ begun' \in 0..MaxYums
      <4>1. CASE Run(y, "update", Off.want)
        BY <4>1, RunTyped
      <4>2. ASSUME NEW p \in Pkgs, NEW v \in {"install", "remove"}, Run(y, v, p)
            PROVE  Running' /\ begun' \in 0..MaxYums
        BY <4>2, RunTyped
      <4>3. QED
        BY <2>4, <4>1, <4>2 DEF Starts
    <3>2. UNCHANGED <<cache, db, old>>
      BY <2>4, StartFrame
    <3>3. QED
      BY <2>0, <3>1, <3>2 DEF cache, CacheTyped
  <2>5. ASSUME NEW y \in Yums, CardStep(y) PROVE Running' /\ CacheTyped'
    <3>0. UNCHANGED <<old, begun>>
      BY <2>5, CardFrame
    <3>1. CASE FreshCache(y) \/ FetchIndex(y) \/ MoveIndex(y) \/ WriteSerial(y)
      <4>1. Running' /\ cidx' \in Lists /\ cserial' \in 0..MaxIndex
        BY <3>1, MakecacheTyped
      <4>2. UNCHANGED <<plan, file, inst, db>>
        BY <3>1 DEF FreshCache, FetchIndex, MoveIndex, WriteSerial, Rest, cache
      <4>3. QED
        BY <2>0, <3>0, <4>1, <4>2 DEF CacheTyped
    <3>2. CASE Resolve(y) \/ FollowPlan(y)
      <4>1. Running' /\ PlanOK(plan')
        BY <3>2, PlanningTyped
      <4>2. UNCHANGED <<cidx, cserial, file, inst, db>>
        BY <3>2 DEF Resolve, FollowPlan, Rest, cache
      <4>3. QED
        BY <2>0, <3>0, <4>1, <4>2 DEF CacheTyped
    <3>3. CASE Fetch(y) \/ Fetched(y)
      <4>1. Running' /\ file' \in [Pkgs -> Versions]
        BY <3>3, FetchTyped
      <4>2. UNCHANGED <<cidx, cserial, plan, inst, db>>
        BY <3>3 DEF Fetch, Fetched, Rest, cache
      <4>3. QED
        BY <2>0, <3>0, <4>1, <4>2 DEF CacheTyped
    <3>4. CASE Rpm(y) \/ Query(y) \/ WriteInstalled(y)
      <4>1. /\ Running' /\ file' \in [Pkgs -> Versions] /\ db' \in [Pkgs -> Versions]
            /\ inst' \in [Pkgs -> Versions]
        BY <3>4, RpmTyped
      <4>2. UNCHANGED <<cidx, cserial, plan>>
        BY <3>4 DEF Rpm, Query, WriteInstalled, Rest, cache
      <4>3. QED
        BY <2>0, <3>0, <4>1, <4>2 DEF CacheTyped
    <3>5. QED
      BY <2>5, <3>1, <3>2, <3>3, <3>4 DEF CardStep
  <2>6. QED
    BY <2>1, <2>2, <2>3, <2>4, <2>5, NextCases
<1>4. QED
  BY <1>1, <1>2, <1>3, TornFact DEF TypeInv

\* The types of the model.
LEMMA TypeEnough == TypeInv => TypeOK
<1> SUFFICES ASSUME TypeInv PROVE TypeOK
  OBVIOUS
<1>1. MirrorTypeOK /\ BuildTypeOK
  BY BuildTypes DEF TypeInv, MirrorInv
<1>2. ASSUME NEW y \in Yums
      PROVE  /\ c[y].at \in {"off", "fresh", "fetchidx", "mv", "echo", "resolve", "planned", "sub", "pub", "hang", "wait",
                             "fetch", "rpm", "qa", "mvinst"}
             /\ c[y].verb \in {"none", "install", "update", "remove"} /\ c[y].rc \in {"ok", "fail"}
             /\ c[y].id \in 0..MaxReqs /\ c[y].todo \subseteq Pkgs /\ c[y].pos \in 0..(Cardinality(Pkgs) + 1)
  <2>1. c[y] \in RunRec
    BY DEF TypeInv, Running
  <2>2. c[y].id \in {0} \union Ids
    BY <2>1 DEF RunRec
  <2>3. c[y].id \in 0..MaxReqs
    BY <2>2, BuildAssumption DEF Ids
  <2>4. QED
    BY <2>1, <2>3 DEF RunRec, Steps
<1>3. QED
  BY <1>1, <1>2 DEF TypeInv, CacheTyped, TypeOK

\* Whatever fails, overlaps, is replayed or killed, every variable keeps its type (Yum's TypeOK).
THEOREM TypeInvariant == Spec => [](TypeInv /\ TypeOK)
<1>1. TypeInv /\ [Next]_vars => TypeInv'
  BY TypeKept
<1>2. QED
  BY <1>1, TypeStart, TypeEnough, PTL DEF Spec

-----------------------------------------------------------------------------
(***************************************************************************)
(* Every run ends: each step of a run goes on.                             *)
(***************************************************************************)
Rank(l) == CHOOSE i \in DOMAIN Place : Place[i] = l
Second(r) == r.at \in {"echo", "mv", "fetchidx"} /\ r.ret = "fresh"

\* No place comes twice, so each has its number.
LEMMA Ranks ==
  /\ Rank("off") = 1 /\ Rank("mvinst") = 2 /\ Rank("qa") = 3 /\ Rank("rpm") = 4 /\ Rank("fetch") = 5
  /\ Rank("wait") = 6 /\ Rank("pub") = 7 /\ Rank("sub") = 8 /\ Rank("planned") = 9 /\ Rank("resolve") = 10
  /\ Rank("echo") = 11 /\ Rank("mv") = 12 /\ Rank("fetchidx") = 13 /\ Rank("fresh") = 14
  /\ Len(Place) = 14
<1>1. /\ DOMAIN Place = 1..14 /\ Len(Place) = 14
      /\ Place[1] = "off" /\ Place[2] = "mvinst" /\ Place[3] = "qa" /\ Place[4] = "rpm" /\ Place[5] = "fetch"
      /\ Place[6] = "wait" /\ Place[7] = "pub" /\ Place[8] = "sub" /\ Place[9] = "planned" /\ Place[10] = "resolve"
      /\ Place[11] = "echo" /\ Place[12] = "mv" /\ Place[13] = "fetchidx" /\ Place[14] = "fresh"
  BY DEF Place
<1>2. \A i, j \in 1..14 : Place[i] = Place[j] => i = j
  BY DEF Place
<1> HIDE DEF Place
<1>3. ASSUME NEW i \in 1..14 PROVE Rank(Place[i]) = i
  BY <1>1, <1>2 DEF Rank
<1>4. QED
  BY <1>1, <1>3

\* How far a run has to go, by its place.
LEMMA StageFact ==
  ASSUME NEW r
  PROVE  /\ ~Second(r) => Stage(r) = Rank(r.at) + 0
         /\ Second(r) => Stage(r) = Rank(r.at) + 14
<1>1. Len(Place) = 14
  BY Ranks
<1>2. QED
  BY <1>1 DEF Stage, Rank, Second

\* The goes left are the flags not yet set.
LEMMA TriesFact ==
  ASSUME NEW r \in RunRec
  PROVE  Tries(r) = (IF r.built THEN 0 ELSE 1) + (IF r.refreshed THEN 0 ELSE 1)
<1> DEFINE T == {t \in {"built", "refreshed"} : ~r[t]}
<1>0. r["built"] = r.built /\ r["refreshed"] = r.refreshed /\ r.built \in BOOLEAN /\ r.refreshed \in BOOLEAN
  BY DEF RunRec
<1>1. Tries(r) = Cardinality(T)
  BY DEF Tries
<1>2. /\ Cardinality({}) = 0 /\ Cardinality({"built"}) = 1 /\ Cardinality({"refreshed"}) = 1
      /\ Cardinality({"built", "refreshed"}) = 2
  <2>1. IsFiniteSet({"built"}) /\ Cardinality({"built"}) = 1 /\ Cardinality({"refreshed"}) = 1
    BY FS_Singleton
  <2>2. Cardinality({"built"} \union {"refreshed"}) = Cardinality({"built"}) + 1
    BY <2>1, FS_AddElement
  <2>3. {"built"} \union {"refreshed"} = {"built", "refreshed"}
    OBVIOUS
  <2>4. QED
    BY <2>1, <2>2, <2>3, FS_EmptySet
<1>3. CASE r.built /\ r.refreshed
  <2>1. T = {}
    BY <1>0, <1>3
  <2>2. QED
    BY <1>1, <1>2, <1>3, <2>1
<1>4. CASE r.built /\ ~r.refreshed
  <2>1. T = {"refreshed"}
    BY <1>0, <1>4
  <2>2. QED
    BY <1>1, <1>2, <1>4, <2>1
<1>5. CASE ~r.built /\ r.refreshed
  <2>1. T = {"built"}
    BY <1>0, <1>5
  <2>2. QED
    BY <1>1, <1>2, <1>5, <2>1
<1>6. CASE ~r.built /\ ~r.refreshed
  <2>1. T = {"built", "refreshed"}
    BY <1>0, <1>6
  <2>2. QED
    BY <1>1, <1>2, <1>6, <2>1
<1>7. QED
  BY <1>0, <1>3, <1>4, <1>5, <1>6

\* A step towards the end within a go.
LEMMA Nearer ==
  ASSUME NEW r \in RunRec, NEW s \in RunRec, s.built = r.built, s.refreshed = r.refreshed,
         Left(s) = Left(r), Stage(s) < Stage(r)
  PROVE  Before(s, r)
<1>1. Tries(s) = Tries(r)
  BY TriesFact
<1>2. QED
  BY <1>1 DEF Before

\* What is left to build at each place.
LEMMA LeftFact ==
  ASSUME NEW r \in RunRec
  PROVE  /\ r.at \in {"sub", "pub", "wait"} => Left(r) = Cardinality(r.todo)
         /\ r.at \in {"planned", "resolve", "echo", "mv", "fetchidx", "fresh"} => Left(r) = Cardinality(Pkgs) + 1
         /\ r.at \in {"fetch", "rpm", "qa", "mvinst"} => Left(r) = 0
<1>1. CASE r.at \in {"sub", "pub", "wait"}
  BY <1>1 DEF Left
<1>2. CASE r.at \in {"planned", "resolve", "echo", "mv", "fetchidx", "fresh"}
  <2>1. Stage(r) > 8
    BY <1>2, StageFact, Ranks
  <2>2. QED
    BY <1>2, <2>1 DEF Left
<1>3. CASE r.at \in {"fetch", "rpm", "qa", "mvinst"}
  <2>1. ~(Stage(r) > 8)
    BY <1>3, StageFact, Ranks DEF Second
  <2>2. QED
    BY <1>3, <2>1 DEF Left
<1>4. QED
  BY <1>1, <1>2, <1>3

\* The other runs stay as they are.
LEMMA OnlyOne ==
  ASSUME Running, NEW y \in Yums, NEW r, Become(y, r)
  PROVE  c'[y] = r /\ \A o \in Yums : o # y => c'[o] = c[o]
  BY DEF Running, Become

\* The run has only a new place.
LEMMA GotoFact ==
  ASSUME Running, NEW y \in Yums, NEW l, Goto(y, l)
  PROVE  c'[y] = [c[y] EXCEPT !.at = l] /\ c'[y].at = l /\ \A o \in Yums : o # y => c'[o] = c[o]
<1>1. c[y] \in RunRec
  BY DEF Running
<1>2. c'[y] = [c[y] EXCEPT !.at = l] /\ \A o \in Yums : o # y => c'[o] = c[o]
  BY DEF Goto, Running
<1>3. [c[y] EXCEPT !.at = l].at = l
  BY <1>1 DEF RunRec
<1>4. QED
  BY <1>2, <1>3

\* The run is over.
LEMMA ExitFact ==
  ASSUME Running, NEW y \in Yums, NEW code, Exit(y, code)
  PROVE  c'[y].at = "off" /\ c'[y].rc = code /\ \A o \in Yums : o # y => c'[o] = c[o]
<1>1. c'[y] = [Off EXCEPT !.rc = code] /\ \A o \in Yums : o # y => c'[o] = c[o]
  BY DEF Exit, Become, Running
<1>2. Off \in RunRec /\ Off.at = "off"
  BY OffFact DEF Off
<1> HIDE DEF Off
<1>3. [Off EXCEPT !.rc = code].at = "off" /\ [Off EXCEPT !.rc = code].rc = code
  BY <1>2 DEF RunRec
<1>4. QED
  BY <1>1, <1>3

\* Fetching the index and planning.
LEMMA GoesIndex ==
  ASSUME TypeInv, NEW y \in Yums, c'[y].at # "off",
         FreshCache(y) \/ FetchIndex(y) \/ MoveIndex(y) \/ WriteSerial(y) \/ Resolve(y)
  PROVE  (\A o \in Yums : o # y => c'[o] = c[o]) /\ Before(c'[y], c[y])
<1>0. c[y] \in RunRec /\ Running
  BY DEF TypeInv, Running
<1>1. c'[y] \in RunRec
  BY MakecacheTyped, PlanningTyped DEF Running
<1>2. ASSUME c'[y].built = c[y].built, c'[y].refreshed = c[y].refreshed, \A o \in Yums : o # y => c'[o] = c[o],
             \/ c[y].at = "fresh" /\ (c'[y].at = "resolve" \/ (c'[y].at = "fetchidx" /\ c'[y].ret = "resolve"))
             \/ c[y].at = "fetchidx" /\ c'[y].at = "mv" /\ c'[y].ret = c[y].ret
             \/ c[y].at = "mv" /\ c'[y].at = "echo" /\ c'[y].ret = c[y].ret
             \/ c[y].at = "echo" /\ c'[y].at = c[y].ret /\ c[y].ret \in {"resolve", "fresh"}
             \/ c[y].at = "resolve" /\ c'[y].at = "planned"
      PROVE  (\A o \in Yums : o # y => c'[o] = c[o]) /\ Before(c'[y], c[y])
  <2>1. Stage(c'[y]) < Stage(c[y])
    BY <1>2, StageFact, Ranks DEF Second
  <2>2. Left(c'[y]) = Cardinality(Pkgs) + 1 /\ Left(c[y]) = Cardinality(Pkgs) + 1
    BY <1>0, <1>1, <1>2, LeftFact
  <2>3. QED
    BY <1>0, <1>1, <1>2, <2>1, <2>2, Nearer
<1>3. CASE FreshCache(y)
  <2>1. c[y].at = "fresh"
    BY <1>3 DEF FreshCache
  <2>2. CASE Goto(y, "resolve")
    <3>1. c'[y] = [c[y] EXCEPT !.at = "resolve"] /\ \A o \in Yums : o # y => c'[o] = c[o]
      BY <1>0, <2>2, GotoFact
    <3>2. QED
      BY <1>0, <1>2, <2>1, <3>1 DEF RunRec
  <2>3. CASE Become(y, [c[y] EXCEPT !.at = "fetchidx", !.ret = "resolve"])
    <3>1. c'[y] = [c[y] EXCEPT !.at = "fetchidx", !.ret = "resolve"] /\ \A o \in Yums : o # y => c'[o] = c[o]
      BY <1>0, <2>3, OnlyOne
    <3>2. QED
      BY <1>0, <1>2, <2>1, <3>1 DEF RunRec
  <2>4. QED
    BY <1>3, <2>2, <2>3 DEF FreshCache
<1>4. CASE FetchIndex(y)
  <2>1. c[y].at = "fetchidx"
    BY <1>4 DEF FetchIndex
  <2>2. ~Exit(y, "fail")
    BY <1>0, ExitFact
  <2>3. PICK l : Become(y, [c[y] EXCEPT !.at = "mv", !.new = l])
    BY <1>4, <2>2 DEF FetchIndex
  <2>4. c'[y] = [c[y] EXCEPT !.at = "mv", !.new = l] /\ \A o \in Yums : o # y => c'[o] = c[o]
    BY <1>0, <2>3, OnlyOne
  <2>5. QED
    BY <1>0, <1>2, <2>1, <2>4 DEF RunRec
<1>5. CASE MoveIndex(y)
  <2>1. c[y].at = "mv" /\ Goto(y, "echo")
    BY <1>5 DEF MoveIndex
  <2>2. c'[y] = [c[y] EXCEPT !.at = "echo"] /\ \A o \in Yums : o # y => c'[o] = c[o]
    BY <1>0, <2>1, GotoFact
  <2>3. QED
    BY <1>0, <1>2, <2>1, <2>2 DEF RunRec
<1>6. CASE WriteSerial(y)
  <2>1. c[y].at = "echo" /\ Become(y, [c[y] EXCEPT !.at = c[y].ret, !.new = NoIndex])
    BY <1>6 DEF WriteSerial
  <2>2. c'[y] = [c[y] EXCEPT !.at = c[y].ret, !.new = NoIndex] /\ \A o \in Yums : o # y => c'[o] = c[o]
    BY <1>0, <2>1, OnlyOne
  <2>3. QED
    BY <1>0, <1>2, <2>1, <2>2 DEF RunRec
<1>7. CASE Resolve(y)
  <2>1. c[y].at = "resolve" /\ Goto(y, "planned")
    BY <1>7 DEF Resolve
  <2>2. c'[y] = [c[y] EXCEPT !.at = "planned"] /\ \A o \in Yums : o # y => c'[o] = c[o]
    BY <1>0, <2>1, GotoFact
  <2>3. QED
    BY <1>0, <1>2, <2>1, <2>2 DEF RunRec
<1>8. QED
  BY <1>3, <1>4, <1>5, <1>6, <1>7

\* Following the plan: to a build, of no more packages than there are, or to fetching.
LEMMA GoesPlan ==
  ASSUME TypeInv, NEW y \in Yums, c'[y].at # "off", FollowPlan(y)
  PROVE  (\A o \in Yums : o # y => c'[o] = c[o]) /\ Before(c'[y], c[y])
<1>0. c[y] \in RunRec /\ Running /\ c'[y] \in RunRec /\ Cardinality(Pkgs) \in Nat /\ c[y].at = "planned"
  BY PlanningTyped, Numbers DEF TypeInv, Running, FollowPlan
<1>1. \A code : ~Exit(y, code)
  BY <1>0, ExitFact
<1>2. CASE Become(y, [c[y] EXCEPT !.at = "sub", !.todo = plan.missing])
  <2>1. c'[y] = [c[y] EXCEPT !.at = "sub", !.todo = plan.missing] /\ \A o \in Yums : o # y => c'[o] = c[o]
    BY <1>0, <1>2, OnlyOne
  <2>2. /\ c'[y].at = "sub" /\ c'[y].built = c[y].built /\ c'[y].refreshed = c[y].refreshed
        /\ c'[y].todo \subseteq Pkgs
    BY <1>0, <2>1 DEF RunRec
  <2>3. Cardinality(c'[y].todo) <= Cardinality(Pkgs) /\ Cardinality(c'[y].todo) \in Nat
    BY <2>2, MirrorAssumption, FS_Subset, FS_CardinalityType
  <2>4. Left(c'[y]) < Left(c[y])
    BY <1>0, <2>2, <2>3, LeftFact
  <2>5. Tries(c'[y]) = Tries(c[y])
    BY <1>0, <2>2, TriesFact
  <2>6. QED
    BY <2>1, <2>4, <2>5 DEF Before
<1>3. CASE Become(y, [c[y] EXCEPT !.at = "fetch", !.pos = 1, !.files = {}, !.nodeps = @ \/ plan.unmet])
  <2>1. /\ c'[y] = [c[y] EXCEPT !.at = "fetch", !.pos = 1, !.files = {}, !.nodeps = @ \/ plan.unmet]
        /\ \A o \in Yums : o # y => c'[o] = c[o]
    BY <1>0, <1>3, OnlyOne
  <2>2. c'[y].at = "fetch" /\ c'[y].built = c[y].built /\ c'[y].refreshed = c[y].refreshed
    BY <1>0, <2>1 DEF RunRec
  <2>4. Left(c'[y]) < Left(c[y])
    BY <1>0, <2>2, LeftFact
  <2>5. Tries(c'[y]) = Tries(c[y])
    BY <1>0, <2>2, TriesFact
  <2>6. QED
    BY <2>1, <2>4, <2>5 DEF Before
<1>4. QED
  BY <1>1, <1>2, <1>3 DEF FollowPlan

\* Asking for a build, package by package, and once.
LEMMA GoesMiss ==
  ASSUME TypeInv, NEW y \in Yums, c'[y].at \notin {"off", "hang"}, c'[y] # c[y], MissStep(y)
  PROVE  (\A o \in Yums : o # y => c'[o] = c[o]) /\ Before(c'[y], c[y])
<1>0. c[y] \in RunRec /\ Running /\ c'[y] \in RunRec /\ Sound(c[y], req) /\ c[y].todo \subseteq Pkgs
  BY MissTyped DEF TypeInv, Running, MissStep, RunRec
<1>1. \A code : ~Exit(y, code)
  BY <1>0, ExitFact
<1>2. CASE Subscribe(y)
  <2>1. c[y].at = "sub" /\ Become(y, [c[y] EXCEPT !.at = "pub", !.id = Len(req) + 1])
    BY <1>2 DEF Subscribe
  <2>2. c'[y] = [c[y] EXCEPT !.at = "pub", !.id = Len(req) + 1] /\ \A o \in Yums : o # y => c'[o] = c[o]
    BY <1>0, <2>1, OnlyOne
  <2>3. /\ c'[y].at = "pub" /\ c'[y].built = c[y].built /\ c'[y].refreshed = c[y].refreshed
        /\ c'[y].todo = c[y].todo
    BY <1>0, <2>2 DEF RunRec
  <2>4. Left(c'[y]) = Left(c[y])
    BY <1>0, <2>1, <2>3, LeftFact
  <2>5. Stage(c'[y]) < Stage(c[y])
    BY <2>1, <2>3, StageFact, Ranks DEF Second
  <2>6. QED
    BY <1>0, <2>2, <2>3, <2>4, <2>5, Nearer
<1>3. CASE Request(y)
  <2>1. c[y].at = "pub" /\ Goto(y, "wait")
    BY <1>0, <1>3, GotoFact DEF Request
  <2>2. c'[y] = [c[y] EXCEPT !.at = "wait"] /\ \A o \in Yums : o # y => c'[o] = c[o]
    BY <1>0, <2>1, GotoFact
  <2>3. /\ c'[y].at = "wait" /\ c'[y].built = c[y].built /\ c'[y].refreshed = c[y].refreshed
        /\ c'[y].todo = c[y].todo
    BY <1>0, <2>2 DEF RunRec
  <2>4. Left(c'[y]) = Left(c[y])
    BY <1>0, <2>1, <2>3, LeftFact
  <2>5. Stage(c'[y]) < Stage(c[y])
    BY <2>1, <2>3, StageFact, Ranks DEF Second
  <2>6. QED
    BY <1>0, <2>2, <2>3, <2>4, <2>5, Nearer
<1>4. CASE Hear(y)
  <2>1. c[y].at = "wait" /\ Become(y, Built(y))
    BY <1>1, <1>4 DEF Hear
  <2> DEFINE p == Pkg(c[y].id)
             left == c[y].todo \ {p}
  <2>2. p \in c[y].todo /\ ~c[y].built
    BY <1>0, <2>1 DEF Sound, Pkg
  <2>3. IsFiniteSet(c[y].todo)
    BY <1>0, MirrorAssumption, FS_Subset
  <2>4. c'[y] = Built(y) /\ \A o \in Yums : o # y => c'[o] = c[o]
    BY <1>0, <2>1, OnlyOne
  <2>5. CASE left # {}
    <3>1. c'[y] = [c[y] EXCEPT !.at = "sub", !.todo = left]
      BY <2>4, <2>5 DEF Built
    <3>2. /\ c'[y].at = "sub" /\ c'[y].built = c[y].built /\ c'[y].refreshed = c[y].refreshed
          /\ c'[y].todo = left
      BY <1>0, <3>1 DEF RunRec
    <3>3. Cardinality(left) = Cardinality(c[y].todo) - 1 /\ Cardinality(c[y].todo) \in Nat
      BY <2>2, <2>3, FS_RemoveElement, FS_CardinalityType
    <3> HIDE DEF left
    <3>4. Left(c'[y]) < Left(c[y])
      BY <1>0, <2>1, <3>2, <3>3, LeftFact
    <3>5. Tries(c'[y]) = Tries(c[y])
      BY <1>0, <3>2, TriesFact
    <3>6. QED
      BY <2>4, <3>4, <3>5 DEF Before
  <2>6. CASE left = {}
    <3>1. c'[y] = [c[y] EXCEPT !.at = "fetchidx", !.ret = "fresh", !.built = TRUE, !.todo = {}, !.id = 0]
      BY <2>4, <2>6 DEF Built
    <3>2. c'[y].built /\ c'[y].refreshed = c[y].refreshed
      BY <1>0, <3>1 DEF RunRec
    <3>3. Tries(c'[y]) < Tries(c[y])
      BY <1>0, <2>2, <3>2, TriesFact
    <3>4. QED
      BY <2>4, <3>3 DEF Before
  <2>7. QED
    BY <2>5, <2>6
<1>5. QED
  BY <1>1, <1>2, <1>3, <1>4 DEF MissStep, NoAnswer, Kill

\* Fetching, line by line, with one refresh of the index; then rpm.
LEMMA GoesFetch ==
  ASSUME TypeInv, NEW y \in Yums, c'[y].at # "off",
         Fetch(y) \/ Fetched(y) \/ Rpm(y) \/ Query(y) \/ WriteInstalled(y)
  PROVE  (\A o \in Yums : o # y => c'[o] = c[o]) /\ Before(c'[y], c[y])
<1>0. /\ c[y] \in RunRec /\ Running /\ c'[y] \in RunRec /\ Cardinality(Pkgs) \in Nat
      /\ c[y].pos \in 0..(Cardinality(Pkgs) + 1)
  BY FetchTyped, RpmTyped, Numbers DEF TypeInv, Running, RunRec
<1>1. \A code : ~Exit(y, code)
  BY <1>0, ExitFact
<1>2. CASE Fetch(y)
  <2> DEFINE i == c[y].pos
             f == <<plan.get[i][1], plan.get[i][2]>>
  <2>1. c[y].at = "fetch"
    BY <1>2 DEF Fetch
  <2>2. \/ Become(y, [c[y] EXCEPT !.pos = @ + 1, !.files = @ \union {f}])
        \/ ~c[y].refreshed /\ Become(y, [c[y] EXCEPT !.at = "fetchidx", !.ret = "fresh", !.refreshed = TRUE])
    BY <1>1, <1>2 DEF Fetch
  <2> HIDE DEF f
  <2>3. CASE Become(y, [c[y] EXCEPT !.pos = @ + 1, !.files = @ \union {f}])
    <3>1. /\ c'[y] = [c[y] EXCEPT !.pos = @ + 1, !.files = @ \union {f}]
          /\ \A o \in Yums : o # y => c'[o] = c[o]
      BY <1>0, <2>3, OnlyOne
    <3>2. /\ c'[y].at = "fetch" /\ c'[y].built = c[y].built /\ c'[y].refreshed = c[y].refreshed
          /\ c'[y].pos = i + 1
      BY <1>0, <2>1, <3>1 DEF RunRec
    <3>3. Stage(c'[y]) = Stage(c[y])
      BY <2>1, <3>2, StageFact, Ranks DEF Second
    <3>4. Lines(c'[y]) < Lines(c[y])
      BY <1>0, <3>2 DEF Lines
    <3>5. Tries(c'[y]) = Tries(c[y])
      BY <1>0, <3>2, TriesFact
    <3>6. QED
      BY <3>1, <3>3, <3>4, <3>5 DEF Before
  <2>4. CASE ~c[y].refreshed /\ Become(y, [c[y] EXCEPT !.at = "fetchidx", !.ret = "fresh", !.refreshed = TRUE])
    <3>1. /\ c'[y] = [c[y] EXCEPT !.at = "fetchidx", !.ret = "fresh", !.refreshed = TRUE]
          /\ \A o \in Yums : o # y => c'[o] = c[o]
      BY <1>0, <2>4, OnlyOne
    <3>2. c'[y].built = c[y].built /\ c'[y].refreshed
      BY <1>0, <3>1 DEF RunRec
    <3>3. Tries(c'[y]) < Tries(c[y])
      BY <1>0, <2>4, <3>2, TriesFact
    <3>4. QED
      BY <3>1, <3>3 DEF Before
  <2>5. QED
    BY <2>2, <2>3, <2>4
<1>3. ASSUME c'[y].built = c[y].built, c'[y].refreshed = c[y].refreshed, \A o \in Yums : o # y => c'[o] = c[o],
             \/ c[y].at = "fetch" /\ c'[y].at = "rpm"
             \/ c[y].at = "rpm" /\ c'[y].at = "qa"
             \/ c[y].at = "qa" /\ c'[y].at = "mvinst"
      PROVE  (\A o \in Yums : o # y => c'[o] = c[o]) /\ Before(c'[y], c[y])
  <2>1. Stage(c'[y]) < Stage(c[y])
    BY <1>3, StageFact, Ranks DEF Second
  <2>2. Left(c'[y]) = 0 /\ Left(c[y]) = 0
    BY <1>0, <1>3, LeftFact
  <2>3. QED
    BY <1>0, <1>3, <2>1, <2>2, Nearer
<1>4. CASE Fetched(y)
  <2>1. c[y].at = "fetch" /\ Goto(y, "rpm")
    BY <1>4 DEF Fetched
  <2>2. c'[y] = [c[y] EXCEPT !.at = "rpm"] /\ \A o \in Yums : o # y => c'[o] = c[o]
    BY <1>0, <2>1, GotoFact
  <2>3. QED
    BY <1>0, <1>3, <2>1, <2>2 DEF RunRec
<1>5. CASE Rpm(y)
  <2>1. PICK code : c[y].at = "rpm" /\ Become(y, [c[y] EXCEPT !.at = "qa", !.rc = code])
    BY <1>5 DEF Rpm
  <2>2. c'[y] = [c[y] EXCEPT !.at = "qa", !.rc = code] /\ \A o \in Yums : o # y => c'[o] = c[o]
    BY <1>0, <2>1, OnlyOne
  <2>3. QED
    BY <1>0, <1>3, <2>1, <2>2 DEF RunRec
<1>6. CASE Query(y)
  <2>1. PICK Q : c[y].at = "qa" /\ Become(y, [c[y] EXCEPT !.at = "mvinst", !.files = Q])
    BY <1>1, <1>6 DEF Query, OldListStays
  <2>2. c'[y] = [c[y] EXCEPT !.at = "mvinst", !.files = Q] /\ \A o \in Yums : o # y => c'[o] = c[o]
    BY <1>0, <2>1, OnlyOne
  <2>3. QED
    BY <1>0, <1>3, <2>1, <2>2 DEF RunRec
<1>7. CASE WriteInstalled(y)
  BY <1>1, <1>7 DEF WriteInstalled, OldListStays
<1>8. QED
  BY <1>2, <1>4, <1>5, <1>6, <1>7

\* Any step of a run that does not end it takes it further.
LEMMA GoesOnStep ==
  ASSUME TypeInv, [Next]_vars, NEW z \in Yums, c'[z] # c[z], c[z].at # "off", c'[z].at \notin {"off", "hang"}
  PROVE  Before(c'[z], c[z])
<1>1. CASE UNCHANGED vars \/ Service
  BY <1>1, ServiceFrame DEF vars
<1>2. ASSUME NEW y \in Yums, MissStep(y) PROVE Before(c'[z], c[z])
  <2>1. Running
    BY DEF TypeInv
  <2>2. \A o \in Yums : o # y => c'[o] = c[o]
    BY <1>2, <2>1, OnlyOne, GotoFact, ExitFact DEF MissStep, Subscribe, Request, Hear, NoAnswer, Kill
  <2>3. z = y
    BY <2>2
  <2>4. QED
    BY <1>2, <2>3, GoesMiss
<1>3. ASSUME NEW y \in Yums, CardStep(y) PROVE Before(c'[z], c[z])
  <2>1. Running
    BY DEF TypeInv
  <2>2. \A o \in Yums : o # y => c'[o] = c[o]
    <3>1. FreshCache(y) \/ FetchIndex(y) \/ MoveIndex(y) \/ WriteSerial(y) \/ Resolve(y) \/ FollowPlan(y)
          => \A o \in Yums : o # y => c'[o] = c[o]
      BY <2>1, OnlyOne, GotoFact, ExitFact DEF FreshCache, FetchIndex, MoveIndex, WriteSerial, Resolve, FollowPlan
    <3>2. Fetch(y) \/ Fetched(y) \/ Rpm(y) \/ Query(y) \/ WriteInstalled(y)
          => \A o \in Yums : o # y => c'[o] = c[o]
      BY <2>1, OnlyOne, GotoFact, ExitFact DEF Fetch, Fetched, Rpm, Query, WriteInstalled, OldListStays
    <3>3. QED
      BY <1>3, <3>1, <3>2 DEF CardStep
  <2>3. z = y
    BY <2>2
  <2>4. QED
    BY <1>3, <2>3, GoesIndex, GoesPlan, GoesFetch DEF CardStep
<1>4. ASSUME NEW y \in Yums, Starts(y) PROVE FALSE
  <2>1. Running
    BY DEF TypeInv
  <2>2. c[y].at = "off" /\ \E r : Become(y, r)
    BY <1>4 DEF Starts, Run
  <2>3. z = y
    BY <2>1, <2>2, OnlyOne
  <2>4. QED
    BY <2>2, <2>3
<1>5. QED
  BY <1>1, <1>2, <1>3, <1>4, NextCases

\* Whatever fails and whatever other runs do, each step of a run of yum that goes on takes it further down: it fetches
\* the index again at most twice, once for a build and once for a file that cannot be fetched (YUM_BUILT,
\* YUM_REFRESHED), so no run goes round for ever.  That each run takes its steps is a matter of RunsEnd.
THEOREM GoesOnHolds == Spec => GoesOn
<1>1. TypeInv /\ [Next]_vars =>
        [\A y \in Yums : c'[y] # c[y] /\ c[y].at # "off" /\ c'[y].at \notin {"off", "hang"} => Before(c'[y], c[y])]_vars
  BY GoesOnStep
<1>2. QED
  BY <1>1, TypeInvariant, PTL DEF Spec, GoesOn

-----------------------------------------------------------------------------
(***************************************************************************)
(* The cache and the database, when runs of yum do not overlap: a run may  *)
(* be killed at any step, and the disk may be full.                        *)
(***************************************************************************)
Steady == MirrorFaults = {} /\ Skews \subseteq {0} /\ "overlap" \notin YumFaults

OneYum == \A y, z \in Yums : c[y].at # "off" /\ c[z].at # "off" => y = z

\* The serial is the cached index's but for a run between the two, or unless writing it failed or was cut off; the
\* index accepted has no lower serial.
SerialInv ==
  /\ (\A y \in Yums : c[y].at # "echo") => cserial = cidx.serial \/ "serial" \in torn
  /\ \A y \in Yums : /\ c[y].at = "mv" => c[y].new.serial >= cserial
                     /\ c[y].at = "echo" => cidx = c[y].new

\* The files F with the packages I that are installed hold w and all that any of them requires, but for, if u, what the
\* index, with the packages H, does not have.
Whole(I, H, F, w, u) ==
  /\ w \in Names(F) /\ \A f \in F : f[2] # 0
  /\ \A p \in Names(F) : \A r \in Req[p] : r \in I \union Names(F) \/ (u /\ H[r] = 0)
Taken(pl) == {pl.get[i] : i \in 1..Len(pl.get)}
Good(I, H, pl, w) ==
  pl.missing = {} => /\ pl.get = <<>> => w \in I
                     /\ pl.get # <<>> => Whole(I, H, Taken(pl), w, pl.unmet)

\* An install's plan is good, what it has fetched is the plan's first lines, and rpm is given all of it.
Installing(y) ==
  c[y].verb = "install" =>
    /\ c[y].at = "planned" => Good(Installed, cidx.has, plan, c[y].want)
    /\ c[y].at = "fetch" => /\ Whole(Installed, cidx.has, Taken(plan), c[y].want, c[y].nodeps) /\ c[y].pos <= Len(plan.get) + 1
                            /\ c[y].files = {plan.get[i] : i \in 1..(c[y].pos - 1)}
    /\ c[y].at = "rpm" => Whole(Installed, cidx.has, c[y].files, c[y].want, c[y].nodeps)
    /\ c[y].at \in {"qa", "mvinst"} /\ c[y].rc = "ok" => c[y].want \in Installed

\* installed.tsv is the database's list but for a run between rpm and the move, or unless the last run failed or was cut
\* off there.
ListInv ==
  /\ (\A y \in Yums : c[y].at \notin {"qa", "mvinst"}) => inst = db \/ "installed" \in torn
  /\ \A y \in Yums : c[y].at = "mvinst" => c[y].files = {<<p, db[p]>> : p \in Pkgs}

YumInv == OneYum /\ SerialInv /\ ListInv /\ \A y \in Yums : Installing(y)

\* The others are not running when one takes a step.
LEMMA Alone ==
  ASSUME Steady, TypeInv, OneYum, NEW y \in Yums, MissStep(y) \/ CardStep(y) \/ Starts(y)
  PROVE  \A o \in Yums : o # y => c[o].at = "off" /\ c'[o].at = "off"
<1>0. Running
  BY DEF TypeInv
<1>1. ASSUME NEW o \in Yums, o # y PROVE c[o].at = "off"
  <2>1. CASE c[y].at # "off"
    BY <1>1, <2>1 DEF OneYum
  <2>2. CASE Starts(y)
    BY <1>1, <2>2 DEF Starts, Run, Steady
  <2>3. MissStep(y) \/ CardStep(y) => c[y].at # "off"
    BY DEF MissStep, Subscribe, Request, Hear, NoAnswer, Kill, CardStep, FreshCache, FetchIndex, MoveIndex,
       WriteSerial, Resolve, FollowPlan, Fetch, Fetched, Rpm, Query, WriteInstalled, OldListStays
  <2>4. QED
    BY <2>1, <2>2, <2>3
<1>2. \A o \in Yums : o # y => c'[o] = c[o]
  <2>1. MissStep(y) => \A o \in Yums : o # y => c'[o] = c[o]
    BY <1>0, OnlyOne, GotoFact, ExitFact DEF MissStep, Subscribe, Request, Hear, NoAnswer, Kill
  <2>2. FreshCache(y) \/ FetchIndex(y) \/ MoveIndex(y) \/ WriteSerial(y) \/ Resolve(y) \/ FollowPlan(y)
        => \A o \in Yums : o # y => c'[o] = c[o]
    BY <1>0, OnlyOne, GotoFact, ExitFact DEF FreshCache, FetchIndex, MoveIndex, WriteSerial, Resolve, FollowPlan
  <2>3. Fetch(y) \/ Fetched(y) \/ Rpm(y) \/ Query(y) \/ WriteInstalled(y)
        => \A o \in Yums : o # y => c'[o] = c[o]
    BY <1>0, OnlyOne, GotoFact, ExitFact DEF Fetch, Fetched, Rpm, Query, WriteInstalled, OldListStays
  <2>4. Starts(y) => \A o \in Yums : o # y => c'[o] = c[o]
    BY <1>0, OnlyOne DEF Starts, Run
  <2>5. QED
    BY <2>1, <2>2, <2>3, <2>4 DEF CardStep
<1>3. QED
  BY <1>1, <1>2

\* So that what is to be shown is shown of that one.
LEMMA OneEnough ==
  ASSUME NEW y \in Yums, \A o \in Yums : o # y => c'[o].at = "off",
         c'[y].at # "echo" => cserial' = cidx'.serial \/ "serial" \in torn',
         c'[y].at = "mv" => c'[y].new.serial >= cserial',
         c'[y].at = "echo" => cidx' = c'[y].new,
         c'[y].at \notin {"qa", "mvinst"} => inst' = db' \/ "installed" \in torn',
         c'[y].at = "mvinst" => c'[y].files = {<<p, db'[p]>> : p \in Pkgs},
         Installing(y)'
  PROVE  YumInv'
<1>1. OneYum'
  BY DEF OneYum
<1>2. SerialInv'
  BY DEF SerialInv
<1>3. ListInv'
  BY DEF ListInv
<1>4. \A o \in Yums : o # y => Installing(o)'
  BY DEF Installing
<1>5. QED
  BY <1>1, <1>2, <1>3, <1>4 DEF YumInv

\* What holds of the one that steps.
LEMMA OneBefore ==
  ASSUME YumInv, NEW y \in Yums, \A o \in Yums : o # y => c[o].at = "off"
  PROVE  /\ c[y].at # "echo" => cserial = cidx.serial \/ "serial" \in torn
         /\ c[y].at = "mv" => c[y].new.serial >= cserial
         /\ c[y].at = "echo" => cidx = c[y].new
         /\ c[y].at \notin {"qa", "mvinst"} => inst = db \/ "installed" \in torn
         /\ c[y].at = "mvinst" => c[y].files = {<<p, db[p]>> : p \in Pkgs}
         /\ Installing(y)
<1>1. c[y].at # "echo" => \A o \in Yums : c[o].at # "echo"
  OBVIOUS
<1>2. c[y].at \notin {"qa", "mvinst"} => \A o \in Yums : c[o].at \notin {"qa", "mvinst"}
  OBVIOUS
<1>3. QED
  BY <1>1, <1>2 DEF YumInv, SerialInv, ListInv

\* While a run asks for a build, or when it is killed, the cache and the database stay.
LEMMA SteadyMiss ==
  ASSUME Steady, TypeInv, YumInv, NEW y \in Yums, MissStep(y)
  PROVE  YumInv'
<1>0. \A o \in Yums : o # y => c[o].at = "off" /\ c'[o].at = "off"
  BY Alone DEF YumInv
<1>1. UNCHANGED <<cache, db>> /\ c[y] \in RunRec /\ Running
  BY MissFrame DEF TypeInv, Running
<1>2. /\ torn \subseteq torn'
      /\ c[y].at = "echo" => "serial" \in torn'
      /\ c[y].at \in {"qa", "mvinst"} => "installed" \in torn'
  BY DEF MissStep, Subscribe, Request, Hear, NoAnswer, Kill, Cut
<1>3. c'[y].at \in {"sub", "pub", "hang", "wait", "fetchidx", "off"}
  <2>1. CASE Subscribe(y)
    <3>1. c'[y] = [c[y] EXCEPT !.at = "pub", !.id = Len(req) + 1]
      BY <1>1, <2>1, OnlyOne DEF Subscribe
    <3>2. QED
      BY <1>1, <3>1 DEF RunRec
  <2>2. CASE Request(y)
    BY <1>1, <2>2, GotoFact DEF Request
  <2>3. CASE Hear(y)
    <3>1. CASE UNCHANGED c
      BY <2>3, <3>1 DEF Hear
    <3>2. CASE Become(y, Built(y))
      <4>1. c'[y] = Built(y)
        BY <1>1, <3>2, OnlyOne
      <4>2. QED
        BY <1>1, <4>1 DEF Built, RunRec
    <3>3. CASE Exit(y, "fail")
      BY <1>1, <3>3, ExitFact
    <3>4. QED
      BY <2>3, <3>1, <3>2, <3>3 DEF Hear
  <2>4. CASE NoAnswer(y) \/ Kill(y)
    BY <1>1, <2>4, ExitFact DEF NoAnswer, Kill
  <2>5. QED
    BY <2>1, <2>2, <2>3, <2>4 DEF MissStep
<1>4. Installing(y)'
  BY <1>3 DEF Installing
<1>5. (cserial' = cidx'.serial \/ "serial" \in torn') /\ (inst' = db' \/ "installed" \in torn')
  BY <1>0, <1>1, <1>2, OneBefore DEF cache
<1>6. QED
  BY <1>0, <1>3, <1>4, <1>5, OneEnough

\* A run that begins.
LEMMA SteadyStart ==
  ASSUME Steady, TypeInv, YumInv, NEW y \in Yums, Starts(y)
  PROVE  YumInv'
<1>0. \A o \in Yums : o # y => c[o].at = "off" /\ c'[o].at = "off"
  BY Alone DEF YumInv
<1>1. UNCHANGED <<cache, db, torn>> /\ Running
  BY StartFrame DEF TypeInv
<1>2. PICK v \in {"update", "install", "remove"}, p \in Pkgs \union {Off.want} : Run(y, v, p)
  BY DEF Starts
<1>3. /\ c[y].at = "off"
      /\ Become(y, [Off EXCEPT !.at = IF v = "remove" THEN "rpm" ELSE "fresh", !.verb = v, !.want = p])
  BY <1>2 DEF Run
<1>4. c'[y] = [Off EXCEPT !.at = IF v = "remove" THEN "rpm" ELSE "fresh", !.verb = v, !.want = p]
  BY <1>1, <1>3, OnlyOne
<1>5. /\ c'[y].at \in {"rpm", "fresh"}
      /\ c'[y].at = "rpm" => c'[y].verb = "remove"
  <2>1. Off \in RunRec
    BY OffFact
  <2> HIDE DEF Off
  <2>2. QED
    BY <1>4, <2>1 DEF RunRec
<1>6. Installing(y)'
  BY <1>5 DEF Installing
<1>7. (cserial' = cidx'.serial \/ "serial" \in torn') /\ (inst' = db' \/ "installed" \in torn')
  BY <1>0, <1>1, <1>3, OneBefore DEF cache
<1>8. QED
  BY <1>0, <1>5, <1>6, <1>7, OneEnough

\* Fetching the index: an older one is refused, and its serial follows it.
LEMMA SteadyIndex ==
  ASSUME Steady, TypeInv, YumInv, NEW y \in Yums, FreshCache(y) \/ FetchIndex(y) \/ MoveIndex(y) \/ WriteSerial(y)
  PROVE  YumInv'
<1>0. \A o \in Yums : o # y => c[o].at = "off" /\ c'[o].at = "off"
  BY Alone DEF YumInv, CardStep
<1>1. c[y] \in RunRec /\ Running /\ cserial \in Nat /\ cidx.serial \in Nat
  BY MirrorAssumption DEF TypeInv, Running, CacheTyped, Lists
<1>2. /\ c[y].at # "echo" => cserial = cidx.serial \/ "serial" \in torn
      /\ c[y].at = "mv" => c[y].new.serial >= cserial
      /\ c[y].at = "echo" => cidx = c[y].new
      /\ c[y].at \notin {"qa", "mvinst"} => inst = db \/ "installed" \in torn
  BY <1>0, OneBefore
<1>3. c'[y].at \in {"off", "resolve", "fetchidx", "mv", "echo", "fresh"} => Installing(y)'
  BY DEF Installing
<1>4. CASE FreshCache(y)
  <2>1. UNCHANGED <<cidx, cserial, inst, db, torn>> /\ c[y].at = "fresh"
    BY <1>4 DEF FreshCache, Rest, cache
  <2>2. c'[y].at \in {"resolve", "fetchidx"}
    <3>1. CASE Goto(y, "resolve")
      BY <1>1, <3>1, GotoFact
    <3>2. CASE Become(y, [c[y] EXCEPT !.at = "fetchidx", !.ret = "resolve"])
      <4>1. c'[y] = [c[y] EXCEPT !.at = "fetchidx", !.ret = "resolve"]
        BY <1>1, <3>2, OnlyOne
      <4>2. QED
        BY <1>1, <4>1 DEF RunRec
    <3>3. QED
      BY <1>4, <3>1, <3>2 DEF FreshCache
  <2>3. QED
    BY <1>0, <1>2, <1>3, <2>1, <2>2, OneEnough
<1>5. CASE FetchIndex(y)
  <2>1. UNCHANGED <<cidx, cserial, inst, db, torn>> /\ c[y].at = "fetchidx"
    BY <1>5 DEF FetchIndex, Rest, cache
  <2>2. c'[y].at = "off" \/ (c'[y].at = "mv" /\ c'[y].new.serial >= cserial)
    <3>1. CASE Exit(y, "fail")
      BY <1>1, <3>1, ExitFact
    <3>2. ASSUME NEW l, Acceptable(l), Become(y, [c[y] EXCEPT !.at = "mv", !.new = l])
          PROVE  c'[y].at = "mv" /\ c'[y].new.serial >= cserial
      <4>1. c'[y] = [c[y] EXCEPT !.at = "mv", !.new = l]
        BY <1>1, <3>2, OnlyOne
      <4>2. c'[y].at = "mv" /\ c'[y].new = l
        BY <1>1, <4>1 DEF RunRec
      <4>3. QED
        BY <3>2, <4>2 DEF Acceptable
    <3>3. QED
      BY <1>5, <3>1, <3>2 DEF FetchIndex
  <2>3. QED
    BY <1>0, <1>2, <1>3, <2>1, <2>2, OneEnough
<1>6. CASE MoveIndex(y)
  <2>1. UNCHANGED <<inst, db, torn>> /\ c[y].at = "mv" /\ cidx' = c[y].new /\ Goto(y, "echo")
    BY <1>6 DEF MoveIndex
  <2>2. c'[y] = [c[y] EXCEPT !.at = "echo"]
    BY <1>1, <2>1, GotoFact
  <2>3. c'[y].at = "echo" /\ c'[y].new = c[y].new
    BY <1>1, <2>2 DEF RunRec
  <2>4. QED
    BY <1>0, <1>2, <1>3, <2>1, <2>3, OneEnough
<1>7. CASE WriteSerial(y)
  <2>1. /\ UNCHANGED <<inst, db, cidx>> /\ c[y].at = "echo" /\ torn \ {"serial"} \subseteq torn'
        /\ cserial' = c[y].new.serial \/ "serial" \in torn'
        /\ Become(y, [c[y] EXCEPT !.at = c[y].ret, !.new = NoIndex])
    BY <1>7 DEF WriteSerial
  <2>2. c'[y] = [c[y] EXCEPT !.at = c[y].ret, !.new = NoIndex]
    BY <1>1, <2>1, OnlyOne
  <2>3. c'[y].at \in {"resolve", "fresh"}
    BY <1>1, <2>2 DEF RunRec
  <2>4. QED
    BY <1>0, <1>2, <1>3, <2>1, <2>3, OneEnough
<1>8. QED
  BY <1>4, <1>5, <1>6, <1>7

\* The plan of an install is good: what is wanted with all it requires, or nothing to get.
LEMMA InstallGood ==
  ASSUME TypeInv, NEW w \in Pkgs
  PROVE  Good(Installed, cidx.has, InstallPlan(w), w)
<1>0. cidx \in Lists
  BY DEF TypeInv, CacheTyped
<1>1. CASE w \in Installed
  BY <1>1 DEF InstallPlan, Good, NoPlan
<1>2. CASE w \notin Installed /\ cidx.has[w] = 0
  <2>1. InstallPlan(w).missing = {w}
    BY <1>2 DEF InstallPlan, NoPlan
  <2>2. QED
    BY <2>1 DEF Good
<1>3. CASE w \notin Installed /\ cidx.has[w] # 0
  <2> DEFINE C == Closure({w})
             g == Gets(C)
             u == \E q \in C : \E r \in Req[q] : r \notin Installed /\ cidx.has[r] = 0
             pl == [missing |-> {}, get |-> g, unmet |-> u]
  <2>1. InstallPlan(w) = pl
    BY <1>3 DEF InstallPlan
  <2>2. w \in C /\ C \subseteq Pkgs /\ (\A q \in C : cidx.has[q] # 0) /\ Needed(C) \subseteq C
    BY <1>3, ClosureFact
  <2> HIDE DEF C
  <2>3. /\ \A i \in 1..Len(g) : \E p \in C : g[i] = <<p, cidx.has[p]>>
        /\ \A p \in C : \E i \in 1..Len(g) : g[i] = <<p, cidx.has[p]>>
    BY <1>0, <2>2, GetsFact
  <2> HIDE DEF g
  <2>4. pl.get = g /\ pl.unmet = u
    OBVIOUS
  <2>5. Names(Taken(pl)) = C
    <3>1. \A p \in C : p \in Names(Taken(pl))
      <4>1. ASSUME NEW p \in C PROVE p \in Names(Taken(pl))
        <5>1. PICK i \in 1..Len(g) : g[i] = <<p, cidx.has[p]>>
          BY <2>3
        <5>2. g[i] \in Taken(pl) /\ g[i][1] = p
          BY <2>4, <5>1 DEF Taken
        <5> HIDE DEF pl
        <5>3. QED
          BY <5>2 DEF Names
      <4>2. QED
        BY <4>1
    <3>2. \A f \in Taken(pl) : f[1] \in C
      BY <2>3, <2>4 DEF Taken
    <3> HIDE DEF pl
    <3>3. \A p \in Names(Taken(pl)) : p \in C
      BY <3>2 DEF Names
    <3>4. QED
      BY <3>1, <3>3
  <2>6. \A f \in Taken(pl) : f[2] # 0
    BY <2>2, <2>3, <2>4 DEF Taken
  <2>7. ASSUME NEW q \in C, NEW r \in Req[q] PROVE r \in Installed \union C \/ (u /\ cidx.has[r] = 0)
    <3>1. r \in Pkgs
      BY <2>2, <2>7, YumAssumption
    <3>2. r \in Installed \/ cidx.has[r] # 0 \/ u
      BY <2>7
    <3>3. r \notin Installed /\ cidx.has[r] # 0 => r \in Needed(C)
      BY <2>7, <3>1 DEF Needed
    <3>4. QED
      BY <2>2, <3>2, <3>3
  <2>8. pl.get # <<>>
    <3>1. PICK i \in 1..Len(g) : TRUE
      BY <2>2, <2>3
    <3>2. g # <<>>
      BY <3>1
    <3>3. QED
      BY <2>4, <3>2
  <2>9. pl.unmet = u
    OBVIOUS
  <2> HIDE DEF pl, u
  <2>10. Whole(Installed, cidx.has, Taken(pl), w, pl.unmet)
    BY <2>2, <2>5, <2>6, <2>7, <2>9 DEF Whole
  <2>11. QED
    BY <2>1, <2>8, <2>10 DEF Good
<1>4. QED
  BY <1>1, <1>2, <1>3

\* The others stand still, and all but the list is as it was.
LEMMA InstallBefore ==
  ASSUME Steady, TypeInv, YumInv, NEW y \in Yums,
         Resolve(y) \/ FollowPlan(y) \/ Fetch(y) \/ Fetched(y) \/ Rpm(y) \/ Query(y) \/ WriteInstalled(y)
  PROVE  /\ \A o \in Yums : o # y => c'[o].at = "off"
         /\ c[y] \in RunRec /\ Running /\ Sound(c[y], req) /\ PlanOK(plan) /\ db \in [Pkgs -> Versions]
         /\ c[y].at \notin {"qa", "mvinst"} => inst = db \/ "installed" \in torn
         /\ c[y].at = "mvinst" => c[y].files = {<<p, db[p]>> : p \in Pkgs}
         /\ Installing(y) /\ (cserial' = cidx'.serial \/ "serial" \in torn')
<1>0. \A o \in Yums : o # y => c[o].at = "off" /\ c'[o].at = "off"
  BY Alone DEF YumInv, CardStep
<1>1. c[y] \in RunRec /\ Running /\ Sound(c[y], req) /\ PlanOK(plan) /\ db \in [Pkgs -> Versions]
  BY DEF TypeInv, Running, CacheTyped
<1>2. /\ c[y].at # "echo" => cserial = cidx.serial \/ "serial" \in torn
      /\ c[y].at \notin {"qa", "mvinst"} => inst = db \/ "installed" \in torn
      /\ c[y].at = "mvinst" => c[y].files = {<<p, db[p]>> : p \in Pkgs}
      /\ Installing(y)
  BY <1>0, OneBefore
<1>3. UNCHANGED <<cidx, cserial>> /\ c[y].at # "echo" /\ torn \ {"installed"} \subseteq torn'
  BY DEF Resolve, FollowPlan, Fetch, Fetched, Rpm, Query, WriteInstalled, OldListStays, Rest, cache
<1>4. QED
  BY <1>0, <1>1, <1>2, <1>3

\* It plans: the plan is good.
LEMMA SteadyResolve ==
  ASSUME Steady, TypeInv, YumInv, NEW y \in Yums, Resolve(y)
  PROVE  YumInv'
<1>1. /\ \A o \in Yums : o # y => c'[o].at = "off"
      /\ c[y] \in RunRec /\ Running /\ Sound(c[y], req)
      /\ c[y].at \notin {"qa", "mvinst"} => inst = db \/ "installed" \in torn
      /\ (cserial' = cidx'.serial \/ "serial" \in torn')
  BY InstallBefore
<1>2. UNCHANGED <<inst, db, torn, cidx>> /\ c[y].at = "resolve" /\ Goto(y, "planned")
      /\ (c[y].verb = "install" => plan' = InstallPlan(c[y].want))
  BY DEF Resolve
<1>3. c'[y].at = "planned" /\ c'[y].verb = c[y].verb /\ c'[y].want = c[y].want
  <2>1. c'[y] = [c[y] EXCEPT !.at = "planned"]
    BY <1>1, <1>2, GotoFact
  <2>2. QED
    BY <1>1, <2>1 DEF RunRec
<1>4. Installed' = Installed
  BY <1>2 DEF Installed
<1>5. c[y].verb = "install" => Good(Installed', cidx'.has, plan', c'[y].want)
  <2>1. c[y].verb = "install" => Good(Installed, cidx.has, InstallPlan(c[y].want), c[y].want)
    BY <1>1, InstallGood DEF Sound
  <2> HIDE DEF Good, InstallPlan, Installed
  <2>2. QED
    BY <1>2, <1>3, <1>4, <2>1
<1>6. Installing(y)'
  BY <1>3, <1>5 DEF Installing
<1>7. QED
  BY <1>1, <1>2, <1>3, <1>6, OneEnough

\* It follows the plan: what it will get is whole.
LEMMA SteadyFollow ==
  ASSUME Steady, TypeInv, YumInv, NEW y \in Yums, FollowPlan(y)
  PROVE  YumInv'
<1>1. /\ \A o \in Yums : o # y => c'[o].at = "off"
      /\ c[y] \in RunRec /\ Running /\ PlanOK(plan)
      /\ c[y].at \notin {"qa", "mvinst"} => inst = db \/ "installed" \in torn
      /\ Installing(y) /\ (cserial' = cidx'.serial \/ "serial" \in torn')
  BY InstallBefore
<1>2. UNCHANGED <<inst, db, torn, cidx, plan>> /\ c[y].at = "planned"
  BY DEF FollowPlan, Rest, cache
<1>3. CASE plan.missing = {} /\ plan.get # <<>>
           /\ Become(y, [c[y] EXCEPT !.at = "fetch", !.pos = 1, !.files = {}, !.nodeps = @ \/ plan.unmet])
  <2>1. c'[y] = [c[y] EXCEPT !.at = "fetch", !.pos = 1, !.files = {}, !.nodeps = @ \/ plan.unmet]
    BY <1>1, <1>3, OnlyOne
  <2>2. /\ c'[y].at = "fetch" /\ c'[y].pos = 1 /\ c'[y].files = {}
        /\ c'[y].verb = c[y].verb /\ c'[y].want = c[y].want /\ c'[y].nodeps = (c[y].nodeps \/ plan.unmet)
    BY <1>1, <2>1 DEF RunRec
  <2>3. Installed' = Installed
    BY <1>2 DEF Installed
  <2>w. c[y].verb = "install" => Whole(Installed, cidx.has, Taken(plan), c[y].want, plan.unmet)
    BY <1>1, <1>2, <1>3 DEF Installing, Good
  <2>4. c[y].verb = "install" => Whole(Installed, cidx.has, Taken(plan), c[y].want, c[y].nodeps \/ plan.unmet)
    BY <2>w DEF Whole
  <2>5. c[y].verb = "install" => Whole(Installed', cidx'.has, Taken(plan'), c'[y].want, c'[y].nodeps)
    <3> HIDE DEF Whole, Taken, Installed
    <3>1. QED
      BY <2>2, <2>3, <2>4, <1>2
  <2>6. c'[y].pos <= Len(plan'.get) + 1 /\ c'[y].files = {plan'.get[i] : i \in 1..(c'[y].pos - 1)}
    <3>1. Len(plan'.get) \in Nat
      BY <1>1, <1>2 DEF PlanOK
    <3>2. 1..(1 - 1) = {}
      OBVIOUS
    <3>3. QED
      BY <2>2, <3>1, <3>2
  <2>7. Installing(y)'
    BY <2>2, <2>5, <2>6 DEF Installing
  <2>8. QED
    BY <1>1, <1>2, <2>2, <2>7, OneEnough
<1>4. CASE Exit(y, "fail") \/ Exit(y, "ok") \/ Become(y, [c[y] EXCEPT !.at = "sub", !.todo = plan.missing])
  <2>1. c'[y].at \in {"off", "sub"}
    <3>1. CASE Become(y, [c[y] EXCEPT !.at = "sub", !.todo = plan.missing])
      <4>1. c'[y] = [c[y] EXCEPT !.at = "sub", !.todo = plan.missing]
        BY <1>1, <3>1, OnlyOne
      <4>2. QED
        BY <1>1, <4>1 DEF RunRec
    <3>2. QED
      BY <1>1, <1>4, <3>1, ExitFact
  <2>2. Installing(y)'
    BY <2>1 DEF Installing
  <2>3. QED
    BY <1>1, <1>2, <2>1, <2>2, OneEnough
<1>5. QED
  BY <1>3, <1>4 DEF FollowPlan

\* It fetches the plan's lines in their order.
LEMMA SteadyFetch ==
  ASSUME Steady, TypeInv, YumInv, NEW y \in Yums, Fetch(y)
  PROVE  YumInv'
<1>1. /\ \A o \in Yums : o # y => c'[o].at = "off"
      /\ c[y] \in RunRec /\ Running /\ PlanOK(plan) /\ Sound(c[y], req)
      /\ c[y].at \notin {"qa", "mvinst"} => inst = db \/ "installed" \in torn
      /\ Installing(y) /\ (cserial' = cidx'.serial \/ "serial" \in torn')
  BY InstallBefore
<1>2. UNCHANGED <<inst, db, torn, cidx, plan>> /\ c[y].at = "fetch" /\ c[y].pos <= Len(plan.get)
  BY DEF Fetch
<1> DEFINE g == plan.get
           k == c[y].pos
           e == <<g[k][1], g[k][2]>>
           r == [c[y] EXCEPT !.pos = @ + 1, !.files = @ \cup {e}]
<1>3. g \in Seq(Entries) /\ Len(g) \in Nat /\ k \in Nat /\ k >= 1 /\ k <= Len(g) /\ plan' = plan
  <2>1. g \in Seq(Entries) /\ Len(g) \in Nat
    BY <1>1 DEF PlanOK
  <2>2. k \in 0..(Cardinality(Pkgs) + 1) /\ k >= 1 /\ k <= Len(g)
    BY <1>1, <1>2 DEF RunRec, Sound
  <2>3. QED
    BY <2>1, <2>2, <1>2, Numbers
<1>4. e = g[k]
  <2>1. g[k] \in Entries
    BY <1>3
  <2>2. QED
    BY <2>1 DEF Entries
<1>5. CASE Become(y, r)
  <2>1. c'[y] = r
    BY <1>1, <1>5, OnlyOne
  <2>2. /\ c'[y].at = "fetch" /\ c'[y].pos = k + 1 /\ c'[y].files = c[y].files \union {e}
        /\ c'[y].verb = c[y].verb /\ c'[y].want = c[y].want /\ c'[y].nodeps = c[y].nodeps
    <3> HIDE DEF e
    <3>1. QED
      BY <1>1, <1>2, <2>1 DEF RunRec
  <2>3. Installed' = Installed
    BY <1>2 DEF Installed
  <2>4. c[y].verb = "install" => /\ Whole(Installed, cidx.has, Taken(plan), c[y].want, c[y].nodeps)
                                 /\ c[y].files = {g[i] : i \in 1..(k - 1)}
    BY <1>1, <1>2 DEF Installing
  <2>5. c[y].verb = "install" => Whole(Installed', cidx'.has, Taken(plan'), c'[y].want, c'[y].nodeps)
    <3> HIDE DEF Whole, Taken, Installed
    <3>1. QED
      BY <2>2, <2>3, <2>4, <1>2
  <2> HIDE DEF e, r, g, k
  <2>6. {g[i] : i \in 1..(k - 1)} \union {e} = {g[i] : i \in 1..((k + 1) - 1)}
    <3>1. 1..((k + 1) - 1) = 1..(k - 1) \union {k}
      BY <1>3
    <3>2. QED
      BY <1>4, <3>1
  <2>7. c[y].verb = "install" => c'[y].files = {g[i] : i \in 1..(c'[y].pos - 1)}
    BY <2>2, <2>4, <2>6
  <2>8. c'[y].pos <= Len(g) + 1 /\ plan'.get = g
    BY <2>2, <1>3 DEF g
  <2>9. Installing(y)'
    BY <2>2, <2>5, <2>7, <2>8 DEF Installing
  <2>10. QED
    BY <1>1, <1>2, <2>2, <2>9, OneEnough
<1>6. CASE Exit(y, "fail") \/ Become(y, [c[y] EXCEPT !.at = "fetchidx", !.ret = "fresh", !.refreshed = TRUE])
  <2>1. c'[y].at \in {"off", "fetchidx"}
    <3>1. CASE Become(y, [c[y] EXCEPT !.at = "fetchidx", !.ret = "fresh", !.refreshed = TRUE])
      <4>1. c'[y] = [c[y] EXCEPT !.at = "fetchidx", !.ret = "fresh", !.refreshed = TRUE]
        BY <1>1, <3>1, OnlyOne
      <4>2. QED
        BY <1>1, <4>1 DEF RunRec
    <3>2. QED
      BY <1>1, <1>6, <3>1, ExitFact
  <2>2. Installing(y)'
    BY <2>1 DEF Installing
  <2>3. QED
    BY <1>1, <1>2, <2>1, <2>2, OneEnough
<1>7. QED
  BY <1>5, <1>6 DEF Fetch

\* When all lines are fetched, they are what rpm is given.
LEMMA SteadyFetched ==
  ASSUME Steady, TypeInv, YumInv, NEW y \in Yums, Fetched(y)
  PROVE  YumInv'
<1>1. /\ \A o \in Yums : o # y => c'[o].at = "off"
      /\ c[y] \in RunRec /\ Running /\ PlanOK(plan)
      /\ c[y].at \notin {"qa", "mvinst"} => inst = db \/ "installed" \in torn
      /\ Installing(y) /\ (cserial' = cidx'.serial \/ "serial" \in torn')
  BY InstallBefore
<1>2. UNCHANGED <<inst, db, torn, cidx>> /\ c[y].at = "fetch" /\ c[y].pos > Len(plan.get) /\ Goto(y, "rpm")
  BY DEF Fetched, Rest, cache
<1>3. /\ c'[y].at = "rpm" /\ c'[y].files = c[y].files /\ c'[y].verb = c[y].verb /\ c'[y].want = c[y].want
      /\ c'[y].nodeps = c[y].nodeps
  <2>1. c'[y] = [c[y] EXCEPT !.at = "rpm"]
    BY <1>1, <1>2, GotoFact
  <2>2. QED
    BY <1>1, <2>1 DEF RunRec
<1>4. c[y].verb = "install" => Whole(Installed, cidx.has, c[y].files, c[y].want, c[y].nodeps)
  <2>1. SUFFICES ASSUME c[y].verb = "install" PROVE Whole(Installed, cidx.has, c[y].files, c[y].want, c[y].nodeps)
    OBVIOUS
  <2>2. /\ Whole(Installed, cidx.has, Taken(plan), c[y].want, c[y].nodeps) /\ c[y].pos <= Len(plan.get) + 1
        /\ c[y].files = {plan.get[i] : i \in 1..(c[y].pos - 1)}
    BY <1>1, <1>2, <2>1 DEF Installing
  <2>3. c[y].pos = Len(plan.get) + 1
    <3>1. Len(plan.get) \in Nat /\ c[y].pos \in 0..(Cardinality(Pkgs) + 1)
      BY <1>1 DEF PlanOK, RunRec
    <3>2. QED
      BY <3>1, <2>2, <1>2, Numbers
  <2>4. c[y].pos - 1 = Len(plan.get)
    <3>1. Len(plan.get) \in Nat
      BY <1>1 DEF PlanOK
    <3>2. QED
      BY <2>3, <3>1
  <2>5. c[y].files = Taken(plan)
    BY <2>2, <2>4 DEF Taken
  <2>6. QED
    BY <2>2, <2>5
<1>5. Installed' = Installed
  BY <1>2 DEF Installed
<1>6. c[y].verb = "install" => Whole(Installed', cidx'.has, c'[y].files, c'[y].want, c'[y].nodeps)
  <2> HIDE DEF Whole, Installed
  <2>1. QED
    BY <1>2, <1>3, <1>4, <1>5
<1>7. Installing(y)'
  BY <1>3, <1>6 DEF Installing
<1>8. QED
  BY <1>1, <1>2, <1>3, <1>7, OneEnough

\* rpm, when it ends well, installs them all.
LEMMA SteadyRpm ==
  ASSUME Steady, TypeInv, YumInv, NEW y \in Yums, Rpm(y)
  PROVE  YumInv'
<1>1. /\ \A o \in Yums : o # y => c'[o].at = "off"
      /\ c[y] \in RunRec /\ Running /\ Sound(c[y], req) /\ db \in [Pkgs -> Versions]
      /\ Installing(y) /\ (cserial' = cidx'.serial \/ "serial" \in torn')
  BY InstallBefore
<1>2. c[y].at = "rpm" /\ c[y].files \in SUBSET Entries
  BY <1>1 DEF Rpm, RunRec
<1>3. CASE Become(y, [c[y] EXCEPT !.at = "qa", !.rc = "fail"])
  <2>1. c'[y] = [c[y] EXCEPT !.at = "qa", !.rc = "fail"]
    BY <1>1, <1>3, OnlyOne
  <2>2. c'[y].at = "qa" /\ c'[y].rc = "fail"
    BY <1>1, <2>1 DEF RunRec
  <2>3. Installing(y)'
    BY <2>2 DEF Installing
  <2>4. QED
    BY <1>1, <2>2, <2>3, OneEnough
<1>4. CASE Become(y, [c[y] EXCEPT !.at = "qa", !.rc = "ok"])
  <2>1. c'[y] = [c[y] EXCEPT !.at = "qa", !.rc = "ok"]
    BY <1>1, <1>4, OnlyOne
  <2>2. c'[y].at = "qa" /\ c'[y].rc = "ok" /\ c'[y].verb = c[y].verb /\ c'[y].want = c[y].want
    BY <1>1, <2>1 DEF RunRec
  <2>3. ASSUME c[y].verb = "install" PROVE c[y].want \in Installed'
    <3>1. Whole(Installed, cidx.has, c[y].files, c[y].want, c[y].nodeps)
      BY <1>1, <1>2, <2>3 DEF Installing
    <3>2. db' = With(c[y].files)
      <4>1. c'[y].rc # "fail"
        BY <2>2
      <4>2. ~Become(y, [c[y] EXCEPT !.at = "qa", !.rc = "fail"])
        <5>1. SUFFICES ASSUME Become(y, [c[y] EXCEPT !.at = "qa", !.rc = "fail"]) PROVE FALSE
          OBVIOUS
        <5>2. c'[y] = [c[y] EXCEPT !.at = "qa", !.rc = "fail"]
          BY <1>1, <5>1, OnlyOne
        <5>3. c'[y].rc = "fail"
          BY <1>1, <5>2 DEF RunRec
        <5>4. QED
          BY <4>1, <5>3
      <4>3. QED
        BY <4>2, <2>3 DEF Rpm
    <3>3. c[y].want \in Names(c[y].files) /\ \A f \in c[y].files : f[2] # 0
      BY <3>1 DEF Whole
    <3>4. /\ Names(c[y].files) \subseteq Pkgs
          /\ \A p \in Names(c[y].files) : \E f \in c[y].files : f[1] = p /\ With(c[y].files)[p] = f[2]
      BY <1>1, <1>2, WithFact
    <3>5. c[y].want \in Pkgs /\ db'[c[y].want] # 0
      BY <3>2, <3>3, <3>4
    <3>6. QED
      BY <3>5 DEF Installed
  <2>4. Installing(y)'
    BY <2>2, <2>3 DEF Installing
  <2>5. QED
    BY <1>1, <2>2, <2>4, OneEnough
<1>5. QED
  BY <1>3, <1>4 DEF Rpm

\* The list is made from the database and then moved into place.
LEMMA SteadyList ==
  ASSUME Steady, TypeInv, YumInv, NEW y \in Yums, Query(y) \/ WriteInstalled(y)
  PROVE  YumInv'
<1>1. /\ \A o \in Yums : o # y => c'[o].at = "off"
      /\ c[y] \in RunRec /\ Running /\ db \in [Pkgs -> Versions]
      /\ c[y].at = "mvinst" => c[y].files = {<<p, db[p]>> : p \in Pkgs}
      /\ Installing(y) /\ (cserial' = cidx'.serial \/ "serial" \in torn')
  BY InstallBefore
<1>k. CASE OldListStays(y) /\ UNCHANGED db
  <2>1. c'[y].at = "off" /\ "installed" \in torn'
    BY <1>1, <1>k, ExitFact DEF OldListStays
  <2>2. Installing(y)'
    BY <2>1 DEF Installing
  <2>3. QED
    BY <1>1, <2>1, <2>2, OneEnough
<1>2. CASE Query(y) /\ ~OldListStays(y)
  <2>1. UNCHANGED db /\ c[y].at = "qa"
        /\ Become(y, [c[y] EXCEPT !.at = "mvinst", !.files = {<<p, db[p]>> : p \in Pkgs}])
    BY <1>2 DEF Query
  <2> DEFINE F == {<<p, db[p]>> : p \in Pkgs}
  <2>2. c'[y] = [c[y] EXCEPT !.at = "mvinst", !.files = F]
    BY <1>1, <2>1, OnlyOne
  <2>3. F = {<<p, db'[p]>> : p \in Pkgs}
    BY <2>1
  <2> HIDE DEF F
  <2>4. c'[y].at = "mvinst" /\ c'[y].files = F /\ c'[y].verb = c[y].verb /\ c'[y].want = c[y].want
        /\ c'[y].rc = c[y].rc
    BY <1>1, <2>2 DEF RunRec
  <2>5. Installed' = Installed
    BY <2>1 DEF Installed
  <2>6. Installing(y)'
    BY <1>1, <2>1, <2>4, <2>5 DEF Installing
  <2>7. c'[y].files = {<<p, db'[p]>> : p \in Pkgs}
    BY <2>3, <2>4
  <2>8. QED
    BY <1>1, <2>4, <2>6, <2>7, OneEnough
<1>3. CASE WriteInstalled(y) /\ ~OldListStays(y)
  <2>1. UNCHANGED db /\ c[y].at = "mvinst" /\ Exit(y, c[y].rc)
        /\ inst' = [p \in Pkgs |-> (CHOOSE f \in c[y].files : f[1] = p)[2]]
    BY <1>3 DEF WriteInstalled
  <2>2. c'[y].at = "off"
    BY <1>1, <2>1, ExitFact
  <2>3. ASSUME NEW p \in Pkgs PROVE (CHOOSE f \in c[y].files : f[1] = p)[2] = db[p]
    <3>1. <<p, db[p]>> \in c[y].files /\ \A f \in c[y].files : f[1] = p => f[2] = db[p]
      BY <1>1, <2>1
    <3>2. \E f \in c[y].files : f[1] = p
      BY <3>1
    <3>3. QED
      BY <3>1, <3>2
  <2>4. inst' = db'
    BY <1>1, <2>1, <2>3
  <2>5. Installing(y)'
    BY <2>2 DEF Installing
  <2>6. QED
    BY <1>1, <2>2, <2>4, <2>5, OneEnough
<1>4. QED
  BY <1>k, <1>2, <1>3 DEF Query, WriteInstalled

-----------------------------------------------------------------------------
(***************************************************************************)
(* What the files say is so.                                               *)
(***************************************************************************)
\* At first the list is the database's, and the cached index has the serial 0.
LEMMA YumStart == Init => YumInv
<1> SUFFICES ASSUME Init PROVE YumInv
  OBVIOUS
<1>1. \A y \in Yums : c[y].at = "off"
  BY DEF Init, Off
<1>2. inst = db /\ cserial = 0
  BY DEF Init
<1>3. cidx.serial = 0
  BY DEF Init, MirrorInit, NoIndex
<1>4. OneYum
  BY <1>1 DEF OneYum
<1>5. SerialInv
  BY <1>1, <1>2, <1>3 DEF SerialInv
<1>6. ListInv
  BY <1>1, <1>2 DEF ListInv
<1>7. \A y \in Yums : Installing(y)
  BY <1>1 DEF Installing
<1>8. QED
  BY <1>4, <1>5, <1>6, <1>7 DEF YumInv

\* Neither the mirror nor the service touches them.
LEMMA YumStands ==
  ASSUME YumInv, UNCHANGED <<c, cache, db, torn>>
  PROVE  YumInv'
<1>1. OneYum'
  BY DEF YumInv, OneYum
<1>2. SerialInv'
  BY DEF YumInv, SerialInv, cache
<1>3. ListInv'
  BY DEF YumInv, ListInv, cache
<1>4. \A y \in Yums : Installing(y)'
  <2>1. cidx' = cidx /\ plan' = plan /\ c' = c /\ Installed' = Installed
    BY DEF cache, Installed
  <2> HIDE DEF Installed
  <2>2. QED
    BY <2>1 DEF YumInv, Installing
<1>5. QED
  BY <1>1, <1>2, <1>3, <1>4 DEF YumInv

\* Every step keeps them.
LEMMA YumKept ==
  ASSUME Steady, TypeInv, YumInv, [Next]_vars
  PROVE  YumInv'
<1>1. CASE UNCHANGED vars
  BY <1>1, YumStands DEF vars
<1>2. CASE Service
  BY <1>2, YumStands, ServiceFrame
<1>3. ASSUME NEW y \in Yums, CardStep(y) PROVE YumInv'
  BY <1>3, SteadyIndex, SteadyResolve, SteadyFollow, SteadyFetch, SteadyFetched, SteadyRpm, SteadyList DEF CardStep
<1>4. ASSUME NEW y \in Yums, MissStep(y) \/ Starts(y) PROVE YumInv'
  BY <1>4, SteadyMiss, SteadyStart
<1>5. QED
  BY <1>1, <1>2, <1>3, <1>4, NextCases

\* The invariant of runs that do not overlap.
SteadyInv == TypeInv /\ PublishInv /\ Once /\ WorkerInv /\ YumInv

\* It holds at the start ...
LEMMA SteadyInit == Init => SteadyInv
  BY TypeStart, PublishStart, OnceStart, WorkerStart, YumStart DEF Init, SteadyInv

\* ... and after every step.
LEMMA SteadyKept ==
  ASSUME Steady, SteadyInv, [Next]_vars
  PROVE  SteadyInv'
<1>0. TypeInv /\ MirrorInv /\ BuildTyped /\ MirrorFaults = {} /\ Skews \subseteq {0}
  BY DEF SteadyInv, TypeInv, Steady
<1>1. TypeInv'
  BY <1>0, TypeKept
<1>2. YumInv'
  BY <1>0, YumKept DEF SteadyInv
<1>3. PublishInv'
  BY <1>0, OnService, PublishKept DEF SteadyInv
<1>4. CASE BuildAct
  BY <1>0, <1>1, <1>2, <1>3, <1>4, OnceKept, WorkerKept DEF SteadyInv
<1>5. CASE UNCHANGED buildVars /\ UNCHANGED mirrorVars
  <2>1. Once'
    BY <1>5 DEF SteadyInv, Once, Remembered, Asked, buildVars
  <2>2. WorkerInv'
    BY <1>5 DEF SteadyInv, WorkerInv, Indexes, ListedInv, Has, Pkg, buildVars, mirrorVars
  <2>3. QED
    BY <1>1, <1>2, <1>3, <2>1, <2>2 DEF SteadyInv
<1>6. QED
  BY <1>0, <1>4, <1>5, OnService

\* It implies what the files are to say.
LEMMA SteadyEnough == SteadyInv => FilesTrue
<1> SUFFICES ASSUME SteadyInv PROVE FilesTrue
  OBVIOUS
<1>1. TypeOK /\ AtMostOnce /\ DoneIsListed
  BY TypeEnough, OnceEnough, WorkerEnough DEF SteadyInv
<1>2. WholeClosure
  BY DEF SteadyInv, YumInv, Installing, Whole, WholeClosure
<1>3. ListTrue
  BY DEF SteadyInv, YumInv, ListInv, ListTrue
<1>4. QED
  BY <1>1, <1>2, <1>3 DEF FilesTrue

\* When runs of yum, and of cmd_index, do not overlap and the TT's clock is the host's: a request is acted on once, and
\* once more for each time its id was lost from a half-written id file; a package reported as built is in the index; rpm
\* is given whole closures, but for what --nodeps lets through; and installed.tsv is the database's list unless writing
\* it failed or was cut off (Yum's FilesTrue).  So it is whatever fails, is replayed or delivered twice, and wherever a
\* run or ttbuildd is stopped.
THEOREM FilesTrueHolds ==
  ASSUME Steady
  PROVE  Spec => []FilesTrue
<1>1. SteadyInv /\ [Next]_vars => SteadyInv'
  BY SteadyKept
<1>2. QED
  BY <1>1, SteadyInit, SteadyEnough, PTL DEF Spec

-----------------------------------------------------------------------------
(***************************************************************************)
(* Nothing goes back.                                                      *)
(***************************************************************************)
\* The index published next is newer.
LEMMA SerialStep ==
  ASSUME SteadyInv, [Next]_vars
  PROVE  [signed' # signed => signed'.serial > signed.serial]_mirrorVars
  BY OnService, PublishGrows DEF SteadyInv, TypeInv

\* So is the index put into the cache: it was compared with the serial of the cached one.
LEMMA CacheStep ==
  ASSUME Steady, SteadyInv, [Next]_vars
  PROVE  cidx'.serial >= cidx.serial \/ ("serial" \in torn /\ cidx'.serial >= cserial)
<1>1. cidx.serial \in Nat
  BY DEF SteadyInv, TypeInv, CacheTyped, Lists
<1>2. CASE cidx' = cidx
  BY <1>1, <1>2
<1>3. ASSUME NEW y \in Yums, MoveIndex(y) PROVE cidx'.serial >= cidx.serial \/ ("serial" \in torn /\ cidx'.serial >= cserial)
  <2>1. \A o \in Yums : o # y => c[o].at = "off"
    BY <1>3, Alone DEF SteadyInv, YumInv, CardStep
  <2>2. c[y].at = "mv" /\ cidx' = c[y].new
    BY <1>3 DEF MoveIndex
  <2>3. (cserial = cidx.serial \/ "serial" \in torn) /\ c[y].new.serial >= cserial
    BY <2>1, <2>2, OneBefore DEF SteadyInv
  <2>4. QED
    BY <2>2, <2>3
<1>4. ASSUME NEW y \in Yums, CardStep(y) PROVE MoveIndex(y) \/ cidx' = cidx
  BY <1>4 DEF CardStep, FreshCache, FetchIndex, WriteSerial, Resolve, FollowPlan, Fetch, Fetched, Rpm, Query,
     WriteInstalled, Rest, cache
<1>5. ASSUME NEW y \in Yums, MissStep(y) \/ Starts(y) PROVE cidx' = cidx
  BY <1>5, MissFrame, StartFrame DEF cache
<1>6. Service \/ UNCHANGED vars => cidx' = cidx
  BY ServiceFrame DEF vars, cache
<1>7. QED
  BY <1>2, <1>3, <1>4, <1>5, <1>6, NextCases

\* No other step ends a run well.
LEMMA NotOk ==
  ASSUME Running, NEW y \in Yums, MissStep(y) \/ (CardStep(y) /\ ~FollowPlan(y) /\ ~Query(y) /\ ~WriteInstalled(y))
  PROVE  c'[y].at # "off" \/ c'[y].rc = "fail" \/ c'[y] = c[y]
<1>0. c[y] \in RunRec
  BY DEF Running
<1>1. \A r : Become(y, r) => c'[y] = r
  BY OnlyOne
<1>2. \A l : Goto(y, l) => c'[y].at = l
  BY GotoFact
<1>3. Exit(y, "fail") => c'[y].rc = "fail"
  BY ExitFact
<1>4. CASE MissStep(y)
  <2>1. CASE Hear(y)
    <3>1. Built(y).at # "off"
      BY <1>0 DEF Built, RunRec
    <3>2. QED
      BY <1>1, <1>3, <2>1, <3>1 DEF Hear
  <2>2. CASE Subscribe(y)
    <3>1. c'[y] = [c[y] EXCEPT !.at = "pub", !.id = Len(req) + 1]
      BY <1>1, <2>2 DEF Subscribe
    <3>2. QED
      BY <1>0, <3>1 DEF RunRec
  <2>3. QED
    BY <1>2, <1>3, <1>4, <2>1, <2>2 DEF MissStep, Request, NoAnswer, Kill
<1>5. CASE FreshCache(y)
  <2>1. CASE Become(y, [c[y] EXCEPT !.at = "fetchidx", !.ret = "resolve"])
    <3>1. c'[y] = [c[y] EXCEPT !.at = "fetchidx", !.ret = "resolve"]
      BY <1>1, <2>1
    <3>2. QED
      BY <1>0, <3>1 DEF RunRec
  <2>2. QED
    BY <1>2, <1>5, <2>1 DEF FreshCache
<1>6. CASE FetchIndex(y)
  <2>1. ASSUME NEW l, Become(y, [c[y] EXCEPT !.at = "mv", !.new = l]) PROVE c'[y].at = "mv"
    <3>1. c'[y] = [c[y] EXCEPT !.at = "mv", !.new = l]
      BY <1>1, <2>1
    <3>2. QED
      BY <1>0, <3>1 DEF RunRec
  <2>2. QED
    BY <1>3, <1>6, <2>1 DEF FetchIndex
<1>7. CASE WriteSerial(y)
  <2>1. c'[y] = [c[y] EXCEPT !.at = c[y].ret, !.new = NoIndex]
    BY <1>1, <1>7 DEF WriteSerial
  <2>2. QED
    BY <1>0, <2>1 DEF RunRec
<1>8. CASE MoveIndex(y) \/ Resolve(y) \/ Fetched(y)
  BY <1>2, <1>8 DEF MoveIndex, Resolve, Fetched
<1>9. CASE Fetch(y)
  <2>1. ASSUME NEW k, NEW F, Become(y, [c[y] EXCEPT !.pos = k, !.files = F]) PROVE c'[y].at = c[y].at
    <3>1. c'[y] = [c[y] EXCEPT !.pos = k, !.files = F]
      BY <1>1, <2>1
    <3>2. QED
      BY <1>0, <3>1 DEF RunRec
  <2>2. CASE Become(y, [c[y] EXCEPT !.at = "fetchidx", !.ret = "fresh", !.refreshed = TRUE])
    <3>1. c'[y] = [c[y] EXCEPT !.at = "fetchidx", !.ret = "fresh", !.refreshed = TRUE]
      BY <1>1, <2>2
    <3>2. QED
      BY <1>0, <3>1 DEF RunRec
  <2>3. QED
    BY <1>3, <1>9, <2>1, <2>2 DEF Fetch
<1>10. CASE Rpm(y)
  <2>1. ASSUME NEW v, Become(y, [c[y] EXCEPT !.at = "qa", !.rc = v]) PROVE c'[y].at = "qa"
    <3>1. c'[y] = [c[y] EXCEPT !.at = "qa", !.rc = v]
      BY <1>1, <2>1
    <3>2. QED
      BY <1>0, <3>1 DEF RunRec
  <2>2. QED
    BY <1>10, <2>1 DEF Rpm
<1>11. QED
  BY <1>4, <1>5, <1>6, <1>7, <1>8, <1>9, <1>10 DEF CardStep

\* A run of an install that ends well has had everything installed already, or installs it.
LEMMA OkStep ==
  ASSUME Steady, SteadyInv, [Next]_vars, NEW y \in Yums,
         c'[y].rc = "ok", c'[y].at = "off", c[y].at # "off", c[y].verb = "install"
  PROVE  db'[c[y].want] # 0
<1>0. TypeInv /\ YumInv /\ Running /\ c[y] \in RunRec
  BY DEF SteadyInv, TypeInv, Running
<1>1. c'[y] # c[y]
  OBVIOUS
<1>2. PICK z \in Yums : MissStep(z) \/ CardStep(z) \/ Starts(z)
  <2>1. Service \/ UNCHANGED vars => c' = c
    BY ServiceFrame DEF vars
  <2>2. QED
    BY <1>1, <2>1, NextCases
<1>3. z = y /\ ~Starts(y)
  <2>1. \A o \in Yums : o # z => c[o].at = "off"
    BY <1>0, <1>2, Alone DEF YumInv
  <2>2. z = y
    BY <2>1
  <2>3. ~Starts(y)
    BY DEF Starts, Run
  <2>4. QED
    BY <2>2, <2>3
<1>4. Installing(y)
  BY <1>0 DEF YumInv
<1>5. CASE FollowPlan(y)
  <2>1. c[y].at = "planned" /\ db' = db
    BY <1>5 DEF FollowPlan, Rest
  <2>2. ~Exit(y, "fail")
    BY <1>0, ExitFact
  <2>4. ~Become(y, [c[y] EXCEPT !.at = "sub", !.todo = plan.missing])
    <3>1. SUFFICES ASSUME Become(y, [c[y] EXCEPT !.at = "sub", !.todo = plan.missing]) PROVE FALSE
      OBVIOUS
    <3>2. c'[y] = [c[y] EXCEPT !.at = "sub", !.todo = plan.missing]
      BY <1>0, <3>1, OnlyOne
    <3>3. c'[y].at = "sub"
      BY <1>0, <3>2 DEF RunRec
    <3>4. QED
      BY <3>3
  <2> DEFINE r == [c[y] EXCEPT !.at = "fetch", !.pos = 1, !.files = {}, !.nodeps = @ \/ plan.unmet]
  <2>5. ~Become(y, r)
    <3>1. SUFFICES ASSUME Become(y, r) PROVE FALSE
      OBVIOUS
    <3>2. c'[y] = r
      BY <1>0, <3>1, OnlyOne
    <3>3. c'[y].at = "fetch"
      BY <1>0, <3>2 DEF RunRec
    <3>4. QED
      BY <3>3
  <2>6. plan.missing = {} /\ plan.get = <<>>
    BY <1>5, <2>2, <2>4, <2>5 DEF FollowPlan
  <2>7. c[y].want \in Installed
    BY <1>4, <2>1, <2>6 DEF Installing, Good
  <2>8. QED
    BY <2>1, <2>7 DEF Installed
<1>6. CASE Query(y) \/ WriteInstalled(y)
  <2> DEFINE r == [c[y] EXCEPT !.at = "mvinst", !.files = {<<p, db[p]>> : p \in Pkgs}]
  <2>0. ~Become(y, r)
    <3>1. SUFFICES ASSUME Become(y, r) PROVE FALSE
      OBVIOUS
    <3>2. c'[y] = r
      BY <1>0, <3>1, OnlyOne
    <3>3. c'[y].at = "mvinst"
      BY <1>0, <3>2 DEF RunRec
    <3>4. QED
      BY <3>3
  <2>1. c[y].at \in {"qa", "mvinst"} /\ db' = db /\ Exit(y, c[y].rc)
    <3>1. CASE Query(y)
      BY <2>0, <3>1 DEF Query, OldListStays
    <3>2. CASE WriteInstalled(y)
      BY <3>2 DEF WriteInstalled, OldListStays
    <3>3. QED
      BY <1>6, <3>1, <3>2
  <2>2. c[y].rc = "ok"
    BY <1>0, <2>1, ExitFact
  <2>3. c[y].want \in Installed
    BY <1>4, <2>1, <2>2 DEF Installing
  <2>4. QED
    BY <2>1, <2>3 DEF Installed
<1>7. CASE MissStep(y) \/ (CardStep(y) /\ ~FollowPlan(y) /\ ~Query(y) /\ ~WriteInstalled(y))
  <2>1. c'[y].at # "off" \/ c'[y].rc = "fail" \/ c'[y] = c[y]
    BY <1>0, <1>7, NotOk
  <2>2. QED
    BY <2>1
<1>8. QED
  BY <1>2, <1>3, <1>5, <1>6, <1>7 DEF CardStep

\* Under the same conditions serials only grow; the cached index only gets newer, but after a run that was killed or
\* whose disk was full between the index and its serial, when it is still no older than the serial on disk; and an
\* install that ends well has installed what was asked for (Yum's NeverBack).
THEOREM NeverBackHolds ==
  ASSUME Steady
  PROVE  Spec => NeverBack
<1>1. SteadyInv /\ [Next]_vars => SteadyInv'
  BY SteadyKept
<1>2. SteadyInv /\ [Next]_vars => [signed' # signed => signed'.serial > signed.serial]_mirrorVars
  BY SerialStep
<1>3. SteadyInv /\ [Next]_vars => [cidx'.serial >= cidx.serial \/ ("serial" \in torn /\ cidx'.serial >= cserial)]_vars
  BY CacheStep
<1>4. SteadyInv /\ [Next]_vars
      => [\A y \in Yums : c'[y].rc = "ok" /\ c'[y].at = "off" /\ c[y].at # "off" /\ c[y].verb = "install"
             => db'[c[y].want] # 0]_vars
  BY OkStep
<1>5. QED
  BY <1>1, <1>2, <1>3, <1>4, SteadyInit, PTL DEF Spec, NeverBack, SerialGrows, CacheForward, OkInstalled
=============================================================================
