-------------------------- MODULE WorkQueueProofs --------------------------
(***************************************************************************)
(* What holds of WorkQueue for every set of requests, every start limit    *)
(* and every number of stops and failing writes.                           *)
(***************************************************************************)
EXTENDS WorkQueue, WellFoundedInduction, FiniteSetTheorems, TLAPS

\* The least of a set of numbers is in it, below the others.
LEMMA MinOfNats ==
    ASSUME NEW S, S \subseteq Nat, S # {}
    PROVE  Min(S) \in S /\ \A y \in S : Min(S) <= y
<1> DEFINE Less == {ss \in Nat \X Nat : ss[1] < ss[2]}
<1>1. IsWellFoundedOn(Less, Nat)
  BY NatLessThanWellFounded DEF OpToRel
<1>2. PICK x \in S : \A y \in S : <<y, x>> \notin Less
  BY <1>1, WFMin
<1>3. \A y \in S : x <= y
  <2>1. SUFFICES ASSUME NEW y \in S PROVE ~ (y < x)
    OBVIOUS
  <2>2. <<y, x>> \in Nat \X Nat
    BY <2>1
  <2> QED
    BY <1>2, <2>2
<1> QED
  BY <1>3 DEF Min

\* So is the greatest, where there is a bound.
LEMMA MaxOfBoundedNats ==
    ASSUME NEW S, S \subseteq Nat, S # {}, NEW b \in Nat, \A x \in S : x <= b
    PROVE  Max(S) \in S /\ \A y \in S : y <= Max(S)
<1> DEFINE D == {b - x : x \in S}
<1>1. D \subseteq Nat /\ D # {}
  <2>1. \A x \in S : b - x \in Nat
    OBVIOUS
  <2>2. PICK x \in S : TRUE
    OBVIOUS
  <2>3. b - x \in D
    OBVIOUS
  <2> QED
    BY <2>1, <2>3
<1>2. PICK m \in S : Min(D) = b - m
  BY <1>1, MinOfNats
<1>3. \A y \in S : b - m <= b - y
  BY <1>1, <1>2, MinOfNats
<1>4. \A y \in S : y <= m
  BY <1>3
<1> QED
  BY <1>4 DEF Max

-----------------------------------------------------------------------------

-----------------------------------------------------------------------------
(* Type correctness.  The next sequence number is computed from the file,  *)
(* so it needs a bound on what the file holds: every line and every short  *)
(* write used up at most a fixed number of sequence numbers.  The throttle *)
(* needs to be the number of items that count as running, or it could drop *)
(* below zero.                                                             *)

SeqsBounded == \A i \in DOMAIN log : log[i].seq <= i + 2 * shortWrites

Fused == IF torn THEN 1 ELSE 0

NextSeqBounded ==
    up => nextSeq + Fused <= Len(log) + 1 + 2 * shortWrites

InFlight == {id \in Ids : status[id] = "running"}

ThrottleCountsInFlight == running = Cardinality(InFlight)

TypeInv == TypeOK /\ SeqsBounded /\ NextSeqBounded /\ ThrottleCountsInFlight

LEMMA InitTypeInv == Init => TypeInv
<1> SUFFICES ASSUME Init PROVE TypeInv
  OBVIOUS
<1>1. TypeOK
  <2>1. torn \in BOOLEAN /\ up \in BOOLEAN
    BY DEF Init
  <2>2. log \in Seq(Lines) /\ synced \in 0..Len(log) /\ pending \in Seq(Ids)
    BY DEF Init
  <2>3. /\ status \in [Ids -> Statuses] /\ receipt \in [Ids -> Nat]
        /\ acked \in [Ids -> Nat] /\ runs \in [Ids -> Nat]
    BY DEF Init, Statuses
  <2>4. /\ running \in Nat /\ nextSeq \in Nat \ {0} /\ active \subseteq Ids
        /\ stops \in 0..MaxStops /\ ioErrors \in 0..MaxIoErrors
        /\ shortWrites \in 0..MaxShortWrites
    BY BoundsAssumption DEF Init
  <2> QED
    BY <2>1, <2>2, <2>3, <2>4 DEF TypeOK
<1>2. SeqsBounded /\ NextSeqBounded
  BY DEF Init, SeqsBounded, NextSeqBounded, Fused
<1>3. ThrottleCountsInFlight
  <2>1. InFlight = {}
    BY DEF Init, InFlight
  <2> QED
    BY <2>1, FS_EmptySet DEF Init, ThrottleCountsInFlight
<1> QED
  BY <1>1, <1>2, <1>3 DEF TypeInv

\* The file after a write that returned: typed, and its numbers bounded.
LEMMA WriteKeepsFile ==
    ASSUME TypeInv, NEW line \in Lines, Write(line),
           line.seq + Fused <= Len(log) + 1 + 2 * shortWrites
    PROVE  /\ log' \in Seq(Lines) /\ synced' \in 0..Len(log') /\ torn' \in BOOLEAN
           /\ shortWrites' \in 0..MaxShortWrites /\ ioErrors' = ioErrors /\ stops' = stops
           /\ SeqsBounded'
           /\ Len(log) + 1 + 2 * shortWrites + Fused'
                <= Len(log') + 2 * shortWrites' + Fused
<1>a. /\ log \in Seq(Lines) /\ synced \in 0..Len(log) /\ torn \in BOOLEAN
      /\ shortWrites \in 0..MaxShortWrites /\ MaxShortWrites \in Nat
  BY BoundsAssumption DEF TypeInv, TypeOK
<1>b. SeqsBounded
  BY DEF TypeInv
<1>0. /\ Len(log) \in Nat /\ DOMAIN log = 1..Len(log) /\ shortWrites \in Nat
      /\ \A i \in 1..Len(log) : log[i] \in Lines
      /\ \A i \in 1..Len(log) : log[i].seq \in Nat /\ log[i].seq <= i + 2 * shortWrites
      /\ line.seq \in Nat
  <2>1. Len(log) \in Nat /\ DOMAIN log = 1..Len(log) /\ shortWrites \in Nat
    BY <1>a
  <2>2. \A i \in 1..Len(log) : log[i] \in Lines
    BY <1>a
  <2>3. \A i \in 1..Len(log) : log[i].seq \in Nat
    BY <2>2 DEF Lines
  <2>4. \A i \in 1..Len(log) : log[i].seq <= i + 2 * shortWrites
    BY <1>b, <2>1 DEF SeqsBounded
  <2> QED
    BY <2>1, <2>2, <2>3, <2>4 DEF Lines
<1>1. CASE /\ log' = Lands(line) /\ torn' = FALSE
           /\ synced' = IF line.op \in SyncedOps THEN Len(log') ELSE synced
           /\ shortWrites' = shortWrites /\ stops' = stops /\ ioErrors' = ioErrors
  <2>0. Fused' = 0 /\ torn' \in BOOLEAN
    BY <1>1 DEF Fused
  <2>1. CASE torn
    <3>0. Fused = 1
      BY <2>1 DEF Fused
    <3>1. log' = log
      BY <1>1, <2>1 DEF Lands
    <3>2. SeqsBounded'
      BY <1>a, <1>0, <1>1, <3>1 DEF SeqsBounded
    <3>3. synced' \in 0..Len(log')
      BY <1>a, <1>0, <1>1, <3>1
    <3> QED
      BY <1>a, <1>0, <1>1, <2>0, <3>0, <3>1, <3>2, <3>3
  <2>2. CASE ~ torn
    <3>0. Fused = 0
      BY <2>2 DEF Fused
    <3>1. log' = Append(log, line)
      BY <1>1, <2>2 DEF Lands
    <3>2. log' \in Seq(Lines) /\ Len(log') = Len(log) + 1
      BY <1>a, <3>1
    <3>3. /\ log'[Len(log) + 1] = line
          /\ \A i \in 1..Len(log) : log'[i] = log[i]
      BY <1>a, <3>1
    <3>4. SeqsBounded'
      <4>1. SUFFICES ASSUME NEW i \in 1..Len(log')
                     PROVE  log'[i].seq <= i + 2 * shortWrites'
        BY <3>2 DEF SeqsBounded
      <4>2. CASE i = Len(log) + 1
        BY <1>a, <1>0, <1>1, <3>0, <3>3, <4>2
      <4>3. CASE i \in 1..Len(log)
        BY <1>a, <1>0, <1>1, <3>3, <4>3
      <4> QED
        BY <1>0, <3>2, <4>2, <4>3
    <3>5. synced' \in 0..Len(log')
      BY <1>a, <1>0, <1>1, <3>2
    <3> QED
      BY <1>a, <1>0, <1>1, <2>0, <3>0, <3>2, <3>4, <3>5
  <2> QED
    BY <2>1, <2>2
<1>2. CASE /\ shortWrites < MaxShortWrites /\ shortWrites' = shortWrites + 1
           /\ torn' = TRUE /\ log' = log /\ synced' = synced
           /\ stops' = stops /\ ioErrors' = ioErrors
  <2>1. SeqsBounded'
    BY <1>a, <1>0, <1>2 DEF SeqsBounded
  <2>2. shortWrites' \in 0..MaxShortWrites
    BY <1>a, <1>0, <1>2
  <2>3. Fused \in {0, 1} /\ Fused' = 1
    BY <1>2 DEF Fused
  <2> QED
    BY SMTT(30), <1>a, <1>0, <1>2, <2>1, <2>2, <2>3
<1> QED
  BY <1>1, <1>2 DEF Write

-----------------------------------------------------------------------------
(* What replay rebuilds is typed.                                          *)

LEMMA AcceptsTyped ==
    ASSUME NEW l \in Seq(Lines), NEW id \in Ids
    PROVE  /\ AcceptsOf(l, id) \subseteq 1..Len(l)
           /\ EventsOf(l, id) \subseteq 1..Len(l)
           /\ AcceptsOf(l, id) \subseteq Nat /\ EventsOf(l, id) \subseteq Nat
BY DEF AcceptsOf, EventsOf

LEMMA ReplayStatusTyped ==
    ASSUME NEW l \in Seq(Lines), NEW id \in Ids
    PROVE  ReplayStatus(l, id) \in Statuses
<1>1. CASE AcceptsOf(l, id) = {} \/ EventsOf(l, id) = {}
  BY <1>1 DEF ReplayStatus, Statuses
<1>2. CASE AcceptsOf(l, id) # {} /\ EventsOf(l, id) # {}
  <2>1. \A x \in EventsOf(l, id) : x <= Len(l)
    BY AcceptsTyped
  <2>2. Max(EventsOf(l, id)) \in EventsOf(l, id)
    BY <1>2, <2>1, AcceptsTyped, MaxOfBoundedNats
  <2> DEFINE last == Max(EventsOf(l, id))
  <2>3. last \in 1..Len(l) /\ l[last].op # "accept"
    BY <2>2 DEF EventsOf
  <2> HIDE DEF last
  <2>4. l[last] \in Lines
    BY <2>3
  <2>5. l[last].op \in Ops \ {"accept"}
    BY <2>3, <2>4 DEF Lines
  <2>6. ReplayStatus(l, id) = StatusAfter(l[last].op)
    BY <1>2 DEF ReplayStatus, last
  <2> QED
    BY <2>5, <2>6 DEF StatusAfter, Ops, Statuses
<1> QED
  BY <1>1, <1>2

LEMMA ReplayReceiptTyped ==
    ASSUME NEW l \in Seq(Lines), NEW id \in Ids
    PROVE  /\ ReplayReceipt(l, id) \in Nat
           /\ \A b \in Nat : (\A i \in 1..Len(l) : l[i].seq <= b)
                                => ReplayReceipt(l, id) <= b
<1>1. CASE AcceptsOf(l, id) = {}
  BY <1>1 DEF ReplayReceipt
<1>2. CASE AcceptsOf(l, id) # {}
  <2>1. Min(AcceptsOf(l, id)) \in 1..Len(l)
    BY <1>2, AcceptsTyped, MinOfNats
  <2>2. PICK i \in 1..Len(l) : ReplayReceipt(l, id) = l[i].seq
    BY <1>2, <2>1 DEF ReplayReceipt
  <2>3. l[i] \in Lines
    OBVIOUS
  <2>4. l[i].seq \in Nat
    BY <2>3 DEF Lines
  <2> QED
    BY <2>2, <2>4
<1> QED
  BY <1>1, <1>2

LEMMA ReplayNextSeqTyped ==
    ASSUME NEW l \in Seq(Lines), NEW b \in Nat, \A i \in 1..Len(l) : l[i].seq <= b
    PROVE  ReplayNextSeq(l) \in Nat \ {0} /\ ReplayNextSeq(l) <= b + 1
<1> DEFINE R == {0} \cup {ReplayReceipt(l, id) : id \in Ids}
<1>1. R \subseteq Nat /\ R # {}
  BY ReplayReceiptTyped
<1>2. \A x \in R : x <= b
  BY ReplayReceiptTyped
<1>3. Max(R) \in R
  BY <1>1, <1>2, MaxOfBoundedNats
<1>4. Max(R) \in Nat /\ Max(R) <= b
  BY <1>1, <1>2, <1>3
<1> HIDE DEF R
<1>5. ReplayNextSeq(l) = 1 + Max(R)
  BY DEF ReplayNextSeq, R
<1> QED
  BY <1>4, <1>5

LEMMA InAcceptOrderTyped ==
    ASSUME NEW l \in Seq(Lines), NEW s, NEW p \in InAcceptOrder(l, WithStatus(l, s))
    PROVE  /\ p \in Seq(Ids)
           /\ Cardinality(WithStatus(l, s)) \in Nat
           /\ Len(p) = Cardinality(WithStatus(l, s))
<1>1. WithStatus(l, s) \subseteq Ids
  BY DEF WithStatus
<1>2. Cardinality(WithStatus(l, s)) \in Nat
  BY <1>1, IdsAssumption, FS_Subset, FS_CardinalityType
<1>3. p \in [1..Cardinality(WithStatus(l, s)) -> Ids]
  BY <1>1 DEF InAcceptOrder
<1> QED
  BY <1>2, <1>3

-----------------------------------------------------------------------------
(* The parts of TypeOK an action may leave alone, for the leaves below.    *)

FileTyped == log \in Seq(Lines) /\ synced \in 0..Len(log) /\ torn \in BOOLEAN
ItemsTyped == status \in [Ids -> Statuses] /\ receipt \in [Ids -> Nat]
LineTyped == pending \in Seq(Ids) /\ active \subseteq Ids
CountersTyped == running \in Nat /\ nextSeq \in Nat \ {0}
HistoryTyped == acked \in [Ids -> Nat] /\ runs \in [Ids -> Nat]
FaultsTyped ==
    /\ stops \in 0..MaxStops /\ ioErrors \in 0..MaxIoErrors
    /\ shortWrites \in 0..MaxShortWrites

LEMMA TypeOKParts ==
    TypeOK <=> /\ FileTyped /\ up \in BOOLEAN /\ ItemsTyped /\ LineTyped
               /\ CountersTyped /\ HistoryTyped /\ FaultsTyped
BY DEF TypeOK, FileTyped, ItemsTyped, LineTyped, CountersTyped, HistoryTyped, FaultsTyped

LEMMA TypeOKPartsNext ==
    TypeOK' <=> /\ FileTyped' /\ up' \in BOOLEAN /\ ItemsTyped' /\ LineTyped'
                /\ CountersTyped' /\ HistoryTyped' /\ FaultsTyped'
BY DEF TypeOK, FileTyped, ItemsTyped, LineTyped, CountersTyped, HistoryTyped, FaultsTyped

LEMMA InFlightFinite ==
    ASSUME TypeOK
    PROVE  IsFiniteSet(InFlight) /\ Cardinality(InFlight) \in Nat
<1>1. InFlight \subseteq Ids
  BY DEF InFlight
<1> QED
  BY <1>1, IdsAssumption, FS_Subset, FS_CardinalityType

\* Write(line) for the lines of enqueue, markStarted and markEnded.
LEMMA WriteTyped ==
    ASSUME TypeInv, up, NEW line \in Lines, Write(line), line.seq <= nextSeq
    PROVE  /\ FileTyped' /\ FaultsTyped' /\ SeqsBounded'
           /\ nextSeq + 1 + Fused' <= Len(log') + 1 + 2 * shortWrites'
<1>1. /\ nextSeq \in Nat /\ Fused \in {0, 1} /\ line.seq \in Nat
      /\ nextSeq + Fused <= Len(log) + 1 + 2 * shortWrites
  BY DEF TypeInv, TypeOK, NextSeqBounded, Fused, Lines
<1>2. Len(log) \in Nat /\ shortWrites \in Nat
  BY BoundsAssumption DEF TypeInv, TypeOK
<1>3. line.seq + Fused <= Len(log) + 1 + 2 * shortWrites
  BY <1>1, <1>2
<1>4. /\ log' \in Seq(Lines) /\ synced' \in 0..Len(log') /\ torn' \in BOOLEAN
      /\ shortWrites' \in 0..MaxShortWrites /\ ioErrors' = ioErrors /\ stops' = stops
      /\ SeqsBounded'
      /\ Len(log) + 1 + 2 * shortWrites + Fused' <= Len(log') + 2 * shortWrites' + Fused
  BY <1>3, WriteKeepsFile
<1>5. Len(log') \in Nat /\ shortWrites' \in Nat /\ Fused' \in {0, 1}
  <2>1. Len(log') \in Nat /\ shortWrites' \in Nat
    BY <1>4, BoundsAssumption
  <2>2. Fused' \in {0, 1}
    BY DEF Fused
  <2> QED
    BY <2>1, <2>2
<1>6. nextSeq + 1 + Fused' <= Len(log') + 1 + 2 * shortWrites'
  <2>1. Len(log) + 1 + 2 * shortWrites + Fused' <= Len(log') + 2 * shortWrites' + Fused
    BY <1>4
  <2>2. nextSeq + Fused <= Len(log) + 1 + 2 * shortWrites
    BY <1>1
  <2>3. \A n, f, g, k, k2, s1, s2 \in Nat :
            /\ n + f <= k + 1 + 2 * s1
            /\ k + 1 + 2 * s1 + g <= k2 + 2 * s2 + f
            => n + 1 + g <= k2 + 1 + 2 * s2
    OBVIOUS
  <2>4. nextSeq \in Nat /\ Fused \in Nat /\ Fused' \in Nat
    BY <1>1, <1>5
  <2>5. Len(log) \in Nat /\ Len(log') \in Nat /\ shortWrites \in Nat /\ shortWrites' \in Nat
    BY <1>2, <1>5
  <2> QED
    BY ZenonT(30), <2>1, <2>2, <2>3, <2>4, <2>5
<1>7. FileTyped'
  BY <1>4 DEF FileTyped
<1>8. FaultsTyped'
  <2>1. stops \in 0..MaxStops /\ ioErrors \in 0..MaxIoErrors
    BY DEF TypeInv, TypeOK
  <2> QED
    BY <1>4, <2>1 DEF FaultsTyped
<1> QED
  BY <1>4, <1>6, <1>7, <1>8

\* WriteThrows(line): at most one more line, and no fragment at the end.
LEMMA WriteThrowsTyped ==
    ASSUME TypeInv, up, NEW line \in Lines, WriteThrows(line), line.seq <= nextSeq
    PROVE  /\ FileTyped' /\ FaultsTyped' /\ SeqsBounded'
           /\ nextSeq + Fused' <= Len(log') + 1 + 2 * shortWrites'
<1>1. /\ nextSeq \in Nat /\ Fused \in {0, 1} /\ line.seq \in Nat
      /\ nextSeq + Fused <= Len(log) + 1 + 2 * shortWrites
  BY DEF TypeInv, TypeOK, NextSeqBounded, Fused, Lines
<1>2. /\ Len(log) \in Nat /\ DOMAIN log = 1..Len(log) /\ log \in Seq(Lines)
      /\ shortWrites \in Nat /\ synced \in 0..Len(log)
      /\ \A i \in 1..Len(log) : log[i].seq <= i + 2 * shortWrites
  BY BoundsAssumption DEF TypeInv, TypeOK, SeqsBounded
<1>3. /\ log' = Lands(line) /\ torn' = FALSE /\ synced' = synced
      /\ shortWrites' = shortWrites /\ stops' = stops
      /\ ioErrors < MaxIoErrors /\ ioErrors' = ioErrors + 1
  BY DEF WriteThrows
<1>4. Fused' = 0 /\ torn' \in BOOLEAN
  BY <1>3 DEF Fused
<1>5. FaultsTyped'
  <2>1. /\ stops \in 0..MaxStops /\ ioErrors \in 0..MaxIoErrors
        /\ shortWrites \in 0..MaxShortWrites
    BY DEF TypeInv, TypeOK
  <2> QED
    BY <1>3, <2>1, BoundsAssumption DEF FaultsTyped
<1>6. CASE torn
  <2>1. log' = log
    BY <1>3, <1>6 DEF Lands
  <2>2. SeqsBounded'
    BY <1>2, <1>3, <2>1 DEF SeqsBounded
  <2>3. FileTyped'
    BY <1>2, <1>3, <1>4, <2>1 DEF FileTyped
  <2> QED
    BY <1>1, <1>2, <1>3, <1>4, <1>5, <2>1, <2>2, <2>3
<1>7. CASE ~ torn
  <2>0. Fused = 0
    BY <1>7 DEF Fused
  <2>1. log' = Append(log, line)
    BY <1>3, <1>7 DEF Lands
  <2>2. log' \in Seq(Lines) /\ Len(log') = Len(log) + 1
    BY <1>2, <2>1
  <2>3. log'[Len(log) + 1] = line /\ \A i \in 1..Len(log) : log'[i] = log[i]
    BY <1>2, <2>1
  <2>4. \A i \in 1..Len(log') : log'[i].seq <= i + 2 * shortWrites'
    <3>1. SUFFICES ASSUME NEW i \in 1..Len(log')
                   PROVE  log'[i].seq <= i + 2 * shortWrites'
      OBVIOUS
    <3>2. CASE i = Len(log) + 1
      BY <1>1, <1>2, <1>3, <2>0, <2>3, <3>2
    <3>3. CASE i \in 1..Len(log)
      BY <1>2, <1>3, <2>3, <3>3
    <3> QED
      BY <1>2, <2>2, <3>2, <3>3
  <2>5. SeqsBounded'
    BY <2>2, <2>4 DEF SeqsBounded
  <2>6. FileTyped'
    BY <1>2, <1>3, <1>4, <2>2 DEF FileTyped
  <2> QED
    BY <1>1, <1>2, <1>3, <1>4, <1>5, <2>0, <2>2, <2>5, <2>6
<1> QED
  BY <1>2, <1>6, <1>7

-----------------------------------------------------------------------------
(* Each action keeps the type invariant.                                   *)

LEMMA EnqueueTypeInv ==
    ASSUME TypeInv, NEW id \in Ids, Enqueue(id)
    PROVE  TypeInv'
<1> DEFINE line == [op |-> "accept", id |-> id, seq |-> nextSeq]
<1>0. /\ ItemsTyped /\ LineTyped /\ CountersTyped /\ HistoryTyped /\ up \in BOOLEAN
      /\ up /\ status[id] = "none"
  BY TypeOKParts DEF TypeInv, Enqueue
<1>1. line \in Lines /\ line.seq <= nextSeq
  BY <1>0 DEF Lines, Ops, CountersTyped
<1>2. Write(line)
  BY DEF Enqueue
<1> HIDE DEF line
<1>3. /\ FileTyped' /\ FaultsTyped' /\ SeqsBounded'
      /\ nextSeq + 1 + Fused' <= Len(log') + 1 + 2 * shortWrites'
  BY <1>0, <1>1, <1>2, WriteTyped
<1>4. ItemsTyped' /\ CountersTyped'
  BY <1>0 DEF Enqueue, ItemsTyped, CountersTyped, Statuses
<1>5. LineTyped'
  BY <1>0 DEF Enqueue, LineTyped
<1>6. HistoryTyped'
  BY <1>0 DEF Enqueue, HistoryTyped, CountersTyped
<1>7. TypeOK'
  BY <1>0, <1>3, <1>4, <1>5, <1>6, TypeOKPartsNext DEF Enqueue
<1>8. NextSeqBounded'
  BY <1>3 DEF NextSeqBounded, Enqueue
<1>9. ThrottleCountsInFlight'
  <2>1. InFlight' = InFlight
    BY <1>0 DEF InFlight, Enqueue, ItemsTyped
  <2> QED
    BY <2>1 DEF ThrottleCountsInFlight, TypeInv, Enqueue
<1> QED
  BY <1>3, <1>7, <1>8, <1>9 DEF TypeInv

LEMMA StartTypeInv ==
    ASSUME TypeInv, NEW id \in Ids, Start(id)
    PROVE  TypeInv'
<1> DEFINE line == Line("start", id)
<1>0. /\ ItemsTyped /\ LineTyped /\ CountersTyped /\ HistoryTyped /\ up \in BOOLEAN
      /\ up /\ status[id] = "queued" /\ pending # <<>>
  BY TypeOKParts DEF TypeInv, Start, IsNext
<1>1. line \in Lines /\ line.seq <= nextSeq
  BY <1>0 DEF Line, Lines, Ops, CountersTyped
<1>2. Write(line)
  BY DEF Start
<1> HIDE DEF line
<1>3. /\ FileTyped' /\ FaultsTyped' /\ SeqsBounded'
      /\ nextSeq + 1 + Fused' <= Len(log') + 1 + 2 * shortWrites'
  BY <1>0, <1>1, <1>2, WriteTyped
<1>4. ItemsTyped' /\ CountersTyped'
  BY <1>0 DEF Start, ItemsTyped, CountersTyped, Statuses
<1>5. LineTyped'
  BY <1>0 DEF Start, LineTyped
<1>6. HistoryTyped'
  BY <1>0 DEF Start, HistoryTyped
<1>7. TypeOK'
  BY <1>0, <1>3, <1>4, <1>5, <1>6, TypeOKPartsNext DEF Start
<1>8. NextSeqBounded'
  <2>1. nextSeq' = nextSeq /\ nextSeq \in Nat
    BY <1>0 DEF Start, CountersTyped
  <2>2. Fused' \in Nat
    BY DEF Fused
  <2>3. Len(log') \in Nat /\ shortWrites' \in Nat
    BY <1>3, BoundsAssumption DEF FileTyped, FaultsTyped
  <2>4. nextSeq + Fused' <= Len(log') + 1 + 2 * shortWrites'
    <3>1. \A n, f, g \in Nat : n + 1 + f <= g => n + f <= g
      OBVIOUS
    <3>2. Len(log') + 1 + 2 * shortWrites' \in Nat
      BY <2>3
    <3> QED
      BY <1>3, <2>1, <2>2, <3>1, <3>2
  <2> QED
    BY <2>1, <2>4 DEF NextSeqBounded
<1>9. ThrottleCountsInFlight'
  <2>1. InFlight' = InFlight \cup {id} /\ id \notin InFlight
    BY <1>0 DEF InFlight, Start, ItemsTyped
  <2>2. IsFiniteSet(InFlight) /\ Cardinality(InFlight) \in Nat
    BY InFlightFinite DEF TypeInv
  <2>3. Cardinality(InFlight') = Cardinality(InFlight) + 1
    BY <2>1, <2>2, FS_AddElement
  <2> QED
    BY <2>3 DEF ThrottleCountsInFlight, TypeInv, Start
<1> QED
  BY <1>3, <1>7, <1>8, <1>9 DEF TypeInv

LEMMA EndTypeInv ==
    ASSUME TypeInv, NEW id \in Ids, NEW op \in {"done", "failed"}, End(id, op)
    PROVE  TypeInv'
<1> DEFINE line == Line(op, id)
<1>0. /\ ItemsTyped /\ LineTyped /\ CountersTyped /\ HistoryTyped /\ up \in BOOLEAN
      /\ up /\ status[id] = "running"
  BY TypeOKParts DEF TypeInv, End
<1>1. line \in Lines /\ line.seq <= nextSeq
  BY <1>0 DEF Line, Lines, Ops, CountersTyped
<1>2. Write(line)
  BY DEF End
<1> HIDE DEF line
<1>3. /\ FileTyped' /\ FaultsTyped' /\ SeqsBounded'
      /\ nextSeq + 1 + Fused' <= Len(log') + 1 + 2 * shortWrites'
  BY <1>0, <1>1, <1>2, WriteTyped
<1>a. /\ InFlight' = InFlight \ {id} /\ id \in InFlight
      /\ Cardinality(InFlight') = Cardinality(InFlight) - 1
      /\ Cardinality(InFlight') \in Nat
  <2>1. InFlight' = InFlight \ {id} /\ id \in InFlight
    BY <1>0 DEF InFlight, End, ItemsTyped
  <2>2. IsFiniteSet(InFlight) /\ Cardinality(InFlight) \in Nat
    BY InFlightFinite DEF TypeInv
  <2>3. Cardinality(InFlight') = Cardinality(InFlight) - 1 /\ IsFiniteSet(InFlight')
    BY <2>1, <2>2, FS_RemoveElement
  <2>4. Cardinality(InFlight') \in Nat
    BY <2>3, FS_CardinalityType
  <2> QED
    BY <2>1, <2>3, <2>4
<1>9. ThrottleCountsInFlight'
  BY <1>a DEF ThrottleCountsInFlight, TypeInv, End
<1>4. ItemsTyped' /\ CountersTyped'
  <2>1. ItemsTyped'
    BY <1>0 DEF End, ItemsTyped, Statuses
  <2> QED
    BY <1>0, <1>a, <1>9, <2>1 DEF End, CountersTyped, ThrottleCountsInFlight
<1>5. LineTyped'
  BY <1>0 DEF End, LineTyped
<1>6. HistoryTyped'
  BY <1>0 DEF End, HistoryTyped, history
<1>7. TypeOK'
  BY <1>0, <1>3, <1>4, <1>5, <1>6, TypeOKPartsNext DEF End
<1>8. NextSeqBounded'
  <2>1. nextSeq' = nextSeq /\ nextSeq \in Nat
    BY <1>0 DEF End, CountersTyped
  <2>2. Fused' \in Nat
    BY DEF Fused
  <2>3. Len(log') \in Nat /\ shortWrites' \in Nat
    BY <1>3, BoundsAssumption DEF FileTyped, FaultsTyped
  <2>4. nextSeq + Fused' <= Len(log') + 1 + 2 * shortWrites'
    <3>1. \A n, f, g \in Nat : n + 1 + f <= g => n + f <= g
      OBVIOUS
    <3>2. Len(log') + 1 + 2 * shortWrites' \in Nat
      BY <2>3
    <3> QED
      BY <1>3, <2>1, <2>2, <3>1, <3>2
  <2> QED
    BY <2>1, <2>4 DEF NextSeqBounded
<1> QED
  BY <1>3, <1>7, <1>8, <1>9 DEF TypeInv

\* A write that throws changes the file and a fault counter, nothing else.
LEMMA ThrowTypeInv ==
    ASSUME TypeInv, up, NEW line \in Lines, line.seq <= nextSeq,
           WriteThrows(line), UNCHANGED <<memory, history>>
    PROVE  TypeInv'
<1>0. /\ ItemsTyped /\ LineTyped /\ CountersTyped /\ HistoryTyped /\ up \in BOOLEAN
  BY TypeOKParts DEF TypeInv
<1>1. /\ FileTyped' /\ FaultsTyped' /\ SeqsBounded'
      /\ nextSeq + Fused' <= Len(log') + 1 + 2 * shortWrites'
  BY WriteThrowsTyped
<1>2. ItemsTyped' /\ LineTyped' /\ CountersTyped' /\ HistoryTyped' /\ up' \in BOOLEAN
  BY <1>0 DEF memory, history, ItemsTyped, LineTyped, CountersTyped, HistoryTyped
<1>3. TypeOK'
  BY <1>1, <1>2, TypeOKPartsNext
<1>4. NextSeqBounded'
  BY <1>1 DEF NextSeqBounded, memory
<1>5. ThrottleCountsInFlight'
  BY DEF ThrottleCountsInFlight, InFlight, memory, TypeInv
<1> QED
  BY <1>1, <1>3, <1>4, <1>5 DEF TypeInv

LEMMA EnqueueThrowsTypeInv ==
    ASSUME TypeInv, NEW id \in Ids, EnqueueThrows(id)
    PROVE  TypeInv'
<1> DEFINE line == [op |-> "accept", id |-> id, seq |-> nextSeq]
<1>1. line \in Lines /\ line.seq <= nextSeq
  BY DEF Lines, Ops, TypeInv, TypeOK
<1>2. WriteThrows(line) /\ up /\ UNCHANGED <<memory, history>>
  BY DEF EnqueueThrows
<1> HIDE DEF line
<1> QED
  BY <1>1, <1>2, ThrowTypeInv

LEMMA StartThrowsTypeInv ==
    ASSUME TypeInv, NEW id \in Ids, StartThrows(id)
    PROVE  TypeInv'
<1> DEFINE line == Line("start", id)
<1>1. line \in Lines /\ line.seq <= nextSeq
  BY DEF Line, Lines, Ops, TypeInv, TypeOK
<1>2. WriteThrows(line) /\ up /\ UNCHANGED <<memory, history>>
  BY DEF StartThrows, IsNext
<1> HIDE DEF line
<1> QED
  BY <1>1, <1>2, ThrowTypeInv

LEMMA EnqueueKnownTypeInv ==
    ASSUME TypeInv, NEW id \in Ids, EnqueueKnown(id)
    PROVE  TypeInv'
<1>0. /\ ItemsTyped /\ LineTyped /\ CountersTyped /\ HistoryTyped /\ up \in BOOLEAN
      /\ FileTyped /\ FaultsTyped
  BY TypeOKParts DEF TypeInv
<1>1. /\ UNCHANGED <<log, synced, torn>> /\ UNCHANGED <<stops, ioErrors, shortWrites>>
      /\ UNCHANGED <<up, status, receipt, pending, running, nextSeq, active>>
      /\ runs' = runs /\ acked' = [acked EXCEPT ![id] = receipt[id]]
  BY DEF EnqueueKnown, file, memory, faults
<1>2. ItemsTyped' /\ LineTyped' /\ CountersTyped' /\ up' \in BOOLEAN
  BY <1>0, <1>1 DEF ItemsTyped, LineTyped, CountersTyped
<1>3. FileTyped' /\ FaultsTyped'
  BY <1>0, <1>1 DEF FileTyped, FaultsTyped
<1>4. HistoryTyped'
  BY <1>0, <1>1 DEF HistoryTyped, ItemsTyped
<1>5. TypeOK'
  BY <1>2, <1>3, <1>4, TypeOKPartsNext
<1>6. SeqsBounded' /\ NextSeqBounded'
  BY <1>1 DEF TypeInv, SeqsBounded, NextSeqBounded, Fused
<1>7. ThrottleCountsInFlight'
  BY <1>1 DEF ThrottleCountsInFlight, InFlight, TypeInv
<1> QED
  BY <1>5, <1>6, <1>7 DEF TypeInv

LEMMA EndThrowsTypeInv ==
    ASSUME TypeInv, NEW id \in Ids, EndThrows(id)
    PROVE  TypeInv'
<1>0. /\ ItemsTyped /\ LineTyped /\ CountersTyped /\ HistoryTyped /\ up \in BOOLEAN
      /\ FileTyped /\ FaultsTyped
  BY TypeOKParts DEF TypeInv
<1>1. /\ UNCHANGED <<log, synced, torn>> /\ UNCHANGED <<stops, shortWrites, acked, runs>>
      /\ UNCHANGED <<up, status, receipt, pending, running, nextSeq>>
      /\ active' = active \ {id}
      /\ ioErrors < MaxIoErrors /\ ioErrors' = ioErrors + 1
  BY DEF EndThrows, file, history
<1>2. ItemsTyped' /\ CountersTyped' /\ HistoryTyped' /\ up' \in BOOLEAN
  BY <1>0, <1>1 DEF ItemsTyped, CountersTyped, HistoryTyped
<1>3. LineTyped'
  BY <1>0, <1>1 DEF LineTyped
<1>4. FileTyped'
  BY <1>0, <1>1 DEF FileTyped
<1>5. FaultsTyped'
  BY <1>0, <1>1, BoundsAssumption DEF FaultsTyped
<1>6. TypeOK'
  BY <1>2, <1>3, <1>4, <1>5, TypeOKPartsNext
<1>7. SeqsBounded' /\ NextSeqBounded'
  BY <1>1 DEF TypeInv, SeqsBounded, NextSeqBounded, Fused
<1>8. ThrottleCountsInFlight'
  BY <1>1 DEF ThrottleCountsInFlight, InFlight, TypeInv
<1> QED
  BY <1>6, <1>7, <1>8 DEF TypeInv

\* A daemon that is down holds nothing, so only the file and history matter.
LEMMA DownTypeInv ==
    ASSUME TypeInv, Forgotten, up' = FALSE, FileTyped', FaultsTyped', SeqsBounded',
           UNCHANGED history
    PROVE  TypeInv'
<1>1. ItemsTyped' /\ CountersTyped' /\ LineTyped' /\ up' \in BOOLEAN
  <2>1. ItemsTyped' /\ CountersTyped' /\ LineTyped'
    BY DEF Forgotten, ItemsTyped, CountersTyped, LineTyped, Statuses
  <2> QED
    BY <2>1
<1>2. HistoryTyped'
  BY TypeOKParts DEF TypeInv, history, HistoryTyped
<1>3. TypeOK'
  BY <1>1, <1>2, TypeOKPartsNext
<1>4. NextSeqBounded'
  BY DEF NextSeqBounded
<1>5. ThrottleCountsInFlight'
  <2>1. InFlight' = {}
    BY DEF InFlight, Forgotten
  <2> QED
    BY <2>1, FS_EmptySet DEF ThrottleCountsInFlight, Forgotten
<1> QED
  BY <1>3, <1>4, <1>5 DEF TypeInv

LEMMA CrashTypeInv ==
    ASSUME TypeInv, Crash
    PROVE  TypeInv'
<1>0. FileTyped /\ FaultsTyped
  BY TypeOKParts DEF TypeInv
<1>1. PICK n \in synced..Len(log) : log' = SubSeq(log, 1, n)
  BY DEF Crash
<1>2. /\ stops < MaxStops /\ stops' = stops + 1 /\ synced' = synced
      /\ ioErrors' = ioErrors /\ shortWrites' = shortWrites
      /\ Forgotten /\ UNCHANGED history
  BY DEF Crash
<1>3. up' = FALSE /\ torn' \in BOOLEAN
  BY DEF Crash
<1>4. /\ log' \in Seq(Lines) /\ Len(log') = n /\ n \in Nat
      /\ \A i \in 1..n : log'[i] = log[i]
  BY <1>0, <1>1 DEF FileTyped
<1>5. FileTyped'
  BY <1>0, <1>2, <1>3, <1>4 DEF FileTyped
<1>6. FaultsTyped'
  BY <1>0, <1>2, BoundsAssumption DEF FaultsTyped
<1>7. SeqsBounded'
  BY <1>0, <1>1, <1>2, <1>4 DEF SeqsBounded, TypeInv, FileTyped
<1> QED
  BY <1>2, <1>3, <1>5, <1>6, <1>7, DownTypeInv

LEMMA CloseTypeInv ==
    ASSUME TypeInv, Close
    PROVE  TypeInv'
<1>0. FileTyped /\ FaultsTyped
  BY TypeOKParts DEF TypeInv
<1>1. /\ stops < MaxStops /\ stops' = stops + 1 /\ UNCHANGED <<log, synced, torn>>
      /\ ioErrors' = ioErrors /\ shortWrites' = shortWrites
      /\ Forgotten /\ UNCHANGED history
  BY DEF Close, file
<1>2. up' = FALSE
  BY DEF Close
<1>3. FileTyped' /\ SeqsBounded'
  BY <1>0, <1>1 DEF FileTyped, SeqsBounded, TypeInv
<1>4. FaultsTyped'
  BY <1>0, <1>1, BoundsAssumption DEF FaultsTyped
<1> QED
  BY <1>1, <1>2, <1>3, <1>4, DownTypeInv

\* The `unknown' lines of a constructor carry no sequence number.
LEMMA SettlesTyped ==
    ASSUME TypeInv, NEW lost \in Seq(Ids), NEW k \in 0..Len(lost), Settles(lost, k)
    PROVE  FileTyped' /\ SeqsBounded' /\ Len(log) <= Len(log')
<1> DEFINE more == [i \in 1..k |-> Line("unknown", lost[i])]
<1>0. /\ log \in Seq(Lines) /\ synced \in 0..Len(log) /\ k \in Nat
      /\ Len(log) \in Nat /\ shortWrites \in Nat
  BY BoundsAssumption DEF TypeInv, TypeOK
<1>1. \A i \in 1..k : Line("unknown", lost[i]) \in Lines
  BY DEF Line, Lines, Ops
<1>2. more \in Seq(Lines) /\ Len(more) = k
  <2>1. more \in [1..k -> Lines]
    BY <1>1
  <2> HIDE DEF more
  <2> QED
    BY <1>0, <2>1
<1>3. \A i \in 1..k : more[i].seq = 0
  BY DEF Line
<1>4. log' = log \o more /\ shortWrites' = shortWrites
  BY DEF Settles
<1>4b. synced' = synced \/ synced' = Len(log')
  BY DEF Settles
<1>4a. torn' \in BOOLEAN
  BY DEF Settles
<1> HIDE DEF more
<1>5. log' \in Seq(Lines) /\ Len(log') = Len(log) + k
  <2>1. \A s, t \in Seq(Lines) : s \o t \in Seq(Lines) /\ Len(s \o t) = Len(s) + Len(t)
    OBVIOUS
  <2> QED
    BY <1>0, <1>2, <1>4, <2>1
<1>6. synced' \in 0..Len(log')
  BY <1>0, <1>4b, <1>5
<1>7. FileTyped'
  BY <1>4a, <1>5, <1>6 DEF FileTyped
<1>8. SeqsBounded'
  <2>1. \A i \in 1..Len(log) : log'[i] = log[i]
    BY <1>0, <1>2, <1>4
  <2>2. \A i \in (Len(log) + 1)..(Len(log) + k) : log'[i] = more[i - Len(log)]
    BY <1>0, <1>2, <1>4
  <2>3. \A i \in 1..Len(log) : log[i].seq <= i + 2 * shortWrites
    BY <1>0 DEF TypeInv, SeqsBounded
  <2>4. \A i \in (Len(log) + 1)..(Len(log) + k) : log'[i].seq = 0
    BY <1>0, <1>3, <2>2
  <2>5. SUFFICES ASSUME NEW i \in 1..(Len(log) + k)
                 PROVE  log'[i].seq <= i + 2 * shortWrites
    BY <1>0, <1>4, <1>5 DEF SeqsBounded
  <2>6. CASE i \in 1..Len(log)
    BY <2>1, <2>3, <2>6
  <2>7. CASE i \in (Len(log) + 1)..(Len(log) + k)
    BY <1>0, <2>4, <2>7
  <2> QED
    BY <1>0, <2>6, <2>7
<1> QED
  BY <1>0, <1>5, <1>7, <1>8

LEMMA OpenTypeInv ==
    ASSUME TypeInv, Open
    PROVE  TypeInv'
<1>0. FileTyped /\ FaultsTyped /\ HistoryTyped
  BY TypeOKParts DEF TypeInv
<1>0a. /\ log \in Seq(Lines) /\ Len(log) \in Nat /\ shortWrites \in Nat
  BY <1>0, BoundsAssumption DEF FileTyped, FaultsTyped
<1>1. PICK lost \in InAcceptOrder(log, WithStatus(log, "running")) :
          Settles(lost, Cardinality(WithStatus(log, "running")))
  BY DEF Open
<1>2. /\ lost \in Seq(Ids) /\ Cardinality(WithStatus(log, "running")) \in 0..Len(lost)
  BY <1>0a, InAcceptOrderTyped
<1>3. FileTyped' /\ SeqsBounded' /\ Len(log) <= Len(log')
  BY <1>1, <1>2, SettlesTyped
<1>4. /\ UNCHANGED <<acked, runs, stops, ioErrors, shortWrites>> /\ torn' = FALSE
  BY <1>1 DEF Open, Settles, history
<1>5. PICK waiting \in InAcceptOrder(log, WithStatus(log, "queued")) : pending' = waiting
  BY DEF Open
<1>6. pending' \in Seq(Ids)
  BY <1>0a, <1>5, InAcceptOrderTyped
<1>7. ItemsTyped'
  <2>1. status' \in [Ids -> Statuses]
    BY <1>0a, ReplayStatusTyped DEF Open, Statuses
  <2>2. receipt' \in [Ids -> Nat]
    BY <1>0a, ReplayReceiptTyped DEF Open
  <2> QED
    BY <2>1, <2>2 DEF ItemsTyped
<1>8. \A i \in 1..Len(log) : log[i].seq <= Len(log) + 2 * shortWrites
  <2>1. SUFFICES ASSUME NEW i \in 1..Len(log)
                 PROVE  log[i].seq <= Len(log) + 2 * shortWrites
    OBVIOUS
  <2>2. log[i] \in Lines
    BY <1>0a
  <2>3. log[i].seq \in Nat
    BY <2>2 DEF Lines
  <2>4. log[i].seq <= i + 2 * shortWrites
    BY <1>0a DEF TypeInv, SeqsBounded
  <2> QED
    BY <1>0a, <2>3, <2>4
<1>9. nextSeq' \in Nat \ {0} /\ nextSeq' <= Len(log) + 2 * shortWrites + 1
  <2>1. Len(log) + 2 * shortWrites \in Nat
    BY <1>0a
  <2>2. nextSeq' = ReplayNextSeq(log)
    BY DEF Open
  <2> QED
    BY <1>0a, <1>8, <2>1, <2>2, ReplayNextSeqTyped
<1>10. LineTyped' /\ CountersTyped'
  <2>1. active' = {} /\ running' = 0
    BY DEF Open
  <2> QED
    BY <1>6, <1>9, <2>1 DEF LineTyped, CountersTyped
<1>11. HistoryTyped' /\ FaultsTyped'
  BY <1>0, <1>4 DEF HistoryTyped, FaultsTyped
<1>12. up' \in BOOLEAN
  BY DEF Open
<1>13. TypeOK'
  BY <1>3, <1>7, <1>10, <1>11, <1>12, TypeOKPartsNext
<1>14. NextSeqBounded'
  <2>1. Fused' = 0
    BY <1>4 DEF Fused
  <2>2. Len(log') \in Nat
    BY <1>3 DEF FileTyped
  <2>3. nextSeq' + 0 <= Len(log') + 1 + 2 * shortWrites'
    BY <1>0a, <1>3, <1>4, <1>9, <2>2
  <2> QED
    BY <2>1, <2>3 DEF NextSeqBounded
<1>15. ThrottleCountsInFlight'
  <2>1. \A id \in Ids : status'[id] # "running"
    BY DEF Open
  <2>2. InFlight' = {}
    BY <2>1 DEF InFlight
  <2> QED
    BY <2>2, FS_EmptySet DEF ThrottleCountsInFlight, Open
<1> QED
  BY <1>3, <1>13, <1>14, <1>15 DEF TypeInv

LEMMA OpenDiesTypeInv ==
    ASSUME TypeInv, OpenDies
    PROVE  TypeInv'
<1>0. /\ FileTyped /\ FaultsTyped /\ HistoryTyped /\ ItemsTyped /\ LineTyped
      /\ CountersTyped /\ up \in BOOLEAN
  BY TypeOKParts DEF TypeInv
<1>1. PICK lost \in InAcceptOrder(log, WithStatus(log, "running")),
           k \in 0..(Cardinality(WithStatus(log, "running")) - 1) : Settles(lost, k)
  BY DEF OpenDies
<1>2. lost \in Seq(Ids) /\ k \in 0..Len(lost)
  <2>1. log \in Seq(Lines)
    BY <1>0 DEF FileTyped
  <2> QED
    BY <2>1, InAcceptOrderTyped
<1>3. FileTyped' /\ SeqsBounded'
  BY <1>1, <1>2, SettlesTyped
<1>4. /\ UNCHANGED <<acked, runs, ioErrors, shortWrites>>
      /\ stops < MaxStops /\ stops' = stops + 1
      /\ UNCHANGED <<up, status, receipt, pending, running, nextSeq, active>>
      /\ up' = FALSE
  BY <1>0, <1>1 DEF OpenDies, Settles, history, memory
<1>5. ItemsTyped' /\ LineTyped' /\ CountersTyped' /\ HistoryTyped' /\ up' \in BOOLEAN
  BY <1>0, <1>4 DEF ItemsTyped, LineTyped, CountersTyped, HistoryTyped
<1>6. FaultsTyped'
  BY <1>0, <1>4, BoundsAssumption DEF FaultsTyped
<1>7. TypeOK'
  BY <1>3, <1>5, <1>6, TypeOKPartsNext
<1>8. NextSeqBounded'
  BY <1>4 DEF NextSeqBounded
<1>9. ThrottleCountsInFlight'
  BY <1>4 DEF ThrottleCountsInFlight, InFlight, TypeInv
<1> QED
  BY <1>3, <1>7, <1>8, <1>9 DEF TypeInv

LEMMA NextTypeInv ==
    ASSUME TypeInv, [Next]_vars
    PROVE  TypeInv'
<1>1. ASSUME NEW id \in Ids, Enqueue(id) PROVE TypeInv'
  BY <1>1, EnqueueTypeInv
<1>2. ASSUME NEW id \in Ids, EnqueueKnown(id) PROVE TypeInv'
  BY <1>2, EnqueueKnownTypeInv
<1>3. ASSUME NEW id \in Ids, EnqueueThrows(id) PROVE TypeInv'
  BY <1>3, EnqueueThrowsTypeInv
<1>4. ASSUME NEW id \in Ids, Start(id) PROVE TypeInv'
  BY <1>4, StartTypeInv
<1>5. ASSUME NEW id \in Ids, StartThrows(id) PROVE TypeInv'
  BY <1>5, StartThrowsTypeInv
<1>6. ASSUME NEW id \in Ids, NEW op \in {"done", "failed"}, End(id, op) PROVE TypeInv'
  BY <1>6, EndTypeInv
<1>7. ASSUME NEW id \in Ids, EndThrows(id) PROVE TypeInv'
  BY <1>7, EndThrowsTypeInv
<1>8. CASE Crash
  BY <1>8, CrashTypeInv
<1>9. CASE Close
  BY <1>9, CloseTypeInv
<1>10. CASE Open
  BY <1>10, OpenTypeInv
<1>11. CASE OpenDies
  BY <1>11, OpenDiesTypeInv
<1>12. CASE UNCHANGED vars
  <2>1. /\ UNCHANGED <<log, synced, torn>> /\ UNCHANGED <<stops, ioErrors, shortWrites>>
        /\ UNCHANGED <<up, status, receipt, pending, running, nextSeq, active>>
        /\ UNCHANGED <<acked, runs>>
    BY <1>12 DEF vars, file, memory, history, faults
  <2>2. TypeOK'
    BY <2>1 DEF TypeOK, TypeInv
  <2>3. SeqsBounded' /\ NextSeqBounded' /\ ThrottleCountsInFlight'
    BY <2>1 DEF TypeInv, SeqsBounded, NextSeqBounded, Fused, ThrottleCountsInFlight, InFlight
  <2> QED
    BY <2>2, <2>3 DEF TypeInv
<1> QED
  BY <1>1, <1>2, <1>3, <1>4, <1>5, <1>6, <1>7, <1>8, <1>9, <1>10, <1>11, <1>12 DEF Next

(* Every state of the queue and of its file is of the declared types, for  *)
(* every number of crashes, failing fsyncs and short writes; in particular *)
(* the counter of queue.ts:302-311 never falls below zero and a replayed   *)
(* file yields a sequence number.                                          *)
THEOREM TypeCorrect == Spec => []TypeOK
<1>1. Init => TypeInv
  BY InitTypeInv
<1>2. TypeInv /\ [Next]_vars => TypeInv'
  BY NextTypeInv
<1>3. TypeInv => TypeOK
  BY DEF TypeInv
<1> QED
  BY <1>1, <1>2, <1>3, PTL DEF Spec


-----------------------------------------------------------------------------
(* At most one run per request.  What makes it inductive: a text that was  *)
(* sent to an agent has its accept and its start line, in that order, in   *)
(* the part of the file no crash can take, so no replay makes it wait      *)
(* again.  It needs whole writes (a short start line is lost without a     *)
(* trace) but no assumption on fsync errors, which leave the item waiting. *)

StartedOnDisk(id) ==
    \E a, b \in 1..synced : /\ a < b
                            /\ log[a].op = "accept" /\ log[a].id = id
                            /\ log[b].op = "start" /\ log[b].id = id

Known(id) == \E a \in 1..Len(log) : log[a].op = "accept" /\ log[a].id = id

NoFragment       == up => torn = FALSE
RanIsOnDisk      == \A id \in Ids : runs[id] = 0 \/ (runs[id] = 1 /\ StartedOnDisk(id))
WaitingHasNotRun == up => \A id \in Ids : status[id] \in {"none", "queued"} => runs[id] = 0
WaitingIsKnown   == up => \A id \in Ids : status[id] = "queued" => Known(id)

OnceInv == NoFragment /\ RanIsOnDisk /\ WaitingHasNotRun /\ WaitingIsKnown

\* The lines that are kept keep what they say.
LEMMA KeptLines ==
    ASSUME TypeInv, FileTyped', synced <= synced', NEW n \in synced..Len(log),
           n <= Len(log'), \A i \in 1..n : log'[i] = log[i], NEW id \in Ids
    PROVE  /\ StartedOnDisk(id) => StartedOnDisk(id)'
           /\ n = Len(log) /\ Known(id) => Known(id)'
<1>1. /\ synced \in Nat /\ synced' \in Nat /\ n \in Nat /\ synced <= n
      /\ Len(log) \in Nat /\ Len(log') \in Nat
  BY DEF TypeInv, TypeOK, FileTyped
<1>2. ASSUME StartedOnDisk(id) PROVE StartedOnDisk(id)'
  <2>1. PICK a \in 1..synced, b \in 1..synced :
            /\ a < b /\ log[a].op = "accept" /\ log[a].id = id
            /\ log[b].op = "start" /\ log[b].id = id
    BY <1>2 DEF StartedOnDisk
  <2>2. a \in 1..synced' /\ b \in 1..synced' /\ log'[a] = log[a] /\ log'[b] = log[b]
    BY <1>1
  <2> QED
    BY <2>1, <2>2 DEF StartedOnDisk
<1>3. ASSUME n = Len(log), Known(id) PROVE Known(id)'
  <2>1. PICK a \in 1..Len(log) : log[a].op = "accept" /\ log[a].id = id
    BY <1>3 DEF Known
  <2>2. a \in 1..Len(log') /\ log'[a] = log[a]
    BY <1>1, <1>3
  <2> QED
    BY <2>1, <2>2 DEF Known
<1> QED
  BY <1>2, <1>3

\* With whole writes and no fragment, a write appends its line.
LEMMA WriteAppends ==
    ASSUME MaxShortWrites = 0, TypeInv, torn = FALSE, NEW line \in Lines,
           Write(line) \/ WriteThrows(line)
    PROVE  /\ log' = Append(log, line) /\ torn' = FALSE
           /\ Write(line) /\ line.op \in SyncedOps => synced' = Len(log')
           /\ synced' \in Nat /\ synced <= synced' /\ synced' <= Len(log')
           /\ FileTyped'
           /\ \A id \in Ids : /\ StartedOnDisk(id) => StartedOnDisk(id)'
                              /\ Known(id) => Known(id)'
<1>0. /\ log \in Seq(Lines) /\ synced \in 0..Len(log) /\ shortWrites \in 0..0
  BY DEF TypeInv, TypeOK
<1>1. log' = Append(log, line) /\ torn' = FALSE
  BY <1>0 DEF Write, WriteThrows, Lands
<1>2. /\ log' \in Seq(Lines) /\ Len(log') = Len(log) + 1
      /\ \A i \in 1..Len(log) : log'[i] = log[i]
  BY <1>0, <1>1
<1>3. /\ synced' = Len(log') \/ synced' = synced
      /\ Write(line) /\ line.op \in SyncedOps => synced' = Len(log')
  <2>1. CASE Write(line)
    <3>1. synced' = IF line.op \in SyncedOps THEN Len(log') ELSE synced
      BY <1>0, <2>1 DEF Write
    <3> QED
      BY <3>1
  <2>2. CASE WriteThrows(line) /\ ~Write(line)
    BY <2>2 DEF WriteThrows
  <2> QED
    BY <2>1, <2>2
<1>4. synced' \in 0..Len(log') /\ synced <= synced' /\ synced' \in Nat
  BY <1>0, <1>2, <1>3
<1>5. FileTyped'
  <2>1. torn' \in BOOLEAN
    BY <1>1
  <2> QED
    BY <1>2, <1>4, <2>1 DEF FileTyped
<1>6. Len(log) \in synced..Len(log) /\ Len(log) <= Len(log')
  BY <1>0, <1>2
<1>7. \A id \in Ids : /\ StartedOnDisk(id) => StartedOnDisk(id)'
                      /\ Known(id) => Known(id)'
  BY <1>2, <1>4, <1>5, <1>6, KeptLines
<1> QED
  BY <1>1, <1>3, <1>4, <1>5, <1>7

\* What replay makes of a file that holds an item's accept and start lines.
LEMMA StartedNeverWaits ==
    ASSUME TypeInv, NEW id \in Ids, StartedOnDisk(id)
    PROVE  ReplayStatus(log, id) \notin {"none", "queued"}
<1>0. log \in Seq(Lines) /\ synced \in 0..Len(log) /\ Len(log) \in Nat
  BY DEF TypeInv, TypeOK
<1>1. PICK a \in 1..synced, b \in 1..synced :
          /\ a < b /\ log[a].op = "accept" /\ log[a].id = id
          /\ log[b].op = "start" /\ log[b].id = id
  BY DEF StartedOnDisk
<1>2. a \in AcceptsOf(log, id)
  BY <1>0, <1>1 DEF AcceptsOf
<1>3. b \in EventsOf(log, id)
  BY <1>0, <1>1, <1>2 DEF EventsOf
<1> DEFINE last == Max(EventsOf(log, id))
<1>4. last \in EventsOf(log, id)
  <2>1. \A x \in EventsOf(log, id) : x <= Len(log)
    BY <1>0, AcceptsTyped
  <2> QED
    BY <1>0, <1>3, <2>1, AcceptsTyped, MaxOfBoundedNats
<1>5. last \in 1..Len(log) /\ log[last].op # "accept"
  BY <1>0, <1>4 DEF EventsOf
<1>6. ReplayStatus(log, id) = StatusAfter(log[last].op)
  BY <1>2, <1>3 DEF ReplayStatus
<1> HIDE DEF last
<1>7. log[last] \in Lines
  BY <1>0, <1>5
<1>8. log[last].op \in Ops
  BY <1>7 DEF Lines
<1> QED
  BY <1>5, <1>6, <1>8 DEF StatusAfter, Ops


LEMMA EnqueueOnce ==
    ASSUME MaxShortWrites = 0, TypeInv, OnceInv, NEW id \in Ids, Enqueue(id)
    PROVE  OnceInv'
<1> DEFINE line == [op |-> "accept", id |-> id, seq |-> nextSeq]
<1>1. line \in Lines /\ line.op = "accept" /\ line.id = id
  BY DEF Lines, Ops, TypeInv, TypeOK
<1>2. torn = FALSE
  BY DEF Enqueue, OnceInv, NoFragment
<1>3. Write(line)
  BY DEF Enqueue
<1>4. /\ up /\ status[id] = "none" /\ status' = [status EXCEPT ![id] = "queued"]
      /\ runs' = runs
  BY DEF Enqueue
<1>5. log \in Seq(Lines) /\ status \in [Ids -> Statuses]
  BY DEF TypeInv, TypeOK
<1> HIDE DEF line
<1>6. /\ log' = Append(log, line) /\ torn' = FALSE
      /\ \A i \in Ids : /\ StartedOnDisk(i) => StartedOnDisk(i)'
                        /\ Known(i) => Known(i)'
  BY <1>1, <1>2, <1>3, WriteAppends
<1>7. NoFragment' /\ RanIsOnDisk'
  BY <1>4, <1>6 DEF OnceInv, NoFragment, RanIsOnDisk
<1>8. WaitingHasNotRun'
  BY <1>4, <1>5 DEF OnceInv, WaitingHasNotRun
<1>9. Known(id)'
  <2>1. Len(log') \in 1..Len(log') /\ log'[Len(log')] = line
    BY <1>1, <1>5, <1>6
  <2> QED
    BY <1>1, <2>1 DEF Known
<1>10. WaitingIsKnown'
  BY <1>4, <1>5, <1>6, <1>9 DEF OnceInv, WaitingIsKnown
<1> QED
  BY <1>7, <1>8, <1>10 DEF OnceInv

LEMMA StartOnce ==
    ASSUME MaxShortWrites = 0, TypeInv, OnceInv, NEW id \in Ids, Start(id)
    PROVE  OnceInv'
<1> DEFINE line == Line("start", id)
<1>1. line \in Lines /\ line.op = "start" /\ line.id = id
  BY DEF Line, Lines, Ops
<1>2. torn = FALSE /\ up
  BY DEF Start, IsNext, OnceInv, NoFragment
<1>3. Write(line)
  BY DEF Start
<1>4. /\ status[id] = "queued" /\ status' = [status EXCEPT ![id] = "running"]
      /\ runs' = [runs EXCEPT ![id] = @ + 1] /\ up' = up
  BY DEF Start
<1>5. log \in Seq(Lines) /\ status \in [Ids -> Statuses] /\ runs \in [Ids -> Nat]
  BY DEF TypeInv, TypeOK
<1> HIDE DEF line
<1>6. /\ log' = Append(log, line) /\ torn' = FALSE /\ synced' = Len(log')
      /\ \A i \in Ids : /\ StartedOnDisk(i) => StartedOnDisk(i)'
                        /\ Known(i) => Known(i)'
  BY <1>1, <1>2, <1>3, WriteAppends DEF SyncedOps
<1>7. runs[id] = 0 /\ Known(id)
  BY <1>2, <1>4 DEF OnceInv, WaitingHasNotRun, WaitingIsKnown
<1>8. StartedOnDisk(id)'
  <2>1. PICK a \in 1..Len(log) : log[a].op = "accept" /\ log[a].id = id
    BY <1>7 DEF Known
  <2>2. /\ a \in 1..synced' /\ synced' \in 1..synced' /\ a < synced'
        /\ log'[a] = log[a] /\ log'[synced'] = line
    BY <1>1, <1>5, <1>6
  <2> QED
    BY <1>1, <2>1, <2>2 DEF StartedOnDisk
<1>9. RanIsOnDisk'
  <2>1. runs'[id] = 1
    BY <1>4, <1>5, <1>7
  <2>2. \A i \in Ids : i # id => runs'[i] = runs[i]
    BY <1>4, <1>5
  <2> QED
    BY <1>6, <1>8, <2>1, <2>2 DEF OnceInv, RanIsOnDisk
<1>10. WaitingHasNotRun' /\ WaitingIsKnown'
  <2>1. status'[id] = "running" /\ \A i \in Ids : i # id => status'[i] = status[i]
    BY <1>4, <1>5
  <2>2. \A i \in Ids : i # id => runs'[i] = runs[i]
    BY <1>4, <1>5
  <2> QED
    BY <1>2, <1>6, <2>1, <2>2 DEF OnceInv, WaitingHasNotRun, WaitingIsKnown
<1>11. NoFragment'
  BY <1>6 DEF NoFragment
<1> QED
  BY <1>9, <1>10, <1>11 DEF OnceInv

LEMMA EndOnce ==
    ASSUME MaxShortWrites = 0, TypeInv, OnceInv,
           NEW id \in Ids, NEW op \in {"done", "failed"}, End(id, op)
    PROVE  OnceInv'
<1> DEFINE line == Line(op, id)
<1>1. line \in Lines
  BY DEF Line, Lines, Ops
<1>2. torn = FALSE /\ up
  BY DEF End, OnceInv, NoFragment
<1>3. Write(line)
  BY DEF End
<1>4. /\ status' = [status EXCEPT ![id] = op] /\ runs' = runs /\ up' = up
  BY DEF End, history
<1>5. status \in [Ids -> Statuses]
  BY DEF TypeInv, TypeOK
<1> HIDE DEF line
<1>6. /\ torn' = FALSE
      /\ \A i \in Ids : /\ StartedOnDisk(i) => StartedOnDisk(i)'
                        /\ Known(i) => Known(i)'
  BY <1>1, <1>2, <1>3, WriteAppends
<1>7. NoFragment' /\ RanIsOnDisk'
  BY <1>4, <1>6 DEF OnceInv, NoFragment, RanIsOnDisk
<1>8. WaitingHasNotRun' /\ WaitingIsKnown'
  <2>1. status'[id] \in {"done", "failed"} /\ \A i \in Ids : i # id => status'[i] = status[i]
    BY <1>4, <1>5
  <2> QED
    BY <1>2, <1>4, <1>6, <2>1 DEF OnceInv, WaitingHasNotRun, WaitingIsKnown
<1> QED
  BY <1>7, <1>8 DEF OnceInv

\* A write that throws leaves the memory and the history alone.
LEMMA ThrowOnce ==
    ASSUME MaxShortWrites = 0, TypeInv, OnceInv, up, NEW line \in Lines,
           WriteThrows(line), UNCHANGED <<memory, history>>
    PROVE  OnceInv'
<1>1. torn = FALSE
  BY DEF OnceInv, NoFragment
<1>2. UNCHANGED <<up, status, runs>>
  BY DEF memory, history
<1>3. /\ torn' = FALSE
      /\ \A i \in Ids : /\ StartedOnDisk(i) => StartedOnDisk(i)'
                        /\ Known(i) => Known(i)'
  BY <1>1, WriteAppends
<1> QED
  BY <1>2, <1>3 DEF OnceInv, NoFragment, RanIsOnDisk, WaitingHasNotRun, WaitingIsKnown

\* A daemon that stops: only what is on the disk matters.
LEMMA DownOnce ==
    ASSUME RanIsOnDisk, up' = FALSE, runs' = runs,
           \A id \in Ids : StartedOnDisk(id) => StartedOnDisk(id)'
    PROVE  OnceInv'
BY DEF OnceInv, NoFragment, RanIsOnDisk, WaitingHasNotRun, WaitingIsKnown

LEMMA CrashOnce ==
    ASSUME TypeInv, OnceInv, Crash
    PROVE  OnceInv'
<1>1. PICK n \in synced..Len(log) : log' = SubSeq(log, 1, n)
  BY DEF Crash
<1>2. up' = FALSE /\ runs' = runs /\ synced' = synced
  BY DEF Crash, history
<1>3. FileTyped'
  BY CrashTypeInv, TypeOKPartsNext DEF TypeInv
<1>4. /\ n <= Len(log') /\ synced <= synced' /\ \A i \in 1..n : log'[i] = log[i]
  BY <1>1, <1>2 DEF TypeInv, TypeOK
<1> QED
  BY <1>1, <1>2, <1>3, <1>4, KeptLines, DownOnce DEF OnceInv

LEMMA SettlesKeeps ==
    ASSUME TypeInv, NEW lost \in Seq(Ids), NEW k \in 0..Len(lost), Settles(lost, k)
    PROVE  \A id \in Ids : /\ StartedOnDisk(id) => StartedOnDisk(id)'
                           /\ Known(id) => Known(id)'
<1> DEFINE more == [i \in 1..k |-> Line("unknown", lost[i])]
<1>1. log \in Seq(Lines) /\ synced \in 0..Len(log) /\ Len(log) \in Nat /\ k \in Nat
  BY DEF TypeInv, TypeOK
<1>2. more \in Seq(Lines)
  <2>1. \A i \in 1..k : Line("unknown", lost[i]) \in Lines
    BY DEF Line, Lines, Ops
  <2>2. more \in [1..k -> Lines]
    BY <2>1
  <2> HIDE DEF more
  <2> QED
    BY <1>1, <2>2
<1>3. log' = log \o more
  BY DEF Settles
<1>4. FileTyped' /\ Len(log) <= Len(log')
  BY SettlesTyped
<1> HIDE DEF more
<1>5. \A i \in 1..Len(log) : log'[i] = log[i]
  <2>1. \A s, t \in Seq(Lines) : \A i \in 1..Len(s) : (s \o t)[i] = s[i]
    OBVIOUS
  <2> QED
    BY <1>1, <1>2, <1>3, <2>1
<1>6. synced <= synced'
  <2>1. synced' = synced \/ synced' = Len(log')
    BY DEF Settles
  <2>2. Len(log') \in Nat
    BY <1>4 DEF FileTyped
  <2> QED
    BY <1>1, <1>4, <2>1, <2>2
<1>7. Len(log) \in synced..Len(log)
  BY <1>1
<1> QED
  BY <1>4, <1>5, <1>6, <1>7, KeptLines


LEMMA OpenOnce ==
    ASSUME TypeInv, OnceInv, Open
    PROVE  OnceInv'
<1>1. PICK lost \in InAcceptOrder(log, WithStatus(log, "running")) :
          Settles(lost, Cardinality(WithStatus(log, "running")))
  BY DEF Open
<1>2. /\ lost \in Seq(Ids) /\ Cardinality(WithStatus(log, "running")) \in 0..Len(lost)
  <2>1. log \in Seq(Lines)
    BY DEF TypeInv, TypeOK
  <2> QED
    BY <2>1, InAcceptOrderTyped
<1>3. /\ \A id \in Ids : /\ StartedOnDisk(id) => StartedOnDisk(id)'
                         /\ Known(id) => Known(id)'
  BY <1>1, <1>2, SettlesKeeps
<1>4. torn' = FALSE /\ runs' = runs
  BY <1>1 DEF Settles, history
<1>5. \A id \in Ids : status'[id] \in {"none", "queued"}
                        => status'[id] = ReplayStatus(log, id)
  BY DEF Open
<1>6. NoFragment' /\ RanIsOnDisk'
  BY <1>3, <1>4 DEF NoFragment, RanIsOnDisk, OnceInv
<1>7. WaitingHasNotRun'
  BY <1>4, <1>5, StartedNeverWaits DEF WaitingHasNotRun, RanIsOnDisk, OnceInv
<1>8. ASSUME NEW id \in Ids, ReplayStatus(log, id) = "queued" PROVE Known(id)
  <2>1. AcceptsOf(log, id) # {}
    BY <1>8 DEF ReplayStatus
  <2>2. log \in Seq(Lines)
    BY DEF TypeInv, TypeOK
  <2> QED
    BY <2>1, <2>2 DEF AcceptsOf, Known
<1>9. WaitingIsKnown'
  BY <1>3, <1>5, <1>8 DEF WaitingIsKnown
<1> QED
  BY <1>6, <1>7, <1>9 DEF OnceInv

LEMMA OpenDiesOnce ==
    ASSUME TypeInv, OnceInv, OpenDies
    PROVE  OnceInv'
<1>1. PICK lost \in InAcceptOrder(log, WithStatus(log, "running")),
           k \in 0..(Cardinality(WithStatus(log, "running")) - 1) : Settles(lost, k)
  BY DEF OpenDies
<1>2. lost \in Seq(Ids) /\ k \in 0..Len(lost)
  <2>1. log \in Seq(Lines)
    BY DEF TypeInv, TypeOK
  <2> QED
    BY <2>1, InAcceptOrderTyped
<1>3. \A id \in Ids : StartedOnDisk(id) => StartedOnDisk(id)'
  BY <1>1, <1>2, SettlesKeeps
<1>4. up' = FALSE /\ runs' = runs
  <2>1. up \in BOOLEAN
    BY DEF TypeInv, TypeOK
  <2> QED
    BY <1>1, <2>1 DEF OpenDies, Settles, history, memory
<1> QED
  BY <1>3, <1>4, DownOnce DEF OnceInv

\* Steps that leave the file, the items and the runs alone.
LEMMA QuietOnce ==
    ASSUME OnceInv, UNCHANGED <<log, synced, torn, status, runs>>, up' = up \/ up' = FALSE
    PROVE  OnceInv'
BY DEF OnceInv, NoFragment, RanIsOnDisk, WaitingHasNotRun, WaitingIsKnown,
       StartedOnDisk, Known

LEMMA NextOnce ==
    ASSUME MaxShortWrites = 0, TypeInv, OnceInv, [Next]_vars
    PROVE  OnceInv'
<1>1. ASSUME NEW id \in Ids, Enqueue(id) PROVE OnceInv'
  BY <1>1, EnqueueOnce
<1>2. ASSUME NEW id \in Ids, EnqueueKnown(id) PROVE OnceInv'
  BY <1>2, QuietOnce DEF EnqueueKnown, file, memory
<1>3. ASSUME NEW id \in Ids, EnqueueThrows(id) PROVE OnceInv'
  <2> DEFINE line == [op |-> "accept", id |-> id, seq |-> nextSeq]
  <2>1. line \in Lines
    BY DEF Lines, Ops, TypeInv, TypeOK
  <2>2. up /\ WriteThrows(line) /\ UNCHANGED <<memory, history>>
    BY <1>3 DEF EnqueueThrows
  <2> HIDE DEF line
  <2> QED
    BY <2>1, <2>2, ThrowOnce
<1>4. ASSUME NEW id \in Ids, Start(id) PROVE OnceInv'
  BY <1>4, StartOnce
<1>5. ASSUME NEW id \in Ids, StartThrows(id) PROVE OnceInv'
  <2> DEFINE line == Line("start", id)
  <2>1. line \in Lines
    BY DEF Line, Lines, Ops
  <2>2. up /\ WriteThrows(line) /\ UNCHANGED <<memory, history>>
    BY <1>5 DEF StartThrows, IsNext
  <2> HIDE DEF line
  <2> QED
    BY <2>1, <2>2, ThrowOnce
<1>6. ASSUME NEW id \in Ids, NEW op \in {"done", "failed"}, End(id, op) PROVE OnceInv'
  BY <1>6, EndOnce
<1>7. ASSUME NEW id \in Ids, EndThrows(id) PROVE OnceInv'
  BY <1>7, QuietOnce DEF EndThrows, file, history
<1>8. CASE Crash
  BY <1>8, CrashOnce
<1>9. CASE Close
  <2>1. UNCHANGED <<log, synced, torn, runs>> /\ up' = FALSE
    BY <1>9 DEF Close, file, history
  <2>2. \A id \in Ids : StartedOnDisk(id) => StartedOnDisk(id)'
    BY <2>1 DEF StartedOnDisk
  <2> QED
    BY <2>1, <2>2, DownOnce DEF OnceInv
<1>10. CASE Open
  BY <1>10, OpenOnce
<1>11. CASE OpenDies
  BY <1>11, OpenDiesOnce
<1>12. CASE UNCHANGED vars
  BY <1>12, QuietOnce DEF vars, file, memory, history
<1> QED
  BY <1>1, <1>2, <1>3, <1>4, <1>5, <1>6, <1>7, <1>8, <1>9, <1>10, <1>11, <1>12 DEF Next

(* The promise of queue.ts:8-11: as long as no write is cut short, the     *)
(* text of a request reaches an agent at most once, whatever fsync throws, *)
(* whatever is killed, loses power or dies inside the constructor, and for *)
(* any number of requests, of starts at a time and of restarts.            *)
THEOREM AtMostOnce == ASSUME MaxShortWrites = 0
                      PROVE  Spec => []RunsAtMostOnce
<1>1. Init => TypeInv /\ OnceInv
  <2>1. Init => OnceInv
    BY DEF Init, OnceInv, NoFragment, RanIsOnDisk, WaitingHasNotRun, WaitingIsKnown
  <2> QED
    BY <2>1, InitTypeInv
<1>2. TypeInv /\ OnceInv /\ [Next]_vars => (TypeInv /\ OnceInv)'
  BY NextTypeInv, NextOnce
<1>3. TypeInv /\ OnceInv => RunsAtMostOnce
  BY DEF OnceInv, RanIsOnDisk, RunsAtMostOnce
<1> QED
  BY <1>1, <1>2, <1>3, PTL DEF Spec

-----------------------------------------------------------------------------
(* The throttle.  A turn in flight belongs to an item that counts as       *)
(* running, and only an end that could not be written parts the two.       *)

ThrottleInv ==
    /\ active \subseteq InFlight /\ running <= StartLimit
    /\ MaxIoErrors = 0 => active = InFlight

LEMMA QuietThrottle ==
    ASSUME ThrottleInv, UNCHANGED <<active, status, running>>
    PROVE  ThrottleInv'
BY DEF ThrottleInv, InFlight

LEMMA NextThrottle ==
    ASSUME TypeInv, ThrottleInv, [Next]_vars
    PROVE  ThrottleInv'
<1>0. /\ status \in [Ids -> Statuses] /\ active \subseteq Ids
      /\ running \in Nat /\ StartLimit \in Nat \ {0} /\ ioErrors \in 0..MaxIoErrors
  BY StartLimitAssumption DEF TypeInv, TypeOK
<1>1. ASSUME NEW id \in Ids, Enqueue(id) PROVE ThrottleInv'
  <2>1. /\ status[id] = "none" /\ status' = [status EXCEPT ![id] = "queued"]
        /\ UNCHANGED <<active, running>>
    BY <1>1 DEF Enqueue
  <2>2. InFlight' = InFlight
    BY <1>0, <2>1 DEF InFlight
  <2> QED
    BY <2>1, <2>2 DEF ThrottleInv
<1>2. ASSUME NEW id \in Ids, EnqueueKnown(id) PROVE ThrottleInv'
  BY <1>2, QuietThrottle DEF EnqueueKnown, memory
<1>3. ASSUME NEW id \in Ids, EnqueueThrows(id) PROVE ThrottleInv'
  BY <1>3, QuietThrottle DEF EnqueueThrows, memory
<1>4. ASSUME NEW id \in Ids, Start(id) PROVE ThrottleInv'
  <2>1. /\ status' = [status EXCEPT ![id] = "running"] /\ active' = active \cup {id}
        /\ running' = running + 1 /\ running < StartLimit
    BY <1>4 DEF Start, IsNext
  <2>2. InFlight' = InFlight \cup {id}
    BY <1>0, <2>1 DEF InFlight
  <2> QED
    BY <1>0, <2>1, <2>2 DEF ThrottleInv
<1>5. ASSUME NEW id \in Ids, StartThrows(id) PROVE ThrottleInv'
  BY <1>5, QuietThrottle DEF StartThrows, memory
<1>6. ASSUME NEW id \in Ids, NEW op \in {"done", "failed"}, End(id, op) PROVE ThrottleInv'
  <2>1. /\ status' = [status EXCEPT ![id] = op] /\ active' = active \ {id}
        /\ running' = running - 1
    BY <1>6 DEF End
  <2>2. InFlight' = InFlight \ {id}
    BY <1>0, <2>1 DEF InFlight
  <2> QED
    BY <1>0, <2>1, <2>2 DEF ThrottleInv
<1>7. ASSUME NEW id \in Ids, EndThrows(id) PROVE ThrottleInv'
  <2>1. /\ UNCHANGED <<status, running>> /\ active' = active \ {id} /\ ioErrors < MaxIoErrors
    BY <1>7 DEF EndThrows
  <2> QED
    BY <1>0, <2>1 DEF ThrottleInv, InFlight
<1>8. ASSUME Forgotten PROVE ThrottleInv'
  BY <1>0, <1>8 DEF Forgotten, ThrottleInv, InFlight
<1>9. CASE Crash
  BY <1>8, <1>9 DEF Crash
<1>10. CASE Close
  BY <1>8, <1>10 DEF Close
<1>11. CASE Open
  <2>1. \A id \in Ids : status'[id] # "running"
    BY <1>11 DEF Open
  <2>2. active' = {} /\ running' = 0
    BY <1>11 DEF Open
  <2> QED
    BY <1>0, <2>1, <2>2 DEF ThrottleInv, InFlight
<1>12. CASE OpenDies
  BY <1>12, QuietThrottle DEF OpenDies, memory
<1>13. CASE UNCHANGED vars
  BY <1>13, QuietThrottle DEF vars, memory
<1> QED
  BY <1>1, <1>2, <1>3, <1>4, <1>5, <1>6, <1>7, <1>9, <1>10, <1>11, <1>12, <1>13 DEF Next

LEMMA InitThrottle == ASSUME Init PROVE ThrottleInv
BY StartLimitAssumption DEF Init, ThrottleInv, InFlight

(* The throttle of queue.ts:290-312 never lets more turns run than the     *)
(* limit, whatever writes throw or are cut short and however often the     *)
(* daemon restarts.                                                        *)
THEOREM ThrottleHolds == Spec => []ThrottleNeverOverAdmits
<1>1. Init => TypeInv /\ ThrottleInv
  BY InitTypeInv, InitThrottle
<1>2. TypeInv /\ ThrottleInv /\ [Next]_vars => (TypeInv /\ ThrottleInv)'
  BY NextTypeInv, NextThrottle
<1>3. ASSUME TypeInv, ThrottleInv PROVE ThrottleNeverOverAdmits
  <2>1. active \subseteq InFlight /\ running = Cardinality(InFlight) /\ running <= StartLimit
    BY <1>3 DEF ThrottleInv, TypeInv, ThrottleCountsInFlight
  <2>2. IsFiniteSet(InFlight)
    BY <1>3, InFlightFinite DEF TypeInv
  <2>3. Cardinality(active) <= Cardinality(InFlight)
    BY <2>1, <2>2, FS_Subset
  <2> QED
    BY <2>1, <2>3 DEF ThrottleNeverOverAdmits
<1> QED
  BY <1>1, <1>2, <1>3, PTL DEF Spec

(* On a disk where no write throws the throttle is exact: no slot stays    *)
(* closed after its turn is over.                                          *)
THEOREM ThrottleLeaksNoSlot == ASSUME MaxIoErrors = 0
                               PROVE  Spec => []ThrottleIsExact
<1>1. Init => TypeInv /\ ThrottleInv
  BY InitTypeInv, InitThrottle
<1>2. TypeInv /\ ThrottleInv /\ [Next]_vars => (TypeInv /\ ThrottleInv)'
  BY NextTypeInv, NextThrottle
<1>3. TypeInv /\ ThrottleInv => ThrottleIsExact
  BY DEF ThrottleInv, TypeInv, ThrottleCountsInFlight, ThrottleIsExact
<1> QED
  BY <1>1, <1>2, <1>3, PTL DEF Spec
-----------------------------------------------------------------------------
(* Receipts.  On a disk where every write is whole and none throws, every  *)
(* accept line is durable as soon as it is written, so that no crash can   *)
(* take it, and the Map knows exactly the ids that have one.               *)

AcceptsAreSynced == \A id \in Ids : AcceptsOf(log, id) \subseteq 1..synced

MapKnowsAccepts ==
    up => \A id \in Ids : /\ status[id] = "none" <=> AcceptsOf(log, id) = {}
                          /\ receipt[id] = ReplayReceipt(log, id)

AckedIsAccepted ==
    \A id \in Ids : acked[id] # 0 => /\ AcceptsOf(log, id) # {}
                                     /\ ReplayReceipt(log, id) = acked[id]

ReceiptInv == AcceptsAreSynced /\ MapKnowsAccepts /\ AckedIsAccepted /\ NoFragment

\* Two files with the same accepts of an id give it the same receipt.
LEMMA SameReceipt ==
    ASSUME NEW l \in Seq(Lines), NEW m \in Seq(Lines), NEW id \in Ids,
           AcceptsOf(l, id) = AcceptsOf(m, id),
           \A i \in AcceptsOf(l, id) : l[i] = m[i]
    PROVE  ReplayReceipt(l, id) = ReplayReceipt(m, id)
<1>1. CASE AcceptsOf(l, id) = {}
  BY <1>1 DEF ReplayReceipt
<1>2. CASE AcceptsOf(l, id) # {}
  <2>1. Min(AcceptsOf(l, id)) \in AcceptsOf(l, id)
    BY <1>2, AcceptsTyped, MinOfNats
  <2> QED
    BY <1>2, <2>1 DEF ReplayReceipt
<1> QED
  BY <1>1, <1>2

SameAccepts ==
    \A id \in Ids : /\ AcceptsOf(log', id) = AcceptsOf(log, id)
                    /\ ReplayReceipt(log', id) = ReplayReceipt(log, id)

\* The file changes only after its first n lines, and in no accept line.
LEMMA NoAcceptChanges ==
    ASSUME log \in Seq(Lines), log' \in Seq(Lines), NEW n \in Nat,
           n <= Len(log), n <= Len(log'), \A i \in 1..n : log'[i] = log[i],
           \A i \in 1..Len(log) : i > n => log[i].op # "accept",
           \A i \in 1..Len(log') : i > n => log'[i].op # "accept"
    PROVE  SameAccepts
<1> SUFFICES ASSUME NEW id \in Ids
             PROVE  /\ AcceptsOf(log', id) = AcceptsOf(log, id)
                    /\ ReplayReceipt(log', id) = ReplayReceipt(log, id)
  BY DEF SameAccepts
<1>0. Len(log) \in Nat /\ Len(log') \in Nat
  OBVIOUS
<1>1. \A i \in AcceptsOf(log, id) : i \in 1..n
  BY <1>0 DEF AcceptsOf
<1>2. \A i \in AcceptsOf(log', id) : i \in 1..n
  BY <1>0 DEF AcceptsOf
<1>3. AcceptsOf(log', id) \subseteq AcceptsOf(log, id)
  BY <1>0, <1>2 DEF AcceptsOf
<1>4. AcceptsOf(log, id) \subseteq AcceptsOf(log', id)
  BY <1>0, <1>1 DEF AcceptsOf
<1>5. \A i \in AcceptsOf(log, id) : log[i] = log'[i]
  BY <1>1
<1>6. AcceptsOf(log', id) = AcceptsOf(log, id)
  BY <1>3, <1>4
<1> QED
  BY <1>5, <1>6, SameReceipt

LEMMA SameAcceptsKeep ==
    ASSUME TypeInv, ReceiptInv, SameAccepts, FileTyped', synced <= synced', acked' = acked,
           up' => /\ up /\ torn' = FALSE /\ receipt' = receipt
                  /\ \A id \in Ids : status'[id] = "none" <=> status[id] = "none"
    PROVE  ReceiptInv'
<1>1. synced \in Nat /\ synced' \in Nat
  BY DEF TypeInv, TypeOK, FileTyped
<1>2. AcceptsAreSynced'
  BY <1>1 DEF ReceiptInv, AcceptsAreSynced, SameAccepts
<1>3. MapKnowsAccepts'
  BY DEF ReceiptInv, MapKnowsAccepts, SameAccepts
<1>4. AckedIsAccepted'
  BY DEF ReceiptInv, AckedIsAccepted, SameAccepts
<1> QED
  BY <1>2, <1>3, <1>4 DEF ReceiptInv, NoFragment

LEMMA FileUnchanged ==
    ASSUME TypeInv, UNCHANGED <<log, synced, torn>>
    PROVE  SameAccepts /\ FileTyped' /\ synced <= synced'
<1>1. FileTyped /\ synced <= synced'
  BY DEF TypeInv, TypeOK, FileTyped
<1> QED
  BY <1>1 DEF SameAccepts, FileTyped

\* A line of another kind is appended.
LEMMA AppendNoAccept ==
    ASSUME MaxShortWrites = 0, TypeInv, torn = FALSE, NEW line \in Lines,
           line.op # "accept", Write(line)
    PROVE  SameAccepts /\ FileTyped' /\ synced <= synced' /\ torn' = FALSE
<1>1. log' = Append(log, line) /\ FileTyped' /\ synced <= synced' /\ torn' = FALSE
  BY WriteAppends
<1>2. log \in Seq(Lines) /\ log' \in Seq(Lines)
  BY <1>1 DEF TypeInv, TypeOK, FileTyped
<1>3. /\ Len(log) \in Nat /\ Len(log') = Len(log) + 1
      /\ \A i \in 1..Len(log) : log'[i] = log[i]
      /\ log'[Len(log) + 1] = line
  BY <1>1, <1>2
<1>4. \A i \in 1..Len(log') : i > Len(log) => i = Len(log) + 1
  BY <1>3
<1>5. SameAccepts
  BY <1>2, <1>3, <1>4, NoAcceptChanges
<1> QED
  BY <1>1, <1>5

LEMMA EnqueueReceipt ==
    ASSUME MaxShortWrites = 0, TypeInv, ReceiptInv, NEW id \in Ids, Enqueue(id)
    PROVE  ReceiptInv' /\ acked[id] = 0
<1> DEFINE line == [op |-> "accept", id |-> id, seq |-> nextSeq]
<1>1. line \in Lines /\ line.op = "accept" /\ line.id = id /\ line.seq = nextSeq
  BY DEF Lines, Ops, TypeInv, TypeOK
<1>2. torn = FALSE /\ up /\ up' = up
  BY DEF Enqueue, ReceiptInv, NoFragment
<1>3. /\ status[id] = "none" /\ Write(line)
      /\ status' = [status EXCEPT ![id] = "queued"]
      /\ receipt' = [receipt EXCEPT ![id] = nextSeq]
      /\ acked' = [acked EXCEPT ![id] = nextSeq]
  BY DEF Enqueue
<1>4. AcceptsOf(log, id) = {}
  BY <1>2, <1>3 DEF ReceiptInv, MapKnowsAccepts
<1>5. acked[id] = 0
  BY <1>4 DEF ReceiptInv, AckedIsAccepted
<1> HIDE DEF line
<1>6. /\ log' = Append(log, line) /\ FileTyped' /\ torn' = FALSE
      /\ synced' = Len(log') /\ synced <= synced'
  BY <1>1, <1>2, <1>3, WriteAppends DEF SyncedOps
<1>7. /\ log \in Seq(Lines) /\ log' \in Seq(Lines) /\ synced \in Nat /\ synced' \in Nat
      /\ status \in [Ids -> Statuses] /\ receipt \in [Ids -> Nat]
      /\ acked \in [Ids -> Nat] /\ nextSeq \in Nat \ {0}
  BY <1>6 DEF TypeInv, TypeOK, FileTyped
<1>8. /\ Len(log) \in Nat /\ Len(log') = Len(log) + 1
      /\ DOMAIN log = 1..Len(log) /\ DOMAIN log' = 1..Len(log')
      /\ \A i \in 1..Len(log) : log'[i] = log[i]
      /\ log'[Len(log) + 1] = line
  BY <1>1, <1>6, <1>7
<1>9. \A i \in 1..Len(log') : i \in 1..Len(log) \/ i = Len(log) + 1
  BY <1>8
<1>10. ASSUME NEW other \in Ids, other # id
       PROVE  /\ AcceptsOf(log', other) = AcceptsOf(log, other)
              /\ ReplayReceipt(log', other) = ReplayReceipt(log, other)
  <2>1. \A i \in AcceptsOf(log', other) : i \in AcceptsOf(log, other)
    BY <1>1, <1>7, <1>8, <1>9, <1>10 DEF AcceptsOf
  <2>2. ASSUME NEW i \in AcceptsOf(log, other)
        PROVE  i \in AcceptsOf(log', other) /\ log'[i] = log[i]
    <3>1. i \in 1..Len(log) /\ log[i].op = "accept" /\ log[i].id = other
      BY <1>8 DEF AcceptsOf
    <3>2. i \in 1..Len(log') /\ log'[i] = log[i]
      BY <1>8, <3>1
    <3> QED
      BY <1>8, <3>1, <3>2 DEF AcceptsOf
  <2>3. AcceptsOf(log', other) = AcceptsOf(log, other)
    BY <2>1, <2>2
  <2> QED
    BY <1>7, <2>2, <2>3, SameReceipt
<1>11. AcceptsOf(log', id) = {Len(log) + 1}
  <2>1. \A i \in AcceptsOf(log', id) : i = Len(log) + 1
    <3>1. ASSUME NEW i \in AcceptsOf(log', id), i \in 1..Len(log) PROVE FALSE
      <4>1. i \in AcceptsOf(log, id)
        BY <1>7, <1>8, <3>1 DEF AcceptsOf
      <4> QED
        BY <1>4, <4>1
    <3>2. AcceptsOf(log', id) \subseteq 1..Len(log')
      BY <1>8 DEF AcceptsOf
    <3> QED
      BY <1>9, <3>1, <3>2
  <2>2. Len(log) + 1 \in AcceptsOf(log', id)
    BY <1>1, <1>7, <1>8 DEF AcceptsOf
  <2> QED
    BY <2>1, <2>2
<1>12. ReplayReceipt(log', id) = nextSeq
  <2>1. Min({Len(log) + 1}) = Len(log) + 1
    <3>1. {Len(log) + 1} \subseteq Nat
      BY <1>8
    <3> QED
      BY <3>1, MinOfNats
  <2> QED
    BY <1>1, <1>8, <1>11, <2>1 DEF ReplayReceipt
<1>13. AcceptsAreSynced'
  <2>1. ASSUME NEW x \in Ids PROVE AcceptsOf(log', x) \subseteq 1..synced'
    <3>1. CASE x = id
      BY <1>6, <1>8, <1>11, <3>1
    <3>2. CASE x # id
      BY <1>6, <1>7, <1>10, <3>2 DEF ReceiptInv, AcceptsAreSynced
    <3> QED
      BY <3>1, <3>2
  <2> QED
    BY <2>1 DEF AcceptsAreSynced
<1>14. MapKnowsAccepts'
  <2>1. ASSUME NEW x \in Ids
        PROVE  /\ status'[x] = "none" <=> AcceptsOf(log', x) = {}
               /\ receipt'[x] = ReplayReceipt(log', x)
    <3>1. CASE x = id
      BY <1>3, <1>7, <1>11, <1>12, <3>1
    <3>2. CASE x # id
      BY <1>2, <1>3, <1>7, <1>10, <3>2 DEF ReceiptInv, MapKnowsAccepts
    <3> QED
      BY <3>1, <3>2
  <2> QED
    BY <2>1 DEF MapKnowsAccepts
<1>15. AckedIsAccepted'
  <2>1. ASSUME NEW x \in Ids, acked'[x] # 0
        PROVE  AcceptsOf(log', x) # {} /\ ReplayReceipt(log', x) = acked'[x]
    <3>1. CASE x = id
      BY <1>3, <1>7, <1>11, <1>12, <3>1
    <3>2. CASE x # id
      BY <1>3, <1>7, <1>10, <2>1, <3>2 DEF ReceiptInv, AckedIsAccepted
    <3> QED
      BY <3>1, <3>2
  <2> QED
    BY <2>1 DEF AckedIsAccepted
<1> QED
  BY <1>5, <1>6, <1>13, <1>14, <1>15 DEF ReceiptInv, NoFragment

LEMMA EnqueueKnownReceipt ==
    ASSUME TypeInv, ReceiptInv, NEW id \in Ids, EnqueueKnown(id)
    PROVE  ReceiptInv' /\ (acked[id] # 0 => acked' = acked)
<1>1. /\ up /\ status[id] # "none" /\ acked' = [acked EXCEPT ![id] = receipt[id]]
      /\ UNCHANGED <<log, synced, torn, up, status, receipt>>
  BY DEF EnqueueKnown, file, memory
<1>2. acked \in [Ids -> Nat] /\ receipt \in [Ids -> Nat]
  BY DEF TypeInv, TypeOK
<1>3. AcceptsOf(log, id) # {} /\ receipt[id] = ReplayReceipt(log, id)
  BY <1>1 DEF ReceiptInv, MapKnowsAccepts
<1>4. acked[id] # 0 => acked' = acked
  BY <1>1, <1>2, <1>3 DEF ReceiptInv, AckedIsAccepted
<1>5. AckedIsAccepted'
  BY <1>1, <1>2, <1>3 DEF ReceiptInv, AckedIsAccepted
<1>6. AcceptsAreSynced' /\ MapKnowsAccepts' /\ NoFragment'
  BY <1>1 DEF ReceiptInv, AcceptsAreSynced, MapKnowsAccepts, NoFragment
<1> QED
  BY <1>4, <1>5, <1>6 DEF ReceiptInv

LEMMA CrashReceipt ==
    ASSUME TypeInv, ReceiptInv, Crash
    PROVE  ReceiptInv'
<1>1. PICK n \in synced..Len(log) : log' = SubSeq(log, 1, n)
  BY DEF Crash
<1>2. up' = FALSE /\ acked' = acked /\ synced' = synced
  BY DEF Crash, history
<1>3. FileTyped'
  BY CrashTypeInv, TypeOKPartsNext DEF TypeInv
<1>4. log \in Seq(Lines) /\ log' \in Seq(Lines) /\ synced \in Nat /\ Len(log) \in Nat
  BY <1>3 DEF TypeInv, TypeOK, FileTyped
<1>5. n \in Nat /\ n <= Len(log) /\ Len(log') = n /\ \A i \in 1..n : log'[i] = log[i]
  BY <1>1, <1>4
<1>6. \A i \in 1..Len(log) : i > n => log[i].op # "accept"
  <2>1. ASSUME NEW i \in 1..Len(log), i > n, log[i].op = "accept" PROVE FALSE
    <3>1. log[i] \in Lines
      BY <1>4
    <3>2. log[i].id \in Ids /\ i \in AcceptsOf(log, log[i].id)
      BY <1>4, <2>1, <3>1 DEF Lines, AcceptsOf
    <3>3. i <= synced
      BY <1>4, <3>2 DEF ReceiptInv, AcceptsAreSynced
    <3> QED
      BY <1>1, <1>4, <1>5, <2>1, <3>3
  <2> QED
    BY <2>1
<1>7. SameAccepts
  BY <1>4, <1>5, <1>6, NoAcceptChanges
<1>8. synced <= synced'
  BY <1>2, <1>4
<1> QED
  BY <1>2, <1>3, <1>7, <1>8, SameAcceptsKeep

\* What a sequence put after another holds, place by place.
LEMMA PutAfter ==
    ASSUME NEW l \in Seq(Lines), NEW m \in Seq(Lines)
    PROVE  /\ l \o m \in Seq(Lines) /\ Len(l \o m) = Len(l) + Len(m)
           /\ \A i \in 1..Len(l) : (l \o m)[i] = l[i]
           /\ \A i \in 1..Len(l \o m) : i > Len(l) =>
                  i - Len(l) \in 1..Len(m) /\ (l \o m)[i] = m[i - Len(l)]
OBVIOUS

\* The lines a constructor writes are no accepts.
LEMMA SettlesNoAccept ==
    ASSUME TypeInv, NEW lost \in Seq(Ids), NEW k \in 0..Len(lost), Settles(lost, k)
    PROVE  SameAccepts /\ FileTyped' /\ synced <= synced'
<1> DEFINE more == [i \in 1..k |-> Line("unknown", lost[i])]
<1>1. log \in Seq(Lines) /\ synced \in 0..Len(log) /\ Len(log) \in Nat /\ k \in Nat
  BY DEF TypeInv, TypeOK
<1>2. more \in [1..k -> Lines] /\ \A i \in 1..k : more[i].op # "accept"
  BY DEF Line, Lines, Ops
<1>3. log' = log \o more
  BY DEF Settles
<1>4. FileTyped' /\ Len(log) <= Len(log')
  BY SettlesTyped
<1> HIDE DEF more
<1>5. more \in Seq(Lines) /\ Len(more) = k
  BY <1>1, <1>2
<1>6. /\ log' \in Seq(Lines) /\ Len(log') = Len(log) + k
      /\ \A i \in 1..Len(log) : log'[i] = log[i]
      /\ \A i \in 1..Len(log') : i > Len(log) => log'[i] = more[i - Len(log)]
      /\ \A i \in 1..Len(log') : i > Len(log) => i - Len(log) \in 1..k
  BY <1>1, <1>3, <1>5, PutAfter
<1>7. \A i \in 1..Len(log') : i > Len(log) => log'[i].op # "accept"
  BY <1>2, <1>6
<1>8. SameAccepts
  BY <1>1, <1>4, <1>6, <1>7, NoAcceptChanges
<1>9. synced <= synced'
  BY <1>1, <1>6 DEF Settles
<1> QED
  BY <1>4, <1>8, <1>9

LEMMA NoStatusMeansNoAccept ==
    ASSUME NEW l \in Seq(Lines), NEW id \in Ids
    PROVE  ReplayStatus(l, id) = "none" <=> AcceptsOf(l, id) = {}
<1>1. CASE AcceptsOf(l, id) = {} \/ EventsOf(l, id) = {}
  BY <1>1 DEF ReplayStatus
<1>2. CASE AcceptsOf(l, id) # {} /\ EventsOf(l, id) # {}
  <2> DEFINE last == Max(EventsOf(l, id))
  <2>1. \A x \in EventsOf(l, id) : x <= Len(l)
    BY AcceptsTyped
  <2>2. Len(l) \in Nat
    OBVIOUS
  <2>3. last \in EventsOf(l, id)
    BY <1>2, <2>1, <2>2, AcceptsTyped, MaxOfBoundedNats
  <2>4. ReplayStatus(l, id) = StatusAfter(l[last].op)
    BY <1>2 DEF ReplayStatus
  <2> HIDE DEF last
  <2>5. l[last] \in Lines
    BY <2>3, AcceptsTyped
  <2>6. StatusAfter(l[last].op) # "none"
    BY <2>5 DEF StatusAfter, Lines, Ops
  <2> QED
    BY <1>2, <2>4, <2>6
<1> QED
  BY <1>1, <1>2

LEMMA OpenReceipt ==
    ASSUME TypeInv, ReceiptInv, Open
    PROVE  ReceiptInv'
<1>0. log \in Seq(Lines) /\ synced \in Nat
  BY DEF TypeInv, TypeOK
<1>1. PICK lost \in InAcceptOrder(log, WithStatus(log, "running")) :
          Settles(lost, Cardinality(WithStatus(log, "running")))
  BY DEF Open
<1>2. /\ lost \in Seq(Ids) /\ Cardinality(WithStatus(log, "running")) \in 0..Len(lost)
  BY <1>0, InAcceptOrderTyped
<1>3. SameAccepts /\ FileTyped' /\ synced <= synced'
  BY <1>1, <1>2, SettlesNoAccept
<1>4. torn' = FALSE /\ acked' = acked
  BY <1>1 DEF Settles, history
<1>5. \A id \in Ids : /\ status'[id] = "none" <=> ReplayStatus(log, id) = "none"
                      /\ receipt'[id] = ReplayReceipt(log, id)
  BY DEF Open
<1>6. MapKnowsAccepts'
  BY <1>0, <1>3, <1>5, NoStatusMeansNoAccept DEF MapKnowsAccepts, SameAccepts
<1>7. AcceptsAreSynced' /\ AckedIsAccepted'
  <2>1. synced' \in Nat
    BY <1>3 DEF FileTyped
  <2>2. AcceptsAreSynced'
    BY <1>0, <1>3, <2>1 DEF ReceiptInv, AcceptsAreSynced, SameAccepts
  <2>3. AckedIsAccepted'
    BY <1>3, <1>4 DEF ReceiptInv, AckedIsAccepted, SameAccepts
  <2> QED
    BY <2>2, <2>3
<1> QED
  BY <1>4, <1>6, <1>7 DEF ReceiptInv, NoFragment

\* Every step keeps the receipts that were given.
LEMMA NextReceipt ==
    ASSUME MaxShortWrites = 0, MaxIoErrors = 0, TypeInv, ReceiptInv, [Next]_vars
    PROVE  /\ ReceiptInv'
           /\ \A id \in Ids : acked[id] # 0 => acked'[id] = acked[id]
<1> DEFINE Stable == \A id \in Ids : acked[id] # 0 => acked'[id] = acked[id]
<1>0. /\ ioErrors \in 0..0 /\ acked \in [Ids -> Nat] /\ status \in [Ids -> Statuses]
      /\ up \in BOOLEAN /\ (up => torn = FALSE)
  BY DEF TypeInv, TypeOK, ReceiptInv, NoFragment
<1>1. ASSUME NEW id \in Ids, Enqueue(id) PROVE ReceiptInv' /\ Stable
  <2>1. acked' = [acked EXCEPT ![id] = nextSeq]
    BY <1>1 DEF Enqueue
  <2> QED
    BY <1>0, <1>1, <2>1, EnqueueReceipt
<1>2. ASSUME NEW id \in Ids, EnqueueKnown(id) PROVE ReceiptInv' /\ Stable
  <2>1. acked' = [acked EXCEPT ![id] = receipt[id]]
    BY <1>2 DEF EnqueueKnown
  <2> QED
    BY <1>0, <1>2, <2>1, EnqueueKnownReceipt
<1>3. ASSUME NEW id \in Ids, EnqueueThrows(id) \/ StartThrows(id) \/ EndThrows(id) PROVE FALSE
  BY <1>0, <1>3 DEF EnqueueThrows, StartThrows, EndThrows, WriteThrows
<1>4. ASSUME NEW id \in Ids, Start(id) PROVE ReceiptInv' /\ Stable
  <2> DEFINE line == Line("start", id)
  <2>1. line \in Lines /\ line.op # "accept"
    BY DEF Line, Lines, Ops
  <2>2. Write(line) /\ up
    BY <1>4 DEF Start, IsNext
  <2> HIDE DEF line
  <2>3. /\ status[id] = "queued" /\ status' = [status EXCEPT ![id] = "running"]
        /\ UNCHANGED <<up, receipt, acked>>
    BY <1>4 DEF Start
  <2>4. SameAccepts /\ FileTyped' /\ synced <= synced' /\ torn' = FALSE
    BY <1>0, <2>1, <2>2, AppendNoAccept
  <2> QED
    BY <1>0, <2>2, <2>3, <2>4, SameAcceptsKeep
<1>5. ASSUME NEW id \in Ids, NEW op \in {"done", "failed"}, End(id, op)
      PROVE  ReceiptInv' /\ Stable
  <2> DEFINE line == Line(op, id)
  <2>1. line \in Lines /\ line.op # "accept"
    BY DEF Line, Lines, Ops
  <2>2. Write(line) /\ up
    BY <1>5 DEF End
  <2> HIDE DEF line
  <2>3. /\ status[id] = "running" /\ status' = [status EXCEPT ![id] = op]
        /\ UNCHANGED <<up, receipt, acked>>
    BY <1>5 DEF End, history
  <2>4. SameAccepts /\ FileTyped' /\ synced <= synced' /\ torn' = FALSE
    BY <1>0, <2>1, <2>2, AppendNoAccept
  <2> QED
    BY <1>0, <2>2, <2>3, <2>4, SameAcceptsKeep
<1>6. CASE Crash
  <2>1. acked' = acked
    BY <1>6 DEF Crash, history
  <2> QED
    BY <1>6, <2>1, CrashReceipt
<1>7. CASE Close
  <2>1. UNCHANGED <<log, synced, torn, acked>> /\ up' = FALSE
    BY <1>7 DEF Close, file, history
  <2> QED
    BY <2>1, FileUnchanged, SameAcceptsKeep
<1>8. CASE Open
  <2>1. acked' = acked
    BY <1>8 DEF Open, Settles, history
  <2> QED
    BY <1>8, <2>1, OpenReceipt
<1>9. CASE OpenDies
  <2>1. PICK lost \in InAcceptOrder(log, WithStatus(log, "running")),
             k \in 0..(Cardinality(WithStatus(log, "running")) - 1) : Settles(lost, k)
    BY <1>9 DEF OpenDies
  <2>2. lost \in Seq(Ids) /\ k \in 0..Len(lost)
    <3>1. log \in Seq(Lines)
      BY DEF TypeInv, TypeOK
    <3> QED
      BY <3>1, InAcceptOrderTyped
  <2>3. ~up' /\ acked' = acked
    BY <1>9, <2>1 DEF OpenDies, Settles, history, memory
  <2> QED
    BY <2>1, <2>2, <2>3, SettlesNoAccept, SameAcceptsKeep
<1>10. CASE UNCHANGED vars
  <2>1. UNCHANGED <<log, synced, torn, acked, up, status, receipt>>
    BY <1>10 DEF vars, file, memory, history
  <2> QED
    BY <1>0, <2>1, FileUnchanged, SameAcceptsKeep
<1> QED
  BY <1>1, <1>2, <1>3, <1>4, <1>5, <1>6, <1>7, <1>8, <1>9, <1>10 DEF Next

LEMMA InitReceipt == ASSUME Init PROVE ReceiptInv
<1>1. log = <<>> /\ up = FALSE /\ \A id \in Ids : acked[id] = 0
  BY DEF Init
<1>2. \A id \in Ids : AcceptsOf(log, id) = {}
  BY <1>1 DEF AcceptsOf
<1> QED
  BY <1>1, <1>2 DEF ReceiptInv, AcceptsAreSynced, MapKnowsAccepts, AckedIsAccepted, NoFragment

(* "an accepted item is on disk" (queue.ts:256), on a disk where writes    *)
(* are whole and do not throw: whatever a power cut leaves of the file     *)
(* rebuilds the receipt its caller holds.                                  *)
THEOREM AcceptedStaysOnDisk == ASSUME MaxShortWrites = 0, MaxIoErrors = 0
                               PROVE  Spec => []AcceptedIsOnDisk
<1>1. Init => TypeInv /\ ReceiptInv
  BY InitTypeInv, InitReceipt
<1>2. TypeInv /\ ReceiptInv /\ [Next]_vars => (TypeInv /\ ReceiptInv)'
  BY NextTypeInv, NextReceipt
<1>3. ASSUME TypeInv, ReceiptInv PROVE AcceptedIsOnDisk
  <2>1. log \in Seq(Lines) /\ synced \in 0..Len(log) /\ Len(log) \in Nat
    BY <1>3 DEF TypeInv, TypeOK
  <2>2. /\ OnDisk \in Seq(Lines) /\ Len(OnDisk) = synced
        /\ \A i \in 1..synced : OnDisk[i] = log[i]
    BY <2>1 DEF OnDisk
  <2>3. ASSUME NEW id \in Ids, acked[id] # 0
        PROVE  /\ ReplayStatus(OnDisk, id) # "none"
               /\ ReplayReceipt(OnDisk, id) = acked[id]
    <3>1. AcceptsOf(log, id) # {} /\ ReplayReceipt(log, id) = acked[id]
      BY <1>3, <2>3 DEF ReceiptInv, AckedIsAccepted
    <3>2. AcceptsOf(log, id) \subseteq 1..synced
      BY <1>3 DEF ReceiptInv, AcceptsAreSynced
    <3>3. AcceptsOf(OnDisk, id) \subseteq AcceptsOf(log, id)
      BY <2>1, <2>2 DEF AcceptsOf
    <3>4. AcceptsOf(log, id) \subseteq AcceptsOf(OnDisk, id)
      BY <2>1, <2>2, <3>2 DEF AcceptsOf
    <3>5. AcceptsOf(OnDisk, id) = AcceptsOf(log, id)
      BY <3>3, <3>4
    <3>6. ReplayReceipt(OnDisk, id) = ReplayReceipt(log, id)
      BY <2>1, <2>2, <3>2, <3>5, SameReceipt
    <3> QED
      BY <2>2, <3>1, <3>5, <3>6, NoStatusMeansNoAccept
  <2> QED
    BY <2>3 DEF AcceptedIsOnDisk
<1> QED
  BY <1>1, <1>2, <1>3, PTL DEF Spec

(* "a known requestId returns its original receipt" (queue.ts:8), for any  *)
(* number of retries, crashes and restarts, on such a disk.                *)
THEOREM ReceiptsNeverChange == ASSUME MaxShortWrites = 0, MaxIoErrors = 0
                               PROVE  Spec => ReceiptsAreStable
<1>1. Init => TypeInv /\ ReceiptInv
  BY InitTypeInv, InitReceipt
<1>2. TypeInv /\ ReceiptInv /\ [Next]_vars => (TypeInv /\ ReceiptInv)'
  BY NextTypeInv, NextReceipt
<1>3. TypeInv /\ ReceiptInv /\ [Next]_vars =>
          [\A id \in Ids : acked[id] # 0 => acked'[id] = acked[id]]_vars
  BY NextReceipt
<1> QED
  BY <1>1, <1>2, <1>3, PTL DEF Spec, ReceiptsAreStable

-----------------------------------------------------------------------------
(* The line of waiting ids.  In the order of acceptance a set of accepted ids *)
(* can be lined up in one way only, and Ordered says what that is without     *)
(* counting.                                                                  *)

First(l, id) == Min(AcceptsOf(l, id))
Ordered(l, S, p) ==
    /\ p \in Seq(Ids)
    /\ \A i \in 1..Len(p) : p[i] \in S
    /\ \A x \in S : \E i \in 1..Len(p) : p[i] = x
    /\ \A i, j \in 1..Len(p) : i < j => First(l, p[i]) < First(l, p[j])

AllAccepted(l, S) == S \subseteq Ids /\ \A id \in S : AcceptsOf(l, id) # {}

LEMMA FirstIn ==
    ASSUME NEW l \in Seq(Lines), NEW id \in Ids, AcceptsOf(l, id) # {}
    PROVE  /\ First(l, id) \in AcceptsOf(l, id) /\ First(l, id) \in 1..Len(l)
           /\ First(l, id) \in Nat /\ Len(l) \in Nat
           /\ \A a \in AcceptsOf(l, id) : First(l, id) <= a
BY AcceptsTyped, MinOfNats DEF First

LEMMA OrderedIsInjective ==
    ASSUME NEW l \in Seq(Lines), NEW S, AllAccepted(l, S), NEW p, Ordered(l, S, p),
           NEW i \in 1..Len(p), NEW j \in 1..Len(p), p[i] = p[j]
    PROVE  i = j
<1>1. First(l, p[i]) \in Nat
  BY FirstIn DEF AllAccepted, Ordered
<1>2. ~ (i < j) /\ ~ (j < i)
  BY <1>1 DEF Ordered
<1> QED
  BY <1>2 DEF Ordered

LEMMA OrderedIsInOrder ==
    ASSUME NEW l \in Seq(Lines), NEW S, AllAccepted(l, S), NEW p, Ordered(l, S, p)
    PROVE  p \in InAcceptOrder(l, S) /\ Len(p) = Cardinality(S)
<1>0. Len(p) \in Nat /\ p \in [1..Len(p) -> S] /\ IsFiniteSet(S)
  BY IdsAssumption, FS_Subset DEF Ordered, AllAccepted
<1>1. p \in Injection(1..Len(p), S)
  <2>1. \A i, j \in DOMAIN p : p[i] = p[j] => i = j
    BY <1>0, OrderedIsInjective
  <2> QED
    BY <1>0, <2>1 DEF Injection, IsInjective
<1>2. p \in Surjection(1..Len(p), S)
  BY <1>0 DEF Ordered, Surjection
<1>3. Cardinality(1..Len(p)) = Len(p)
  <2>1. PICK n \in Nat : n = Len(p)
    BY <1>0
  <2>2. Cardinality(1..n) = n
    BY FS_Interval
  <2> QED
    BY <2>1, <2>2
<1>4. Cardinality(S) = Len(p)
  BY <1>0, <1>1, <1>2, <1>3, FS_Injection
<1> QED
  BY <1>0, <1>4 DEF Ordered, InAcceptOrder, First

LEMMA InOrderIsOrdered ==
    ASSUME NEW l \in Seq(Lines), NEW S, AllAccepted(l, S), NEW p \in InAcceptOrder(l, S)
    PROVE  Ordered(l, S, p)
<1> DEFINE n == Cardinality(S)
<1>0. IsFiniteSet(S) /\ n \in Nat
  BY IdsAssumption, FS_Subset, FS_CardinalityType DEF AllAccepted
<1>1. /\ p \in [1..n -> S] /\ \A i, j \in 1..n : i < j => First(l, p[i]) < First(l, p[j])
  BY DEF InAcceptOrder, First
<1> HIDE DEF n
<1>2. \A i, j \in 1..n : p[i] = p[j] => i = j
  <2> SUFFICES ASSUME NEW i \in 1..n, NEW j \in 1..n, p[i] = p[j] PROVE i = j
    OBVIOUS
  <2>1. First(l, p[i]) \in Nat
    BY <1>1, FirstIn DEF AllAccepted
  <2>2. ~ (i < j) /\ ~ (j < i)
    BY <1>1, <2>1
  <2> QED
    BY <2>2
<1>3. p \in Injection(1..n, S)
  BY <1>1, <1>2 DEF Injection, IsInjective
<1>4. Cardinality(1..n) = n
  BY <1>0, FS_Interval
<1>5. p \in Surjection(1..n, S)
  BY <1>0, <1>3, <1>4, FS_Injection DEF n
<1>6. p \in Seq(Ids) /\ Len(p) = n
  BY <1>0, <1>1 DEF AllAccepted
<1> QED
  BY <1>1, <1>5, <1>6 DEF Ordered, Surjection

LEMMA OnlyOneOrder ==
    ASSUME NEW l \in Seq(Lines), NEW S, AllAccepted(l, S),
           NEW p, Ordered(l, S, p), NEW q, Ordered(l, S, q)
    PROVE  p = q
<1>0. /\ p \in Seq(Ids) /\ Len(p) \in Nat /\ q \in Seq(Ids) /\ Len(q) \in Nat
      /\ \A i \in 1..Len(p) : First(l, p[i]) \in Nat /\ p[i] \in S
      /\ \A i \in 1..Len(q) : First(l, q[i]) \in Nat /\ q[i] \in S
  BY FirstIn DEF Ordered, AllAccepted
<1>1. Len(p) = Len(q)
  BY <1>0, OrderedIsInOrder
<1> DEFINE Bad == {i \in 1..Len(p) : p[i] # q[i]}
<1>2. Bad = {}
  <2> SUFFICES ASSUME Bad # {} PROVE FALSE
    OBVIOUS
  <2>1. Bad \subseteq Nat
    BY <1>0
  <2>2. PICK m \in Bad : \A y \in Bad : m <= y
    BY <2>1, MinOfNats
  <2>3. m \in 1..Len(p) /\ m \in 1..Len(q) /\ p[m] # q[m]
    BY <1>1
  <2>4. \A i \in 1..Len(p) : i < m => p[i] = q[i]
    BY <2>2, <2>3
  <2> HIDE DEF Bad
  <2>5. PICK j \in 1..Len(q) : q[j] = p[m]
    BY <1>0, <2>3 DEF Ordered
  <2>6. PICK k \in 1..Len(p) : p[k] = q[m]
    BY <1>0, <2>3 DEF Ordered
  <2>7. m < j
    <3>1. j # m
      BY <2>3, <2>5
    <3>2. j < m => p[j] = p[m] /\ j \in 1..Len(p)
      BY <1>1, <2>4, <2>5
    <3>3. j < m => j = m
      BY <2>3, <3>2, OrderedIsInjective
    <3> QED
      BY <1>0, <2>3, <3>1, <3>3
  <2>8. m < k
    <3>1. k # m
      BY <2>3, <2>6
    <3>2. k < m => q[k] = q[m] /\ k \in 1..Len(q)
      BY <1>1, <2>4, <2>6
    <3>3. k < m => k = m
      BY <2>3, <3>2, OrderedIsInjective
    <3> QED
      BY <1>0, <2>3, <3>1, <3>3
  <2>9. First(l, q[m]) < First(l, p[m])
    BY <2>3, <2>5, <2>7 DEF Ordered
  <2>10. First(l, p[m]) < First(l, q[m])
    BY <2>3, <2>6, <2>8 DEF Ordered
  <2> QED
    BY <1>0, <2>3, <2>9, <2>10
<1> QED
  BY <1>0, <1>1, <1>2

-----------------------------------------------------------------------------
(* What a line does to the replay of a file it is appended to. *)

LEMMA MaxIs ==
    ASSUME NEW S, S \subseteq Nat, NEW m \in S, \A y \in S : y <= m
    PROVE  Max(S) = m
<1>1. m \in Nat /\ S # {}
  OBVIOUS
<1>2. Max(S) \in S /\ \A y \in S : y <= Max(S)
  BY <1>1, MaxOfBoundedNats
<1>3. PICK k \in Nat : k = Max(S)
  BY <1>2
<1>4. k <= m /\ m <= k
  BY <1>2, <1>3
<1> QED
  BY <1>1, <1>3, <1>4

LEMMA MinIs ==
    ASSUME NEW S, S \subseteq Nat, NEW m \in S, \A y \in S : m <= y
    PROVE  Min(S) = m
<1>1. m \in Nat /\ S # {}
  OBVIOUS
<1>2. Min(S) \in S /\ \A y \in S : Min(S) <= y
  BY <1>1, MinOfNats
<1>3. PICK k \in Nat : k = Min(S)
  BY <1>2
<1>4. k <= m /\ m <= k
  BY <1>2, <1>3
<1> QED
  BY <1>1, <1>3, <1>4

\* The last thing that happened to an item, by the file.
LEMMA LastIs ==
    ASSUME NEW l \in Seq(Lines), NEW id \in Ids, NEW e \in EventsOf(l, id),
           \A i \in EventsOf(l, id) : i <= e
    PROVE  ReplayStatus(l, id) = StatusAfter(l[e].op)
<1>1. Max(EventsOf(l, id)) = e
  BY AcceptsTyped, MaxIs
<1>2. AcceptsOf(l, id) # {}
  BY DEF EventsOf
<1> QED
  BY <1>1, <1>2 DEF ReplayStatus

LEMMA LastExists ==
    ASSUME NEW l \in Seq(Lines), NEW id \in Ids, EventsOf(l, id) # {}
    PROVE  \E e \in EventsOf(l, id) : /\ \A i \in EventsOf(l, id) : i <= e
                                      /\ ReplayStatus(l, id) = StatusAfter(l[e].op)
<1>1. \A x \in EventsOf(l, id) : x <= Len(l)
  BY AcceptsTyped
<1>2. Len(l) \in Nat
  OBVIOUS
<1>3. PICK e \in EventsOf(l, id) : \A i \in EventsOf(l, id) : i <= e
  BY <1>1, <1>2, AcceptsTyped, MaxOfBoundedNats
<1> QED
  BY <1>3, LastIs

LEMMA SameStatus ==
    ASSUME NEW l \in Seq(Lines), NEW m \in Seq(Lines), NEW id \in Ids,
           AcceptsOf(l, id) = AcceptsOf(m, id), EventsOf(l, id) = EventsOf(m, id),
           \A i \in EventsOf(l, id) : l[i] = m[i]
    PROVE  ReplayStatus(l, id) = ReplayStatus(m, id)
<1>1. CASE EventsOf(l, id) = {}
  BY <1>1 DEF ReplayStatus
<1>2. CASE EventsOf(l, id) # {}
  <2>1. PICK e \in EventsOf(l, id) : /\ \A i \in EventsOf(l, id) : i <= e
                                     /\ ReplayStatus(l, id) = StatusAfter(l[e].op)
    BY <1>2, LastExists
  <2>2. ReplayStatus(m, id) = StatusAfter(m[e].op)
    BY <2>1, LastIs
  <2>3. l[e] = m[e]
    OBVIOUS
  <2> QED
    BY <2>1, <2>2, <2>3
<1> QED
  BY <1>1, <1>2

Grown(m, l, line) == m = Append(l, line)

LEMMA Appended ==
    ASSUME NEW l \in Seq(Lines), NEW line \in Lines, NEW m, Grown(m, l, line)
    PROVE  /\ m \in Seq(Lines) /\ Len(l) \in Nat /\ Len(m) = Len(l) + 1
           /\ DOMAIN l = 1..Len(l) /\ DOMAIN m = 1..Len(l) + 1
           /\ \A i \in 1..Len(l) : m[i] = l[i] /\ i \in 1..Len(m) /\ i < Len(m)
           /\ m[Len(l) + 1] = line /\ m[Len(m)] = line /\ Len(m) \in 1..Len(m)
           /\ \A i \in 1..Len(m) : i \in 1..Len(l) \/ i = Len(m)
BY DEF Grown

LEMMA AppendElsewhere ==
    ASSUME NEW l \in Seq(Lines), NEW line \in Lines, NEW m, Grown(m, l, line),
           NEW id \in Ids, line.id # id
    PROVE  /\ AcceptsOf(m, id) = AcceptsOf(l, id) /\ EventsOf(m, id) = EventsOf(l, id)
           /\ ReplayStatus(m, id) = ReplayStatus(l, id)
           /\ ReplayReceipt(m, id) = ReplayReceipt(l, id)
<1>1. AcceptsOf(m, id) = AcceptsOf(l, id)
  BY Appended DEF AcceptsOf
<1>2. EventsOf(m, id) = EventsOf(l, id)
  BY <1>1, Appended DEF EventsOf
<1>3. \A i \in AcceptsOf(l, id) \cup EventsOf(l, id) : l[i] = m[i]
  BY Appended, AcceptsTyped
<1>4. m \in Seq(Lines)
  BY Appended
<1> QED
  BY <1>1, <1>2, <1>3, <1>4, SameStatus, SameReceipt

LEMMA AppendAccept ==
    ASSUME NEW l \in Seq(Lines), NEW line \in Lines, NEW m, Grown(m, l, line),
           NEW id \in Ids, line.id = id, line.op = "accept", AcceptsOf(l, id) = {}
    PROVE  /\ AcceptsOf(m, id) = {Len(m)} /\ EventsOf(m, id) = {} /\ First(m, id) = Len(m)
           /\ ReplayStatus(m, id) = "queued" /\ ReplayReceipt(m, id) = line.seq
<1>0. m \in Seq(Lines) /\ Len(m) \in Nat
  BY Appended
<1>1. AcceptsOf(m, id) = {Len(m)}
  BY Appended DEF AcceptsOf
<1>2. EventsOf(m, id) = {}
  <2> SUFFICES ASSUME NEW i \in EventsOf(m, id) PROVE FALSE
    OBVIOUS
  <2>1. i \in 1..Len(m) /\ Len(m) < i
    BY <1>0, <1>1, AcceptsTyped DEF EventsOf
  <2> QED
    BY <1>0, <2>1
<1>3. First(m, id) = Len(m)
  <2>1. {Len(m)} \subseteq Nat /\ Len(m) \in {Len(m)} /\ \A y \in {Len(m)} : Len(m) <= y
    BY <1>0
  <2> QED
    BY <1>1, <2>1, MinIs DEF First
<1>4. m[Len(m)] = line
  BY Appended
<1> QED
  BY <1>1, <1>2, <1>3, <1>4 DEF ReplayStatus, ReplayReceipt, First

Gains(T, S, x) == T = S \cup {x}

LEMMA AppendEvent ==
    ASSUME NEW l \in Seq(Lines), NEW line \in Lines, NEW m, Grown(m, l, line),
           NEW id \in Ids, line.id = id, line.op # "accept", AcceptsOf(l, id) # {}
    PROVE  /\ AcceptsOf(m, id) = AcceptsOf(l, id)
           /\ Gains(EventsOf(m, id), EventsOf(l, id), Len(m))
           /\ ReplayStatus(m, id) = StatusAfter(line.op)
           /\ ReplayReceipt(m, id) = ReplayReceipt(l, id)
<1>0. m \in Seq(Lines) /\ Len(m) \in Nat /\ m[Len(m)] = line
  BY Appended
<1>1. AcceptsOf(m, id) = AcceptsOf(l, id)
  BY Appended DEF AcceptsOf
<1>2. \A a \in AcceptsOf(l, id) : a \in 1..Len(l) /\ a < Len(m)
  BY Appended, AcceptsTyped
<1>3. EventsOf(m, id) = EventsOf(l, id) \cup {Len(m)}
  BY <1>1, <1>2, Appended DEF EventsOf
<1>4. Len(m) \in EventsOf(m, id) /\ \A i \in EventsOf(m, id) : i <= Len(m)
  <2>1. EventsOf(m, id) \subseteq 1..Len(m)
    BY <1>0, AcceptsTyped
  <2> QED
    BY <1>0, <1>3, <2>1
<1>5. ReplayStatus(m, id) = StatusAfter(line.op)
  <2>1. ReplayStatus(m, id) = StatusAfter(m[Len(m)].op)
    BY <1>0, <1>4, LastIs
  <2> QED
    BY <1>0, <2>1
<1>6. \A i \in AcceptsOf(l, id) : l[i] = m[i]
  BY Appended, AcceptsTyped
<1> QED
  BY <1>0, <1>1, <1>3, <1>5, <1>6, SameReceipt DEF Gains

LEMMA NextSeqIs ==
    ASSUME NEW l \in Seq(Lines), NEW b \in Nat, \A id \in Ids : ReplayReceipt(l, id) <= b,
           b = 0 \/ \E id \in Ids : ReplayReceipt(l, id) = b
    PROVE  ReplayNextSeq(l) = b + 1
<1> DEFINE R == {0} \cup {ReplayReceipt(l, id) : id \in Ids}
<1>1. R \subseteq Nat /\ b \in R /\ \A y \in R : y <= b
  BY ReplayReceiptTyped
<1>2. ReplayNextSeq(l) = 1 + Max(R)
  BY DEF ReplayNextSeq
<1> HIDE DEF R
<1>3. Max(R) = b
  BY <1>1, MaxIs
<1> QED
  BY <1>2, <1>3

LEMMA NextSeqAbove ==
    ASSUME NEW l \in Seq(Lines), NEW b \in Nat, \A i \in 1..Len(l) : l[i].seq <= b
    PROVE  /\ ReplayNextSeq(l) \in Nat \ {0}
           /\ \A id \in Ids : ReplayReceipt(l, id) < ReplayNextSeq(l)
<1> DEFINE R == {0} \cup {ReplayReceipt(l, id) : id \in Ids}
<1>1. R \subseteq Nat /\ R # {} /\ \A id \in Ids : ReplayReceipt(l, id) \in R
  BY ReplayReceiptTyped
<1>2. \A x \in R : x <= b
  BY ReplayReceiptTyped
<1>3. ReplayNextSeq(l) = 1 + Max(R)
  BY DEF ReplayNextSeq
<1> HIDE DEF R
<1>4. Max(R) \in R /\ \A y \in R : y <= Max(R)
  BY <1>1, <1>2, MaxOfBoundedNats
<1>5. PICK k \in Nat : k = Max(R)
  BY <1>1, <1>4
<1>6. \A id \in Ids : ReplayReceipt(l, id) <= k /\ ReplayReceipt(l, id) \in Nat
  BY <1>1, <1>4, <1>5
<1>7. ReplayNextSeq(l) = 1 + k
  BY <1>3, <1>5
<1> QED
  BY <1>6, <1>7

LEMMA OrderKept ==
    ASSUME NEW l, NEW m, NEW S, NEW p, Ordered(l, S, p),
           \A id \in S : AcceptsOf(m, id) = AcceptsOf(l, id)
    PROVE  Ordered(m, S, p)
BY DEF Ordered, First

LEMMA OrderAppend ==
    ASSUME NEW l, NEW S, NEW p, Ordered(l, S, p), NEW id \in Ids,
           \A x \in S : First(l, x) < First(l, id)
    PROVE  Ordered(l, S \cup {id}, Append(p, id))
<1>1. PICK q \in Seq(Ids) : q = Append(p, id)
  <2>1. p \in Seq(Ids)
    BY DEF Ordered
  <2>2. Append(p, id) \in Seq(Ids)
    BY <2>1
  <2> QED
    BY <2>2
<1>2. /\ p \in Seq(Ids) /\ Len(p) \in Nat /\ Len(q) = Len(p) + 1 /\ q[Len(q)] = id
      /\ \A i \in 1..Len(p) : q[i] = p[i] /\ i \in 1..Len(q)
      /\ \A i \in 1..Len(q) : i \in 1..Len(p) \/ i = Len(q)
  BY <1>1 DEF Ordered
<1>3. \A i \in 1..Len(q) : q[i] \in S \cup {id}
  BY <1>2 DEF Ordered
<1>4. \A x \in S \cup {id} : \E i \in 1..Len(q) : q[i] = x
  <2>1. Len(q) \in 1..Len(q)
    BY <1>2
  <2>2. ASSUME NEW x \in S PROVE \E i \in 1..Len(q) : q[i] = x
    BY <1>2 DEF Ordered
  <2> QED
    BY <1>2, <2>1, <2>2
<1>5. ASSUME NEW i \in 1..Len(q), NEW j \in 1..Len(q), i < j
      PROVE  First(l, q[i]) < First(l, q[j])
  <2>1. i \in 1..Len(p)
    BY <1>2, <1>5
  <2>2. CASE j \in 1..Len(p)
    BY <1>2, <1>5, <2>1, <2>2 DEF Ordered
  <2>3. CASE j = Len(q)
    BY <1>2, <2>1, <2>3 DEF Ordered
  <2> QED
    BY <1>2, <2>2, <2>3
<1> QED
  BY <1>1, <1>3, <1>4, <1>5 DEF Ordered

LEMMA OrderTail ==
    ASSUME NEW l \in Seq(Lines), NEW S, AllAccepted(l, S), NEW p, Ordered(l, S, p), p # <<>>
    PROVE  Head(p) \in S /\ Ordered(l, S \ {Head(p)}, Tail(p))
<1>1. /\ p \in Seq(Ids) /\ Len(p) \in Nat \ {0} /\ Head(p) = p[1]
  BY DEF Ordered
<1>2. PICK q \in Seq(Ids) : q = Tail(p)
  <2>1. Tail(p) \in Seq(Ids)
    BY <1>1
  <2> QED
    BY <2>1
<1>3. /\ Len(q) = Len(p) - 1
      /\ \A i \in 1..Len(q) : q[i] = p[i + 1] /\ i + 1 \in 1..Len(p) /\ i + 1 # 1
  BY <1>1, <1>2
<1>4. 1 \in 1..Len(p) /\ p[1] \in S
  BY <1>1 DEF Ordered
<1>5. ASSUME NEW i \in 1..Len(q) PROVE q[i] \in S \ {Head(p)}
  <2>1. p[i + 1] # p[1]
    BY <1>3, <1>4, OrderedIsInjective
  <2> QED
    BY <1>1, <1>3, <2>1 DEF Ordered
<1>6. ASSUME NEW x \in S \ {Head(p)} PROVE \E i \in 1..Len(q) : q[i] = x
  <2>1. PICK i \in 1..Len(p) : p[i] = x
    BY DEF Ordered
  <2>2. i # 1
    BY <1>1, <2>1
  <2>3. i - 1 \in 1..Len(q) /\ i - 1 + 1 = i
    BY <1>1, <1>3, <2>2
  <2> QED
    BY <1>3, <2>1, <2>3
<1>7. ASSUME NEW i \in 1..Len(q), NEW j \in 1..Len(q), i < j
      PROVE  First(l, q[i]) < First(l, q[j])
  <2>1. i + 1 < j + 1
    BY <1>7
  <2> QED
    BY <1>3, <2>1 DEF Ordered
<1> QED
  BY <1>1, <1>2, <1>4, <1>5, <1>6, <1>7 DEF Ordered

-----------------------------------------------------------------------------
(* The shape of a file on which no write was cut short and none threw: every  *)
(* item has one accept line, later ones have higher sequence numbers, only    *)
(* end lines may not be on the disk yet, and an item that has an end line     *)
(* started before and has nothing after it.                                   *)

AcceptedOnce(l) ==
    \A i, j \in 1..Len(l) :
        l[i].op = "accept" /\ l[j].op = "accept" /\ l[i].id = l[j].id => i = j
SeqsRise(l) ==
    \A i, j \in 1..Len(l) :
        l[i].op = "accept" /\ l[j].op = "accept" /\ i < j => l[i].seq < l[j].seq
SyncedTo(l, n) == \A i \in 1..Len(l) : l[i].op \in SyncedOps => i <= n
EndsAreLast(l) ==
    \A id \in Ids : \A e \in EventsOf(l, id) :
        l[e].op # "start" =>
            /\ \E s \in EventsOf(l, id) : l[s].op = "start"
            /\ \A s \in EventsOf(l, id) \ {e} : l[s].op = "start" /\ s < e

FileInv == AcceptedOnce(log) /\ SeqsRise(log) /\ SyncedTo(log, synced) /\ EndsAreLast(log)

\* Of an item that waits nothing but its acceptance is written.
LEMMA QueuedHasNoEvent ==
    ASSUME NEW l \in Seq(Lines), NEW id \in Ids
    PROVE  /\ ReplayStatus(l, id) = "queued" <=> AcceptsOf(l, id) # {} /\ EventsOf(l, id) = {}
           /\ EventsOf(l, id) # {} => AcceptsOf(l, id) # {}
<1>1. EventsOf(l, id) # {} => AcceptsOf(l, id) # {}
  BY DEF EventsOf
<1>2. CASE EventsOf(l, id) = {}
  BY <1>2 DEF ReplayStatus
<1>3. CASE EventsOf(l, id) # {}
  <2>1. PICK e \in EventsOf(l, id) : ReplayStatus(l, id) = StatusAfter(l[e].op)
    BY <1>3, LastExists
  <2>2. l[e] \in Lines /\ l[e].op # "accept"
    BY AcceptsTyped DEF EventsOf
  <2>3. StatusAfter(l[e].op) # "queued"
    BY <2>2 DEF StatusAfter, Lines, Ops
  <2> QED
    BY <1>1, <2>1, <2>3
<1> QED
  BY <1>1, <1>2, <1>3

\* Of one that runs the start line is the last, and it has no other.
LEMMA RunningHasStarted ==
    ASSUME NEW l \in Seq(Lines), NEW id \in Ids, ReplayStatus(l, id) = "running", EndsAreLast(l)
    PROVE  /\ AcceptsOf(l, id) # {} /\ EventsOf(l, id) # {}
           /\ \A e \in EventsOf(l, id) : l[e].op = "start"
<1>1. EventsOf(l, id) # {} /\ AcceptsOf(l, id) # {}
  BY DEF ReplayStatus
<1>2. PICK e \in EventsOf(l, id) : /\ \A i \in EventsOf(l, id) : i <= e
                                   /\ ReplayStatus(l, id) = StatusAfter(l[e].op)
  BY <1>1, LastExists
<1>3. l[e] \in Lines /\ l[e].op # "accept"
  BY AcceptsTyped DEF EventsOf
<1>4. l[e].op = "start"
  BY <1>2, <1>3 DEF StatusAfter, Lines, Ops
<1>5. ASSUME NEW i \in EventsOf(l, id), l[i].op # "start" PROVE FALSE
  <2>1. e # i /\ e < i
    BY <1>4, <1>5 DEF EndsAreLast
  <2>2. i <= e /\ i \in Nat /\ e \in Nat
    BY <1>2, AcceptsTyped
  <2> QED
    BY <2>1, <2>2
<1> QED
  BY <1>1, <1>5

LEMMA EventsIn ==
    ASSUME NEW l \in Seq(Lines), NEW id \in Ids, NEW e \in EventsOf(l, id)
    PROVE  e \in 1..Len(l) /\ l[e] \in Lines /\ l[e].op \in Ops \ {"accept"} /\ l[e].id = id
<1>1. e \in 1..Len(l) /\ l[e].op # "accept" /\ l[e].id = id
  BY DEF EventsOf
<1>2. l[e] \in Lines
  BY <1>1
<1> QED
  BY <1>1, <1>2 DEF Lines

LEMMA AcceptFile ==
    ASSUME NEW l \in Seq(Lines), NEW line \in Lines, NEW m, Grown(m, l, line),
           line.op = "accept", AcceptsOf(l, line.id) = {}, AcceptedOnce(l), SeqsRise(l),
           EndsAreLast(l),
           \A i \in 1..Len(l) : l[i].op = "accept" => l[i].seq < line.seq
    PROVE  AcceptedOnce(m) /\ SeqsRise(m) /\ SyncedTo(m, Len(m)) /\ EndsAreLast(m)
<1>0. /\ m \in Seq(Lines) /\ Len(l) \in Nat /\ Len(m) = Len(l) + 1 /\ m[Len(m)] = line
      /\ \A i \in 1..Len(l) : m[i] = l[i]
      /\ \A i \in 1..Len(m) : i \in 1..Len(l) \/ i = Len(m)
  BY Appended
<1>a. line.id \in Ids
  BY DEF Lines
<1>1. \A i \in 1..Len(l) : l[i].op = "accept" => l[i].id # line.id
  BY DEF AcceptsOf
<1>2. AcceptedOnce(m)
  BY <1>0, <1>1 DEF AcceptedOnce
<1>3. SeqsRise(m)
  <2> SUFFICES ASSUME NEW i \in 1..Len(m), NEW j \in 1..Len(m),
                      m[i].op = "accept", m[j].op = "accept", i < j
               PROVE  m[i].seq < m[j].seq
    BY DEF SeqsRise
  <2>1. i \in 1..Len(l)
    BY <1>0
  <2>2. CASE j \in 1..Len(l)
    BY <1>0, <2>1, <2>2 DEF SeqsRise
  <2>3. CASE j = Len(m)
    BY <1>0, <2>1, <2>3
  <2> QED
    BY <1>0, <2>2, <2>3
<1>4. SyncedTo(m, Len(m))
  BY <1>0 DEF SyncedTo
<1>5. EndsAreLast(m)
  <2> SUFFICES ASSUME NEW id \in Ids PROVE
               \A e \in EventsOf(m, id) :
                   m[e].op # "start" =>
                       /\ \E s \in EventsOf(m, id) : m[s].op = "start"
                       /\ \A s \in EventsOf(m, id) \ {e} : m[s].op = "start" /\ s < e
    BY DEF EndsAreLast
  <2>1. CASE id = line.id
    <3>0. line.id = id /\ line.op = "accept" /\ AcceptsOf(l, id) = {}
      BY <2>1
    <3>1. EventsOf(m, id) = {}
      BY <3>0, AppendAccept
    <3> QED
      BY <3>1
  <2>2. CASE id # line.id
    <3>0. line.id # id
      BY <2>2
    <3>1. EventsOf(m, id) = EventsOf(l, id)
      BY <3>0, AppendElsewhere
    <3>2. \A e \in EventsOf(l, id) : e \in 1..Len(l)
      BY AcceptsTyped
    <3> QED
      BY <1>0, <3>1, <3>2 DEF EndsAreLast
  <2> QED
    BY <2>1, <2>2
<1> QED
  BY <1>2, <1>3, <1>4, <1>5

LEMMA EventFile ==
    ASSUME NEW l \in Seq(Lines), NEW line \in Lines, NEW m, Grown(m, l, line),
           line.op # "accept", AcceptsOf(l, line.id) # {}, AcceptedOnce(l), SeqsRise(l),
           EndsAreLast(l), NEW n \in Nat, SyncedTo(l, n),
           IF line.op = "start" THEN EventsOf(l, line.id) = {}
           ELSE ReplayStatus(l, line.id) = "running"
    PROVE  /\ AcceptedOnce(m) /\ SeqsRise(m) /\ EndsAreLast(m)
           /\ SyncedTo(m, Len(m)) /\ (line.op \notin SyncedOps => SyncedTo(m, n))
<1>0. /\ m \in Seq(Lines) /\ Len(l) \in Nat /\ Len(m) = Len(l) + 1 /\ m[Len(m)] = line
      /\ \A i \in 1..Len(l) : m[i] = l[i]
      /\ \A i \in 1..Len(m) : i \in 1..Len(l) \/ i = Len(m)
  BY Appended
<1>a. line.id \in Ids
  BY DEF Lines
<1>1. AcceptedOnce(m) /\ SeqsRise(m)
  BY <1>0 DEF AcceptedOnce, SeqsRise
<1>2. SyncedTo(m, Len(m)) /\ (line.op \notin SyncedOps => SyncedTo(m, n))
  BY <1>0 DEF SyncedTo
<1>3. EndsAreLast(m)
  <2> SUFFICES ASSUME NEW id \in Ids, NEW e \in EventsOf(m, id), m[e].op # "start"
               PROVE  /\ \E s \in EventsOf(m, id) : m[s].op = "start"
                      /\ \A s \in EventsOf(m, id) \ {e} : m[s].op = "start" /\ s < e
    BY DEF EndsAreLast
  <2>1. CASE id # line.id
    <3>0. line.id # id
      BY <2>1
    <3>1. EventsOf(m, id) = EventsOf(l, id)
      BY <3>0, AppendElsewhere
    <3>2. \A i \in EventsOf(l, id) : i \in 1..Len(l)
      BY AcceptsTyped
    <3> QED
      BY <1>0, <3>1, <3>2 DEF EndsAreLast
  <2>2. CASE id = line.id /\ line.op = "start"
    <3>0. /\ EventsOf(l, id) = {} /\ line.op # "accept" /\ AcceptsOf(l, id) # {}
          /\ line.id = id
      BY <2>2
    <3>a. Gains(EventsOf(m, id), EventsOf(l, id), Len(m))
      BY <3>0, AppendEvent
    <3>1. EventsOf(m, id) = {Len(m)}
      BY <3>0, <3>a DEF Gains
    <3> QED
      BY <1>0, <2>2, <3>1
  <2>3. CASE id = line.id /\ line.op # "start"
    <3>0. /\ line.op # "accept" /\ AcceptsOf(l, id) # {} /\ ReplayStatus(l, id) = "running"
          /\ line.id = id
      BY <2>3
    <3>a. Gains(EventsOf(m, id), EventsOf(l, id), Len(m))
      BY <3>0, AppendEvent
    <3>1. EventsOf(m, id) = EventsOf(l, id) \cup {Len(m)}
      BY <3>a DEF Gains
    <3>2. EventsOf(l, id) # {} /\ \A i \in EventsOf(l, id) : l[i].op = "start"
      BY <3>0, RunningHasStarted
    <3>3. \A i \in EventsOf(l, id) : i \in 1..Len(l) /\ i < Len(m) /\ m[i].op = "start"
      BY <1>0, <3>2, AcceptsTyped
    <3>4. e = Len(m)
      BY <3>1, <3>3
    <3> QED
      BY <3>1, <3>2, <3>3, <3>4
  <2> QED
    BY <2>1, <2>2, <2>3
<1> QED
  BY <1>1, <1>2, <1>3

\* On a file of that shape an item's accept line is the one its receipt is of.
LEMMA OneAccept ==
    ASSUME NEW l \in Seq(Lines), AcceptedOnce(l), NEW i \in 1..Len(l), l[i].op = "accept"
    PROVE  /\ l[i].id \in Ids /\ AcceptsOf(l, l[i].id) = {i}
           /\ ReplayReceipt(l, l[i].id) = l[i].seq
<1>1. l[i] \in Lines
  OBVIOUS
<1>2. l[i].id \in Ids
  BY <1>1 DEF Lines
<1>3. AcceptsOf(l, l[i].id) = {i}
  BY DEF AcceptsOf, AcceptedOnce
<1>4. PICK id \in Ids : id = l[i].id
  BY <1>2
<1>5. AcceptsOf(l, id) = {i} /\ AcceptsOf(l, id) # {}
  BY <1>3, <1>4
<1>6. Min(AcceptsOf(l, id)) = i
  <2>1. /\ AcceptsOf(l, id) \subseteq Nat /\ i \in AcceptsOf(l, id)
        /\ \A y \in AcceptsOf(l, id) : i <= y
    BY <1>5
  <2> QED
    BY <2>1, MinIs
<1>7. ReplayReceipt(l, id) = l[Min(AcceptsOf(l, id))].seq
  BY <1>5 DEF ReplayReceipt
<1> QED
  BY <1>2, <1>3, <1>4, <1>6, <1>7

\* What a stop leaves of the file.
Cut(m, l, n) == n \in 0..Len(l) /\ m = SubSeq(l, 1, n)

LEMMA CutLines ==
    ASSUME NEW l \in Seq(Lines), NEW n, NEW m, Cut(m, l, n)
    PROVE  /\ m \in Seq(Lines) /\ n \in Nat /\ Len(l) \in Nat /\ n <= Len(l) /\ Len(m) = n
           /\ \A i \in 1..n : m[i] = l[i] /\ i \in 1..Len(l)
<1>1. n \in Nat /\ n <= Len(l) /\ Len(l) \in Nat
  BY DEF Cut
<1> QED
  BY <1>1 DEF Cut

LEMMA CutFile ==
    ASSUME NEW l \in Seq(Lines), NEW n, NEW m, Cut(m, l, n), NEW k \in Nat, k <= n,
           AcceptedOnce(l), SeqsRise(l), SyncedTo(l, k), EndsAreLast(l)
    PROVE  /\ AcceptedOnce(m) /\ SeqsRise(m) /\ SyncedTo(m, k) /\ EndsAreLast(m)
           /\ \A id \in Ids : /\ AcceptsOf(m, id) = AcceptsOf(l, id)
                              /\ EventsOf(m, id) = EventsOf(l, id) \cap (1..n)
                              /\ \A e \in EventsOf(l, id) : l[e].op = "start" => e \in 1..n
<1>0. /\ m \in Seq(Lines) /\ n \in Nat /\ Len(l) \in Nat /\ n <= Len(l) /\ Len(m) = n
      /\ \A i \in 1..n : m[i] = l[i] /\ i \in 1..Len(l)
  BY CutLines
<1>a. AcceptedOnce(m)
  BY <1>0 DEF AcceptedOnce
<1>b. SeqsRise(m)
  <2> SUFFICES ASSUME NEW i \in 1..n, NEW j \in 1..n,
                      m[i].op = "accept", m[j].op = "accept", i < j
               PROVE  m[i].seq < m[j].seq
    BY <1>0 DEF SeqsRise
  <2>1. m[i] = l[i] /\ m[j] = l[j] /\ i \in 1..Len(l) /\ j \in 1..Len(l)
    BY <1>0
  <2> QED
    BY <2>1 DEF SeqsRise
<1>2. SyncedTo(m, k)
  BY <1>0 DEF SyncedTo
<1>3. \A i \in 1..Len(l) : l[i].op \in {"accept", "start"} => i \in 1..n
  BY <1>0 DEF SyncedTo, SyncedOps
<1>4. ASSUME NEW id \in Ids PROVE AcceptsOf(m, id) = AcceptsOf(l, id)
  BY <1>0, <1>3 DEF AcceptsOf
<1>5. ASSUME NEW id \in Ids PROVE EventsOf(m, id) = EventsOf(l, id) \cap (1..n)
  BY <1>0, <1>4 DEF EventsOf
<1>6. ASSUME NEW id \in Ids, NEW e \in EventsOf(l, id), l[e].op = "start"
      PROVE  e \in 1..n
  BY <1>3, <1>6, EventsIn
<1>7. EndsAreLast(m)
  <2> SUFFICES ASSUME NEW id \in Ids, NEW e \in EventsOf(m, id), m[e].op # "start"
               PROVE  /\ \E s \in EventsOf(m, id) : m[s].op = "start"
                      /\ \A s \in EventsOf(m, id) \ {e} : m[s].op = "start" /\ s < e
    BY DEF EndsAreLast
  <2>1. e \in EventsOf(l, id) /\ e \in 1..n /\ l[e].op # "start"
    BY <1>0, <1>5
  <2>2. PICK s \in EventsOf(l, id) : l[s].op = "start"
    BY <2>1 DEF EndsAreLast
  <2>3. s \in EventsOf(m, id) /\ m[s].op = "start"
    BY <1>0, <1>5, <1>6, <2>2
  <2>4. \A x \in EventsOf(l, id) \ {e} : l[x].op = "start" /\ x < e
    BY <2>1 DEF EndsAreLast
  <2>5. \A x \in EventsOf(m, id) \ {e} : m[x].op = "start" /\ x < e
    BY <1>0, <1>5, <2>4
  <2> QED
    BY <2>3, <2>5
<1> QED
  BY <1>a, <1>b, <1>2, <1>4, <1>5, <1>6, <1>7

\* A stop loses at most the ends of items: they run again, by the file.
LEMMA CutStatus ==
    ASSUME NEW l \in Seq(Lines), NEW n, NEW m, Cut(m, l, n), NEW k \in Nat, k <= n,
           AcceptedOnce(l), SeqsRise(l), SyncedTo(l, k), EndsAreLast(l), NEW id \in Ids
    PROVE  \/ ReplayStatus(m, id) = ReplayStatus(l, id)
           \/ /\ ReplayStatus(l, id) \in {"done", "failed", "unknown"}
              /\ ReplayStatus(m, id) = "running"
<1>0. /\ m \in Seq(Lines) /\ n \in Nat /\ Len(l) \in Nat /\ n <= Len(l) /\ Len(m) = n
      /\ \A i \in 1..n : m[i] = l[i] /\ i \in 1..Len(l)
  BY CutLines
<1>1. /\ AcceptsOf(m, id) = AcceptsOf(l, id)
      /\ EventsOf(m, id) = EventsOf(l, id) \cap (1..n)
      /\ \A e \in EventsOf(l, id) : l[e].op = "start" => e \in 1..n
  BY CutFile
<1>2. CASE EventsOf(l, id) \subseteq 1..n
  <2>1. EventsOf(m, id) = EventsOf(l, id) /\ \A i \in EventsOf(m, id) : m[i] = l[i]
    BY <1>0, <1>1, <1>2
  <2> QED
    BY <1>0, <1>1, <2>1, SameStatus
<1>3. CASE ~ (EventsOf(l, id) \subseteq 1..n)
  <2>1. PICK e \in EventsOf(l, id) : e \notin 1..n
    BY <1>3
  <2>2. l[e].op # "start" /\ l[e] \in Lines /\ l[e].op \in Ops \ {"accept"}
    BY <1>1, <2>1, EventsIn
  <2>3. /\ \E s \in EventsOf(l, id) : l[s].op = "start"
        /\ \A s \in EventsOf(l, id) \ {e} : l[s].op = "start" /\ s < e
    BY <2>2 DEF EndsAreLast
  <2>4. ReplayStatus(l, id) = StatusAfter(l[e].op)
    <3>1. \A i \in EventsOf(l, id) : i <= e
      BY <2>3, EventsIn
    <3> QED
      BY <3>1, LastIs
  <2>5. ReplayStatus(l, id) \in {"done", "failed", "unknown"}
    BY <2>2, <2>4 DEF StatusAfter, Ops
  <2>6. EventsOf(m, id) # {} /\ \A i \in EventsOf(m, id) : m[i].op = "start"
    BY <1>0, <1>1, <2>1, <2>3
  <2>7. PICK i \in EventsOf(m, id) : ReplayStatus(m, id) = StatusAfter(m[i].op)
    BY <1>0, <2>6, LastExists
  <2>8. ReplayStatus(m, id) = "running"
    BY <2>6, <2>7 DEF StatusAfter
  <2> QED
    BY <2>5, <2>8
<1> QED
  BY <1>2, <1>3

\* What a constructor leaves of the file: k of the lines it owes.
Settled(m, l, p, k) ==
    k \in 0..Len(p) /\ m = l \o [i \in 1..k |-> Line("unknown", p[i])]

LEMMA SettledLines ==
    ASSUME NEW l \in Seq(Lines), NEW p \in Seq(Ids), NEW k, NEW m, Settled(m, l, p, k)
    PROVE  /\ m \in Seq(Lines) /\ k \in Nat /\ Len(l) \in Nat /\ Len(m) = Len(l) + k
           /\ \A i \in 1..Len(l) : m[i] = l[i] /\ i \in 1..Len(m)
           /\ \A i \in 1..k : /\ Len(l) + i \in 1..Len(m) /\ i \in 1..Len(p)
                              /\ m[Len(l) + i].op = "unknown" /\ m[Len(l) + i].id = p[i]
           /\ \A j \in 1..Len(m) : j \in 1..Len(l) \/ \E i \in 1..k : j = Len(l) + i
<1>1. k \in Nat /\ k <= Len(p) /\ Len(p) \in Nat /\ Len(l) \in Nat
  BY DEF Settled
<1> DEFINE more == [i \in 1..k |-> Line("unknown", p[i])]
<1>2. /\ more \in [1..k -> Lines]
      /\ \A i \in 1..k : more[i].op = "unknown" /\ more[i].id = p[i]
  BY <1>1 DEF Line, Lines, Ops
<1>3. m = l \o more
  BY DEF Settled
<1> HIDE DEF more
<1>4. more \in Seq(Lines) /\ Len(more) = k
  BY <1>1, <1>2
<1>5. PICK r \in Seq(Lines) : r = l \o more
  <2>1. l \o more \in Seq(Lines)
    BY <1>4
  <2> QED
    BY <2>1
<1>6. /\ Len(r) = Len(l) + k
      /\ \A i \in 1..Len(l) : r[i] = l[i]
      /\ \A i \in 1..k : r[Len(l) + i] = more[i]
  <2>1. /\ Len(r) = Len(l) + k /\ \A i \in 1..Len(l) : r[i] = l[i]
        /\ \A j \in 1..Len(r) : j > Len(l) => r[j] = more[j - Len(l)]
    BY <1>4, <1>5, PutAfter
  <2>2. ASSUME NEW i \in 1..k PROVE r[Len(l) + i] = more[i]
    <3>1. Len(l) + i \in 1..Len(r) /\ Len(l) + i > Len(l) /\ Len(l) + i - Len(l) = i
      BY <1>1, <2>1
    <3> QED
      BY <2>1, <3>1
  <2> QED
    BY <2>1, <2>2
<1>7. \A i \in 1..k : Len(l) + i \in 1..Len(r) /\ i \in 1..Len(p)
  BY <1>1, <1>6
<1>8. ASSUME NEW j \in 1..Len(r) PROVE j \in 1..Len(l) \/ \E i \in 1..k : j = Len(l) + i
  <2>1. CASE j <= Len(l)
    BY <1>1, <2>1
  <2>2. CASE ~ (j <= Len(l))
    <3>1. j - Len(l) \in 1..k /\ j = Len(l) + (j - Len(l))
      BY <1>1, <1>6, <2>2
    <3> QED
      BY <3>1
  <2> QED
    BY <2>1, <2>2
<1>9. m = r
  BY <1>3, <1>5
<1>10. \A i \in 1..Len(l) : i \in 1..Len(r)
  BY <1>1, <1>6
<1> QED
  BY <1>1, <1>2, <1>6, <1>7, <1>8, <1>9, <1>10

LEMMA SettledEvents ==
    ASSUME NEW l \in Seq(Lines), NEW p \in Seq(Ids), NEW k, NEW m, Settled(m, l, p, k),
           NEW S, AllAccepted(l, S), Ordered(l, S, p), NEW id \in Ids
    PROVE  /\ AcceptsOf(m, id) = AcceptsOf(l, id)
           /\ (\A i \in 1..k : p[i] # id) => EventsOf(m, id) = EventsOf(l, id)
           /\ \A i \in 1..k : p[i] = id =>
                  Gains(EventsOf(m, id), EventsOf(l, id), Len(l) + i)
<1>0. /\ m \in Seq(Lines) /\ k \in Nat /\ Len(l) \in Nat /\ Len(m) = Len(l) + k
      /\ \A i \in 1..Len(l) : m[i] = l[i] /\ i \in 1..Len(m)
      /\ \A i \in 1..k : /\ Len(l) + i \in 1..Len(m) /\ i \in 1..Len(p)
                         /\ m[Len(l) + i].op = "unknown" /\ m[Len(l) + i].id = p[i]
      /\ \A j \in 1..Len(m) : j \in 1..Len(l) \/ \E i \in 1..k : j = Len(l) + i
  BY SettledLines
<1>1. AcceptsOf(m, id) = AcceptsOf(l, id)
  <2>1. AcceptsOf(l, id) \subseteq AcceptsOf(m, id)
    BY <1>0 DEF AcceptsOf
  <2>2. ASSUME NEW j \in AcceptsOf(m, id) PROVE j \in AcceptsOf(l, id)
    <3>1. j \in 1..Len(m) /\ m[j].op = "accept" /\ m[j].id = id
      BY <1>0 DEF AcceptsOf
    <3>2. j \in 1..Len(l)
      BY <1>0, <3>1
    <3> QED
      BY <1>0, <3>1, <3>2 DEF AcceptsOf
  <2> QED
    BY <2>1, <2>2
<1>2. ASSUME \A i \in 1..k : p[i] # id PROVE EventsOf(m, id) = EventsOf(l, id)
  <2>1. EventsOf(l, id) \subseteq EventsOf(m, id)
    BY <1>0, <1>1 DEF EventsOf
  <2>2. ASSUME NEW j \in EventsOf(m, id) PROVE j \in EventsOf(l, id)
    <3>1. j \in 1..Len(m) /\ m[j].id = id
      BY <1>0, EventsIn
    <3>2. j \in 1..Len(l)
      BY <1>0, <1>2, <3>1
    <3>3. m[j] = l[j]
      BY <1>0, <3>2
    <3> QED
      BY <1>1, <3>2, <3>3 DEF EventsOf
  <2> QED
    BY <2>1, <2>2
<1>3. ASSUME NEW i \in 1..k, p[i] = id
      PROVE  Gains(EventsOf(m, id), EventsOf(l, id), Len(l) + i)
  <2>1. PICK a \in AcceptsOf(l, id) : TRUE
    <3>1. id \in S
      BY <1>0, <1>3 DEF Ordered
    <3> QED
      BY <3>1 DEF AllAccepted
  <2>2. a \in Nat /\ a <= Len(l)
    BY AcceptsTyped
  <2>3. a < Len(l) + i /\ i \in Nat
    BY <1>0, <2>2
  <2>4. Len(l) + i \in EventsOf(m, id)
    BY <1>0, <1>1, <1>3, <2>1, <2>3 DEF EventsOf
  <2>5. EventsOf(l, id) \subseteq EventsOf(m, id)
    BY SMTT(30), <1>0, <1>1 DEF EventsOf
  <2>6. ASSUME NEW j \in EventsOf(m, id), j # Len(l) + i PROVE j \in EventsOf(l, id)
    <3>1. j \in 1..Len(m) /\ m[j].id = id
      BY <1>0, EventsIn
    <3>2. CASE j \in 1..Len(l)
      <4>1. m[j] = l[j]
        BY <1>0, <3>2
      <4> QED
        BY <1>1, <3>2, <4>1 DEF EventsOf
    <3>3. ASSUME NEW x \in 1..k, j = Len(l) + x PROVE FALSE
      <4>1. p[x] = p[i]
        BY <1>0, <1>3, <3>1, <3>3
      <4>a. x \in 1..Len(p) /\ i \in 1..Len(p)
        BY <1>0
      <4>2. x = i
        BY <4>1, <4>a, OrderedIsInjective
      <4> QED
        BY <2>6, <3>3, <4>2
    <3> QED
      BY <1>0, <3>1, <3>2, <3>3
  <2>7. EventsOf(m, id) = EventsOf(l, id) \cup {Len(l) + i}
    BY <2>4, <2>5, <2>6
  <2> QED
    BY <2>7 DEF Gains
<1> QED
  BY <1>1, <1>2, <1>3

LEMMA WithStatusAccepted ==
    ASSUME NEW l \in Seq(Lines), NEW s, s # "none"
    PROVE  AllAccepted(l, WithStatus(l, s))
BY NoStatusMeansNoAccept DEF AllAccepted, WithStatus

LEMMA SettledFile ==
    ASSUME NEW l \in Seq(Lines), NEW p \in Seq(Ids), NEW k, NEW m, Settled(m, l, p, k),
           Ordered(l, WithStatus(l, "running"), p), NEW n \in Nat,
           AcceptedOnce(l), SeqsRise(l), SyncedTo(l, n), EndsAreLast(l)
    PROVE  /\ AcceptedOnce(m) /\ SeqsRise(m) /\ EndsAreLast(m)
           /\ SyncedTo(m, Len(m)) /\ (k = 0 => SyncedTo(m, n))
           /\ \A id \in Ids :
                  /\ AcceptsOf(m, id) = AcceptsOf(l, id)
                  /\ (\E i \in 1..k : p[i] = id) => ReplayStatus(m, id) = "unknown"
                  /\ (\A i \in 1..k : p[i] # id) => ReplayStatus(m, id) = ReplayStatus(l, id)
<1>0. /\ m \in Seq(Lines) /\ k \in Nat /\ Len(l) \in Nat /\ Len(m) = Len(l) + k
      /\ \A i \in 1..Len(l) : m[i] = l[i] /\ i \in 1..Len(m)
      /\ \A i \in 1..k : /\ Len(l) + i \in 1..Len(m) /\ i \in 1..Len(p)
                         /\ m[Len(l) + i].op = "unknown" /\ m[Len(l) + i].id = p[i]
      /\ \A j \in 1..Len(m) : j \in 1..Len(l) \/ \E i \in 1..k : j = Len(l) + i
  BY SettledLines
<1>1. AllAccepted(l, WithStatus(l, "running"))
  BY WithStatusAccepted
<1>2. \A id \in Ids :
          /\ AcceptsOf(m, id) = AcceptsOf(l, id)
          /\ (\A i \in 1..k : p[i] # id) => EventsOf(m, id) = EventsOf(l, id)
          /\ \A i \in 1..k : p[i] = id =>
                 Gains(EventsOf(m, id), EventsOf(l, id), Len(l) + i)
  BY <1>1, SettledEvents
<1>3. \A j \in 1..Len(m) : m[j].op = "accept" => j \in 1..Len(l) /\ m[j] = l[j]
  BY <1>0
<1>4. AcceptedOnce(m)
  BY <1>0, <1>3 DEF AcceptedOnce
<1>5. SeqsRise(m)
  <2> SUFFICES ASSUME NEW i \in 1..Len(m), NEW j \in 1..Len(m),
                      m[i].op = "accept", m[j].op = "accept", i < j
               PROVE  m[i].seq < m[j].seq
    BY DEF SeqsRise
  <2>1. m[i] = l[i] /\ m[j] = l[j] /\ i \in 1..Len(l) /\ j \in 1..Len(l)
    BY <1>3
  <2> QED
    BY <2>1 DEF SeqsRise
<1>6. SyncedTo(m, Len(m)) /\ (k = 0 => SyncedTo(m, n))
  <2>1. SyncedTo(m, Len(m))
    BY <1>0 DEF SyncedTo
  <2>2. ASSUME k = 0 PROVE SyncedTo(m, n)
    <3>1. \A j \in 1..Len(m) : j \in 1..Len(l) /\ m[j] = l[j]
      BY <1>0, <2>2
    <3> QED
      BY <3>1 DEF SyncedTo
  <2> QED
    BY <2>1, <2>2
<1>7. ASSUME NEW id \in Ids, NEW i \in 1..k, p[i] = id
      PROVE  /\ EventsOf(l, id) # {} /\ Len(l) + i \in EventsOf(m, id)
             /\ \A s \in EventsOf(l, id) : /\ s \in EventsOf(m, id) /\ m[s].op = "start"
                                           /\ s < Len(l) + i
             /\ \A s \in EventsOf(m, id) : s \in EventsOf(l, id) \/ s = Len(l) + i
  <2>1. id \in WithStatus(l, "running")
    BY <1>0, <1>7 DEF Ordered
  <2>2. ReplayStatus(l, id) = "running"
    BY <2>1 DEF WithStatus
  <2>3. EventsOf(l, id) # {} /\ \A e \in EventsOf(l, id) : l[e].op = "start"
    BY <2>2, RunningHasStarted
  <2>4. \A s \in EventsOf(l, id) : s \in 1..Len(l)
    BY EventsIn
  <2>5. Gains(EventsOf(m, id), EventsOf(l, id), Len(l) + i)
    BY <1>2, <1>7
  <2>6. EventsOf(m, id) = EventsOf(l, id) \cup {Len(l) + i}
    BY <2>5 DEF Gains
  <2>7. \A s \in EventsOf(l, id) : m[s].op = "start" /\ s < Len(l) + i
    BY SMTT(30), <1>0, <2>3, <2>4
  <2> QED
    BY <2>3, <2>6, <2>7
<1>8. ASSUME NEW id \in Ids, NEW i \in 1..k, p[i] = id
      PROVE  ReplayStatus(m, id) = "unknown"
  <2>1. Len(l) + i \in EventsOf(m, id) /\ \A s \in EventsOf(m, id) : s <= Len(l) + i
    <3>1. /\ Len(l) + i \in EventsOf(m, id)
          /\ \A s \in EventsOf(l, id) : s < Len(l) + i
          /\ \A s \in EventsOf(m, id) : s \in EventsOf(l, id) \/ s = Len(l) + i
      BY <1>7, <1>8
    <3>2. PICK z \in Nat : z = Len(l) + i
      BY <1>0
    <3>3. \A s \in EventsOf(l, id) : s \in Nat /\ s < z
      BY <3>1, <3>2, EventsIn
    <3> QED
      BY <3>1, <3>2, <3>3
  <2>2. PICK e \in EventsOf(m, id) : e = Len(l) + i
    BY <2>1
  <2>3. \A s \in EventsOf(m, id) : s <= e
    BY <2>1, <2>2
  <2>4. ReplayStatus(m, id) = StatusAfter(m[e].op)
    BY <1>0, <2>3, LastIs
  <2> QED
    BY <1>0, <2>2, <2>4 DEF StatusAfter
<1>9. ASSUME NEW id \in Ids, \A i \in 1..k : p[i] # id
      PROVE  ReplayStatus(m, id) = ReplayStatus(l, id)
  <2>1. AcceptsOf(m, id) = AcceptsOf(l, id) /\ EventsOf(m, id) = EventsOf(l, id)
    BY <1>2, <1>9
  <2>2. \A i \in EventsOf(m, id) : m[i] = l[i]
    BY <1>0, <2>1, EventsIn
  <2> QED
    BY <1>0, <2>1, <2>2, SameStatus
<1>10. EndsAreLast(m)
  <2> SUFFICES ASSUME NEW id \in Ids, NEW e \in EventsOf(m, id), m[e].op # "start"
               PROVE  /\ \E s \in EventsOf(m, id) : m[s].op = "start"
                      /\ \A s \in EventsOf(m, id) \ {e} : m[s].op = "start" /\ s < e
    BY DEF EndsAreLast
  <2>1. ASSUME NEW i \in 1..k, p[i] = id
        PROVE  /\ \E s \in EventsOf(m, id) : m[s].op = "start"
               /\ \A s \in EventsOf(m, id) \ {e} : m[s].op = "start" /\ s < e
    <3>1. /\ EventsOf(l, id) # {} /\ Len(l) + i \in EventsOf(m, id)
          /\ \A s \in EventsOf(l, id) : /\ s \in EventsOf(m, id) /\ m[s].op = "start"
                                        /\ s < Len(l) + i
          /\ \A s \in EventsOf(m, id) : s \in EventsOf(l, id) \/ s = Len(l) + i
      BY <1>7, <2>1
    <3>2. PICK y \in EventsOf(m, id) : y = Len(l) + i
      BY <3>1
    <3>3. e = y
      BY <3>1, <3>2
    <3> QED
      BY <3>1, <3>2, <3>3
  <2>2. CASE \A i \in 1..k : p[i] # id
    <3>1. EventsOf(m, id) = EventsOf(l, id)
      BY <1>2, <2>2
    <3>2. \A s \in EventsOf(l, id) : m[s] = l[s]
      BY <1>0, EventsIn
    <3> QED
      BY <3>1, <3>2 DEF EndsAreLast
  <2> QED
    BY <2>1, <2>2
<1> QED
  BY <1>2, <1>4, <1>5, <1>6, <1>8, <1>9, <1>10

-----------------------------------------------------------------------------
(* The memory of the daemon that has the queue open is the replay of its    *)
(* file, in the form the steps keep.                                        *)

Replayed ==
    up => /\ \A id \in Ids : status[id] = ReplayStatus(log, id)
          /\ Ordered(log, WithStatus(log, "queued"), pending)
          /\ nextSeq = ReplayNextSeq(log)

QueueInv == FileInv /\ Replayed

LEMMA SameNextSeq ==
    ASSUME NEW l, NEW m, \A id \in Ids : ReplayReceipt(m, id) = ReplayReceipt(l, id)
    PROVE  ReplayNextSeq(m) = ReplayNextSeq(l)
<1>1. {ReplayReceipt(m, id) : id \in Ids} = {ReplayReceipt(l, id) : id \in Ids}
  OBVIOUS
<1> QED
  BY <1>1 DEF ReplayNextSeq

\* No sequence number on the file is the next one's.
LEMMA NextSeqIsNew ==
    ASSUME TypeInv, FileInv, nextSeq = ReplayNextSeq(log)
    PROVE  /\ log \in Seq(Lines) /\ nextSeq \in Nat \ {0}
           /\ \A id \in Ids : ReplayReceipt(log, id) \in Nat /\ ReplayReceipt(log, id) < nextSeq
           /\ \A i \in 1..Len(log) : log[i].op = "accept" => log[i].seq < nextSeq
<1>1. log \in Seq(Lines) /\ shortWrites \in Nat /\ Len(log) \in Nat
  BY BoundsAssumption DEF TypeInv, TypeOK
<1>2. PICK b \in Nat : b = Len(log) + 2 * shortWrites
  BY <1>1
<1>3. ASSUME NEW i \in 1..Len(log) PROVE log[i].seq <= b
  <2>1. log[i] \in Lines
    BY <1>1
  <2>2. log[i].seq \in Nat /\ log[i].seq <= i + 2 * shortWrites
    BY <1>1, <2>1 DEF TypeInv, SeqsBounded, Lines
  <2> QED
    BY <1>1, <1>2, <2>2
<1>4. /\ nextSeq \in Nat \ {0} /\ \A id \in Ids : ReplayReceipt(log, id) < nextSeq
  BY <1>1, <1>3, NextSeqAbove
<1>5. \A id \in Ids : ReplayReceipt(log, id) \in Nat
  BY <1>1, ReplayReceiptTyped
<1>6. ASSUME NEW i \in 1..Len(log), log[i].op = "accept" PROVE log[i].seq < nextSeq
  <2>1. log[i].id \in Ids /\ ReplayReceipt(log, log[i].id) = log[i].seq
    BY <1>1, <1>6, OneAccept DEF FileInv
  <2> QED
    BY <1>4, <2>1
<1> QED
  BY <1>1, <1>4, <1>5, <1>6

LEMMA EnqueueReplayed ==
    ASSUME MaxShortWrites = 0, TypeInv, ReceiptInv, QueueInv, NEW id \in Ids, Enqueue(id)
    PROVE  QueueInv'
<1> DEFINE line == [op |-> "accept", id |-> id, seq |-> nextSeq]
<1>1. /\ up /\ up' = up /\ status[id] = "none" /\ Write(line)
      /\ nextSeq' = nextSeq + 1 /\ pending' = Append(pending, id)
      /\ status' = [status EXCEPT ![id] = "queued"] /\ status \in [Ids -> Statuses]
  BY DEF Enqueue, TypeInv, TypeOK
<1>2. torn = FALSE /\ AcceptsOf(log, id) = {}
  BY <1>1 DEF ReceiptInv, NoFragment, MapKnowsAccepts
<1>3. /\ \A x \in Ids : status[x] = ReplayStatus(log, x)
      /\ Ordered(log, WithStatus(log, "queued"), pending)
      /\ nextSeq = ReplayNextSeq(log)
  BY <1>1 DEF QueueInv, Replayed
<1>4. /\ log \in Seq(Lines) /\ nextSeq \in Nat \ {0}
      /\ \A x \in Ids : ReplayReceipt(log, x) \in Nat /\ ReplayReceipt(log, x) < nextSeq
      /\ \A i \in 1..Len(log) : log[i].op = "accept" => log[i].seq < nextSeq
  BY <1>3, NextSeqIsNew DEF QueueInv
<1>5. line \in Lines /\ line.op = "accept" /\ line.id = id /\ line.seq = nextSeq
  BY <1>4 DEF Lines, Ops
<1> HIDE DEF line
<1>6. log' = Append(log, line) /\ synced' = Len(log')
  BY <1>1, <1>2, <1>5, WriteAppends DEF SyncedOps
<1>7. Grown(log', log, line)
  BY <1>6 DEF Grown
<1>8. /\ log' \in Seq(Lines) /\ Len(log) \in Nat /\ Len(log') = Len(log) + 1
  BY <1>4, <1>5, <1>7, Appended
<1>9. FileInv'
  <2>1. /\ AcceptedOnce(log) /\ SeqsRise(log) /\ EndsAreLast(log)
        /\ AcceptsOf(log, line.id) = {}
        /\ \A i \in 1..Len(log) : log[i].op = "accept" => log[i].seq < line.seq
    BY <1>2, <1>4, <1>5 DEF QueueInv, FileInv
  <2>2. AcceptedOnce(log') /\ SeqsRise(log') /\ SyncedTo(log', Len(log')) /\ EndsAreLast(log')
    BY <1>4, <1>5, <1>7, <2>1, AcceptFile
  <2> QED
    BY <1>6, <2>2 DEF FileInv
<1>10. /\ AcceptsOf(log', id) = {Len(log')} /\ First(log', id) = Len(log')
       /\ ReplayStatus(log', id) = "queued" /\ ReplayReceipt(log', id) = nextSeq
  BY <1>2, <1>4, <1>5, <1>7, AppendAccept
<1>11. ASSUME NEW x \in Ids, x # id
       PROVE  /\ AcceptsOf(log', x) = AcceptsOf(log, x)
              /\ ReplayStatus(log', x) = ReplayStatus(log, x)
              /\ ReplayReceipt(log', x) = ReplayReceipt(log, x)
  <2>1. line.id # x
    BY <1>5, <1>11
  <2> QED
    BY <1>4, <1>5, <1>7, <2>1, AppendElsewhere
<1>12. \A x \in Ids : status'[x] = ReplayStatus(log', x)
  BY <1>1, <1>3, <1>10, <1>11
<1>13. nextSeq' = ReplayNextSeq(log')
  <2>1. \A x \in Ids : ReplayReceipt(log', x) <= nextSeq
    BY <1>4, <1>10, <1>11
  <2>2. ReplayNextSeq(log') = nextSeq + 1
    BY <1>4, <1>8, <1>10, <2>1, NextSeqIs
  <2> QED
    BY <1>1, <2>2
<1>14. Ordered(log', WithStatus(log', "queued"), pending')
  <2>1. WithStatus(log', "queued") = WithStatus(log, "queued") \cup {id}
    BY <1>10, <1>11 DEF WithStatus
  <2>2. id \notin WithStatus(log, "queued")
    BY <1>1, <1>3 DEF WithStatus
  <2>3. \A x \in WithStatus(log, "queued") : x \in Ids /\ x # id
    BY <2>2 DEF WithStatus
  <2>4. \A x \in WithStatus(log, "queued") : AcceptsOf(log', x) = AcceptsOf(log, x)
    BY <1>11, <2>3
  <2>5. Ordered(log', WithStatus(log, "queued"), pending)
    BY <1>3, <2>4, OrderKept
  <2>6. ASSUME NEW x \in WithStatus(log, "queued") PROVE First(log', x) < First(log', id)
    <3>1. AcceptsOf(log, x) # {} /\ x \in Ids
      BY <1>4, <2>3, WithStatusAccepted DEF AllAccepted
    <3>2. First(log, x) \in 1..Len(log)
      BY <1>4, <3>1, FirstIn
    <3>3. First(log', x) = First(log, x)
      BY <2>4 DEF First
    <3> QED
      BY <1>8, <1>10, <3>2, <3>3
  <2>7. Ordered(log', WithStatus(log, "queued") \cup {id}, Append(pending, id))
    BY <2>5, <2>6, OrderAppend
  <2> QED
    BY <1>1, <2>1, <2>7
<1> QED
  BY <1>9, <1>12, <1>13, <1>14 DEF QueueInv, Replayed

\* A start or end line and what it does to the replay.
LEMMA EventReplayed ==
    ASSUME MaxShortWrites = 0, TypeInv, ReceiptInv, QueueInv, up, NEW id \in Ids,
           NEW op \in {"start", "done", "failed"}, Write(Line(op, id)),
           IF op = "start" THEN ReplayStatus(log, id) = "queued"
           ELSE ReplayStatus(log, id) = "running"
    PROVE  /\ FileInv' /\ log \in Seq(Lines) /\ log' \in Seq(Lines)
           /\ ReplayStatus(log', id) = StatusAfter(op)
           /\ \A x \in Ids : x # id => ReplayStatus(log', x) = ReplayStatus(log, x)
           /\ \A x \in Ids : AcceptsOf(log', x) = AcceptsOf(log, x)
           /\ ReplayNextSeq(log') = ReplayNextSeq(log)
<1> DEFINE line == Line(op, id)
<1>1. line \in Lines /\ line.op = op /\ line.id = id /\ line.op # "accept"
  BY DEF Line, Lines, Ops
<1>2. log \in Seq(Lines) /\ torn = FALSE /\ Write(line) /\ synced \in Nat
      /\ shortWrites \in 0..0
  BY DEF TypeInv, TypeOK, ReceiptInv, NoFragment
<1> HIDE DEF line
<1>3. log' = Append(log, line) /\ (line.op \in SyncedOps => synced' = Len(log'))
  BY <1>1, <1>2, WriteAppends
<1>4. line.op \notin SyncedOps => synced' = synced
  BY <1>2 DEF Write
<1>5. Grown(log', log, line)
  BY <1>3 DEF Grown
<1>6. log' \in Seq(Lines)
  BY <1>1, <1>2, <1>5, Appended
<1>7. /\ AcceptsOf(log, id) # {}
      /\ op = "start" => EventsOf(log, id) = {}
  <2>1. ReplayStatus(log, id) \in {"queued", "running"}
    OBVIOUS
  <2>2. AcceptsOf(log, id) # {}
    BY <1>2, <2>1, NoStatusMeansNoAccept
  <2> QED
    BY <1>2, <2>2, QueuedHasNoEvent
<1>8. FileInv'
  <2>1. /\ AcceptedOnce(log) /\ SeqsRise(log) /\ EndsAreLast(log) /\ SyncedTo(log, synced)
        /\ AcceptsOf(log, line.id) # {}
        /\ IF line.op = "start" THEN EventsOf(log, line.id) = {}
           ELSE ReplayStatus(log, line.id) = "running"
    BY <1>1, <1>7 DEF QueueInv, FileInv
  <2>2. /\ AcceptedOnce(log') /\ SeqsRise(log') /\ EndsAreLast(log')
        /\ SyncedTo(log', Len(log')) /\ (line.op \notin SyncedOps => SyncedTo(log', synced))
    BY <1>1, <1>2, <1>5, <2>1, EventFile
  <2>3. SyncedTo(log', synced')
    BY <1>3, <1>4, <2>2
  <2> QED
    BY <2>2, <2>3 DEF FileInv
<1>9. /\ AcceptsOf(log', id) = AcceptsOf(log, id)
      /\ ReplayStatus(log', id) = StatusAfter(op)
      /\ ReplayReceipt(log', id) = ReplayReceipt(log, id)
  <2>1. /\ AcceptsOf(log', id) = AcceptsOf(log, id)
        /\ ReplayStatus(log', id) = StatusAfter(line.op)
        /\ ReplayReceipt(log', id) = ReplayReceipt(log, id)
    BY <1>1, <1>2, <1>5, <1>7, AppendEvent
  <2> QED
    BY <1>1, <2>1
<1>10. ASSUME NEW x \in Ids, x # id
       PROVE  /\ AcceptsOf(log', x) = AcceptsOf(log, x)
              /\ ReplayStatus(log', x) = ReplayStatus(log, x)
              /\ ReplayReceipt(log', x) = ReplayReceipt(log, x)
  <2>1. line.id # x
    BY <1>1, <1>10
  <2> QED
    BY <1>1, <1>2, <1>5, <2>1, AppendElsewhere
<1>11. ReplayNextSeq(log') = ReplayNextSeq(log)
  <2>1. \A x \in Ids : ReplayReceipt(log', x) = ReplayReceipt(log, x)
    BY <1>9, <1>10
  <2> QED
    BY <2>1, SameNextSeq
<1> QED
  BY <1>2, <1>6, <1>8, <1>9, <1>10, <1>11

\* What starts is the head of the line, and waits by the file.
LEMMA StartReplayed ==
    ASSUME MaxShortWrites = 0, TypeInv, ReceiptInv, QueueInv, NEW id \in Ids, Start(id)
    PROVE  QueueInv'
<1>1. /\ up /\ up' = up /\ status[id] = "queued" /\ Write(Line("start", id))
      /\ pending # <<>> /\ id = Head(pending) /\ pending' = Tail(pending)
      /\ nextSeq' = nextSeq
      /\ status' = [status EXCEPT ![id] = "running"] /\ status \in [Ids -> Statuses]
  BY DEF Start, IsNext, TypeInv, TypeOK
<1>2. /\ \A x \in Ids : status[x] = ReplayStatus(log, x)
      /\ Ordered(log, WithStatus(log, "queued"), pending)
      /\ nextSeq = ReplayNextSeq(log)
  BY <1>1 DEF QueueInv, Replayed
<1>3. /\ FileInv' /\ log \in Seq(Lines)
      /\ ReplayStatus(log', id) = StatusAfter("start")
      /\ \A x \in Ids : x # id => ReplayStatus(log', x) = ReplayStatus(log, x)
      /\ \A x \in Ids : AcceptsOf(log', x) = AcceptsOf(log, x)
      /\ ReplayNextSeq(log') = ReplayNextSeq(log)
  BY <1>1, <1>2, EventReplayed
<1>4. \A x \in Ids : status'[x] = ReplayStatus(log', x)
  BY <1>1, <1>2, <1>3 DEF StatusAfter
<1>5. Ordered(log', WithStatus(log', "queued"), pending')
  <2>1. WithStatus(log', "queued") = WithStatus(log, "queued") \ {id}
    BY <1>3 DEF WithStatus, StatusAfter
  <2>2. Ordered(log, WithStatus(log, "queued") \ {Head(pending)}, Tail(pending))
    BY <1>1, <1>2, <1>3, WithStatusAccepted, OrderTail
  <2>3. Ordered(log, WithStatus(log', "queued"), pending')
    BY <1>1, <2>1, <2>2
  <2>4. \A x \in WithStatus(log', "queued") : AcceptsOf(log', x) = AcceptsOf(log, x)
    BY <1>3 DEF WithStatus
  <2> QED
    BY <2>3, <2>4, OrderKept
<1> QED
  BY <1>1, <1>2, <1>3, <1>4, <1>5 DEF QueueInv, Replayed

LEMMA EndReplayed ==
    ASSUME MaxShortWrites = 0, TypeInv, ReceiptInv, QueueInv,
           NEW id \in Ids, NEW op \in {"done", "failed"}, End(id, op)
    PROVE  QueueInv'
<1>1. /\ up /\ up' = up /\ status[id] = "running" /\ Write(Line(op, id))
      /\ pending' = pending /\ nextSeq' = nextSeq
      /\ status' = [status EXCEPT ![id] = op] /\ status \in [Ids -> Statuses]
  BY DEF End, TypeInv, TypeOK
<1>2. /\ \A x \in Ids : status[x] = ReplayStatus(log, x)
      /\ Ordered(log, WithStatus(log, "queued"), pending)
      /\ nextSeq = ReplayNextSeq(log)
  BY <1>1 DEF QueueInv, Replayed
<1>3. /\ FileInv' /\ log \in Seq(Lines)
      /\ ReplayStatus(log', id) = StatusAfter(op)
      /\ \A x \in Ids : x # id => ReplayStatus(log', x) = ReplayStatus(log, x)
      /\ \A x \in Ids : AcceptsOf(log', x) = AcceptsOf(log, x)
      /\ ReplayNextSeq(log') = ReplayNextSeq(log)
  BY <1>1, <1>2, EventReplayed
<1>4. \A x \in Ids : status'[x] = ReplayStatus(log', x)
  BY <1>1, <1>2, <1>3 DEF StatusAfter
<1>5. Ordered(log', WithStatus(log', "queued"), pending')
  <2>1. WithStatus(log', "queued") = WithStatus(log, "queued")
    BY <1>1, <1>2, <1>3 DEF WithStatus, StatusAfter
  <2>2. \A x \in WithStatus(log, "queued") : AcceptsOf(log', x) = AcceptsOf(log, x)
    BY <1>3 DEF WithStatus
  <2> QED
    BY <1>1, <1>2, <2>1, <2>2, OrderKept
<1> QED
  BY <1>1, <1>2, <1>3, <1>4, <1>5 DEF QueueInv, Replayed

\* A stop keeps the file's shape, and memory is empty after it.
LEMMA StopReplayed ==
    ASSUME TypeInv, QueueInv, Crash \/ Close
    PROVE  /\ QueueInv' /\ ~up' /\ up
           /\ log \in Seq(Lines) /\ log' \in Seq(Lines)
           /\ \A id \in Ids :
                  /\ AcceptsOf(log', id) = AcceptsOf(log, id)
                  /\ \/ ReplayStatus(log', id) = ReplayStatus(log, id)
                     \/ /\ ReplayStatus(log, id) \in {"done", "failed", "unknown"}
                        /\ ReplayStatus(log', id) = "running"
<1>1. /\ log \in Seq(Lines) /\ synced \in 0..Len(log) /\ Len(log) \in Nat /\ synced \in Nat
      /\ AcceptedOnce(log) /\ SeqsRise(log) /\ SyncedTo(log, synced) /\ EndsAreLast(log)
  BY DEF TypeInv, TypeOK, QueueInv, FileInv
<1>2. up /\ ~up' /\ synced' = synced
  BY DEF Crash, Close, file
<1>3. \E n \in synced..Len(log) : log' = SubSeq(log, 1, n)
  <2>1. CASE Crash
    BY <2>1 DEF Crash
  <2>2. CASE Close
    <3>1. log' = log
      BY <2>2 DEF Close, file
    <3>2. SubSeq(log, 1, Len(log)) = log /\ Len(log) \in synced..Len(log)
      BY <1>1
    <3> QED
      BY <3>1, <3>2
  <2> QED
    BY <2>1, <2>2
<1>4. PICK n \in synced..Len(log) : log' = SubSeq(log, 1, n)
  BY <1>3
<1>5. Cut(log', log, n) /\ synced <= n
  BY <1>1, <1>4 DEF Cut
<1>6. /\ AcceptedOnce(log') /\ SeqsRise(log') /\ SyncedTo(log', synced) /\ EndsAreLast(log')
      /\ \A id \in Ids : AcceptsOf(log', id) = AcceptsOf(log, id)
  BY <1>1, <1>5, CutFile
<1>7. \A id \in Ids :
          \/ ReplayStatus(log', id) = ReplayStatus(log, id)
          \/ /\ ReplayStatus(log, id) \in {"done", "failed", "unknown"}
             /\ ReplayStatus(log', id) = "running"
  BY <1>1, <1>5, CutStatus
<1>8. log' \in Seq(Lines)
  BY <1>1, <1>5, CutLines
<1>9. FileInv'
  BY <1>2, <1>6 DEF FileInv
<1> QED
  BY <1>1, <1>2, <1>6, <1>7, <1>8, <1>9 DEF QueueInv, Replayed

\* What a constructor writes moves the items it writes of, and no others.
LEMMA SettlesReplayed ==
    ASSUME TypeInv, QueueInv, NEW p \in InAcceptOrder(log, WithStatus(log, "running")),
           NEW k \in 0..Cardinality(WithStatus(log, "running")), Settles(p, k)
    PROVE  /\ FileInv' /\ log \in Seq(Lines) /\ log' \in Seq(Lines)
           /\ Ordered(log, WithStatus(log, "running"), p)
           /\ Len(p) = Cardinality(WithStatus(log, "running"))
           /\ \A id \in Ids :
                  /\ AcceptsOf(log', id) = AcceptsOf(log, id)
                  /\ ReplayReceipt(log', id) = ReplayReceipt(log, id)
                  /\ (\E i \in 1..k : p[i] = id) =>
                        ReplayStatus(log', id) = "unknown" /\ ReplayStatus(log, id) = "running"
                  /\ (\A i \in 1..k : p[i] # id) =>
                        ReplayStatus(log', id) = ReplayStatus(log, id)
           /\ ReplayNextSeq(log') = ReplayNextSeq(log)
<1>1. /\ log \in Seq(Lines) /\ synced \in Nat
      /\ AcceptedOnce(log) /\ SeqsRise(log) /\ SyncedTo(log, synced) /\ EndsAreLast(log)
  BY DEF TypeInv, TypeOK, QueueInv, FileInv
<1> DEFINE S == WithStatus(log, "running")
<1>2. AllAccepted(log, S)
  BY <1>1, WithStatusAccepted
<1>3. Ordered(log, S, p)
  BY <1>1, <1>2, InOrderIsOrdered
<1>4. Len(p) = Cardinality(S) /\ p \in Seq(Ids)
  BY <1>1, <1>2, <1>3, OrderedIsInOrder DEF Ordered
<1>5. Settled(log', log, p, k)
  BY <1>4 DEF Settled, Settles
<1>6. /\ AcceptedOnce(log') /\ SeqsRise(log') /\ EndsAreLast(log')
      /\ SyncedTo(log', Len(log')) /\ (k = 0 => SyncedTo(log', synced))
      /\ \A id \in Ids :
             /\ AcceptsOf(log', id) = AcceptsOf(log, id)
             /\ (\E i \in 1..k : p[i] = id) => ReplayStatus(log', id) = "unknown"
             /\ (\A i \in 1..k : p[i] # id) => ReplayStatus(log', id) = ReplayStatus(log, id)
  BY <1>1, <1>3, <1>4, <1>5, SettledFile
<1>7. FileInv'
  <2>1. synced' = IF k = 0 THEN synced ELSE Len(log')
    BY DEF Settles, SyncedOps
  <2>2. SyncedTo(log', synced')
    BY <1>6, <2>1
  <2> QED
    BY <1>6, <2>2 DEF FileInv
<1>8. /\ log' \in Seq(Lines) /\ k \in Nat /\ k <= Len(p)
      /\ \A i \in 1..Len(log) : log'[i] = log[i]
      /\ \A i \in 1..k : i \in 1..Len(p)
  BY <1>1, <1>4, <1>5, SettledLines
<1>9. ASSUME NEW id \in Ids PROVE ReplayReceipt(log', id) = ReplayReceipt(log, id)
  <2>1. AcceptsOf(log', id) = AcceptsOf(log, id) /\ \A i \in AcceptsOf(log, id) : i \in 1..Len(log)
    BY <1>1, <1>6, AcceptsTyped
  <2>2. \A i \in AcceptsOf(log', id) : log'[i] = log[i]
    BY <1>8, <2>1
  <2> QED
    BY <1>1, <1>8, <2>1, <2>2, SameReceipt
<1>10. ASSUME NEW id \in Ids, NEW i \in 1..k, p[i] = id
       PROVE  ReplayStatus(log, id) = "running"
  <2>1. id \in S
    BY <1>3, <1>8, <1>10 DEF Ordered
  <2> QED
    BY <2>1 DEF WithStatus
<1>11. ReplayNextSeq(log') = ReplayNextSeq(log)
  BY <1>9, SameNextSeq
<1> QED
  BY <1>1, <1>3, <1>4, <1>6, <1>7, <1>8, <1>9, <1>10, <1>11

LEMMA OpenReplayed ==
    ASSUME TypeInv, QueueInv, Open
    PROVE  /\ QueueInv' /\ up' /\ ~up /\ log \in Seq(Lines)
           /\ Ordered(log, WithStatus(log, "queued"), pending')
           /\ pending' \in InAcceptOrder(log, WithStatus(log, "queued"))
<1> DEFINE S == WithStatus(log, "running")
           W == WithStatus(log, "queued")
<1>1. PICK p \in InAcceptOrder(log, S) : Settles(p, Cardinality(S))
  BY DEF Open
<1>2. pending' \in InAcceptOrder(log, W)
  BY DEF Open
<1>3. /\ ~up /\ up' = TRUE /\ nextSeq' = ReplayNextSeq(log)
      /\ status' = [id \in Ids |-> IF ReplayStatus(log, id) = "running" THEN "unknown"
                                   ELSE ReplayStatus(log, id)]
  BY DEF Open
<1>4. Cardinality(S) \in 0..Cardinality(S)
  <2>1. IsFiniteSet(S)
    BY IdsAssumption, FS_Subset DEF WithStatus
  <2> QED
    BY <2>1, FS_CardinalityType
<1> HIDE DEF S
<1>5. /\ FileInv' /\ log \in Seq(Lines) /\ log' \in Seq(Lines)
      /\ Ordered(log, S, p) /\ Len(p) = Cardinality(S)
      /\ \A id \in Ids :
             /\ AcceptsOf(log', id) = AcceptsOf(log, id)
             /\ (\E i \in 1..Len(p) : p[i] = id) =>
                   ReplayStatus(log', id) = "unknown" /\ ReplayStatus(log, id) = "running"
             /\ (\A i \in 1..Len(p) : p[i] # id) =>
                   ReplayStatus(log', id) = ReplayStatus(log, id)
      /\ ReplayNextSeq(log') = ReplayNextSeq(log)
  BY <1>1, <1>4, SettlesReplayed DEF S
<1>6. ASSUME NEW id \in Ids PROVE status'[id] = ReplayStatus(log', id)
  <2>1. CASE \E i \in 1..Len(p) : p[i] = id
    BY <1>3, <1>5, <2>1
  <2>2. CASE \A i \in 1..Len(p) : p[i] # id
    <3>1. id \notin S
      BY <1>5, <2>2 DEF Ordered
    <3>2. ReplayStatus(log, id) # "running"
      BY <3>1 DEF S, WithStatus
    <3> QED
      BY <1>3, <1>5, <2>2, <3>2
  <2> QED
    BY <2>1, <2>2
<1>7. WithStatus(log', "queued") = W
  <2>1. ASSUME NEW id \in Ids PROVE ReplayStatus(log', id) = "queued" <=> ReplayStatus(log, id) = "queued"
    BY <1>3, <1>6
  <2> QED
    BY <2>1 DEF WithStatus
<1>8. Ordered(log, W, pending')
  BY <1>2, <1>5, WithStatusAccepted, InOrderIsOrdered
<1>9. Ordered(log', WithStatus(log', "queued"), pending')
  <2>1. \A id \in W : AcceptsOf(log', id) = AcceptsOf(log, id)
    BY <1>5 DEF WithStatus
  <2> QED
    BY <1>7, <1>8, <2>1, OrderKept
<1> QED
  BY <1>2, <1>3, <1>5, <1>6, <1>8, <1>9 DEF QueueInv, Replayed

LEMMA OpenDiesReplayed ==
    ASSUME TypeInv, QueueInv, OpenDies
    PROVE  /\ QueueInv' /\ ~up' /\ ~up /\ log \in Seq(Lines)
           /\ \A id \in Ids :
                  /\ AcceptsOf(log', id) = AcceptsOf(log, id)
                  /\ \/ ReplayStatus(log', id) = ReplayStatus(log, id)
                     \/ ReplayStatus(log', id) = "unknown" /\ ReplayStatus(log, id) = "running"
<1> DEFINE S == WithStatus(log, "running")
<1>1. PICK p \in InAcceptOrder(log, S) :
          \E k \in 0..(Cardinality(S) - 1) : Settles(p, k)
  BY DEF OpenDies
<1>2. PICK k \in 0..(Cardinality(S) - 1) : Settles(p, k)
  BY <1>1
<1>3. k \in 0..Cardinality(S)
  <2>1. IsFiniteSet(S)
    BY IdsAssumption, FS_Subset DEF WithStatus
  <2>2. Cardinality(S) \in Nat
    BY <2>1, FS_CardinalityType
  <2> QED
    BY <2>2
<1>4. /\ FileInv' /\ log \in Seq(Lines)
      /\ \A id \in Ids :
             /\ AcceptsOf(log', id) = AcceptsOf(log, id)
             /\ (\E i \in 1..k : p[i] = id) =>
                   ReplayStatus(log', id) = "unknown" /\ ReplayStatus(log, id) = "running"
             /\ (\A i \in 1..k : p[i] # id) =>
                   ReplayStatus(log', id) = ReplayStatus(log, id)
  BY <1>1, <1>2, <1>3, SettlesReplayed
<1>5. ~up /\ up' = up
  BY DEF OpenDies, memory
<1> QED
  BY <1>4, <1>5 DEF QueueInv, Replayed

LEMMA QuietReplayed ==
    ASSUME QueueInv, UNCHANGED <<log, synced, up, status, pending, nextSeq>>
    PROVE  QueueInv'
BY DEF QueueInv, FileInv, Replayed

LEMMA NextReplayed ==
    ASSUME MaxShortWrites = 0, MaxIoErrors = 0, TypeInv, ReceiptInv, QueueInv, [Next]_vars
    PROVE  QueueInv'
<1>0. ioErrors \in 0..0
  BY DEF TypeInv, TypeOK
<1>1. ASSUME NEW id \in Ids, EnqueueThrows(id) \/ StartThrows(id) \/ EndThrows(id) PROVE FALSE
  BY <1>0, <1>1 DEF EnqueueThrows, StartThrows, EndThrows, WriteThrows
<1>2. ASSUME NEW id \in Ids, EnqueueKnown(id) PROVE QueueInv'
  <2>1. UNCHANGED <<log, synced, up, status, pending, nextSeq>>
    BY <1>2 DEF EnqueueKnown, file, memory
  <2> QED
    BY <2>1, QuietReplayed
<1>3. ASSUME UNCHANGED vars PROVE QueueInv'
  <2>1. UNCHANGED <<log, synced, up, status, pending, nextSeq>>
    BY <1>3 DEF vars, file, memory
  <2> QED
    BY <2>1, QuietReplayed
<1> QED
  BY <1>1, <1>2, <1>3, EnqueueReplayed, StartReplayed, EndReplayed, StopReplayed,
     OpenReplayed, OpenDiesReplayed DEF Next

LEMMA InitReplayed == ASSUME Init PROVE QueueInv
<1>1. log = <<>> /\ up = FALSE
  BY DEF Init
<1>2. \A id \in Ids : EventsOf(log, id) = {}
  BY <1>1 DEF EventsOf
<1> QED
  BY <1>1, <1>2 DEF QueueInv, FileInv, Replayed, AcceptedOnce, SeqsRise, SyncedTo, EndsAreLast

LEMMA QueueInvHolds == ASSUME MaxShortWrites = 0, MaxIoErrors = 0
                       PROVE  Spec => [](TypeInv /\ ReceiptInv /\ QueueInv)
<1>1. Init => TypeInv /\ ReceiptInv /\ QueueInv
  BY InitTypeInv, InitReceipt, InitReplayed
<1>2. TypeInv /\ ReceiptInv /\ QueueInv /\ [Next]_vars =>
          (TypeInv /\ ReceiptInv /\ QueueInv)'
  BY NextTypeInv, NextReceipt, NextReplayed
<1> QED
  BY <1>1, <1>2, PTL DEF Spec

(* A restart forgets and invents nothing (queue.ts's replay in the          *)
(* constructor): on a disk where writes are whole and do not throw, the Map, *)
(* the receipts, the line of waiting ids and the next sequence number are    *)
(* at every moment what replaying the file would rebuild.                    *)
THEOREM MemoryIsTheFiles == ASSUME MaxShortWrites = 0, MaxIoErrors = 0
                            PROVE  Spec => []MemoryIsReplay
<1>1. ASSUME TypeInv, ReceiptInv, QueueInv PROVE MemoryIsReplay
  <2> SUFFICES ASSUME up PROVE
          /\ \A id \in Ids : /\ status[id] = ReplayStatus(log, id)
                             /\ receipt[id] = ReplayReceipt(log, id)
          /\ pending \in InAcceptOrder(log, WithStatus(log, "queued"))
          /\ nextSeq = ReplayNextSeq(log)
    BY DEF MemoryIsReplay
  <2>1. log \in Seq(Lines)
    BY <1>1 DEF TypeInv, TypeOK
  <2>2. /\ \A id \in Ids : status[id] = ReplayStatus(log, id)
        /\ Ordered(log, WithStatus(log, "queued"), pending)
        /\ nextSeq = ReplayNextSeq(log)
    BY <1>1 DEF QueueInv, Replayed
  <2>3. \A id \in Ids : receipt[id] = ReplayReceipt(log, id)
    BY <1>1 DEF ReceiptInv, MapKnowsAccepts
  <2>4. pending \in InAcceptOrder(log, WithStatus(log, "queued"))
    BY <2>1, <2>2, WithStatusAccepted, OrderedIsInOrder
  <2> QED
    BY <2>2, <2>3, <2>4
<1> QED
  BY <1>1, QueueInvHolds, PTL

\* Only the head of the line starts, and whoever waits behind it came later.
LEMMA HeadIsOldest ==
    ASSUME MaxIoErrors = 0, TypeInv, ReceiptInv, QueueInv, [Next]_vars,
           NEW id \in Ids, NEW older \in Ids, runs'[id] > runs[id],
           0 < acked[older], acked[older] < acked[id], status[older] = "queued"
    PROVE  FALSE
<1>0. /\ ioErrors \in 0..0 /\ runs \in [Ids -> Nat] /\ acked \in [Ids -> Nat]
      /\ log \in Seq(Lines)
  BY DEF TypeInv, TypeOK
<1>1. runs' # runs
  BY <1>0
<1>2. \A x \in Ids : Enqueue(x) => runs' = runs
  BY DEF Enqueue
<1>3. \A x \in Ids : EnqueueKnown(x) => runs' = runs
  BY DEF EnqueueKnown
<1>4. \A x \in Ids : EnqueueThrows(x) \/ StartThrows(x) \/ EndThrows(x) => FALSE
  BY <1>0 DEF EnqueueThrows, StartThrows, EndThrows, WriteThrows
<1>5. \A x \in Ids, op \in {"done", "failed"} : End(x, op) => runs' = runs
  BY DEF End, history
<1>6. Crash \/ Close \/ Open \/ OpenDies => runs' = runs
  BY DEF Crash, Close, Open, OpenDies, Settles, history
<1>7. (UNCHANGED vars) => runs' = runs
  BY DEF vars, history
<1>8. PICK x \in Ids : Start(x)
  BY <1>1, <1>2, <1>3, <1>4, <1>5, <1>6, <1>7 DEF Next
<1>9. /\ up /\ pending # <<>> /\ x = Head(pending) /\ runs' = [runs EXCEPT ![x] = @ + 1]
  BY <1>8 DEF Start, IsNext
<1>10. x = id
  BY <1>0, <1>9
<1>11. /\ \A y \in Ids : status[y] = ReplayStatus(log, y)
       /\ Ordered(log, WithStatus(log, "queued"), pending)
  BY <1>9 DEF QueueInv, Replayed
<1>12. older \in WithStatus(log, "queued") /\ older # id
  BY <1>0, <1>11 DEF WithStatus
<1>13. PICK j \in 1..Len(pending) : pending[j] = older
  BY <1>11, <1>12 DEF Ordered
<1>14. Len(pending) \in Nat /\ 1 \in 1..Len(pending) /\ pending[1] = id
  <2>1. pending \in Seq(Ids)
    BY DEF TypeInv, TypeOK
  <2> QED
    BY <1>9, <1>10, <2>1
<1>15. First(log, id) < First(log, older)
  <2>1. 1 < j
    BY <1>12, <1>13, <1>14
  <2> QED
    BY <1>11, <1>13, <1>14, <2>1 DEF Ordered
<1>16. /\ AcceptsOf(log, id) # {} /\ ReplayReceipt(log, id) = acked[id]
       /\ AcceptsOf(log, older) # {} /\ ReplayReceipt(log, older) = acked[older]
  BY <1>0 DEF ReceiptInv, AckedIsAccepted
<1>17. /\ First(log, id) \in AcceptsOf(log, id)
       /\ First(log, older) \in AcceptsOf(log, older)
       /\ log[First(log, id)].seq = acked[id] /\ log[First(log, older)].seq = acked[older]
  BY <1>0, <1>16, FirstIn DEF ReplayReceipt, First
<1>18. \A y \in Ids : \A i \in AcceptsOf(log, y) : i \in 1..Len(log) /\ log[i].op = "accept"
  BY <1>0 DEF AcceptsOf
<1>19. acked[id] < acked[older]
  BY <1>15, <1>17, <1>18 DEF QueueInv, FileInv, SeqsRise
<1> QED
  BY <1>0, <1>19

(* "Items start in acceptance order" (queue.ts's header), over every        *)
(* restart: when an id's text is sent to an agent, no id that was given a   *)
(* lower receipt still waits.                                               *)
THEOREM FirstAcceptedStartsFirst == ASSUME MaxShortWrites = 0, MaxIoErrors = 0
                                    PROVE  Spec => StartsInAcceptanceOrder
<1>1. TypeInv /\ ReceiptInv /\ QueueInv /\ [Next]_vars =>
          [\A id, older \in Ids :
              (runs'[id] > runs[id] /\ 0 < acked[older] /\ acked[older] < acked[id])
                  => status[older] # "queued"]_vars
  BY HeadIsOldest
<1> QED
  BY <1>1, QueueInvHolds, PTL DEF Spec, StartsInAcceptanceOrder

-----------------------------------------------------------------------------
(* What the queue promises (module OnceQueue): its phase and its line read  *)
(* off the memory of a running daemon, and off the file between daemons.    *)

LEMMA UpMap ==
    ASSUME TypeOK, up PROVE AbstractPhase = status /\ AbstractLine = pending
BY DEF TypeOK, AbstractPhase, AbstractLine

LEMMA UpMapNext ==
    ASSUME TypeOK', up' PROVE AbstractPhase' = status' /\ AbstractLine' = pending'
BY DEF TypeOK, AbstractPhase, AbstractLine

LEMMA ChosenOrder ==
    ASSUME NEW l \in Seq(Lines), NEW S, AllAccepted(l, S), NEW q, Ordered(l, S, q)
    PROVE  (CHOOSE p \in InAcceptOrder(l, S) : TRUE) = q
<1> DEFINE c == CHOOSE p \in InAcceptOrder(l, S) : TRUE
<1>1. q \in InAcceptOrder(l, S)
  BY OrderedIsInOrder
<1>2. c \in InAcceptOrder(l, S)
  BY <1>1
<1> HIDE DEF c
<1>3. Ordered(l, S, c)
  BY <1>2, InOrderIsOrdered
<1>4. c = q
  BY <1>3, OnlyOneOrder
<1> QED
  BY <1>4 DEF c

LEMMA DownLine ==
    ASSUME log \in Seq(Lines), ~up, NEW q, Ordered(log, WithStatus(log, "queued"), q)
    PROVE  AbstractLine = q
<1>1. AllAccepted(log, WithStatus(log, "queued"))
  BY WithStatusAccepted
<1>2. AbstractLine = CHOOSE p \in InAcceptOrder(log, WithStatus(log, "queued")) : TRUE
  BY DEF AbstractLine
<1>3. (CHOOSE p \in InAcceptOrder(log, WithStatus(log, "queued")) : TRUE) = q
  BY <1>1, ChosenOrder
<1> QED
  BY <1>2, <1>3

LEMMA DownLineNext ==
    ASSUME log' \in Seq(Lines), ~up', NEW q, Ordered(log', WithStatus(log', "queued"), q)
    PROVE  AbstractLine' = q
<1>1. AllAccepted(log', WithStatus(log', "queued"))
  BY WithStatusAccepted
<1>2. AbstractLine' = CHOOSE p \in InAcceptOrder(log', WithStatus(log', "queued")) : TRUE
  BY DEF AbstractLine
<1>3. (CHOOSE p \in InAcceptOrder(log', WithStatus(log', "queued")) : TRUE) = q
  BY <1>1, ChosenOrder
<1> QED
  BY <1>2, <1>3

LEMMA EnqueueAccepts ==
    ASSUME TypeOK, TypeOK', NEW id \in Ids, Enqueue(id)
    PROVE  Once!Accept(id)
<1>1. /\ up /\ up' /\ status[id] = "none"
      /\ status' = [status EXCEPT ![id] = "queued"] /\ pending' = Append(pending, id)
  BY DEF Enqueue
<1>2. /\ AbstractPhase = status /\ AbstractLine = pending
      /\ AbstractPhase' = status' /\ AbstractLine' = pending'
  BY <1>1, UpMap, UpMapNext
<1> QED
  BY <1>1, <1>2 DEF Once!Accept

LEMMA StartStarts ==
    ASSUME TypeInv, TypeOK', NEW id \in Ids, Start(id)
    PROVE  Once!Start
<1>1. /\ up /\ up' /\ status[id] = "queued" /\ running < StartLimit
      /\ pending # <<>> /\ id = Head(pending)
      /\ status' = [status EXCEPT ![id] = "running"] /\ pending' = Tail(pending)
  BY DEF Start, IsNext
<1>2. TypeOK /\ running = Cardinality(InFlight)
  BY DEF TypeInv, ThrottleCountsInFlight
<1>3. /\ AbstractPhase = status /\ AbstractLine = pending
      /\ AbstractPhase' = status' /\ AbstractLine' = pending'
  BY <1>1, <1>2, UpMap, UpMapNext
<1>4. Once!InFlight = InFlight
  BY <1>3 DEF Once!InFlight, InFlight
<1>5. Once!Cardinality(InFlight) = Cardinality(InFlight)
  BY Zenon DEF Once!Cardinality, Cardinality
<1> QED
  BY <1>1, <1>2, <1>3, <1>4, <1>5 DEF Once!Start

LEMMA EndFinishes ==
    ASSUME TypeOK, TypeOK', NEW id \in Ids, NEW op \in {"done", "failed"}, End(id, op)
    PROVE  Once!Finish(id)
<1>1. /\ up /\ up' /\ status[id] = "running"
      /\ status' = [status EXCEPT ![id] = op] /\ pending' = pending
  BY DEF End
<1>2. /\ AbstractPhase = status /\ AbstractLine = pending
      /\ AbstractPhase' = status' /\ AbstractLine' = pending'
  BY <1>1, UpMap, UpMapNext
<1> QED
  BY <1>1, <1>2 DEF Once!Finish

LEMMA StopStops ==
    ASSUME TypeInv, QueueInv, Crash \/ Close
    PROVE  \E lost \in SUBSET Ids : Once!Stop(lost)
<1>1. /\ ~up' /\ up /\ log \in Seq(Lines) /\ log' \in Seq(Lines)
      /\ \A id \in Ids :
             /\ AcceptsOf(log', id) = AcceptsOf(log, id)
             /\ \/ ReplayStatus(log', id) = ReplayStatus(log, id)
                \/ /\ ReplayStatus(log, id) \in {"done", "failed", "unknown"}
                   /\ ReplayStatus(log', id) = "running"
  BY StopReplayed
<1>2. /\ \A id \in Ids : status[id] = ReplayStatus(log, id)
      /\ Ordered(log, WithStatus(log, "queued"), pending)
  BY <1>1 DEF QueueInv, Replayed
<1>3. AbstractPhase = status /\ AbstractLine = pending
  BY <1>1, UpMap DEF TypeInv
<1>4. AbstractPhase' = [id \in Ids |-> IF ReplayStatus(log', id) = "running" THEN "unknown"
                                       ELSE ReplayStatus(log', id)]
  BY <1>1 DEF AbstractPhase
<1>5. AbstractLine' = pending
  <2>1. WithStatus(log', "queued") = WithStatus(log, "queued")
    BY <1>1 DEF WithStatus
  <2>2. \A x \in WithStatus(log, "queued") : AcceptsOf(log', x) = AcceptsOf(log, x)
    BY <1>1 DEF WithStatus
  <2>3. Ordered(log', WithStatus(log', "queued"), pending)
    BY <1>2, <2>1, <2>2, OrderKept
  <2> QED
    BY <1>1, <2>3, DownLineNext
<1> DEFINE lost == {id \in Ids : AbstractPhase'[id] = "unknown"}
<1>6. Once!InFlight \subseteq lost
  BY <1>1, <1>2, <1>3, <1>4 DEF Once!InFlight
<1>7. \A id \in lost : AbstractPhase[id] \in Once!Ended \cup {"running"}
  BY <1>1, <1>2, <1>3, <1>4 DEF Once!Ended
<1>8. AbstractPhase' = [id \in Ids |-> IF id \in lost THEN "unknown" ELSE AbstractPhase[id]]
  <2>1. ASSUME NEW id \in Ids
        PROVE  AbstractPhase'[id] = IF id \in lost THEN "unknown" ELSE AbstractPhase[id]
    BY <1>1, <1>2, <1>3, <1>4
  <2> QED
    BY <1>4, <2>1
<1>9. Once!Stop(lost)
  BY <1>3, <1>5, <1>6, <1>7, <1>8 DEF Once!Stop
<1> QED
  BY <1>9

LEMMA OpenShowsNothing ==
    ASSUME TypeInv, TypeOK', QueueInv, Open
    PROVE  UNCHANGED <<AbstractPhase, AbstractLine>>
<1>1. /\ up' /\ ~up /\ log \in Seq(Lines)
      /\ Ordered(log, WithStatus(log, "queued"), pending')
  BY OpenReplayed
<1>2. status' = [id \in Ids |-> IF ReplayStatus(log, id) = "running" THEN "unknown"
                                ELSE ReplayStatus(log, id)]
  BY DEF Open
<1>3. AbstractPhase' = status' /\ AbstractLine' = pending'
  BY <1>1, UpMapNext
<1>4. AbstractPhase = status'
  BY <1>1, <1>2 DEF AbstractPhase
<1>5. AbstractLine = pending'
  BY <1>1, DownLine
<1> QED
  BY <1>3, <1>4, <1>5

LEMMA OpenDiesShowsNothing ==
    ASSUME TypeInv, QueueInv, OpenDies
    PROVE  UNCHANGED <<AbstractPhase, AbstractLine>>
<1>1. /\ ~up' /\ ~up /\ log \in Seq(Lines)
      /\ \A id \in Ids :
             /\ AcceptsOf(log', id) = AcceptsOf(log, id)
             /\ \/ ReplayStatus(log', id) = ReplayStatus(log, id)
                \/ ReplayStatus(log', id) = "unknown" /\ ReplayStatus(log, id) = "running"
  BY OpenDiesReplayed
<1>2. AbstractPhase' = AbstractPhase
  BY <1>1 DEF AbstractPhase
<1>3. WithStatus(log', "queued") = WithStatus(log, "queued")
  BY <1>1 DEF WithStatus
<1>4. InAcceptOrder(log', WithStatus(log', "queued"))
          = InAcceptOrder(log, WithStatus(log, "queued"))
  <2> DEFINE W == WithStatus(log, "queued")
             n == Cardinality(W)
  <2>1. ASSUME NEW p \in [1..n -> W], NEW i \in 1..n
        PROVE  Min(AcceptsOf(log', p[i])) = Min(AcceptsOf(log, p[i]))
    <3>1. p[i] \in Ids
      BY DEF WithStatus
    <3> QED
      BY <1>1, <3>1
  <2>2. InAcceptOrder(log', W) = InAcceptOrder(log, W)
    <3> HIDE DEF W, n
    <3> QED
      BY <2>1 DEF InAcceptOrder, n
  <2> QED
    BY <1>3, <2>2
<1>5. AbstractLine' = AbstractLine
  <2>1. AbstractLine' = CHOOSE p \in InAcceptOrder(log', WithStatus(log', "queued")) : TRUE
    BY <1>1 DEF AbstractLine
  <2>2. AbstractLine = CHOOSE p \in InAcceptOrder(log, WithStatus(log, "queued")) : TRUE
    BY <1>1 DEF AbstractLine
  <2> QED
    BY <1>4, <2>1, <2>2
<1> QED
  BY <1>2, <1>5

LEMMA InitIsInit == ASSUME Init PROVE Once!Init
<1>1. log = <<>> /\ log \in Seq(Lines) /\ ~up
  BY DEF Init
<1>2. \A id \in Ids : ReplayStatus(log, id) = "none"
  <2>1. \A id \in Ids : AcceptsOf(log, id) = {}
    BY <1>1 DEF AcceptsOf
  <2> QED
    BY <2>1 DEF ReplayStatus
<1>3. AbstractPhase = [id \in Ids |-> "none"]
  BY <1>1, <1>2 DEF AbstractPhase
<1>4. AbstractLine = <<>>
  <2>1. WithStatus(log, "queued") = {}
    BY <1>2 DEF WithStatus
  <2>2. Ordered(log, {}, <<>>)
    BY DEF Ordered
  <2> QED
    BY <1>1, <2>1, <2>2, DownLine
<1> QED
  BY <1>3, <1>4 DEF Once!Init

LEMMA StepIsStep ==
    ASSUME MaxIoErrors = 0, TypeInv, TypeInv', QueueInv, [Next]_vars
    PROVE  [Once!Next]_Once!vars
<1>0. ioErrors \in 0..0 /\ TypeOK /\ TypeOK'
  BY DEF TypeInv, TypeOK
<1> DEFINE Same == UNCHANGED <<AbstractPhase, AbstractLine>>
<1>1. ASSUME NEW id \in Ids, EnqueueThrows(id) \/ StartThrows(id) \/ EndThrows(id) PROVE FALSE
  BY <1>0, <1>1 DEF EnqueueThrows, StartThrows, EndThrows, WriteThrows
<1>2. ASSUME UNCHANGED <<log, up, status, pending>> PROVE Same
  BY <1>2 DEF AbstractPhase, AbstractLine
<1>3. ASSUME NEW id \in Ids, EnqueueKnown(id) PROVE Same
  <2>1. UNCHANGED <<log, up, status, pending>>
    BY <1>3 DEF EnqueueKnown, file, memory
  <2> QED
    BY <1>2, <2>1
<1>4. ASSUME UNCHANGED vars PROVE Same
  <2>1. UNCHANGED <<log, up, status, pending>>
    BY <1>4 DEF vars, file, memory
  <2> QED
    BY <1>2, <2>1
<1>5. Open \/ OpenDies => Same
  BY <1>0, OpenShowsNothing, OpenDiesShowsNothing
<1>6. \A id \in Ids : Enqueue(id) => Once!Accept(id)
  BY <1>0, EnqueueAccepts
<1>7. \A id \in Ids : Start(id) => Once!Start
  BY <1>0, StartStarts
<1>8. \A id \in Ids, op \in {"done", "failed"} : End(id, op) => Once!Finish(id)
  BY <1>0, EndFinishes
<1>9. Crash \/ Close => \E lost \in SUBSET Ids : Once!Stop(lost)
  BY StopStops
<1>10. Once!Next \/ Same
  BY <1>1, <1>3, <1>4, <1>5, <1>6, <1>7, <1>8, <1>9 DEF Next, Once!Next
<1> QED
  BY <1>10 DEF Once!vars

(* The queue of queue.ts is the queue its header promises (module           *)
(* OnceQueue), on a disk where writes are whole and do not throw: under any  *)
(* sequence of kills, power cuts, clean stops and restarts each step is a    *)
(* step of the promise or invisible to it.                                  *)
THEOREM QueueKeepsItsPromise == ASSUME MaxShortWrites = 0, MaxIoErrors = 0
                                PROVE  Spec => ImplementsOnceQueue
<1>1. Init => Once!Init
  BY InitIsInit
<1>2. TypeInv /\ TypeInv' /\ QueueInv /\ [Next]_vars => [Once!Next]_Once!vars
  BY StepIsStep
<1> QED
  BY <1>1, <1>2, QueueInvHolds, PTL DEF Spec, ImplementsOnceQueue, Once!Spec
=============================================================================
