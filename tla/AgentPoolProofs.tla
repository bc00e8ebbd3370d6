--------------------------- MODULE AgentPoolProofs ---------------------------
(***************************************************************************)
(* A session is handed from turn to turn, an ended one stops, room is made *)
(* of idle sessions only, a redelivered message id has one turn, and no    *)
(* wake-up of the work queue is lost: proofs about AgentPool, for any      *)
(* number of sessions, calls, work items and channels, and any caps.       *)
(***************************************************************************)
EXTENDS AgentPool, WellFoundedInduction, FiniteSetTheorems, TLAPS

\* The least of a set of numbers is in it, below the others.
LEMMA MinOfNats ==
    ASSUME NEW S, S \subseteq Nat, S # {}
    PROVE  Min(S) \in S /\ \A y \in S : Min(S) <= y
<1> DEFINE Less == {ss \in Nat \X Nat : ss[1] < ss[2]}
<1>1. IsWellFoundedOn(Less, Nat)
  BY NatLessThanWellFounded DEF OpToRel
<1>2. PICK x \in S : \A y \in S : <<y, x>> \notin Less
  BY <1>1, WFMin
<1>3. \A y \in S : x <= y
  <2>1. SUFFICES ASSUME NEW y \in S PROVE ~ (y < x)
    OBVIOUS
  <2>2. <<y, x>> \in Nat \X Nat
    BY <2>1
  <2> QED
    BY <1>2, <2>2
<1> QED
  BY <1>3 DEF Min

-----------------------------------------------------------------------------

Types ==
    /\ live \in [Sessions -> 0..created] /\ created \in 0..MaxEntries
    /\ busy \in [Entries -> BOOLEAN] /\ stopped \in [Entries -> BOOLEAN]
    /\ queue \in [Entries -> Seq(Calls)]
    /\ call \in [Calls -> CallRecs]
    /\ line \in Seq(Items)

Holding == {"admitted", "running"}
Holds(c, e) == call[c].entry = e /\ call[c].phase \in Holding

(* The call has nothing to do with any entry's line.                       *)
Apart(c) == call[c].phase \notin Holding \cup {"waiting"}

OneHolder  == \A c, d \in Calls : \A e \in Entries : Holds(c, e) /\ Holds(d, e) => c = d
BusyIsHeld == \A e \in Entries : busy[e] <=> \E c \in Calls : Holds(c, e)

(* The line of an entry is its waiting calls, each once; it stands only    *)
(* behind a turn.                                                          *)
QueueWaits == \A e \in Entries : \A i \in 1..Len(queue[e]) :
                  call[queue[e][i]].phase = "waiting" /\ call[queue[e][i]].entry = e
QueueOnce  == \A e \in Entries : \A i, j \in 1..Len(queue[e]) :
                  queue[e][i] = queue[e][j] => i = j
WaitsQueue == \A c \in Calls : call[c].phase = "waiting" =>
                  \E i \in 1..Len(queue[call[c].entry]) : queue[call[c].entry][i] = c
QueueBusy  == \A e \in Entries : Len(queue[e]) > 0 => busy[e]
Entered    == \A c \in Calls : call[c].phase \in Holding \cup {"waiting"} =>
                  call[c].entry \in Entries

HandInv == /\ OneHolder /\ BusyIsHeld /\ QueueWaits /\ QueueOnce /\ WaitsQueue
           /\ QueueBusy /\ Entered

(* The items of the work queue's line were accepted and not started.       *)
LineInv == /\ \A i \in 1..Len(line) :
                  call[line[i]].phase = "line" /\ call[line[i]].session \in Sessions
           /\ \A i, j \in 1..Len(line) : line[i] = line[j] => i = j

Inv == Types /\ HandInv /\ LineInv

-----------------------------------------------------------------------------
(* What the actions do to the calls.                                       *)

LEMMA RecChange ==
    ASSUME NEW rec \in CallRecs, NEW p \in Phases
    PROVE  /\ [rec EXCEPT !.phase = p] \in CallRecs
           /\ [rec EXCEPT !.phase = p].phase = p
           /\ [rec EXCEPT !.phase = p].entry = rec.entry
           /\ [rec EXCEPT !.phase = p].session = rec.session
           /\ [rec EXCEPT !.phase = p].at = rec.at
  BY DEF CallRecs

LEMMA FinishedRec ==
    ASSUME NEW c, NEW rec \in CallRecs, NEW outcome \in Outcomes
    PROVE  /\ Finished(c, rec, outcome) \in CallRecs
           /\ Finished(c, rec, outcome).phase \in {"ended", "done"}
           /\ Finished(c, rec, outcome).entry = rec.entry
           /\ Finished(c, rec, outcome).session = rec.session
           /\ Finished(c, rec, outcome).at = rec.at
  BY DEF Finished, CallRecs, Phases

LEMMA HeadAndTail ==
    ASSUME NEW S, NEW s \in Seq(S), s # <<>>
    PROVE  /\ Len(s) \in Nat /\ Len(s) > 0 /\ 1 \in 1..Len(s)
           /\ Head(s) = s[1] /\ Head(s) \in S
           /\ Tail(s) \in Seq(S) /\ Len(Tail(s)) = Len(s) - 1
           /\ \A i \in 1..Len(Tail(s)) : i + 1 \in 1..Len(s) /\ Tail(s)[i] = s[i + 1]
OBVIOUS

LEMMA Appended ==
    ASSUME NEW S, NEW s \in Seq(S), NEW x \in S
    PROVE  /\ Append(s, x) \in Seq(S) /\ Len(Append(s, x)) = Len(s) + 1
           /\ \A i \in 1..Len(s) : Append(s, x)[i] = s[i]
           /\ Append(s, x)[Len(s) + 1] = x
OBVIOUS

(* A call that is apart stays so, and nothing else changes.                *)
LEMMA ApartStep ==
    ASSUME Types, HandInv, NEW c \in Calls, Apart(c), UNCHANGED <<busy, queue>>,
           call' \in [Calls -> CallRecs], \A d \in Calls \ {c} : call'[d] = call[d],
           Apart(c)'
    PROVE  HandInv'
<1> USE DEF Apart, Holds, Holding
<1>1. \A d \in Calls : call'[d].phase \in Holding \cup {"waiting"} => call'[d] = call[d]
  OBVIOUS
<1>2. \A d \in Calls : call[d].phase \in Holding \cup {"waiting"} => call'[d] = call[d]
  OBVIOUS
<1>3. OneHolder'
  BY <1>1 DEF HandInv, OneHolder
<1>4. BusyIsHeld'
  BY <1>1, <1>2 DEF HandInv, BusyIsHeld
<1>5. QueueWaits'
  <2>1. ASSUME NEW e \in Entries, NEW i \in 1..Len(queue[e])
        PROVE  call'[queue[e][i]].phase = "waiting" /\ call'[queue[e][i]].entry = e
    <3>1. queue[e][i] \in Calls
      BY DEF Types
    <3> QED
      BY <1>2, <3>1 DEF HandInv, QueueWaits
  <2> QED
    BY <2>1 DEF QueueWaits
<1>6. QueueOnce' /\ QueueBusy'
  BY DEF HandInv, QueueOnce, QueueBusy
<1>7. WaitsQueue'
  BY <1>1 DEF HandInv, WaitsQueue
<1>8. Entered'
  BY <1>1 DEF HandInv, Entered
<1> QED
  BY <1>3, <1>4, <1>5, <1>6, <1>7, <1>8 DEF HandInv

(* A call that was apart joins the end of a line behind a turn.            *)
LEMMA LineUpStep ==
    ASSUME Types, HandInv, NEW c \in Calls, Apart(c), NEW e \in Entries, busy[e],
           busy' = busy, queue' = [queue EXCEPT ![e] = Append(@, c)],
           call' \in [Calls -> CallRecs], \A d \in Calls \ {c} : call'[d] = call[d],
           call'[c].phase = "waiting", call'[c].entry = e
    PROVE  HandInv'
<1> USE DEF Apart, Holds, Holding
<1> DEFINE q == queue[e]
<1>1. /\ q \in Seq(Calls) /\ Len(q) \in Nat
      /\ queue'[e] = Append(q, c) /\ \A f \in Entries : f # e => queue'[f] = queue[f]
  BY DEF Types
<1>2. /\ Len(queue'[e]) = Len(q) + 1 /\ queue'[e][Len(q) + 1] = c
      /\ \A i \in 1..Len(q) : queue'[e][i] = q[i] /\ q[i] \in Calls
      /\ \A i \in 1..Len(queue'[e]) : i \in 1..Len(q) \/ i = Len(q) + 1
  BY <1>1
<1>3. \A f \in Entries : \A i \in 1..Len(queue[f]) : queue[f][i] \in Calls /\ queue[f][i] # c
  BY DEF Types, HandInv, QueueWaits
<1> HIDE DEF q
<1>4. OneHolder'
  BY DEF HandInv, OneHolder
<1>5. BusyIsHeld'
  <2>1. \A f \in Entries, d \in Calls : Holds(d, f)' <=> Holds(d, f)
    OBVIOUS
  <2> QED
    BY <2>1 DEF HandInv, BusyIsHeld
<1>6. QueueWaits'
  <2>1. ASSUME NEW f \in Entries, NEW i \in 1..Len(queue'[f])
        PROVE  call'[queue'[f][i]].phase = "waiting" /\ call'[queue'[f][i]].entry = f
    <3>1. CASE f = e /\ i = Len(q) + 1
      BY <1>2, <3>1
    <3>2. CASE f # e \/ i \in 1..Len(q)
      BY <1>1, <1>2, <1>3, <2>1, <3>2 DEF HandInv, QueueWaits, q
    <3> QED
      BY <1>2, <3>1, <3>2
  <2> QED
    BY <2>1 DEF QueueWaits
<1>7. QueueOnce'
  <2>1. ASSUME NEW f \in Entries, NEW i \in 1..Len(queue'[f]), NEW j \in 1..Len(queue'[f]),
               queue'[f][i] = queue'[f][j]
        PROVE  i = j
    <3>1. CASE f # e
      BY <1>1, <2>1, <3>1 DEF HandInv, QueueOnce
    <3>2. CASE f = e
      BY <1>2, <1>3, <2>1, <3>2 DEF HandInv, QueueOnce, q
    <3> QED
      BY <3>1, <3>2
  <2> QED
    BY <2>1 DEF QueueOnce
<1>8. WaitsQueue'
  <2>1. ASSUME NEW d \in Calls, call'[d].phase = "waiting"
        PROVE  \E i \in 1..Len(queue'[call'[d].entry]) : queue'[call'[d].entry][i] = d
    <3>1. CASE d = c
      BY <1>1, <1>2, <3>1
    <3>2. CASE d # c
      <4>1. /\ call'[d].entry = call[d].entry /\ call[d].entry \in Entries
            /\ \E i \in 1..Len(queue[call[d].entry]) : queue[call[d].entry][i] = d
        BY <2>1, <3>2 DEF HandInv, WaitsQueue, Entered
      <4> QED
        BY <1>1, <1>2, <4>1 DEF q
    <3> QED
      BY <3>1, <3>2
  <2> QED
    BY <2>1 DEF WaitsQueue
<1>9. QueueBusy'
  BY <1>1 DEF HandInv, QueueBusy
<1>10. Entered'
  BY DEF HandInv, Entered
<1> QED
  BY <1>4, <1>5, <1>6, <1>7, <1>8, <1>9, <1>10 DEF HandInv

(* A call that is apart, when nobody holds e, or the one that was handed   *)
(* it, holds e.                                                            *)
LEMMA TakeStep ==
    ASSUME Types, HandInv, NEW c \in Calls, NEW e \in Entries,
           (Apart(c) /\ ~busy[e]) \/ Holds(c, e),
           busy' = [busy EXCEPT ![e] = TRUE], queue' = queue,
           call' \in [Calls -> CallRecs], \A d \in Calls \ {c} : call'[d] = call[d],
           call'[c].phase = "running", call'[c].entry = e
    PROVE  HandInv'
<1> USE DEF Apart, Holds, Holding
<1>1. \A d \in Calls \ {c} : ~Holds(d, e)
  BY DEF HandInv, OneHolder, BusyIsHeld
<1>2. \A d \in Calls : \A f \in Entries : Holds(d, f)' => Holds(d, f) \/ (d = c /\ f = e)
  OBVIOUS
<1>3. \A d \in Calls : \A f \in Entries : Holds(d, f) => Holds(d, f)'
  OBVIOUS
<1>4. call[c].phase # "waiting" /\ \A d \in Calls : call'[d].phase = "waiting" => call'[d] = call[d]
  OBVIOUS
<1>5. \A d \in Calls : call[d].phase = "waiting" => call'[d] = call[d]
  BY <1>4
<1>6. busy'[e] = TRUE /\ \A f \in Entries : f # e => busy'[f] = busy[f]
  BY DEF Types
<1>7. Holds(c, e)' /\ \A f \in Entries : Holds(c, f) => f = e
  OBVIOUS
<1>8. OneHolder'
  BY <1>1, <1>2 DEF HandInv, OneHolder
<1>9. BusyIsHeld'
  <2>1. ASSUME NEW f \in Entries PROVE busy'[f] <=> \E d \in Calls : Holds(d, f)'
    <3>1. CASE f = e
      BY <1>6, <1>7, <3>1
    <3>2. CASE f # e
      BY <1>2, <1>3, <1>6, <3>2 DEF HandInv, BusyIsHeld
    <3> QED
      BY <3>1, <3>2
  <2> QED
    BY <2>1 DEF BusyIsHeld
<1>10. QueueWaits'
  <2>1. ASSUME NEW f \in Entries, NEW i \in 1..Len(queue[f])
        PROVE  call'[queue[f][i]].phase = "waiting" /\ call'[queue[f][i]].entry = f
    <3>1. queue[f][i] \in Calls
      BY DEF Types
    <3> QED
      BY <1>5, <3>1 DEF HandInv, QueueWaits
  <2> QED
    BY <2>1 DEF QueueWaits
<1>11. QueueOnce' /\ QueueBusy' /\ WaitsQueue' /\ Entered'
  <2>1. QueueBusy'
    BY <1>6 DEF HandInv, QueueBusy
  <2>2. WaitsQueue'
    BY <1>4 DEF HandInv, WaitsQueue
  <2>3. Entered'
    BY DEF HandInv, Entered
  <2> QED
    BY <2>1, <2>2, <2>3 DEF HandInv, QueueOnce
<1> QED
  BY <1>8, <1>9, <1>10, <1>11 DEF HandInv

(* Whoever is handed an entry stood first in its line.                     *)
Handed(c) ==
    \A d \in Calls \ {c} : \/ call'[d] = call[d]
                           \/ /\ call[d].phase = "waiting" /\ call'[d].phase = "admitted"
                              /\ call'[d].session = call[d].session
                              /\ call'[d].entry = call[d].entry /\ call'[d].at = call[d].at
                              /\ queue[call[d].entry] # <<>> /\ d = Head(queue[call[d].entry])

Kept(f)     == queue'[f] = queue[f]
Headless(f) == queue[f] # <<>> /\ queue'[f] = Tail(queue[f])

(* The call that held e, or one apart that found it idle, lets it go: to   *)
(* the first in line, or to nobody.                                        *)
LEMMA ReleaseStep ==
    ASSUME Types, HandInv, NEW c \in Calls, NEW e \in Entries,
           (Apart(c) /\ ~busy[e]) \/ Holds(c, e),
           NEW calls \in [Calls -> CallRecs], \A d \in Calls \ {c} : calls[d] = call[d],
           calls[c].phase \in {"ended", "done"}, Release(e, calls)
    PROVE  /\ HandInv' /\ call' \in [Calls -> CallRecs]
           /\ busy' \in [Entries -> BOOLEAN] /\ queue' \in [Entries -> Seq(Calls)]
           /\ call'[c].phase \in {"ended", "done"} /\ call'[c].at = calls[c].at
           /\ Handed(c) /\ \A f \in Entries : Kept(f) \/ Headless(f)
<1> USE DEF Apart, Holds, Holding
<1>1. \A d \in Calls \ {c} : ~Holds(d, e)
  BY DEF HandInv, OneHolder, BusyIsHeld
<1>2. \A f \in Entries : Holds(c, f) => f = e
  OBVIOUS
<1>3. /\ queue[e] \in Seq(Calls) /\ \A f \in Entries : f # e => queue'[f] = queue[f]
      /\ \A f \in Entries : f # e => busy'[f] = busy[f]
      /\ busy'[e] = (queue[e] # <<>>)
      /\ queue'[e] = (IF queue[e] = <<>> THEN <<>> ELSE Tail(queue[e]))
  BY DEF Types, Release
<1>4. busy' \in [Entries -> BOOLEAN]
  BY DEF Types, Release
<1>5. \A f \in Entries : \A i \in 1..Len(queue[f]) :
          /\ queue[f][i] \in Calls /\ queue[f][i] # c /\ call[queue[f][i]].entry = f
          /\ calls[queue[f][i]] = call[queue[f][i]] /\ call[queue[f][i]].phase = "waiting"
  BY DEF Types, HandInv, QueueWaits
<1>6. CASE queue[e] = <<>>
  <2>1. call' = calls /\ queue'[e] = queue[e]
    BY <1>3, <1>6 DEF Release
  <2>2. queue' = queue
    BY <1>3, <1>6 DEF Types, Release
  <2>3. \A d \in Calls : \A f \in Entries : Holds(d, f)' => Holds(d, f) /\ d # c
    BY <2>1
  <2>4. OneHolder'
    BY <2>3 DEF HandInv, OneHolder
  <2>5. BusyIsHeld'
    <3>1. ASSUME NEW f \in Entries PROVE busy'[f] <=> \E d \in Calls : Holds(d, f)'
      <4>1. CASE f = e
        BY <1>1, <1>3, <1>6, <2>3, <4>1
      <4>2. CASE f # e
        <5>1. \A d \in Calls : Holds(d, f) => Holds(d, f)'
          BY <1>2, <2>1, <4>2
        <5> QED
          BY <1>3, <2>3, <4>2, <5>1 DEF HandInv, BusyIsHeld
      <4> QED
        BY <4>1, <4>2
    <3> QED
      BY <3>1 DEF BusyIsHeld
  <2>6. QueueWaits'
    BY <1>5, <2>1, <2>2 DEF QueueWaits
  <2>7. QueueOnce'
    BY <2>2 DEF HandInv, QueueOnce
  <2>8. QueueBusy'
    <3>1. Len(queue[e]) = 0
      BY <1>6
    <3> QED
      BY <1>3, <2>2, <3>1 DEF HandInv, QueueBusy
  <2>9. WaitsQueue' /\ Entered'
    BY <2>1, <2>2 DEF HandInv, WaitsQueue, Entered
  <2> QED
    BY <1>4, <2>1, <2>2, <2>4, <2>5, <2>6, <2>7, <2>8, <2>9 DEF HandInv, Types, Handed, Kept
<1>7. CASE queue[e] # <<>>
  <2> DEFINE q == queue[e]
             next == Head(q)
  <2>1. /\ Len(q) \in Nat /\ Len(q) > 0 /\ 1 \in 1..Len(q) /\ next = q[1] /\ next \in Calls
        /\ queue'[e] = Tail(q) /\ queue'[e] \in Seq(Calls) /\ Len(queue'[e]) = Len(q) - 1
        /\ \A i \in 1..Len(queue'[e]) : i + 1 \in 1..Len(q) /\ queue'[e][i] = q[i + 1]
    BY <1>3, <1>7, HeadAndTail
  <2>2. busy[e]
    BY <2>1 DEF HandInv, QueueBusy
  <2>3. Holds(c, e)
    BY <2>2
  <2>4. next # c /\ call[next].phase = "waiting" /\ call[next].entry = e /\ calls[next] = call[next]
    BY <1>5, <2>1
  <2>5. call' = [calls EXCEPT ![next] = [calls[next] EXCEPT !.phase = "admitted"]]
    BY <1>7 DEF Release
  <2>6. /\ call'[next] \in CallRecs /\ call'[next].phase = "admitted" /\ call'[next].entry = e
        /\ call'[next].session = call[next].session
        /\ \A d \in Calls \ {next} : call'[d] = calls[d]
    <3>1. call[next] \in CallRecs /\ "admitted" \in Phases
      BY <2>1 DEF Types, Phases
    <3> QED
      BY <2>1, <2>4, <2>5, <3>1, RecChange
  <2>7. call' \in [Calls -> CallRecs]
    <3>1. call' \in [Calls -> CallRecs] <=> call'[next] \in CallRecs
      BY <2>1, <2>5
    <3> QED
      BY <2>6, <3>1
  <2>8. queue' \in [Entries -> Seq(Calls)]
    BY <2>1, <1>7 DEF Types, Release
  <2>9. \A d \in Calls \ {c, next} : call'[d] = call[d]
    BY <2>6
  <2>10. call'[c].phase \in {"ended", "done"}
    BY <2>4, <2>6
  <2> HIDE DEF q, next
  <2>11. \A d \in Calls : \A f \in Entries :
             Holds(d, f)' <=> (d = next /\ f = e) \/ (Holds(d, f) /\ d # c)
    BY <2>1, <2>4, <2>6, <2>9, <2>10
  <2>12. OneHolder'
    BY <1>1, <2>11, <2>1 DEF HandInv, OneHolder
  <2>13. BusyIsHeld'
    <3>1. ASSUME NEW f \in Entries PROVE busy'[f] <=> \E d \in Calls : Holds(d, f)'
      <4>1. CASE f = e
        <5>1. busy'[e]
          BY <1>3, <1>7
        <5>2. call'[next].entry = e /\ call'[next].phase \in Holding
          BY <2>6
        <5> QED
          BY <2>1, <4>1, <5>1, <5>2
      <4>2. CASE f # e
        <5>1. \A d \in Calls : Holds(d, f)' <=> Holds(d, f)
          BY <1>2, <2>11, <4>2
        <5>2. busy'[f] = busy[f]
          BY <1>3, <4>2
        <5> QED
          BY <5>1, <5>2 DEF HandInv, BusyIsHeld
      <4> QED
        BY <4>1, <4>2
    <3> QED
      BY <3>1 DEF BusyIsHeld
  <2>14. \A i \in 1..Len(q) : q[i] = next => i = 1
    BY <2>1 DEF HandInv, QueueOnce, q
  <2>15. QueueWaits'
    <3>1. ASSUME NEW f \in Entries, NEW i \in 1..Len(queue'[f])
          PROVE  call'[queue'[f][i]].phase = "waiting" /\ call'[queue'[f][i]].entry = f
      <4>1. CASE f = e
        <5>1. i + 1 \in 1..Len(q) /\ queue'[f][i] = q[i + 1] /\ i \in Nat /\ i >= 1
          BY <2>1, <3>1, <4>1
        <5>2. q[i + 1] # next /\ q[i + 1] # c /\ q[i + 1] \in Calls
          BY <1>5, <2>14, <5>1 DEF q
        <5> QED
          BY <1>5, <2>9, <4>1, <5>1, <5>2 DEF q
      <4>2. CASE f # e
        <5>1. queue'[f] = queue[f]
          BY <1>3, <4>2
        <5>2. queue[f][i] \in Calls \ {c} /\ call[queue[f][i]].entry = f
          BY <1>5, <3>1, <5>1
        <5>3. queue[f][i] # next
          BY <2>4, <4>2, <5>2
        <5> QED
          BY <1>5, <2>9, <3>1, <5>1, <5>2, <5>3
      <4> QED
        BY <4>1, <4>2
    <3> QED
      BY <3>1 DEF QueueWaits
  <2>16. QueueOnce'
    <3>1. ASSUME NEW f \in Entries, NEW i \in 1..Len(queue'[f]), NEW j \in 1..Len(queue'[f]),
                 queue'[f][i] = queue'[f][j]
          PROVE  i = j
      <4>1. CASE f = e
        <5>1. i + 1 \in 1..Len(q) /\ j + 1 \in 1..Len(q) /\ q[i + 1] = q[j + 1]
          BY <2>1, <3>1, <4>1
        <5>2. i + 1 = j + 1
          BY <5>1 DEF HandInv, QueueOnce, q
        <5> QED
          BY <5>2
      <4>2. CASE f # e
        BY <1>3, <3>1, <4>2 DEF HandInv, QueueOnce
      <4> QED
        BY <4>1, <4>2
    <3> QED
      BY <3>1 DEF QueueOnce
  <2>17. QueueBusy'
    BY <1>3, <1>7 DEF HandInv, QueueBusy
  <2>18. WaitsQueue'
    <3>1. ASSUME NEW d \in Calls, call'[d].phase = "waiting"
          PROVE  \E i \in 1..Len(queue'[call'[d].entry]) : queue'[call'[d].entry][i] = d
      <4>1. d # next /\ d # c /\ call'[d] = call[d]
        BY <2>6, <2>9, <2>10, <3>1
      <4>2. /\ call[d].entry \in Entries
            /\ \E i \in 1..Len(queue[call[d].entry]) : queue[call[d].entry][i] = d
        BY <3>1, <4>1 DEF HandInv, WaitsQueue, Entered
      <4>3. CASE call[d].entry = e
        <5>1. PICK i \in 1..Len(q) : q[i] = d
          BY <4>2, <4>3 DEF q
        <5>2. i # 1
          BY <2>1, <4>1, <5>1
        <5>3. i - 1 \in 1..Len(queue'[e])
          BY <2>1, <5>2
        <5>4. queue'[e][i - 1] = q[(i - 1) + 1]
          BY <2>1, <5>3
        <5>5. (i - 1) + 1 = i
          OBVIOUS
        <5> QED
          BY <4>1, <4>3, <5>1, <5>3, <5>4, <5>5
      <4>4. CASE call[d].entry # e
        BY <1>3, <4>1, <4>2, <4>4
      <4> QED
        BY <4>3, <4>4
    <3> QED
      BY <3>1 DEF WaitsQueue
  <2>19. Entered'
    BY <2>4, <2>6, <2>9, <2>10 DEF HandInv, Entered
  <2>20. HandInv'
    BY <2>12, <2>13, <2>15, <2>16, <2>17, <2>18, <2>19 DEF HandInv
  <2>21. \A f \in Entries : Kept(f) \/ Headless(f)
    BY <1>3, <1>7 DEF Kept, Headless
  <2>22. Handed(c)
    <3>1. call'[next].at = call[next].at
      BY <2>1, <2>4, <2>5, RecChange DEF Types, Phases
    <3>2. queue[e] # <<>> /\ next = Head(queue[e])
      BY <1>7 DEF next, q
    <3> QED
      BY <2>4, <2>6, <2>9, <3>1, <3>2 DEF Handed
  <2>23. call'[c].at = calls[c].at
    BY <2>4, <2>6
  <2> QED
    BY <1>4, <2>7, <2>8, <2>10, <2>20, <2>21, <2>22, <2>23
<1> QED
  BY <1>6, <1>7

(* Every waiter of e is told no.                                           *)
LEMMA RefuseStep ==
    ASSUME Types, HandInv, NEW e \in Entries, RefuseWaiters(e), busy' = busy
    PROVE  /\ HandInv' /\ call' \in [Calls -> CallRecs] /\ queue' \in [Entries -> Seq(Calls)]
           /\ \A c \in Calls :
                  \/ call'[c] = call[c] /\ ~(call[c].phase = "waiting" /\ call[c].entry = e)
                  \/ /\ call[c].phase = "waiting" /\ call'[c].phase \in {"ended", "done"}
                     /\ call'[c].at = call[c].at
           /\ \A f \in Entries : Kept(f) \/ queue'[f] = <<>>
<1> USE DEF Holds, Holding
<1> DEFINE told == ToSet(queue[e])
<1>1. told = {queue[e][i] : i \in 1..Len(queue[e])}
  BY DEF Types, ToSet
<1>2. \A c \in told : c \in Calls /\ call[c].phase = "waiting" /\ call[c].entry = e
  BY <1>1 DEF Types, HandInv, QueueWaits
<1>3. \A c \in Calls : call[c].phase = "waiting" /\ call[c].entry = e => c \in told
  BY <1>1 DEF HandInv, WaitsQueue
<1>4. /\ call' = [c \in Calls |-> IF c \in told THEN Finished(c, call[c], "refused") ELSE call[c]]
      /\ queue' = [queue EXCEPT ![e] = <<>>]
  BY DEF RefuseWaiters
<1> HIDE DEF told
<1>5. \A c \in told : /\ call'[c] \in CallRecs /\ call'[c].phase \in {"ended", "done"}
                      /\ call'[c].at = call[c].at
  <2>1. "refused" \in Outcomes
    BY DEF Outcomes
  <2> QED
    BY <1>2, <1>4, <2>1, FinishedRec DEF Types
<1>6. \A c \in Calls \ told : call'[c] = call[c]
  BY <1>4
<1>7. call' \in [Calls -> CallRecs]
  BY <1>4, <1>5, <1>6 DEF Types
<1>8. /\ queue' \in [Entries -> Seq(Calls)] /\ Len(queue'[e]) = 0
      /\ \A f \in Entries : f # e => queue'[f] = queue[f]
  BY <1>4 DEF Types
<1>9. \A c \in Calls : \A f \in Entries : Holds(c, f)' <=> Holds(c, f)
  BY <1>2, <1>5, <1>6
<1>10. OneHolder' /\ BusyIsHeld'
  BY <1>9 DEF HandInv, OneHolder, BusyIsHeld
<1>11. QueueWaits'
  <2>1. ASSUME NEW f \in Entries, NEW i \in 1..Len(queue'[f])
        PROVE  call'[queue'[f][i]].phase = "waiting" /\ call'[queue'[f][i]].entry = f
    <3>1. f # e /\ queue'[f] = queue[f]
      BY <1>8
    <3>2. queue[f][i] \in Calls /\ call[queue[f][i]].entry = f /\ call[queue[f][i]].phase = "waiting"
      BY <3>1 DEF Types, HandInv, QueueWaits
    <3>3. queue[f][i] \notin told
      BY <1>2, <3>1, <3>2
    <3> QED
      BY <1>6, <3>1, <3>2, <3>3
  <2> QED
    BY <2>1 DEF QueueWaits
<1>12. QueueOnce'
  <2>1. ASSUME NEW f \in Entries, NEW i \in 1..Len(queue'[f]), NEW j \in 1..Len(queue'[f]),
               queue'[f][i] = queue'[f][j]
        PROVE  i = j
    <3>1. f # e /\ queue'[f] = queue[f]
      BY <1>8
    <3> QED
      BY <2>1, <3>1 DEF HandInv, QueueOnce
  <2> QED
    BY <2>1 DEF QueueOnce
<1>13. QueueBusy'
  BY <1>8 DEF HandInv, QueueBusy
<1>14. WaitsQueue'
  <2>1. ASSUME NEW c \in Calls, call'[c].phase = "waiting"
        PROVE  \E i \in 1..Len(queue'[call'[c].entry]) : queue'[call'[c].entry][i] = c
    <3>1. c \notin told /\ call'[c] = call[c]
      BY <1>5, <1>6, <2>1
    <3>2. call[c].entry \in Entries /\ call[c].entry # e
      BY <1>3, <2>1, <3>1 DEF HandInv, Entered
    <3> QED
      BY <1>8, <2>1, <3>1, <3>2 DEF HandInv, WaitsQueue
  <2> QED
    BY <2>1 DEF WaitsQueue
<1>15. Entered'
  BY <1>2, <1>5, <1>6 DEF HandInv, Entered
<1>16. ASSUME NEW c \in Calls
       PROVE  \/ call'[c] = call[c] /\ ~(call[c].phase = "waiting" /\ call[c].entry = e)
              \/ /\ call[c].phase = "waiting" /\ call'[c].phase \in {"ended", "done"}
                 /\ call'[c].at = call[c].at
  BY <1>2, <1>3, <1>5, <1>6
<1>17. \A f \in Entries : Kept(f) \/ queue'[f] = <<>>
  BY <1>4, <1>8 DEF Kept, Types
<1> QED
  BY <1>7, <1>8, <1>10, <1>11, <1>12, <1>13, <1>14, <1>15, <1>16, <1>17 DEF HandInv

-----------------------------------------------------------------------------
(* What becomes of a call c of session s that chat() takes up for e.       *)

Joined(c, e) ==
    busy[e] /\ call'[c].phase = "waiting" /\ queue'[e] = Append(queue[e], c)

TakenUp(c, e, rec) ==
    /\ call' \in [Calls -> CallRecs]
    /\ busy' \in [Entries -> BOOLEAN] /\ stopped' \in [Entries -> BOOLEAN]
    /\ queue' \in [Entries -> Seq(Calls)]
    /\ Handed(c) /\ call'[c].at = rec.at
    /\ \A f \in Entries : Kept(f) \/ Headless(f) \/ (f = e /\ Joined(c, e))
    /\ \/ call'[c].phase \in {"ended", "done"} /\ stopped' = stopped
       \/ call'[c].phase = "gate" /\ stopped' = stopped
       \/ /\ call'[c].phase = "waiting" /\ call'[c].entry = e /\ call'[c].session = rec.session
          /\ busy[e] /\ stopped' = stopped
       \/ /\ call'[c].phase = "running" /\ call'[c].entry = e /\ call'[c].session = rec.session
          /\ stopped' = [stopped EXCEPT ![e] = FALSE]

LEMMA BeginStep ==
    ASSUME Types, HandInv, NEW c \in Calls, NEW e \in Entries, NEW rec \in CallRecs,
           rec.entry = e, (Apart(c) /\ ~busy[e]) \/ Holds(c, e), NEW ids, Begin(c, e, rec, ids)
    PROVE  HandInv' /\ TakenUp(c, e, rec) /\ call'[c].phase # "waiting"
<1>1. CASE /\ busy' = [busy EXCEPT ![e] = TRUE] /\ stopped' = [stopped EXCEPT ![e] = FALSE]
           /\ call' = [call EXCEPT ![c] = [rec EXCEPT !.phase = "running"]] /\ queue' = queue
  <2> DEFINE new == [rec EXCEPT !.phase = "running"]
  <2>1. "running" \in Phases
    BY DEF Phases
  <2>2. /\ new \in CallRecs /\ new.phase = "running" /\ new.entry = e
        /\ new.session = rec.session /\ new.at = rec.at
    BY <2>1, RecChange
  <2>3. call' = [call EXCEPT ![c] = new]
    BY <1>1
  <2> HIDE DEF new
  <2>4. call' \in [Calls -> CallRecs] /\ call'[c] = new /\ \A d \in Calls \ {c} : call'[d] = call[d]
    BY <2>2, <2>3 DEF Types
  <2>5. HandInv'
    BY <1>1, <2>2, <2>4, TakeStep
  <2>6. busy' \in [Entries -> BOOLEAN] /\ stopped' \in [Entries -> BOOLEAN]
    BY <1>1 DEF Types
  <2>7. Handed(c) /\ call'[c].at = rec.at /\ \A f \in Entries : Kept(f)
    BY <1>1, <2>2, <2>4 DEF Handed, Kept
  <2> QED
    BY <1>1, <2>2, <2>4, <2>5, <2>6, <2>7 DEF TakenUp, Types
<1>2. CASE /\ Release(e, [call EXCEPT ![c] = Finished(c, rec, "refused")])
           /\ stopped' = stopped
  <2> DEFINE calls == [call EXCEPT ![c] = Finished(c, rec, "refused")]
  <2>1. "refused" \in Outcomes
    BY DEF Outcomes
  <2>2. Finished(c, rec, "refused") \in CallRecs
        /\ Finished(c, rec, "refused").phase \in {"ended", "done"}
        /\ Finished(c, rec, "refused").at = rec.at
    BY <2>1, FinishedRec
  <2>3. /\ calls \in [Calls -> CallRecs] /\ calls[c].phase \in {"ended", "done"}
        /\ calls[c].at = rec.at
        /\ \A d \in Calls \ {c} : calls[d] = call[d]
    BY <2>2 DEF Types
  <2>4. Release(e, calls)
    BY <1>2
  <2> HIDE DEF calls
  <2> QED
    BY <1>2, <2>3, <2>4, ReleaseStep DEF TakenUp, Types
<1> QED
  BY <1>1, <1>2 DEF Begin

LEMMA AdmitStep ==
    ASSUME Types, HandInv, NEW c \in Calls, Apart(c), NEW e \in Entries, NEW rec \in CallRecs,
           rec.entry = e, Admit(c, e, rec)
    PROVE  HandInv' /\ TakenUp(c, e, rec)
<1>1. ASSUME NEW outcome \in Outcomes, UNCHANGED entries,
             call' = [call EXCEPT ![c] = Finished(c, rec, outcome)]
      PROVE  HandInv' /\ TakenUp(c, e, rec)
  <2>1. Finished(c, rec, outcome) \in CallRecs
        /\ Finished(c, rec, outcome).phase \in {"ended", "done"}
        /\ Finished(c, rec, outcome).at = rec.at
    BY FinishedRec
  <2>2. /\ call' \in [Calls -> CallRecs] /\ call'[c].phase \in {"ended", "done"}
        /\ call'[c].at = rec.at /\ \A d \in Calls \ {c} : call'[d] = call[d]
    BY <1>1, <2>1 DEF Types
  <2>3. busy' = busy /\ queue' = queue /\ stopped' = stopped
    BY <1>1 DEF entries
  <2>4. Apart(c)'
    BY <2>2 DEF Apart, Holding
  <2>5. HandInv'
    BY <2>2, <2>3, <2>4, ApartStep
  <2> QED
    BY <2>2, <2>3, <2>5 DEF TakenUp, Handed, Kept, Types
<1>2. CASE Redelivered(e, rec.id) /\ UNCHANGED entries
           /\ call' = [call EXCEPT ![c] = Finished(c, rec, "duplicate")]
  BY <1>1, <1>2 DEF Outcomes
<1>3. CASE call' = [call EXCEPT ![c] = Finished(c, rec, "refused")] /\ UNCHANGED entries
  BY <1>1, <1>3 DEF Outcomes
<1>4. CASE /\ busy[e] /\ queue' = [queue EXCEPT ![e] = Append(@, c)]
           /\ call' = [call EXCEPT ![c] = [rec EXCEPT !.phase = "waiting"]]
           /\ busy' = busy /\ stopped' = stopped
  <2> DEFINE new == [rec EXCEPT !.phase = "waiting"]
  <2>1. "waiting" \in Phases
    BY DEF Phases
  <2>2. /\ new \in CallRecs /\ new.phase = "waiting" /\ new.entry = e
        /\ new.session = rec.session /\ new.at = rec.at
    BY <2>1, RecChange
  <2>3. call' = [call EXCEPT ![c] = new]
    BY <1>4
  <2> HIDE DEF new
  <2>4. call' \in [Calls -> CallRecs] /\ call'[c] = new /\ \A d \in Calls \ {c} : call'[d] = call[d]
    BY <2>2, <2>3 DEF Types
  <2>5. HandInv'
    BY <1>4, <2>2, <2>4, LineUpStep
  <2>6. queue' \in [Entries -> Seq(Calls)]
    BY <1>4 DEF Types
  <2>7. Handed(c) /\ call'[c].at = rec.at
    BY <2>2, <2>4 DEF Handed
  <2>8. \A f \in Entries : Kept(f) \/ (f = e /\ Joined(c, e))
    BY <1>4, <2>2, <2>4 DEF Kept, Joined, Types
  <2> QED
    BY <1>4, <2>2, <2>4, <2>5, <2>6, <2>7, <2>8 DEF TakenUp, Types
<1>5. CASE ~busy[e] /\ Begin(c, e, rec, Remember(seen[e], rec.id))
  BY <1>5, BeginStep
<1> QED
  BY <1>2, <1>3, <1>4, <1>5 DEF Admit, entries

LEMMA ChatStep ==
    ASSUME Types, HandInv, NEW c \in Calls, Apart(c), NEW e \in Entries, NEW rec \in CallRecs,
           rec.entry = e, Chat(c, e, rec)
    PROVE  HandInv' /\ TakenUp(c, e, rec)
<1>1. CASE /\ call' = [call EXCEPT ![c] = [rec EXCEPT !.phase = "gate"]]
           /\ UNCHANGED entries
  <2> DEFINE new == [rec EXCEPT !.phase = "gate"]
  <2>1. "gate" \in Phases
    BY DEF Phases
  <2>2. new \in CallRecs /\ new.phase = "gate" /\ new.entry = e /\ new.at = rec.at
    BY <2>1, RecChange
  <2>3. call' = [call EXCEPT ![c] = new]
    BY <1>1
  <2> HIDE DEF new
  <2>4. call' \in [Calls -> CallRecs] /\ call'[c] = new /\ \A d \in Calls \ {c} : call'[d] = call[d]
    BY <2>2, <2>3 DEF Types
  <2>5. Apart(c)'
    BY <2>2, <2>4 DEF Apart, Holding
  <2>6. busy' = busy /\ queue' = queue /\ stopped' = stopped
    BY <1>1 DEF entries
  <2>7. HandInv'
    BY <2>2, <2>4, <2>5, <2>6, ApartStep
  <2> QED
    BY <1>1, <2>2, <2>4, <2>6, <2>7 DEF TakenUp, Handed, Kept, Types
<1> QED
  BY <1>1, AdmitStep DEF Chat

-----------------------------------------------------------------------------
(* Ended sessions: whoever waits for a session, or is handed it, waits for *)
(* a live one; a turn of an ended session was told to stop.                *)

AliveInv ==
    \A c \in Calls :
        /\ call[c].phase \in {"waiting", "admitted", "running"} => call[c].session \in Sessions
        /\ call[c].phase \in {"waiting", "admitted"} => live[call[c].session] = call[c].entry
        /\ call[c].phase = "running" =>
               live[call[c].session] = call[c].entry \/ stopped[call[c].entry]

LEMMA TakenUpAlive ==
    ASSUME Types, HandInv, AliveInv, HandInv', NEW c \in Calls, NEW e \in Entries,
           NEW rec, TakenUp(c, e, rec),
           call'[c].phase \in {"waiting", "running"} =>
               rec.session \in Sessions /\ live'[rec.session] = e,
           \A t \in Sessions : live[t] # 0 => live'[t] = live[t]
    PROVE  AliveInv'
<1>1. ASSUME NEW d \in Calls
      PROVE  /\ call'[d].phase \in {"waiting", "admitted", "running"} =>
                    call'[d].session \in Sessions
             /\ call'[d].phase \in {"waiting", "admitted"} =>
                    live'[call'[d].session] = call'[d].entry
             /\ call'[d].phase = "running" =>
                    live'[call'[d].session] = call'[d].entry \/ stopped'[call'[d].entry]
  <2>1. CASE d = c
    BY <2>1 DEF TakenUp
  <2>2. CASE d # c
    <3>1. CASE /\ call[d].phase = "waiting" /\ call'[d].phase = "admitted"
               /\ call'[d].session = call[d].session /\ call'[d].entry = call[d].entry
      <4>1. call[d].session \in Sessions /\ live[call[d].session] = call[d].entry
            /\ call[d].entry \in Entries
        BY <3>1 DEF AliveInv, HandInv, Entered
      <4>2. call[d].entry # 0
        BY <4>1 DEF Entries
      <4> QED
        BY <3>1, <4>1, <4>2
    <3>2. CASE call'[d] = call[d]
      <4>1. CASE call[d].phase \in {"waiting", "admitted", "running"}
        <5>1. call[d].session \in Sessions /\ call[d].entry \in Entries /\ call[d].entry # 0
          BY <4>1 DEF AliveInv, HandInv, Entered, Holding, Entries
        <5>2. live[call[d].session] = call[d].entry => live'[call[d].session] = call[d].entry
          BY <5>1
        <5>3. CASE stopped' = stopped
          BY <3>2, <4>1, <5>1, <5>2, <5>3 DEF AliveInv
        <5>4. CASE /\ call'[c].phase = "running" /\ call'[c].entry = e
                   /\ stopped' = [stopped EXCEPT ![e] = FALSE]
          <6>1. call[d].phase = "running" => call[d].entry # e
            BY <2>2, <3>2, <5>4 DEF HandInv, OneHolder, Holds, Holding
          <6>2. call[d].entry # e => stopped'[call[d].entry] = stopped[call[d].entry]
            BY <5>1, <5>4 DEF Types
          <6> QED
            BY <3>2, <4>1, <5>1, <5>2, <6>1, <6>2 DEF AliveInv
        <5> QED
          BY <5>3, <5>4 DEF TakenUp
      <4>2. CASE call[d].phase \notin {"waiting", "admitted", "running"}
        BY <3>2, <4>2 DEF AliveInv
      <4> QED
        BY <4>1, <4>2
    <3> QED
      BY <2>2, <3>1, <3>2 DEF TakenUp, Handed
  <2> QED
    BY <2>1, <2>2
<1> QED
  BY <1>1 DEF AliveInv

(* Only sessions with no turn go; calls that are taken up stay as they are. *)
LEMMA EvictedAlive ==
    ASSUME Types, HandInv, AliveInv, UNCHANGED stopped,
           \A d \in Calls : call'[d].phase \in {"waiting", "admitted", "running"} =>
                                call'[d] = call[d],
           \A t \in Sessions : live[t] # 0 /\ busy[live[t]] => live'[t] = live[t]
    PROVE  AliveInv'
<1>1. ASSUME NEW d \in Calls, call'[d].phase \in {"waiting", "admitted", "running"}
      PROVE  /\ call'[d].session \in Sessions
             /\ call'[d].phase \in {"waiting", "admitted"} =>
                    live'[call'[d].session] = call'[d].entry
             /\ call'[d].phase = "running" =>
                    live'[call'[d].session] = call'[d].entry \/ stopped'[call'[d].entry]
  <2>1. /\ call'[d] = call[d] /\ call[d].session \in Sessions
        /\ call[d].entry \in Entries /\ call[d].entry # 0
    BY <1>1 DEF AliveInv, HandInv, Entered, Holding, Entries
  <2>2. busy[call[d].entry]
    <3>1. CASE call[d].phase = "waiting"
      <4>1. PICK i \in 1..Len(queue[call[d].entry]) : queue[call[d].entry][i] = d
        BY <3>1 DEF HandInv, WaitsQueue
      <4>2. Len(queue[call[d].entry]) \in Nat
        BY <2>1 DEF Types
      <4>3. Len(queue[call[d].entry]) > 0
        BY <4>1, <4>2
      <4> QED
        BY <2>1, <4>3 DEF HandInv, QueueBusy
    <3>2. CASE call[d].phase \in Holding
      BY <2>1, <3>2 DEF HandInv, BusyIsHeld, Holds
    <3> QED
      BY <1>1, <2>1, <3>1, <3>2 DEF Holding
  <2>3. live[call[d].session] = call[d].entry => live'[call[d].session] = call[d].entry
    BY <2>1, <2>2
  <2> QED
    BY <1>1, <2>1, <2>3 DEF AliveInv
<1> QED
  BY <1>1 DEF AliveInv

-----------------------------------------------------------------------------
(* The order of a line is the order in which its calls were made.          *)

LEMMA Constants ==
    /\ MaxEntries \in Nat /\ IsFiniteSet(Sessions) /\ IsFiniteSet(Calls) /\ Items \subseteq Calls
  BY SessionsAssumption, LimitsAssumption

LEMMA ArrivalsType == Arrivals \in Nat /\ Arrivals' \in Nat
  BY Constants, FS_Subset, FS_CardinalityType DEF Arrivals

Sorted   == \A e \in Entries : \A i, j \in 1..Len(queue[e]) :
                i <= j => call[queue[e][i]].at <= call[queue[e][j]].at
AtBound  == \A c \in Calls : call[c].at <= Arrivals
OldEntry == \A c \in Calls : call[c].phase \in Holding \cup {"waiting"} =>
                call[c].entry <= created
OrderInv == Sorted /\ AtBound /\ OldEntry

FirstStep ==
    \A c, d \in Calls :
        (/\ call[c].phase = "waiting" /\ call'[c].phase = "admitted"
         /\ call[d].phase = "waiting" /\ call[d].entry = call[c].entry)
            => call[c].at <= call[d].at

LEMMA ArrivalsGrow ==
    ASSUME \A d \in Calls : call[d].phase # "new" => call'[d].phase # "new"
    PROVE  /\ Arrivals <= Arrivals'
           /\ \A c \in Calls : call[c].phase = "new" /\ call'[c].phase # "new" =>
                  Arrivals + 1 <= Arrivals'
<1> DEFINE came == {d \in Calls : call[d].phase # "new"}
           comes == {d \in Calls : call'[d].phase # "new"}
<1>1. came \subseteq comes /\ IsFiniteSet(comes) /\ IsFiniteSet(came)
  BY Constants, FS_Subset
<1>2. Arrivals = Cardinality(came) /\ Arrivals' = Cardinality(comes)
  BY DEF Arrivals
<1>3. Arrivals <= Arrivals'
  BY <1>1, <1>2, FS_Subset
<1>4. ASSUME NEW c \in Calls, call[c].phase = "new", call'[c].phase # "new"
      PROVE  Arrivals + 1 <= Arrivals'
  <2>1. came \cup {c} \subseteq comes /\ c \notin came
    BY <1>1, <1>4
  <2> HIDE DEF came, comes
  <2>2. Cardinality(came \cup {c}) = Arrivals + 1
    BY <1>1, <1>2, <2>1, FS_AddElement
  <2> QED
    BY <1>1, <1>2, <2>1, <2>2, FS_Subset
<1> QED
  BY <1>3, <1>4

LEMMA TakenUpGrows ==
    ASSUME NEW c \in Calls, NEW e, NEW rec, TakenUp(c, e, rec)
    PROVE  Arrivals <= Arrivals' /\ (call[c].phase = "new" => Arrivals + 1 <= Arrivals')
<1>1. call'[c].phase # "new" /\ \A d \in Calls : call[d].phase # "new" => call'[d].phase # "new"
  BY DEF TakenUp, Handed
<1> QED
  BY <1>1, ArrivalsGrow

(* The one who is handed an entry stood at its head, and so came first.    *)
LEMMA TakenUpOrder ==
    ASSUME Types, Types', HandInv, OrderInv, NEW c \in Calls, NEW e \in Entries, NEW rec,
           TakenUp(c, e, rec), call[c].phase # "waiting", rec.at \in Nat, rec.at <= Arrivals',
           call'[c].phase = "waiting" => \A d \in Calls : call[d].at <= rec.at,
           created <= created', e <= created'
    PROVE  OrderInv' /\ FirstStep
<1>1. /\ Arrivals \in Nat /\ Arrivals' \in Nat /\ Arrivals <= Arrivals'
      /\ created \in Nat /\ created' \in Nat /\ e \in Nat
  BY Constants, ArrivalsType, TakenUpGrows DEF Types, Entries
<1>2. \A d \in Calls : call[d].at \in Nat /\ call'[d].at \in Nat
  BY DEF Types, CallRecs
<1>3. \A d \in Calls \ {c} : call'[d].at = call[d].at /\ call'[d].entry = call[d].entry
  BY DEF TakenUp, Handed
<1>4. call'[c].at = rec.at
  BY DEF TakenUp
<1>5. AtBound'
  BY <1>1, <1>2, <1>3, <1>4 DEF OrderInv, AtBound
<1>6. OldEntry'
  <2>1. ASSUME NEW d \in Calls, call'[d].phase \in Holding \cup {"waiting"}
        PROVE  call'[d].entry <= created'
    <3>1. CASE d = c
      BY <2>1, <3>1 DEF TakenUp, Holding
    <3>2. CASE d # c
      <4>1. call[d].phase \in Holding \cup {"waiting"}
        BY <2>1, <3>2 DEF TakenUp, Handed, Holding
      <4>2. call[d].entry \in Entries /\ call[d].entry \in Nat /\ call[d].entry <= created
        BY <4>1 DEF OrderInv, OldEntry, HandInv, Entered, Entries
      <4> QED
        BY <1>1, <1>3, <3>2, <4>2
    <3> QED
      BY <3>1, <3>2
  <2> QED
    BY <2>1 DEF OldEntry
<1>7. \A f \in Entries : \A i \in 1..Len(queue[f]) :
          queue[f][i] \in Calls \ {c} /\ call'[queue[f][i]].at = call[queue[f][i]].at
  BY <1>3 DEF Types, HandInv, QueueWaits
<1>8. Sorted'
  <2>1. ASSUME NEW f \in Entries, NEW i \in 1..Len(queue'[f]), NEW j \in 1..Len(queue'[f]), i <= j
        PROVE  call'[queue'[f][i]].at <= call'[queue'[f][j]].at
    <3>1. queue[f] \in Seq(Calls) /\ Len(queue[f]) \in Nat
      BY DEF Types
    <3>2. CASE Kept(f)
      BY <1>7, <2>1, <3>2 DEF Kept, OrderInv, Sorted
    <3>3. CASE Headless(f)
      <4>1. /\ i + 1 \in 1..Len(queue[f]) /\ queue'[f][i] = queue[f][i + 1]
            /\ j + 1 \in 1..Len(queue[f]) /\ queue'[f][j] = queue[f][j + 1]
        BY <2>1, <3>1, <3>3, HeadAndTail DEF Headless
      <4>2. i + 1 <= j + 1
        BY <2>1
      <4> QED
        BY <1>7, <4>1, <4>2 DEF OrderInv, Sorted
    <3>4. CASE Joined(c, f)
      <4>1. /\ Len(queue'[f]) = Len(queue[f]) + 1 /\ queue'[f][Len(queue[f]) + 1] = c
            /\ \A k \in 1..Len(queue[f]) : queue'[f][k] = queue[f][k]
            /\ \A k \in 1..Len(queue'[f]) : k \in 1..Len(queue[f]) \/ k = Len(queue[f]) + 1
        BY <3>1, <3>4 DEF Joined
      <4>2. CASE j \in 1..Len(queue[f])
        <5>1. i \in 1..Len(queue[f])
          BY <2>1, <3>1, <4>1, <4>2
        <5> QED
          BY SMTT(30), <1>7, <2>1, <4>1, <4>2, <5>1 DEF OrderInv, Sorted
      <4>3. CASE j = Len(queue[f]) + 1 /\ i \in 1..Len(queue[f])
        BY <1>4, <1>7, <3>4, <4>1, <4>3 DEF Joined
      <4>4. CASE j = Len(queue[f]) + 1 /\ i = j
        BY <1>2, <4>1, <4>4
      <4> QED
        BY <2>1, <4>1, <4>2, <4>3, <4>4
    <3> QED
      BY <3>2, <3>3, <3>4 DEF TakenUp
  <2> QED
    BY <2>1 DEF Sorted
<1>9. FirstStep
  <2>1. ASSUME NEW x \in Calls, NEW d \in Calls,
               call[x].phase = "waiting", call'[x].phase = "admitted",
               call[d].phase = "waiting", call[d].entry = call[x].entry
        PROVE  call[x].at <= call[d].at
    <3> DEFINE q == queue[call[x].entry]
    <3>1. q # <<>> /\ x = Head(q)
      BY <2>1 DEF TakenUp, Handed
    <3>2. call[x].entry \in Entries /\ q \in Seq(Calls)
      BY <2>1 DEF HandInv, Entered, Types
    <3>3. Len(q) \in Nat /\ 1 \in 1..Len(q) /\ x = q[1]
      BY <3>1, <3>2, HeadAndTail
    <3>4. PICK i \in 1..Len(q) : q[i] = d
      BY <2>1 DEF HandInv, WaitsQueue
    <3>5. 1 <= i
      BY <3>3
    <3> QED
      BY <3>2, <3>3, <3>4, <3>5 DEF OrderInv, Sorted
  <2> QED
    BY <2>1 DEF FirstStep
<1> QED
  BY <1>5, <1>6, <1>8, <1>9 DEF OrderInv

(* Nobody joins a line and nobody is handed an entry.                      *)
LEMMA QuietOrder ==
    ASSUME Types, Types', HandInv, OrderInv, created <= created',
           \A f \in Entries : Kept(f) \/ queue'[f] = <<>>,
           \A d \in Calls : \/ call'[d] = call[d]
                            \/ /\ call'[d].phase \notin Holding \cup {"waiting", "new"}
                               /\ call'[d].at = call[d].at
                            \/ /\ call[d].phase = "new" /\ call'[d].at = Arrivals + 1
                               /\ call'[d].phase \notin Holding \cup {"waiting", "new"}
    PROVE  OrderInv' /\ FirstStep
<1>1. /\ Arrivals \in Nat /\ Arrivals' \in Nat /\ created \in Nat /\ created' \in Nat
  BY Constants, ArrivalsType DEF Types
<1>2. \A d \in Calls : call[d].at \in Nat
  BY DEF Types, CallRecs
<1>3. /\ Arrivals <= Arrivals'
      /\ \A d \in Calls : call[d].phase = "new" /\ call'[d].phase # "new" =>
             Arrivals + 1 <= Arrivals'
  BY ArrivalsGrow
<1>4. ASSUME NEW d \in Calls PROVE call'[d].at <= Arrivals'
  <2>1. CASE call'[d].at = call[d].at
    BY <1>1, <1>2, <1>3, <2>1 DEF OrderInv, AtBound
  <2>2. CASE call[d].phase = "new" /\ call'[d].phase # "new" /\ call'[d].at = Arrivals + 1
    BY <1>1, <1>3, <2>2
  <2> QED
    BY <2>1, <2>2
<1>5. ASSUME NEW d \in Calls, call'[d].phase \in Holding \cup {"waiting"}
      PROVE  call'[d].entry <= created'
  <2>1. call'[d] = call[d]
    BY <1>5
  <2>2. call[d].entry \in Nat /\ call[d].entry <= created
    BY <1>5, <2>1 DEF OrderInv, OldEntry, HandInv, Entered, Entries
  <2> QED
    BY <1>1, <2>1, <2>2
<1>6. Sorted'
  <2>1. ASSUME NEW f \in Entries, NEW i \in 1..Len(queue'[f]), NEW j \in 1..Len(queue'[f]), i <= j
        PROVE  call'[queue'[f][i]].at <= call'[queue'[f][j]].at
    <3>1. queue'[f] = queue[f]
      BY <2>1 DEF Kept
    <3>2. \A k \in 1..Len(queue[f]) : queue[f][k] \in Calls /\ call[queue[f][k]].phase = "waiting"
      BY DEF Types, HandInv, QueueWaits
    <3>3. \A k \in 1..Len(queue[f]) : call'[queue[f][k]].at = call[queue[f][k]].at
      BY <3>2
    <3> QED
      BY <2>1, <3>1, <3>3 DEF OrderInv, Sorted
  <2> QED
    BY <2>1 DEF Sorted
<1>7. FirstStep
  <2>1. \A d \in Calls : call'[d].phase = "admitted" => call'[d] = call[d]
    BY DEF Holding
  <2> QED
    BY <2>1 DEF FirstStep
<1> QED
  BY <1>4, <1>5, <1>6, <1>7 DEF OrderInv, AtBound, OldEntry

-----------------------------------------------------------------------------
(* The line of the work queue, and sessions that make room.                *)

LEMMA LineKept ==
    ASSUME Types, LineInv, line' = line,
           \A d \in Calls : call[d].phase = "line" => call'[d] = call[d]
    PROVE  LineInv'
<1>1. \A i \in 1..Len(line) : line[i] \in Calls
  BY SessionsAssumption DEF Types
<1> QED
  BY <1>1 DEF LineInv

LEMMA TakenUpLine ==
    ASSUME Types, LineInv, NEW c \in Calls, call[c].phase # "line", NEW e, NEW rec,
           TakenUp(c, e, rec), line' = line
    PROVE  LineInv'
  BY LineKept DEF TakenUp, Handed

LEMMA RoomIsMade ==
    ASSUME Types, NEW s \in Sessions
    PROVE  /\ MakeRoom(s) \in [Sessions -> 0..created]
           /\ \A t \in Sessions : MakeRoom(s)[t] # live[t] =>
                  MakeRoom(s)[t] = 0 /\ Evictable(live, t)
<1> DEFINE onChannel == {t \in Live : Evictable(live, t) /\ ChannelOf[t] = ChannelOf[s]}
           first == IF CountOn(live, ChannelOf[s]) >= CapOf[ChannelOf[s]]
                    THEN WithoutOldest(live, onChannel) ELSE live
           idle  == {t \in Sessions : Evictable(first, t)}
<1>1. MakeRoom(s) = IF Size(first) >= MaxSessions THEN WithoutOldest(first, idle) ELSE first
  BY DEF MakeRoom
<1>2. /\ first \in [Sessions -> 0..created]
      /\ \A t \in Sessions : first[t] # live[t] => first[t] = 0 /\ Evictable(live, t)
  BY DEF Types, WithoutOldest
<1> HIDE DEF first
<1>3. \A t \in idle : first[t] = live[t] /\ Evictable(live, t)
  BY <1>2 DEF Evictable
<1> HIDE DEF idle
<1>4. /\ WithoutOldest(first, idle) \in [Sessions -> 0..created]
      /\ \A t \in Sessions : WithoutOldest(first, idle)[t] # first[t] =>
             WithoutOldest(first, idle)[t] = 0 /\ t \in idle
  BY <1>2 DEF WithoutOldest, Types
<1> QED
  BY <1>1, <1>2, <1>3, <1>4

-----------------------------------------------------------------------------
(* Each action keeps the invariant.                                        *)

LEMMA LiveIsEntry ==
    ASSUME Types, NEW s \in Sessions, live[s] # 0
    PROVE  live[s] \in Entries
  BY Constants DEF Types, Entries

Keeps == /\ Inv'
         /\ AliveInv => AliveInv' /\ (OrderInv => OrderInv' /\ FirstStep)

(* A call is taken up for e, and the pool and the line stay as they are.   *)
LEMMA TakenUpKeeps ==
    ASSUME Inv, HandInv', NEW c \in Calls, call[c].phase # "line", NEW e \in Entries, NEW rec,
           TakenUp(c, e, rec), UNCHANGED <<live, created, line>>,
           AliveInv /\ call'[c].phase \in {"waiting", "running"} =>
               rec.session \in Sessions /\ live[rec.session] = e,
           AliveInv /\ OrderInv =>
               /\ call[c].phase # "waiting" /\ e <= created
               /\ rec.at \in Nat /\ rec.at <= Arrivals'
               /\ call'[c].phase = "waiting" => \A d \in Calls : call[d].at <= rec.at
    PROVE  Keeps
<1>1. Types'
  BY DEF Inv, Types, TakenUp
<1>2. LineInv'
  BY TakenUpLine DEF Inv
<1>3. ASSUME AliveInv PROVE AliveInv'
  BY <1>3, TakenUpAlive DEF Inv
<1>4. ASSUME AliveInv, OrderInv PROVE OrderInv' /\ FirstStep
  <2>1. created <= created' /\ e <= created'
    BY <1>4, Constants DEF Inv, Types
  <2> QED
    BY <1>1, <1>4, <2>1, TakenUpOrder DEF Inv
<1> QED
  BY <1>1, <1>2, <1>3, <1>4 DEF Keeps, Inv

LEMMA SendKeeps ==
    ASSUME Inv, NEW c \in Calls, NEW s \in Sessions, NEW id \in MessageIds \cup {NoId},
           Send(c, s, id)
    PROVE  Keeps
<1> DEFINE rec == [call[c] EXCEPT !.session = s, !.entry = live[s], !.id = id,
                                  !.at = Arrivals + 1]
<1>1. call[c] \in CallRecs /\ call[c].phase = "new"
  BY DEF Inv, Types, Send
<1>2. live[s] \in 0..MaxEntries
  BY Constants DEF Inv, Types
<1>3. rec \in CallRecs /\ rec.entry = live[s] /\ rec.session = s /\ rec.at = Arrivals + 1
  <2> DEFINE n == Arrivals + 1
  <2>1. n \in Nat
    BY ArrivalsType
  <2> HIDE DEF n
  <2>2. rec = [call[c] EXCEPT !.session = s, !.entry = live[s], !.id = id, !.at = n]
    BY DEF n
  <2> HIDE DEF rec
  <2>3. rec \in CallRecs /\ rec.entry = live[s] /\ rec.session = s /\ rec.at = n
    BY <1>1, <1>2, <2>1, <2>2 DEF CallRecs
  <2> QED
    BY <2>3 DEF n
<1>4. Apart(c)
  BY <1>1 DEF Apart, Holding
<1>5. UNCHANGED <<live, created, line>>
  BY DEF Send, pool
<1>6. \/ live[s] = 0 /\ call' = [call EXCEPT ![c] = Finished(c, rec, "refused")]
         /\ UNCHANGED entries
      \/ live[s] # 0 /\ Chat(c, live[s], rec)
  BY DEF Send
<1> HIDE DEF rec
<1>7. CASE live[s] # 0 /\ Chat(c, live[s], rec)
  <2>1. live[s] \in Entries
    BY <1>7, LiveIsEntry DEF Inv
  <2>2. HandInv' /\ TakenUp(c, live[s], rec)
    BY <1>3, <1>4, <1>7, <2>1, ChatStep DEF Inv
  <2>3. live[s] <= created /\ rec.at \in Nat /\ rec.at <= Arrivals'
    BY <1>1, <1>3, <2>2, Constants, ArrivalsType, TakenUpGrows DEF Inv, Types
  <2>4. ASSUME OrderInv PROVE \A d \in Calls : call[d].at <= rec.at
    <3>1. \A d \in Calls : call[d].at \in Nat
      BY DEF Inv, Types, CallRecs
    <3> QED
      BY <1>3, <2>4, <3>1, ArrivalsType DEF OrderInv, AtBound
  <2> QED
    BY <1>1, <1>3, <1>5, <2>1, <2>2, <2>3, <2>4, TakenUpKeeps
<1>8. CASE call' = [call EXCEPT ![c] = Finished(c, rec, "refused")] /\ UNCHANGED entries
  <2>1. "refused" \in Outcomes
    BY DEF Outcomes
  <2>2. Finished(c, rec, "refused") \in CallRecs
        /\ Finished(c, rec, "refused").phase \in {"ended", "done"}
        /\ Finished(c, rec, "refused").at = rec.at
    BY <1>3, <2>1, FinishedRec
  <2>3. /\ call' \in [Calls -> CallRecs] /\ call'[c].phase \in {"ended", "done"}
        /\ call'[c].at = rec.at
        /\ \A d \in Calls \ {c} : call'[d] = call[d]
    BY <1>8, <2>2 DEF Inv, Types
  <2>4. busy' = busy /\ queue' = queue /\ stopped' = stopped
    BY <1>8 DEF entries
  <2>5. Apart(c)'
    BY <2>3 DEF Apart, Holding
  <2>6. HandInv'
    BY <1>4, <2>3, <2>4, <2>5, ApartStep DEF Inv
  <2>7. Types'
    BY <1>5, <2>3, <2>4 DEF Inv, Types
  <2>8. LineInv'
    BY <1>1, <1>5, <2>3, LineKept DEF Inv
  <2>9. ASSUME AliveInv PROVE AliveInv'
    BY <1>5, <2>3, <2>4, <2>9, EvictedAlive DEF Inv, AliveInv
  <2>10. ASSUME OrderInv PROVE OrderInv' /\ FirstStep
    <3>1. created <= created' /\ \A f \in Entries : Kept(f)
      BY <1>5, <2>4, Constants DEF Kept, Inv, Types
    <3> QED
      BY <1>1, <1>3, <2>3, <2>7, <2>10, <3>1, QuietOrder DEF Inv, Holding
  <2> QED
    BY <2>6, <2>7, <2>8, <2>9, <2>10 DEF Keeps, Inv
<1> QED
  BY <1>6, <1>7, <1>8

LEMMA GateKeeps ==
    ASSUME Inv, NEW c \in Calls, GateResolves(c)
    PROVE  Keeps
<1>1. call[c] \in CallRecs /\ call[c].phase = "gate" /\ "handled" \in Outcomes
  BY DEF Inv, Types, GateResolves, Outcomes
<1>2. Finished(c, call[c], "handled") \in CallRecs
      /\ Finished(c, call[c], "handled").phase \in {"ended", "done"}
      /\ Finished(c, call[c], "handled").at = call[c].at
  BY <1>1, FinishedRec
<1>3. /\ call' \in [Calls -> CallRecs] /\ call'[c].phase \in {"ended", "done"}
      /\ call'[c].at = call[c].at
      /\ \A d \in Calls \ {c} : call'[d] = call[d]
  BY <1>2 DEF GateResolves, Inv, Types
<1>4. UNCHANGED <<live, created, line, busy, queue, stopped>>
  BY DEF GateResolves, pool, entries
<1>5. Apart(c) /\ Apart(c)'
  BY <1>1, <1>3 DEF Apart, Holding
<1>6. HandInv'
  BY <1>3, <1>4, <1>5, ApartStep DEF Inv
<1>7. Types'
  BY <1>3, <1>4 DEF Inv, Types
<1>8. LineInv'
  BY <1>1, <1>3, <1>4, LineKept DEF Inv
<1>9. ASSUME AliveInv PROVE AliveInv'
  BY <1>3, <1>4, <1>9, EvictedAlive DEF Inv, AliveInv
<1>10. ASSUME OrderInv PROVE OrderInv' /\ FirstStep
  <2>1. created <= created' /\ \A f \in Entries : Kept(f)
    BY <1>4, Constants DEF Kept, Inv, Types
  <2> QED
    BY <1>1, <1>3, <1>7, <1>10, <2>1, QuietOrder DEF Inv, Holding
<1> QED
  BY <1>6, <1>7, <1>8, <1>9, <1>10 DEF Keeps, Inv

LEMMA ResumeKeeps ==
    ASSUME Inv, NEW c \in Calls, Resume(c)
    PROVE  Keeps
<1> DEFINE e == call[c].entry
<1>1. call[c] \in CallRecs /\ call[c].phase = "admitted" /\ e \in Entries
  BY DEF Inv, Types, Resume, HandInv, Entered, Holding
<1>2. Holds(c, e)
  BY <1>1 DEF Holds, Holding
<1>3. UNCHANGED <<live, created, line>>
  BY DEF Resume, pool
<1>4. Begin(c, e, call[c], seen[e])
  BY DEF Resume
<1>5. HandInv' /\ TakenUp(c, e, call[c]) /\ call'[c].phase # "waiting"
  BY <1>1, <1>2, <1>4, BeginStep DEF Inv
<1>6. AliveInv => call[c].session \in Sessions /\ live[call[c].session] = e
  BY <1>1 DEF AliveInv
<1>7. ASSUME OrderInv
      PROVE  e <= created /\ call[c].at \in Nat /\ call[c].at <= Arrivals'
  <2>1. call[c].at \in Nat /\ call[c].at <= Arrivals /\ Arrivals <= Arrivals'
    BY <1>1, <1>5, <1>7, TakenUpGrows DEF CallRecs, OrderInv, AtBound
  <2> QED
    BY <1>1, <1>7, <2>1, ArrivalsType DEF OrderInv, OldEntry, Holding
<1> QED
  BY <1>1, <1>3, <1>5, <1>6, <1>7, TakenUpKeeps

LEMMA TurnEndsKeeps ==
    ASSUME Inv, NEW c \in Calls, NEW outcome \in {"answered", "failed"}, TurnEnds(c, outcome)
    PROVE  Keeps
<1> DEFINE e == call[c].entry
           calls == [call EXCEPT ![c] = Finished(c, call[c], outcome)]
<1>1. call[c] \in CallRecs /\ call[c].phase = "running" /\ e \in Entries
  BY DEF Inv, Types, TurnEnds, HandInv, Entered, Holding
<1>2. Holds(c, e)
  BY <1>1 DEF Holds, Holding
<1>3. UNCHANGED <<live, created, line, stopped>>
  BY DEF TurnEnds, pool
<1>4. Release(e, calls)
  BY DEF TurnEnds
<1>5. outcome \in Outcomes
  BY DEF Outcomes
<1>6. Finished(c, call[c], outcome) \in CallRecs
      /\ Finished(c, call[c], outcome).phase \in {"ended", "done"}
      /\ Finished(c, call[c], outcome).at = call[c].at
  BY <1>1, <1>5, FinishedRec
<1>7. /\ calls[c].at = call[c].at /\ calls \in [Calls -> CallRecs] /\ calls[c].phase \in {"ended", "done"}
      /\ \A d \in Calls \ {c} : calls[d] = call[d]
  BY <1>6 DEF Inv, Types
<1> HIDE DEF calls
<1>8. /\ HandInv' /\ call' \in [Calls -> CallRecs]
      /\ busy' \in [Entries -> BOOLEAN] /\ queue' \in [Entries -> Seq(Calls)]
      /\ call'[c].phase \in {"ended", "done"} /\ Handed(c) /\ call'[c].at = call[c].at
      /\ \A f \in Entries : Kept(f) \/ Headless(f)
  BY <1>1, <1>2, <1>4, <1>7, ReleaseStep DEF Inv
<1>9. TakenUp(c, e, call[c])
  BY <1>3, <1>8 DEF TakenUp, Inv, Types
<1>10. ASSUME OrderInv
      PROVE  e <= created /\ call[c].at \in Nat /\ call[c].at <= Arrivals'
  <2>1. call[c].at \in Nat /\ call[c].at <= Arrivals /\ Arrivals <= Arrivals'
    BY <1>1, <1>9, <1>10, TakenUpGrows DEF CallRecs, OrderInv, AtBound
  <2> QED
    BY <1>1, <1>10, <2>1, ArrivalsType DEF OrderInv, OldEntry, Holding
<1> QED
  BY <1>1, <1>3, <1>8, <1>9, <1>10, TakenUpKeeps

(* Sessions come and go, no call changes: only idle sessions go.           *)
LEMMA PoolStep ==
    ASSUME Inv, UNCHANGED <<busy, queue, stopped, call, line>>,
           live' \in [Sessions -> 0..created'], created' \in 0..MaxEntries, created <= created',
           \A t \in Sessions : live[t] # 0 /\ busy[live[t]] => live'[t] = live[t]
    PROVE  Keeps
<1>1. Types'
  BY DEF Inv, Types
<1>2. HandInv'
  BY DEF Inv, HandInv, OneHolder, BusyIsHeld, QueueWaits, QueueOnce, WaitsQueue, QueueBusy,
         Entered, Holds
<1>3. LineInv'
  BY DEF Inv, LineInv
<1>4. ASSUME AliveInv PROVE AliveInv'
  BY <1>4, EvictedAlive DEF Inv, AliveInv
<1>5. ASSUME OrderInv PROVE OrderInv' /\ FirstStep
  BY <1>1, <1>5, QuietOrder DEF Inv, Kept
<1> QED
  BY <1>1, <1>2, <1>3, <1>4, <1>5 DEF Keeps, Inv

LEMMA CreateKeeps ==
    ASSUME Inv, NEW s \in Sessions, Create(s)
    PROVE  Keeps
<1>1. /\ live[s] = 0 /\ created < MaxEntries /\ created' = created + 1
      /\ live' = [MakeRoom(s) EXCEPT ![s] = created + 1]
      /\ UNCHANGED <<busy, queue, stopped, call, line>>
  BY DEF Create, entries
<1>2. created \in Nat /\ created' \in 0..MaxEntries /\ 0..created \subseteq 0..created'
      /\ created + 1 \in 0..created' /\ created <= created'
  BY <1>1, Constants DEF Inv, Types
<1>3. live' \in [Sessions -> 0..created']
  BY <1>1, <1>2, RoomIsMade DEF Inv
<1>4. \A t \in Sessions : live[t] # 0 /\ busy[live[t]] => live'[t] = live[t]
  BY <1>1, RoomIsMade DEF Inv, Evictable
<1> QED
  BY <1>1, <1>2, <1>3, <1>4, PoolStep

LEMMA CreateThrowsKeeps ==
    ASSUME Inv, NEW s \in Sessions, CreateThrows(s)
    PROVE  Keeps
<1>1. live' = MakeRoom(s) /\ created' = created /\ UNCHANGED <<busy, queue, stopped, call, line>>
  BY DEF CreateThrows, entries
<1>2. live' \in [Sessions -> 0..created'] /\ created' \in 0..MaxEntries /\ created <= created'
  BY <1>1, RoomIsMade, Constants DEF Inv, Types
<1>3. \A t \in Sessions : live[t] # 0 /\ busy[live[t]] => live'[t] = live[t]
  BY <1>1, RoomIsMade DEF Inv, Evictable
<1> QED
  BY <1>1, <1>2, <1>3, PoolStep

LEMMA CleanupKeeps ==
    ASSUME Inv, CleanupIdleSessions
    PROVE  Keeps
<1>1. PICK idle \in SUBSET {t \in Live : Evictable(live, t)} :
          live' = [t \in Sessions |-> IF t \in idle THEN 0 ELSE live[t]]
  BY DEF CleanupIdleSessions
<1>2. created' = created /\ UNCHANGED <<busy, queue, stopped, call, line>>
  BY DEF CleanupIdleSessions, entries
<1>3. live' \in [Sessions -> 0..created'] /\ created' \in 0..MaxEntries /\ created <= created'
  BY <1>1, <1>2, Constants DEF Inv, Types
<1>4. \A t \in Sessions : live[t] # 0 /\ busy[live[t]] => live'[t] = live[t]
  BY <1>1 DEF Evictable
<1> QED
  BY <1>2, <1>3, <1>4, PoolStep

LEMMA StillKeeps ==
    ASSUME Inv, UNCHANGED <<live, created, busy, queue, stopped, call, line>>
    PROVE  Keeps
<1>1. live' \in [Sessions -> 0..created'] /\ created' \in 0..MaxEntries /\ created <= created'
  BY Constants DEF Inv, Types
<1> QED
  BY <1>1, PoolStep

(* A session's waiters are told no, and its turn is told to stop.          *)
LEMMA AbortKeeps ==
    ASSUME Inv, NEW s \in Sessions, Abort(s)
    PROVE  Keeps
<1> DEFINE e == live[s]
<1>1. /\ e \in Entries /\ RefuseWaiters(e) /\ busy' = busy
      /\ stopped' = [stopped EXCEPT ![e] = TRUE] /\ UNCHANGED <<live, created, line>>
  BY LiveIsEntry DEF Abort, pool, Inv
<1>2. /\ HandInv' /\ call' \in [Calls -> CallRecs] /\ queue' \in [Entries -> Seq(Calls)]
      /\ \A c \in Calls :
             \/ call'[c] = call[c] /\ ~(call[c].phase = "waiting" /\ call[c].entry = e)
             \/ /\ call[c].phase = "waiting" /\ call'[c].phase \in {"ended", "done"}
                /\ call'[c].at = call[c].at
      /\ \A f \in Entries : Kept(f) \/ queue'[f] = <<>>
  BY <1>1, RefuseStep DEF Inv
<1> HIDE DEF e
<1>3. Types'
  BY <1>1, <1>2 DEF Inv, Types
<1>4. LineInv'
  BY <1>1, <1>2, LineKept DEF Inv
<1>5. ASSUME AliveInv PROVE AliveInv'
  <2>1. \A f \in Entries : stopped[f] => stopped'[f]
    BY <1>1 DEF Inv, Types
  <2>2. \A c \in Calls : call[c].phase = "running" => call[c].entry \in Entries
    BY DEF Inv, HandInv, Entered, Holding
  <2> QED
    BY <1>1, <1>2, <1>5, <2>1, <2>2 DEF AliveInv
<1>6. ASSUME OrderInv PROVE OrderInv' /\ FirstStep
  <2>1. created <= created'
    BY <1>1, Constants DEF Inv, Types
  <2> QED
    BY <1>2, <1>3, <1>6, <2>1, QuietOrder DEF Inv, Holding
<1> QED
  BY <1>2, <1>3, <1>4, <1>5, <1>6 DEF Keeps, Inv

LEMMA DestroyKeeps ==
    ASSUME Inv, NEW s \in Sessions, Destroy(s)
    PROVE  Keeps
<1> DEFINE e == live[s]
<1>1. /\ e \in Entries /\ RefuseWaiters(e) /\ busy' = busy /\ Settled(e)
      /\ stopped' = [stopped EXCEPT ![e] = busy[e]] /\ UNCHANGED <<created, line>>
      /\ live' = [live EXCEPT ![s] = 0]
  BY LiveIsEntry DEF Destroy, Inv
<1>2. /\ HandInv' /\ call' \in [Calls -> CallRecs] /\ queue' \in [Entries -> Seq(Calls)]
      /\ \A c \in Calls :
             \/ call'[c] = call[c] /\ ~(call[c].phase = "waiting" /\ call[c].entry = e)
             \/ /\ call[c].phase = "waiting" /\ call'[c].phase \in {"ended", "done"}
                /\ call'[c].at = call[c].at
      /\ \A f \in Entries : Kept(f) \/ queue'[f] = <<>>
  BY <1>1, RefuseStep DEF Inv
<1>3. Types'
  <2>1. live' \in [Sessions -> 0..created']
    <3>1. 0 \in 0..created
      BY Constants DEF Inv, Types
    <3> QED
      BY <1>1, <3>1 DEF Inv, Types
  <2>2. stopped' \in [Entries -> BOOLEAN]
    BY <1>1 DEF Inv, Types
  <2> QED
    BY <1>1, <1>2, <2>1, <2>2 DEF Inv, Types
<1>4. LineInv'
  BY <1>1, <1>2, LineKept DEF Inv
<1>5. ASSUME AliveInv PROVE AliveInv'
  <2>1. ASSUME NEW c \in Calls, call'[c].phase \in {"waiting", "admitted", "running"}
        PROVE  /\ call'[c].session \in Sessions
               /\ call'[c].phase \in {"waiting", "admitted"} =>
                      live'[call'[c].session] = call'[c].entry
               /\ call'[c].phase = "running" =>
                      live'[call'[c].session] = call'[c].entry \/ stopped'[call'[c].entry]
    <3>1. /\ call'[c] = call[c] /\ ~(call[c].phase = "waiting" /\ call[c].entry = e)
          /\ call[c].session \in Sessions /\ call[c].entry \in Entries
      BY <1>2, <1>5, <2>1 DEF AliveInv, Inv, HandInv, Entered, Holding
    <3>2. CASE call[c].entry = e
      <4>1. call[c].phase = "running"
        BY <1>1, <2>1, <3>1, <3>2 DEF Settled
      <4>2. busy[e] = TRUE
        BY <1>1, <3>2, <4>1 DEF Inv, Types, HandInv, BusyIsHeld, Holds, Holding
      <4>3. stopped'[e] = TRUE
        BY <1>1, <4>2 DEF Inv, Types
      <4> QED
        BY <3>1, <3>2, <4>1, <4>3
    <3>3. CASE call[c].entry # e
      <4>1. stopped'[call[c].entry] = stopped[call[c].entry]
        BY <1>1, <3>1, <3>3 DEF Inv, Types
      <4>2. live[call[c].session] = call[c].entry => live'[call[c].session] = call[c].entry
        BY <1>1, <3>1, <3>3 DEF Inv, Types
      <4> QED
        BY <1>5, <2>1, <3>1, <4>1, <4>2 DEF AliveInv
    <3> QED
      BY <3>2, <3>3
  <2> QED
    BY <2>1 DEF AliveInv
<1>6. ASSUME OrderInv PROVE OrderInv' /\ FirstStep
  <2>1. created <= created'
    BY <1>1, Constants DEF Inv, Types
  <2> QED
    BY <1>2, <1>3, <1>6, <2>1, QuietOrder DEF Inv, Holding
<1> QED
  BY <1>2, <1>3, <1>4, <1>5, <1>6 DEF Keeps, Inv

(* A work item is accepted: it joins the end of the line.                  *)
LEMMA SubmitKeeps ==
    ASSUME Inv, NEW c \in Items, NEW s \in Sessions, Submit(c, s)
    PROVE  Keeps
<1> DEFINE n   == Arrivals + 1
           new == [call[c] EXCEPT !.phase = "line", !.session = s, !.at = n]
<1>1. c \in Calls /\ call[c] \in CallRecs /\ call[c].phase = "new"
  BY Constants DEF Submit, Inv, Types
<1>2. n \in Nat
  BY ArrivalsType
<1>3. call' = [call EXCEPT ![c] = new] /\ line' = Append(line, c)
  BY DEF Submit
<1> HIDE DEF n
<1>4. new \in CallRecs /\ new.phase = "line" /\ new.session = s /\ new.at = n
  BY <1>1, <1>2 DEF CallRecs, Phases
<1> HIDE DEF new
<1>5. /\ call' \in [Calls -> CallRecs] /\ call'[c] = new
      /\ \A d \in Calls \ {c} : call'[d] = call[d]
  BY <1>1, <1>3, <1>4 DEF Inv, Types
<1>6. UNCHANGED <<live, created, busy, queue, stopped>>
  BY DEF Submit, pool, entries
<1>7. Apart(c) /\ Apart(c)'
  BY <1>1, <1>4, <1>5 DEF Apart, Holding
<1>8. HandInv'
  BY <1>1, <1>5, <1>6, <1>7, ApartStep DEF Inv
<1>9. Types'
  BY <1>3, <1>5, <1>6 DEF Inv, Types
<1>10. LineInv'
  <2>1. line \in Seq(Items) /\ \A i \in 1..Len(line) : line[i] \in Calls /\ line[i] # c
    BY <1>1, Constants DEF Inv, Types, LineInv
  <2>2. /\ Len(line') = Len(line) + 1 /\ line'[Len(line) + 1] = c /\ Len(line) \in Nat
        /\ \A i \in 1..Len(line) : line'[i] = line[i]
        /\ \A i \in 1..Len(line') : i \in 1..Len(line) \/ i = Len(line) + 1
    BY <1>3, <2>1
  <2>3. \A i \in 1..Len(line') :
            call'[line'[i]].phase = "line" /\ call'[line'[i]].session \in Sessions
    BY <1>4, <1>5, <2>1, <2>2 DEF Inv, LineInv
  <2>4. \A i, j \in 1..Len(line') : line'[i] = line'[j] => i = j
    BY <2>1, <2>2 DEF Inv, LineInv
  <2> QED
    BY <2>3, <2>4 DEF LineInv
<1>11. ASSUME AliveInv PROVE AliveInv'
  <2>1. call'[c].phase = "line"
    BY <1>4, <1>5
  <2> QED
    BY <1>5, <1>6, <1>11, <2>1, EvictedAlive DEF Inv, AliveInv
<1>12. ASSUME OrderInv PROVE OrderInv' /\ FirstStep
  <2>1. created <= created' /\ \A f \in Entries : Kept(f)
    BY <1>6, Constants DEF Kept, Inv, Types
  <2>2. call'[c].phase = "line" /\ call'[c].at = Arrivals + 1
    BY <1>4, <1>5 DEF n
  <2> QED
    BY <1>1, <1>5, <1>9, <1>12, <2>1, <2>2, QuietOrder DEF Inv, Holding
<1> QED
  BY <1>8, <1>9, <1>10, <1>11, <1>12 DEF Keeps, Inv

(* A work item is over; a session made for it may go, if it is idle.       *)
LEMMA ItemEndsKeeps ==
    ASSUME Inv, NEW c \in Items, ItemEnds(c)
    PROVE  Keeps
<1> DEFINE new == [call[c] EXCEPT !.phase = "done"]
           s   == call[c].session
<1>1. c \in Calls /\ call[c] \in CallRecs /\ call[c].phase = "ended"
  BY Constants DEF ItemEnds, Inv, Types
<1>2. call' = [call EXCEPT ![c] = new]
  BY DEF ItemEnds
<1>3. live' = live \/ (live' = [live EXCEPT ![s] = 0] /\ ~busy[live[s]])
  BY DEF ItemEnds
<1>4. "done" \in Phases
  BY DEF Phases
<1>5. new \in CallRecs /\ new.phase = "done" /\ new.at = call[c].at
  BY <1>1, <1>4, RecChange
<1> HIDE DEF new
<1>6. /\ call' \in [Calls -> CallRecs] /\ call'[c] = new
      /\ \A d \in Calls \ {c} : call'[d] = call[d]
  BY <1>1, <1>2, <1>5 DEF Inv, Types
<1>7. UNCHANGED <<created, busy, queue, stopped, line>>
  BY DEF ItemEnds, entries
<1>8. Apart(c) /\ Apart(c)' /\ call'[c].phase = "done"
  BY <1>1, <1>5, <1>6 DEF Apart, Holding
<1>9. HandInv'
  BY <1>1, <1>6, <1>7, <1>8, ApartStep DEF Inv
<1>10. live' \in [Sessions -> 0..created]
  <2>1. 0 \in 0..created
    BY Constants DEF Inv, Types
  <2> QED
    BY <1>3, <2>1 DEF Inv, Types
<1>11. Types'
  BY <1>6, <1>7, <1>10 DEF Inv, Types
<1>12. LineInv'
  BY <1>1, <1>6, <1>7, LineKept DEF Inv
<1>13. ASSUME AliveInv PROVE AliveInv'
  <2>1. \A t \in Sessions : live[t] # 0 /\ busy[live[t]] => live'[t] = live[t]
    BY <1>3 DEF Inv, Types
  <2> QED
    BY <1>6, <1>7, <1>8, <1>13, <2>1, EvictedAlive DEF Inv, AliveInv
<1>14. ASSUME OrderInv PROVE OrderInv' /\ FirstStep
  <2>1. created <= created' /\ \A f \in Entries : Kept(f)
    BY <1>7, Constants DEF Kept, Inv, Types
  <2> QED
    BY <1>5, <1>6, <1>8, <1>11, <1>14, <2>1, QuietOrder DEF Inv, Holding
<1> QED
  BY <1>9, <1>11, <1>12, <1>13, <1>14 DEF Keeps, Inv

(* The head of the line gets its session, a new one if it has none.        *)
LEMMA DrainStartsKeeps ==
    ASSUME Inv, DrainStarts
    PROVE  Keeps
<1> DEFINE c   == Head(line)
           s   == call[c].session
           e   == IF live[s] = 0 THEN created + 1 ELSE live[s]
           rec == [call[c] EXCEPT !.entry = e, !.oneShot = (live[s] = 0)]
<1>1. line # <<>> /\ line \in Seq(Items)
  BY DEF DrainStarts, Startable, Inv, Types
<1>2. /\ Len(line) \in Nat /\ 1 \in 1..Len(line) /\ c = line[1] /\ c \in Items
      /\ Tail(line) \in Seq(Items) /\ Len(Tail(line)) = Len(line) - 1
      /\ \A i \in 1..Len(Tail(line)) : i + 1 \in 1..Len(line) /\ Tail(line)[i] = line[i + 1]
  BY <1>1, HeadAndTail
<1>3. c \in Calls /\ call[c] \in CallRecs /\ call[c].phase = "line" /\ s \in Sessions
  BY <1>2, Constants DEF Inv, Types, LineInv
<1>4. /\ live' = [live EXCEPT ![s] = e] /\ line' = Tail(line) /\ Chat(c, e, rec)
      /\ created' = IF live[s] = 0 THEN created + 1 ELSE created
  BY DEF DrainStarts
<1>5. live[s] = 0 => created < MaxEntries
  BY DEF DrainStarts, Startable
<1>6. /\ e \in Entries /\ created' \in 0..MaxEntries /\ e \in 0..created'
      /\ 0..created \subseteq 0..created' /\ (live[s] # 0 => e = live[s])
  <2>1. CASE live[s] = 0
    BY <1>4, <1>5, <2>1, Constants DEF Inv, Types, Entries
  <2>2. CASE live[s] # 0
    BY <1>3, <1>4, <2>2, LiveIsEntry DEF Inv, Types
  <2> QED
    BY <2>1, <2>2
<1> DEFINE one == (live[s] = 0)
<1>7. one \in BOOLEAN
  OBVIOUS
<1>8. rec = [call[c] EXCEPT !.entry = e, !.oneShot = one]
  OBVIOUS
<1> HIDE DEF rec, e, one
<1>9. rec \in CallRecs /\ rec.entry = e /\ rec.session = s /\ rec.at = call[c].at
  <2>1. e \in 0..MaxEntries
    BY <1>6 DEF Entries
  <2> QED
    BY <1>3, <1>7, <1>8, <2>1 DEF CallRecs
<1> HIDE DEF c
<1>10. Apart(c)
  BY <1>3 DEF Apart, Holding
<1>11. HandInv' /\ TakenUp(c, e, rec)
  BY <1>3, <1>4, <1>6, <1>9, <1>10, ChatStep DEF Inv
<1>12. Types'
  <2>1. live' \in [Sessions -> 0..created']
    BY <1>3, <1>4, <1>6 DEF Inv, Types
  <2> QED
    BY <1>2, <1>4, <1>6, <1>11, <2>1 DEF Types, TakenUp
<1>13. LineInv'
  <2>1. \A i \in 1..Len(line) : line[i] \in Calls /\ (line[i] = line[1] => i = 1)
    BY <1>1, <1>2, Constants DEF Inv, LineInv
  <2>2. \A i \in 1..Len(line') :
            /\ i + 1 \in 1..Len(line) /\ line'[i] = line[i + 1] /\ i \in Nat /\ i >= 1
    BY <1>2, <1>4
  <2>3. ASSUME NEW i \in 1..Len(line') PROVE call'[line'[i]] = call[line[i + 1]]
    <3>1. line[i + 1] # c /\ line[i + 1] \in Calls /\ call[line[i + 1]].phase = "line"
      BY <1>2, <2>1, <2>2 DEF Inv, LineInv
    <3> QED
      BY <1>11, <2>2, <3>1 DEF TakenUp, Handed
  <2>4. ASSUME NEW i \in 1..Len(line'), NEW j \in 1..Len(line'), line'[i] = line'[j] PROVE i = j
    <3>1. i + 1 = j + 1
      BY <2>2, <2>4 DEF Inv, LineInv
    <3> QED
      BY <2>2, <3>1
  <2> QED
    BY <2>2, <2>3, <2>4 DEF Inv, LineInv
<1>14. ASSUME AliveInv PROVE AliveInv'
  <2>1. live'[s] = e /\ \A t \in Sessions : live[t] # 0 => live'[t] = live[t]
    BY <1>3, <1>4, <1>6 DEF Inv, Types
  <2> QED
    BY <1>3, <1>6, <1>9, <1>11, <1>14, <2>1, TakenUpAlive DEF Inv
<1>15. ASSUME OrderInv PROVE OrderInv' /\ FirstStep
  <2>1. ~busy[e]
    <3>1. CASE live[s] # 0
      BY <1>6, <3>1 DEF DrainStarts, Startable, c
    <3>2. CASE live[s] = 0
      <4>1. e = created + 1 /\ created \in Nat
        BY <3>2, Constants DEF e, Inv, Types
      <4>2. \A d \in Calls : ~Holds(d, e)
        BY <1>15, <4>1 DEF OrderInv, OldEntry, Holds
      <4> QED
        BY <1>6, <4>2 DEF Inv, HandInv, BusyIsHeld
    <3> QED
      BY <3>1, <3>2
  <2>2. call'[c].phase # "waiting"
    BY <1>11, <2>1 DEF TakenUp
  <2>3. rec.at \in Nat /\ rec.at <= Arrivals'
    <3>1. call[c].at \in Nat /\ call[c].at <= Arrivals /\ Arrivals <= Arrivals'
      BY <1>3, <1>11, <1>15, TakenUpGrows DEF CallRecs, OrderInv, AtBound
    <3> QED
      BY <1>9, <3>1, ArrivalsType
  <2>4. created <= created' /\ e <= created'
    BY <1>4, <1>6, Constants DEF Inv, Types
  <2> QED
    BY <1>3, <1>6, <1>11, <1>12, <1>15, <2>2, <2>3, <2>4, TakenUpOrder DEF Inv
<1> QED
  BY <1>11, <1>12, <1>13, <1>14, <1>15 DEF Keeps, Inv

LEMMA InitInv == ASSUME Init PROVE Inv /\ AliveInv /\ OrderInv
<1>1. Types
  <2>1. 0 \in 0..created /\ created \in 0..MaxEntries
    BY Constants DEF Init
  <2>2. NewCall \in CallRecs
    BY Constants DEF NewCall, CallRecs, Phases, Outcomes
  <2> QED
    BY <2>1, <2>2 DEF Init, Types
<1>2. \A c \in Calls : call[c].phase = "new"
  BY DEF Init, NewCall
<1>3. HandInv
  BY <1>2 DEF Init, HandInv, OneHolder, BusyIsHeld, QueueWaits, QueueOnce, WaitsQueue,
              QueueBusy, Entered, Holds, Holding
<1>4. LineInv /\ AliveInv
  BY <1>2 DEF Init, LineInv, AliveInv
<1>5. OrderInv
  <2>1. \A c \in Calls : call[c].at = 0
    BY DEF Init, NewCall
  <2> QED
    BY <1>2, <2>1, ArrivalsType DEF Init, OrderInv, Sorted, AtBound, OldEntry, Holding
<1> QED
  BY <1>1, <1>3, <1>4, <1>5 DEF Inv

LEMMA NextKeeps == ASSUME Inv, [Next]_vars PROVE Keeps
<1>1. CASE UNCHANGED vars
  BY <1>1, StillKeeps DEF vars, pool, entries
<1>2. ASSUME NEW s \in Sessions, Attach(s) \/ Detach(s) PROVE Keeps
  BY <1>2, StillKeeps DEF Attach, Detach, pool, entries
<1>3. CASE DrainBegins \/ DrainThrows \/ DrainStops
  BY <1>3, StillKeeps DEF DrainBegins, DrainThrows, DrainStops, pool, entries
<1> QED
  BY <1>1, <1>2, <1>3, CreateKeeps, CreateThrowsKeeps, AbortKeeps, DestroyKeeps, SendKeeps,
     SubmitKeeps, ItemEndsKeeps, GateKeeps, ResumeKeeps, TurnEndsKeeps, CleanupKeeps,
     DrainStartsKeeps DEF Next

LEMMA AlwaysInv == Spec => []Inv
<1>1. Init => Inv
  BY InitInv
<1>2. Inv /\ [Next]_vars => Inv'
  BY NextKeeps DEF Keeps
<1> QED
  BY <1>1, <1>2, PTL DEF Spec

-----------------------------------------------------------------------------
LEMMA InvHandsOver == ASSUME Inv PROVE SessionsAreHandedOver
<1>1. ASSUME NEW e \in Entries
      PROVE  Cardinality(Holders(e)) = IF busy[e] THEN 1 ELSE 0
  <2>1. CASE ~busy[e]
    <3>1. Holders(e) = {}
      BY <2>1 DEF Inv, HandInv, BusyIsHeld, Holders, Holds, Holding
    <3> QED
      BY <2>1, <3>1, FS_EmptySet
  <2>2. CASE busy[e]
    <3>1. PICK c \in Calls : Holds(c, e)
      BY <2>2 DEF Inv, HandInv, BusyIsHeld
    <3>2. \A d \in Calls : Holds(d, e) => d = c
      BY <3>1 DEF Inv, HandInv, OneHolder
    <3>3. Holders(e) = {c}
      BY <3>1, <3>2 DEF Holders, Holds, Holding
    <3> QED
      BY <2>2, <3>3, FS_Singleton
  <2> QED
    BY <2>1, <2>2
<1>2. ASSUME NEW c \in Calls, call[c].phase = "waiting"
      PROVE  /\ Cardinality({i \in DOMAIN queue[call[c].entry] :
                                 queue[call[c].entry][i] = c}) = 1
             /\ busy[call[c].entry]
  <2> DEFINE q == queue[call[c].entry]
  <2>1. call[c].entry \in Entries /\ q \in Seq(Calls) /\ DOMAIN q = 1..Len(q) /\ Len(q) \in Nat
    BY <1>2 DEF Inv, Types, HandInv, Entered
  <2>2. PICK i \in 1..Len(q) : q[i] = c
    BY <1>2 DEF Inv, HandInv, WaitsQueue
  <2>3. {j \in DOMAIN q : q[j] = c} = {i}
    BY <2>1, <2>2 DEF Inv, HandInv, QueueOnce
  <2>4. busy[call[c].entry]
    BY <2>1, <2>2 DEF Inv, HandInv, QueueBusy
  <2> QED
    BY <2>3, <2>4, FS_Singleton
<1> QED
  BY <1>1, <1>2 DEF SessionsAreHandedOver, BusyIsOneTurn, WaitersWillBeServed

(* One session, one turn (agent-pool.ts:697-739, 802-808), however many    *)
(* messages come, are refused for the budget, aborted or redelivered: busy *)
(* says whether a turn holds the session, no two ever do, and every        *)
(* message that waits stands once in a line behind a turn.                 *)
THEOREM HandedOver == Spec => []SessionsAreHandedOver
<1>1. Inv => SessionsAreHandedOver
  BY InvHandsOver
<1> QED
  BY <1>1, AlwaysInv, PTL

(* No turn goes on unstopped on a session that was destroyed, evicted or   *)
(* reaped (agent-pool.ts:810-829): a call that waits or is handed its      *)
(* session waits for a live one, and ending a session stops its turn.      *)
THEOREM EndedOnesStop == Spec => []EndedSessionsStop
<1>1. Init => Inv /\ AliveInv
  BY InitInv
<1>2. Inv /\ AliveInv /\ [Next]_vars => Inv' /\ AliveInv'
  BY NextKeeps DEF Keeps
<1>3. AliveInv => EndedSessionsStop
  BY DEF AliveInv, EndedSessionsStop
<1> QED
  BY <1>1, <1>2, <1>3, PTL DEF Spec

(* "nothing can jump the queue" (agent-pool.ts:802-808): whatever comes    *)
(* between, the session goes to the message that has waited longest.       *)
THEOREM FirstComeFirstServed == Spec => LongestWaiterFirst
<1>1. Init => Inv /\ AliveInv /\ OrderInv
  BY InitInv
<1>2. Inv /\ AliveInv /\ OrderInv /\ [Next]_vars => Inv' /\ AliveInv' /\ OrderInv'
  BY NextKeeps DEF Keeps
<1>3. Inv /\ AliveInv /\ OrderInv /\ [Next]_vars =>
          [\A c, d \in Calls :
              (/\ call[c].phase = "waiting" /\ call'[c].phase = "admitted"
               /\ call[d].phase = "waiting" /\ call[d].entry = call[c].entry)
                  => call[c].at <= call[d].at]_vars
  BY NextKeeps DEF Keeps, FirstStep
<1> QED
  BY <1>1, <1>2, <1>3, PTL DEF Spec, LongestWaiterFirst

-----------------------------------------------------------------------------
(* Room is made of idle sessions.                                          *)

LiveIds(lv) == {s \in Sessions : lv[s] # 0}

LEMMA SizeType ==
    ASSUME NEW lv
    PROVE  IsFiniteSet(LiveIds(lv)) /\ Size(lv) = Cardinality(LiveIds(lv)) /\ Size(lv) \in Nat
  BY Constants, FS_Subset, FS_CardinalityType DEF LiveIds, Size

LEMMA FewerSessions ==
    ASSUME NEW f, NEW g, \A t \in Sessions : g[t] # 0 => f[t] # 0
    PROVE  Size(g) <= Size(f) /\ (Size(g) = Size(f) => LiveIds(g) = LiveIds(f))
<1>1. LiveIds(g) \subseteq LiveIds(f)
  BY DEF LiveIds
<1> QED
  BY <1>1, SizeType, FS_Subset

LEMMA OneMoreSession ==
    ASSUME NEW f, NEW s \in Sessions, NEW g, f[s] = 0, g[s] # 0,
           \A t \in Sessions : t # s => g[t] = f[t]
    PROVE  Size(g) = Size(f) + 1
<1>1. LiveIds(g) = LiveIds(f) \cup {s} /\ s \notin LiveIds(f)
  BY DEF LiveIds
<1> QED
  BY <1>1, SizeType, FS_AddElement

LEMMA OldestGoes ==
    ASSUME NEW lv \in [Sessions -> Nat], NEW S, S \subseteq LiveIds(lv), S # {}
    PROVE  \E t \in S : WithoutOldest(lv, S)[t] = 0
<1> DEFINE ages == {lv[t] : t \in S}
<1>1. ages \subseteq Nat /\ ages # {}
  BY DEF LiveIds
<1>2. Min(ages) \in ages
  BY <1>1, MinOfNats
<1>3. PICK t \in S : lv[t] = Min(ages)
  BY <1>2
<1>4. t \in Sessions
  BY DEF LiveIds
<1> QED
  BY <1>3, <1>4 DEF WithoutOldest

(* When nothing is evicted from a full pool, nothing could be.             *)
LEMMA NothingToEvict ==
    ASSUME Types, NEW s \in Sessions, LiveIds(MakeRoom(s)) = LiveIds(live), Size(live) >= MaxSessions
    PROVE  \A t \in Live : ~Evictable(live, t)
<1> DEFINE onChannel == {t \in Live : Evictable(live, t) /\ ChannelOf[t] = ChannelOf[s]}
           first == IF CountOn(live, ChannelOf[s]) >= CapOf[ChannelOf[s]]
                    THEN WithoutOldest(live, onChannel) ELSE live
           idle  == {t \in Sessions : Evictable(first, t)}
<1>1. MakeRoom(s) = IF Size(first) >= MaxSessions THEN WithoutOldest(first, idle) ELSE first
  BY DEF MakeRoom
<1>2. /\ first = [t \in Sessions |-> first[t]]
      /\ \A t \in Sessions : first[t] # live[t] => first[t] = 0
  BY DEF Types, WithoutOldest
<1> HIDE DEF first
<1>3. \A t \in Sessions : MakeRoom(s)[t] # 0 => first[t] # 0
  BY <1>1 DEF WithoutOldest
<1>4. \A t \in Sessions : first[t] = live[t]
  BY <1>2, <1>3 DEF LiveIds
<1>5. first = live
  BY <1>2, <1>4 DEF Types
<1>6. MakeRoom(s) = WithoutOldest(live, idle)
  BY <1>1, <1>5
<1>7. idle = {t \in Sessions : Evictable(live, t)}
  BY <1>5
<1>8. live \in [Sessions -> Nat] /\ idle \subseteq LiveIds(live)
  BY <1>7 DEF Types, LiveIds, Evictable
<1> HIDE DEF idle
<1>9. idle = {}
  <2>1. ASSUME idle # {} PROVE FALSE
    <3>1. PICK t \in idle : MakeRoom(s)[t] = 0
      BY <1>6, <1>8, <2>1, OldestGoes
    <3> QED
      BY <1>8, <3>1 DEF LiveIds
  <2> QED
    BY <2>1
<1> QED
  BY <1>7, <1>9 DEF Live

RoomStep ==
    /\ \A s, t \in Sessions :
           (live[s] # 0 /\ live'[s] = 0 /\ live[t] = 0 /\ live'[t] # 0)
               => ~ busy[live[s]] /\ s \notin attached /\ ChannelOf[s] \notin NeverEvict
    /\ (Size(live') > Size(live) /\ Size(live') > MaxSessions)
           => \A s \in Live : ~ Evictable(live, s)

LEMMA FewerRoom ==
    ASSUME \A t \in Sessions : live'[t] # 0 => live[t] # 0
    PROVE  RoomStep
<1>1. Size(live') <= Size(live) /\ Size(live') \in Nat /\ Size(live) \in Nat
  BY FewerSessions, SizeType
<1> QED
  BY <1>1 DEF RoomStep

LEMMA CreateRoom ==
    ASSUME Inv, NEW s \in Sessions, Create(s)
    PROVE  RoomStep
<1> DEFINE made == MakeRoom(s)
<1>1. live[s] = 0 /\ created \in Nat /\ live' = [made EXCEPT ![s] = created + 1]
  BY Constants DEF Create, Inv, Types
<1>2. /\ made \in [Sessions -> 0..created]
      /\ \A t \in Sessions : made[t] # live[t] => made[t] = 0 /\ Evictable(live, t)
  BY RoomIsMade DEF Inv
<1>3. made[s] = 0 /\ live'[s] # 0 /\ \A t \in Sessions : t # s => live'[t] = made[t]
  BY <1>1, <1>2
<1>4. ASSUME NEW t \in Sessions, live[t] # 0, live'[t] = 0
      PROVE  ~ busy[live[t]] /\ t \notin attached /\ ChannelOf[t] \notin NeverEvict
  BY <1>1, <1>2, <1>3, <1>4 DEF Evictable
<1>5. Size(live') = Size(made) + 1
  BY <1>3, OneMoreSession
<1>6. Size(made) <= Size(live) /\ (Size(made) = Size(live) => LiveIds(made) = LiveIds(live))
  BY <1>2, FewerSessions
<1>7. Size(made) \in Nat /\ Size(live) \in Nat /\ MaxSessions \in Nat
  BY SizeType, LimitsAssumption
<1> HIDE DEF made
<1>8. ASSUME Size(live') > Size(live), Size(live') > MaxSessions
      PROVE  \A t \in Live : ~ Evictable(live, t)
  <2>1. Size(made) = Size(live) /\ Size(live) >= MaxSessions
    BY <1>5, <1>6, <1>7, <1>8
  <2>2. LiveIds(MakeRoom(s)) = LiveIds(live)
    BY <1>6, <2>1 DEF made
  <2> QED
    BY <2>1, <2>2, NothingToEvict DEF Inv
<1> QED
  BY <1>4, <1>8 DEF RoomStep

LEMMA DrainStartsRoom ==
    ASSUME Inv, DrainStarts
    PROVE  RoomStep
<1> DEFINE s == call[Head(line)].session
           e == IF live[s] = 0 THEN created + 1 ELSE live[s]
<1>1. s \in Sessions
  <2>1. line # <<>> /\ line \in Seq(Items)
    BY DEF DrainStarts, Startable, Inv, Types
  <2>2. 1 \in 1..Len(line) /\ Head(line) = line[1]
    BY <2>1, HeadAndTail
  <2> QED
    BY <2>2 DEF Inv, LineInv
<1>2. live' = [live EXCEPT ![s] = e]
  BY DEF DrainStarts
<1>3. live \in [Sessions -> 0..created] /\ created \in Nat
  BY Constants DEF Inv, Types
<1>4. CASE live[s] # 0
  <2>1. live' = live
    BY <1>1, <1>2, <1>3, <1>4
  <2> QED
    BY <2>1, FewerRoom
<1>5. CASE live[s] = 0
  <2>1. Size(live) < MaxSessions
    BY <1>5 DEF DrainStarts, Startable
  <2>2. live'[s] # 0 /\ \A t \in Sessions : t # s => live'[t] = live[t]
    BY <1>1, <1>2, <1>3, <1>5
  <2>3. Size(live') = Size(live) + 1
    BY <1>1, <1>5, <2>2, OneMoreSession
  <2>4. Size(live) \in Nat /\ MaxSessions \in Nat
    BY SizeType, LimitsAssumption
  <2>5. ~(Size(live') > MaxSessions)
    BY <2>1, <2>3, <2>4
  <2>6. \A t \in Sessions : ~(live[t] # 0 /\ live'[t] = 0)
    BY <1>5, <2>2
  <2> QED
    BY <2>5, <2>6 DEF RoomStep
<1> QED
  BY <1>4, <1>5

LEMMA NextRoom == ASSUME Inv, [Next]_vars PROVE RoomStep
<1>1. ASSUME live' = live PROVE RoomStep
  BY <1>1, FewerRoom
<1>2. CASE UNCHANGED vars
  BY <1>1, <1>2 DEF vars, pool
<1>3. ASSUME NEW s \in Sessions, Attach(s) \/ Detach(s) \/ Abort(s) PROVE RoomStep
  BY <1>1, <1>3 DEF Attach, Detach, Abort, pool
<1>4. CASE DrainBegins \/ DrainThrows \/ DrainStops
  BY <1>1, <1>4 DEF DrainBegins, DrainThrows, DrainStops, pool
<1>5. ASSUME NEW c \in Calls, NEW s \in Sessions, NEW id \in MessageIds \cup {NoId}, Send(c, s, id)
      PROVE  RoomStep
  BY <1>1, <1>5 DEF Send, pool
<1>6. ASSUME NEW c \in Calls, GateResolves(c) \/ Resume(c)
      PROVE  RoomStep
  BY <1>1, <1>6 DEF GateResolves, Resume, pool
<1>7. ASSUME NEW c \in Calls, NEW outcome \in {"answered", "failed"}, TurnEnds(c, outcome)
      PROVE  RoomStep
  BY <1>1, <1>7 DEF TurnEnds, pool
<1>8. ASSUME NEW c \in Items, NEW s \in Sessions, Submit(c, s) PROVE RoomStep
  BY <1>1, <1>8 DEF Submit, pool
<1>9. ASSUME NEW s \in Sessions, CreateThrows(s) PROVE RoomStep
  BY <1>9, RoomIsMade, FewerRoom DEF CreateThrows, Inv
<1>10. ASSUME NEW s \in Sessions, Destroy(s) PROVE RoomStep
  BY <1>10, FewerRoom DEF Destroy, Inv, Types
<1>11. CASE CleanupIdleSessions
  BY <1>11, FewerRoom DEF CleanupIdleSessions
<1>12. ASSUME NEW c \in Items, ItemEnds(c) PROVE RoomStep
  <2>1. live' = live \/ live' = [live EXCEPT ![call[c].session] = 0]
    BY <1>12 DEF ItemEnds
  <2> QED
    BY <2>1, FewerRoom DEF Inv, Types
<1> QED
  BY <1>2, <1>3, <1>4, <1>5, <1>6, <1>7, <1>8, <1>9, <1>10, <1>11, <1>12, CreateRoom,
     DrainStartsRoom, Constants DEF Next

(* A new session costs no session in use, and the pool outgrows            *)
(* MAX_SESSIONS only when none could go (agent-pool.ts:431-469), whatever  *)
(* the sessions, channels and caps are.                                    *)
THEOREM RoomOfIdleSessions == Spec => RoomIsMadeOfIdleSessions
<1>1. Inv /\ [Next]_vars =>
          [/\ \A s, t \in Sessions :
                  (live[s] # 0 /\ live'[s] = 0 /\ live[t] = 0 /\ live'[t] # 0)
                      => ~ busy[live[s]] /\ s \notin attached /\ ChannelOf[s] \notin NeverEvict
           /\ (Size(live') > Size(live) /\ Size(live') > MaxSessions)
                  => \A s \in Live : ~ Evictable(live, s)]_vars
  BY NextRoom DEF RoomStep
<1> QED
  BY <1>1, AlwaysInv, PTL DEF Spec, RoomIsMadeOfIdleSessions

-----------------------------------------------------------------------------
(* The ids an entry remembers.  What Forget leaves is given by a recursive *)
(* function: the least index at which a claim about it fails does not exist. *)

LEMMA LeastOf ==
    ASSUME NEW S, S \subseteq Nat, S # {}
    PROVE  \E m \in S : \A y \in S : m <= y
<1>1. Min(S) \in S /\ \A y \in S : Min(S) <= y
  BY MinOfNats
<1> QED
  BY <1>1

Leaves(ids, gone, f, n) ==
    f = [i \in 0..n |-> IF i = 0 THEN <<>>
                        ELSE IF ids[i] \in gone THEN f[i - 1] ELSE Append(f[i - 1], ids[i])]

LEMMA LeavesExist == ASSUME NEW ids, NEW gone, NEW n \in Nat PROVE \E f : Leaves(ids, gone, f, n)
<1> DEFINE Bad == {m \in Nat : ~ \E f : Leaves(ids, gone, f, m)}
<1>1. SUFFICES ASSUME Bad # {} PROVE FALSE
  OBVIOUS
<1>2. PICK m \in Bad : \A y \in Bad : m <= y
  BY <1>1, LeastOf
<1>3. CASE m = 0
  <2>1. Leaves(ids, gone, [i \in 0..0 |-> <<>>], 0)
    BY DEF Leaves
  <2> QED
    BY <1>2, <1>3, <2>1
<1>4. CASE m # 0
  <2>1. m - 1 \in Nat /\ m - 1 \notin Bad
    BY <1>2, <1>4
  <2>2. PICK f : Leaves(ids, gone, f, m - 1)
    BY <2>1
  <2> DEFINE g == [i \in 0..m |-> IF i = m THEN IF ids[m] \in gone THEN f[m - 1]
                                                ELSE Append(f[m - 1], ids[m])
                                  ELSE f[i]]
             h == [i \in 0..m |-> IF i = 0 THEN <<>>
                                  ELSE IF ids[i] \in gone THEN g[i - 1]
                                       ELSE Append(g[i - 1], ids[i])]
  <2>3. ASSUME NEW i \in 0..m PROVE g[i] = h[i]
    <3>1. CASE i = m
      BY <1>4, <3>1
    <3>2. CASE i # m
      <4>1. i \in 0..m - 1 /\ g[i] = f[i] /\ (i # 0 => g[i - 1] = f[i - 1])
        BY <3>2
      <4>2. f[i] = IF i = 0 THEN <<>>
                   ELSE IF ids[i] \in gone THEN f[i - 1] ELSE Append(f[i - 1], ids[i])
        BY <2>2, <4>1 DEF Leaves
      <4> QED
        BY <4>1, <4>2
    <3> QED
      BY <3>1, <3>2
  <2>4. g = [i \in 0..m |-> g[i]] /\ h = [i \in 0..m |-> h[i]]
    OBVIOUS
  <2>5. Leaves(ids, gone, g, m)
    <3>1. g = h
      <4> HIDE DEF g, h
      <4> QED
        BY <2>3, <2>4
    <3> QED
      BY <3>1 DEF Leaves
  <2> QED
    BY <1>2, <2>5
<1> QED
  BY <1>3, <1>4

(* t is what is left of the first i of ids.                                *)
Left(S, ids, gone, t, i) ==
    /\ t \in Seq(S) /\ Len(t) <= i
    /\ \A k \in 1..Len(t) : t[k] \notin gone /\ \E j \in 1..i : t[k] = ids[j]
    /\ \A j \in 1..i : ids[j] \notin gone => \E k \in 1..Len(t) : t[k] = ids[j]
    /\ IsInjective(ids) => IsInjective(t)

LEMMA NextLeft ==
    ASSUME NEW S, NEW ids \in Seq(S), NEW gone, NEW i \in 1..Len(ids), NEW t,
           Left(S, ids, gone, t, i - 1)
    PROVE  Left(S, ids, gone, IF ids[i] \in gone THEN t ELSE Append(t, ids[i]), i)
<1>1. /\ t \in Seq(S) /\ Len(t) \in Nat /\ Len(t) <= i /\ i - 1 \in Nat /\ i \in Nat
      /\ Len(t) + 1 <= i /\ ids[i] \in S
      /\ DOMAIN t = 1..Len(t) /\ DOMAIN ids = 1..Len(ids)
      /\ \A j \in 1..i : j \in DOMAIN ids /\ (j = i \/ j \in 1..i - 1)
      /\ \A j \in 1..i - 1 : j \in 1..i
  BY DEF Left
<1>2. CASE ids[i] \in gone
  BY <1>1, <1>2 DEF Left
<1>3. CASE ids[i] \notin gone
  <2> DEFINE u == Append(t, ids[i])
  <2>1. /\ u \in Seq(S) /\ Len(u) = Len(t) + 1 /\ DOMAIN u = 1..Len(u)
        /\ \A k \in 1..Len(t) : u[k] = t[k] /\ k \in 1..Len(u)
        /\ u[Len(t) + 1] = ids[i] /\ Len(t) + 1 \in 1..Len(u)
        /\ \A k \in 1..Len(u) : k \in 1..Len(t) \/ k = Len(t) + 1
    BY <1>1, Appended
  <2> HIDE DEF u
  <2>2. \A k \in 1..Len(u) : u[k] \notin gone /\ \E j \in 1..i : u[k] = ids[j]
    <3>1. ASSUME NEW k \in 1..Len(t) PROVE u[k] \notin gone /\ \E j \in 1..i : u[k] = ids[j]
      BY <1>1, <2>1 DEF Left
    <3> QED
      BY <1>1, <1>3, <2>1, <3>1
  <2>3. \A j \in 1..i : ids[j] \notin gone => \E k \in 1..Len(u) : u[k] = ids[j]
    <3>1. ASSUME NEW j \in 1..i - 1, ids[j] \notin gone PROVE \E k \in 1..Len(u) : u[k] = ids[j]
      BY <2>1, <3>1 DEF Left
    <3> QED
      BY <1>1, <2>1, <3>1
  <2>4. ASSUME IsInjective(ids) PROVE IsInjective(u)
    <3>1. \A k \in 1..Len(t) : t[k] # ids[i]
      <4>1. \A j \in 1..i - 1 : ids[j] # ids[i]
        BY <1>1, <2>4 DEF IsInjective
      <4> QED
        BY <4>1 DEF Left
    <3>2. IsInjective(t)
      BY <2>4 DEF Left
    <3>3. ASSUME NEW k \in 1..Len(u), NEW m \in 1..Len(u), u[k] = u[m] PROVE k = m
      <4>1. CASE k \in 1..Len(t) /\ m \in 1..Len(t)
        BY <1>1, <2>1, <3>2, <3>3, <4>1 DEF IsInjective
      <4>2. CASE k = Len(t) + 1 \/ m = Len(t) + 1
        BY <2>1, <3>1, <3>3, <4>2
      <4> QED
        BY <2>1, <4>1, <4>2
    <3> QED
      BY <2>1, <3>3 DEF IsInjective
  <2>5. Left(S, ids, gone, u, i)
    BY <1>1, <2>1, <2>2, <2>3, <2>4 DEF Left
  <2> QED
    BY <1>3, <2>5 DEF u
<1> QED
  BY <1>2, <1>3

LEMMA AllLeft ==
    ASSUME NEW S, NEW ids \in Seq(S), NEW gone, NEW f, Leaves(ids, gone, f, Len(ids)),
           NEW i \in 0..Len(ids)
    PROVE  Left(S, ids, gone, f[i], i)
<1> DEFINE Bad == {j \in 0..Len(ids) : ~ Left(S, ids, gone, f[j], j)}
<1>1. SUFFICES ASSUME Bad # {} PROVE FALSE
  OBVIOUS
<1>2. Bad \subseteq Nat
  OBVIOUS
<1>3. PICK m \in Bad : \A y \in Bad : m <= y
  BY <1>1, <1>2, LeastOf
<1>4. f[m] = IF m = 0 THEN <<>>
             ELSE IF ids[m] \in gone THEN f[m - 1] ELSE Append(f[m - 1], ids[m])
  BY DEF Leaves
<1>5. CASE m = 0
  <2>1. /\ f[m] = <<>> /\ <<>> \in Seq(S) /\ Len(<<>>) = 0 /\ DOMAIN <<>> = {}
        /\ 1..0 = {}
    BY <1>4, <1>5
  <2>2. Left(S, ids, gone, f[m], m)
    BY <1>5, <2>1 DEF Left, IsInjective
  <2> QED
    BY <2>2
<1>6. CASE m # 0
  <2>1. m \in 1..Len(ids) /\ m - 1 \in 0..Len(ids) /\ m - 1 \notin Bad
    BY <1>3, <1>6
  <2>2. Left(S, ids, gone, f[m - 1], m - 1)
    BY <2>1
  <2>3. Left(S, ids, gone, f[m], m)
    BY <1>4, <1>6, <2>1, <2>2, NextLeft
  <2> QED
    BY <2>3
<1> QED
  BY <1>5, <1>6

LEMMA ForgetLeaves ==
    ASSUME NEW S, NEW ids \in Seq(S), NEW gone
    PROVE  /\ Forget(ids, gone) \in Seq(S) /\ Len(Forget(ids, gone)) <= Len(ids)
           /\ ToSet(Forget(ids, gone)) = ToSet(ids) \ gone
           /\ IsInjective(ids) => IsInjective(Forget(ids, gone))
<1> DEFINE f == CHOOSE f : Leaves(ids, gone, f, Len(ids))
           t == f[Len(ids)]
<1>1. Len(ids) \in Nat
  OBVIOUS
<1>2. Leaves(ids, gone, f, Len(ids))
  BY <1>1, LeavesExist
<1>3. Forget(ids, gone) = t
  BY DEF Forget, Leaves
<1> HIDE DEF f
<1>4. Left(S, ids, gone, t, Len(ids))
  BY <1>1, <1>2, AllLeft
<1> HIDE DEF t
<1>5. DOMAIN t = 1..Len(t) /\ DOMAIN ids = 1..Len(ids)
  BY <1>4 DEF Left
<1>6. ToSet(t) = ToSet(ids) \ gone
  BY <1>4, <1>5 DEF Left, ToSet
<1> QED
  BY <1>3, <1>4, <1>6 DEF Left

Within(ids) == ids \in Seq(MessageIds) /\ Len(ids) <= SeenMax

LEMMA RememberKeeps ==
    ASSUME NEW ids, Within(ids), NEW id \in MessageIds \cup {NoId}
    PROVE  /\ Within(Remember(ids, id))
           /\ (IsInjective(ids) /\ id \notin ToSet(ids)) => IsInjective(Remember(ids, id))
           /\ id # NoId => id \in ToSet(Remember(ids, id))
           /\ ToSet(Remember(ids, id)) \subseteq ToSet(ids) \cup {id}
           /\ Len(ids) < SeenMax => ToSet(ids) \subseteq ToSet(Remember(ids, id))
<1>1. /\ ids \in Seq(MessageIds) /\ Len(ids) \in Nat /\ SeenMax \in Nat \ {0}
      /\ DOMAIN ids = 1..Len(ids) /\ Len(ids) <= SeenMax
  BY LimitsAssumption DEF Within
<1>2. CASE id = NoId
  BY <1>1, <1>2 DEF Remember, Within
<1>3. ASSUME NEW s \in Seq(MessageIds), Len(s) < SeenMax, NEW x \in MessageIds
      PROVE  /\ Within(Append(s, x)) /\ ToSet(Append(s, x)) = ToSet(s) \cup {x}
             /\ (IsInjective(s) /\ x \notin ToSet(s)) => IsInjective(Append(s, x))
  <2> DEFINE u == Append(s, x)
  <2>1. /\ Len(s) \in Nat /\ DOMAIN s = 1..Len(s)
        /\ u \in Seq(MessageIds) /\ Len(u) = Len(s) + 1 /\ DOMAIN u = 1..Len(u)
        /\ \A k \in 1..Len(s) : u[k] = s[k] /\ k \in 1..Len(u)
        /\ u[Len(s) + 1] = x /\ Len(s) + 1 \in 1..Len(u)
        /\ \A k \in 1..Len(u) : k \in 1..Len(s) \/ k = Len(s) + 1
    BY <1>3, Appended
  <2> HIDE DEF u
  <2>2. Within(u)
    BY <1>1, <1>3, <2>1 DEF Within
  <2>3. ToSet(u) = ToSet(s) \cup {x}
    <3>1. ToSet(u) \subseteq ToSet(s) \cup {x}
      BY <2>1 DEF ToSet
    <3>2. ToSet(s) \cup {x} \subseteq ToSet(u)
      BY <2>1 DEF ToSet
    <3> QED
      BY <3>1, <3>2
  <2>4. ASSUME IsInjective(s), x \notin ToSet(s) PROVE IsInjective(u)
    <3>1. \A k \in 1..Len(s) : s[k] # x
      BY <2>1, <2>4 DEF ToSet
    <3> QED
      BY <2>1, <2>4, <3>1 DEF IsInjective
  <2> QED
    BY <2>2, <2>3, <2>4 DEF u
<1>4. CASE id # NoId /\ Len(ids) < SeenMax
  <2>1. Remember(ids, id) = Append(ids, id) /\ id \in MessageIds
    BY <1>4 DEF Remember
  <2> QED
    BY <1>1, <1>3, <1>4, <2>1
<1>5. CASE id # NoId /\ ~(Len(ids) < SeenMax)
  <2> DEFINE s == Tail(ids)
  <2>1. Remember(ids, id) = Append(s, id) /\ id \in MessageIds
    BY <1>5 DEF Remember
  <2>2. Len(ids) = SeenMax /\ ids # <<>>
    <3> HIDE DEF s
    <3>0. PICK n \in Nat : n = Len(ids)
      BY <1>1
    <3>1. Len(ids) = SeenMax /\ Len(ids) # 0
      <4>1. n <= SeenMax /\ ~(n < SeenMax) /\ SeenMax \in Nat /\ SeenMax # 0
        BY <1>1, <1>5, <3>0
      <4>2. n = SeenMax
        BY <3>0, <4>1
      <4> QED
        BY <3>0, <4>1, <4>2
    <3>2. ids # <<>>
      BY <3>1
    <3> QED
      BY <3>1, <3>2
  <2>3. /\ s \in Seq(MessageIds) /\ Len(s) = Len(ids) - 1
        /\ \A i \in 1..Len(s) : i + 1 \in 1..Len(ids) /\ s[i] = ids[i + 1]
    BY <1>1, <2>2, HeadAndTail
  <2>4. Len(s) < SeenMax /\ DOMAIN s = 1..Len(s) /\ Len(s) \in Nat
    BY <1>1, <2>2, <2>3
  <2> HIDE DEF s
  <2>5. ToSet(s) \subseteq ToSet(ids)
    BY <1>1, <2>3, <2>4 DEF ToSet
  <2>6. IsInjective(ids) => IsInjective(s)
    BY SMTT(30), <1>1, <2>3, <2>4 DEF IsInjective
  <2>7. /\ Within(Append(s, id)) /\ ToSet(Append(s, id)) = ToSet(s) \cup {id}
        /\ (IsInjective(s) /\ id \notin ToSet(s)) => IsInjective(Append(s, id))
    BY <1>3, <2>1, <2>3, <2>4
  <2> QED
    BY <1>5, <2>1, <2>5, <2>6, <2>7
<1> QED
  BY <1>2, <1>4, <1>5

SeenType  == seen \in [Entries -> Seq(MessageIds)] /\ \A e \in Entries : Within(seen[e])
QueueFits == \A e \in Entries : Len(queue[e]) <= QueueMax

(* What a step does to the calls and to the ids that the entries remember: *)
(* call c, with message id `id', is dealt with at entry e.                 *)
Over == {"ended", "done"}
Same(d) == call'[d].id = call[d].id /\ call'[d].entry = call[d].entry

Learns(c, e, id, ids) ==
    \/ ids = seen[e] /\ (Taken(c)' => Taken(c) /\ Same(c))
    \/ id \notin ToSet(seen[e]) /\ ids = Remember(seen[e], id)
    \/ /\ ~Taken(c)' /\ Taken(c) /\ call[c].id = id /\ call[c].entry = e
       /\ ids = Forget(seen[e], {id})
    \/ /\ ~Taken(c)' /\ id \notin ToSet(seen[e])
       /\ ids = Forget(Remember(seen[e], id), {id})

Stay(c) ==
    \A d \in Calls \ {c} :
        \/ call'[d] = call[d]
        \/ call[d].phase = "waiting" /\ call'[d] = [call[d] EXCEPT !.phase = "admitted"]

Recalls(c, e, id) ==
    /\ \E ids : seen' = [seen EXCEPT ![e] = ids] /\ Learns(c, e, id, ids)
    /\ Stay(c)
    /\ Taken(c)' => call'[c].id = id /\ call'[c].entry = e
    /\ call'[c].outcome = "answered" => call'[c].phase \in Over

LEMMA FinishedFree ==
    ASSUME Types, NEW c \in Calls, NEW rec \in CallRecs, NEW outcome \in Outcomes,
           NEW calls \in [Calls -> CallRecs], calls[c] = Finished(c, rec, outcome)
    PROVE  /\ calls[c].id = rec.id /\ calls[c].entry = rec.entry
           /\ calls[c].outcome = outcome /\ calls[c].phase \in Over
  BY DEF Finished, CallRecs, Over

LEMMA ReleaseRecalls ==
    ASSUME Types, HandInv, QueueFits, NEW c \in Calls, call[c].phase # "waiting",
           NEW e \in Entries, NEW rec \in CallRecs, NEW outcome \in Outcomes,
           Release(e, [call EXCEPT ![c] = Finished(c, rec, outcome)])
    PROVE  /\ Stay(c) /\ QueueFits'
           /\ call'[c].id = rec.id /\ call'[c].entry = rec.entry
           /\ call'[c].outcome = outcome /\ call'[c].phase \in Over
<1> DEFINE calls == [call EXCEPT ![c] = Finished(c, rec, outcome)]
<1>1. calls \in [Calls -> CallRecs] /\ calls[c] = Finished(c, rec, outcome)
      /\ \A d \in Calls \ {c} : calls[d] = call[d]
  BY FinishedRec DEF Types
<1>2. Release(e, calls)
  OBVIOUS
<1> HIDE DEF calls
<1>3. /\ calls[c].id = rec.id /\ calls[c].entry = rec.entry
      /\ calls[c].outcome = outcome /\ calls[c].phase \in Over
  BY <1>1, FinishedFree
<1>4. queue[e] \in Seq(Calls) /\ Len(queue[e]) \in Nat /\ QueueMax \in Nat
  BY LimitsAssumption DEF Types
<1>5. CASE queue[e] = <<>>
  <2>1. call' = calls
    BY <1>2, <1>5 DEF Release
  <2>2. queue' = queue
    BY <1>2, <1>5 DEF Release, Types
  <2> QED
    BY <1>1, <1>3, <2>1, <2>2 DEF Stay, QueueFits
<1>6. CASE queue[e] # <<>>
  <2> DEFINE next == Head(queue[e])
  <2>1. /\ 1 \in 1..Len(queue[e]) /\ next = queue[e][1] /\ next \in Calls
        /\ Len(Tail(queue[e])) = Len(queue[e]) - 1
    BY <1>4, <1>6, HeadAndTail
  <2>2. call[next].phase = "waiting" /\ next # c
    BY <2>1 DEF HandInv, QueueWaits
  <2>3. call' = [calls EXCEPT ![next].phase = "admitted"]
    BY <1>2, <1>6 DEF Release
  <2>4. queue' = [queue EXCEPT ![e] = Tail(queue[e])]
    BY <1>2, <1>6 DEF Release
  <2> HIDE DEF next
  <2>5. /\ call'[c] = calls[c] /\ call'[next] = [call[next] EXCEPT !.phase = "admitted"]
        /\ \A d \in Calls \ {c, next} : call'[d] = call[d]
    BY <1>1, <2>1, <2>2, <2>3
  <2>6. Stay(c)
    BY <2>2, <2>5 DEF Stay
  <2>7. QueueFits'
    <3>1. ASSUME NEW f \in Entries PROVE Len(queue'[f]) <= QueueMax
      <4>1. CASE f = e
        <5>1. queue'[f] = Tail(queue[e])
          BY <2>4, <4>1 DEF Types
        <5> QED
          BY <1>4, <2>1, <5>1 DEF QueueFits
      <4>2. CASE f # e
        <5>1. queue'[f] = queue[f]
          BY <2>4, <4>2 DEF Types
        <5> QED
          BY <5>1 DEF QueueFits
      <4> QED
        BY <4>1, <4>2
    <3> QED
      BY <3>1 DEF QueueFits
  <2> QED
    BY <1>3, <2>5, <2>6, <2>7
<1> QED
  BY <1>5, <1>6

(* The ids that a turn of c begins with are those of e, or those and its own. *)
Begins(c, e, rec, ids) ==
    \/ ids = seen[e] /\ Taken(c) /\ rec = call[c]
    \/ rec.id \notin ToSet(seen[e]) /\ ids = Remember(seen[e], rec.id)

LEMMA BeginRecalls ==
    ASSUME Types, HandInv, SeenType, QueueFits, NEW c \in Calls, call[c].phase # "waiting",
           NEW e \in Entries, NEW rec \in CallRecs, rec.entry = e, rec.outcome # "answered",
           NEW ids, Begin(c, e, rec, ids), Begins(c, e, rec, ids)
    PROVE  Recalls(c, e, rec.id) /\ QueueFits'
<1>1. CASE /\ seen' = [seen EXCEPT ![e] = ids] /\ queue' = queue
           /\ call' = [call EXCEPT ![c] = [rec EXCEPT !.phase = "running"]]
  <2> DEFINE new == [rec EXCEPT !.phase = "running"]
  <2>1. /\ call' = [call EXCEPT ![c] = new]
        /\ new.id = rec.id /\ new.entry = e /\ new.phase = "running" /\ new.outcome = rec.outcome
    BY <1>1 DEF CallRecs
  <2> HIDE DEF new
  <2>2. call'[c] = new /\ \A d \in Calls \ {c} : call'[d] = call[d]
    BY <2>1 DEF Types
  <2>3. Learns(c, e, rec.id, ids)
    BY <2>1, <2>2 DEF Learns, Begins, Same
  <2>4. QueueFits'
    BY <1>1 DEF QueueFits
  <2> QED
    BY <1>1, <2>1, <2>2, <2>3, <2>4 DEF Recalls, Stay
<1>2. CASE /\ seen' = [seen EXCEPT ![e] = Forget(ids, {rec.id})]
           /\ Release(e, [call EXCEPT ![c] = Finished(c, rec, "refused")])
  <2>1. "refused" \in Outcomes
    BY DEF Outcomes
  <2>2. /\ Stay(c) /\ QueueFits'
        /\ call'[c].id = rec.id /\ call'[c].entry = rec.entry
        /\ call'[c].outcome = "refused" /\ call'[c].phase \in Over
    BY <1>2, <2>1, ReleaseRecalls
  <2>3. ~Taken(c)'
    BY <2>2 DEF Taken, Over
  <2>4. Learns(c, e, rec.id, Forget(ids, {rec.id}))
    BY <2>3 DEF Learns, Begins
  <2> QED
    BY <1>2, <2>2, <2>3, <2>4 DEF Recalls
<1> QED
  BY <1>1, <1>2 DEF Begin

LEMMA AdmitRecalls ==
    ASSUME Types, HandInv, SeenType, QueueFits, NEW c \in Calls, call[c].phase # "waiting",
           NEW e \in Entries, NEW rec \in CallRecs, rec.entry = e, rec.outcome # "answered",
           Admit(c, e, rec)
    PROVE  Recalls(c, e, rec.id) /\ QueueFits'
<1>1. ASSUME NEW outcome \in Outcomes, outcome # "answered", UNCHANGED entries,
             call' = [call EXCEPT ![c] = Finished(c, rec, outcome)]
      PROVE  Recalls(c, e, rec.id) /\ QueueFits'
  <2>1. call' \in [Calls -> CallRecs] /\ call'[c] = Finished(c, rec, outcome)
        /\ \A d \in Calls \ {c} : call'[d] = call[d]
    BY <1>1, FinishedRec DEF Types
  <2>2. call'[c].outcome = outcome /\ call'[c].phase \in Over
    BY <2>1, FinishedFree
  <2>3. ~Taken(c)'
    BY <1>1, <2>2 DEF Taken, Over
  <2>4. seen' = [seen EXCEPT ![e] = seen[e]] /\ queue' = queue
    BY <1>1 DEF entries, SeenType
  <2>5. Learns(c, e, rec.id, seen[e])
    BY <2>3 DEF Learns
  <2>6. Stay(c)
    BY <2>1 DEF Stay
  <2>7. QueueFits'
    BY <2>4 DEF QueueFits
  <2> QED
    BY <1>1, <2>2, <2>3, <2>4, <2>5, <2>6, <2>7 DEF Recalls
<1>2. CASE Redelivered(e, rec.id) /\ UNCHANGED entries
           /\ call' = [call EXCEPT ![c] = Finished(c, rec, "duplicate")]
  BY <1>1, <1>2 DEF Outcomes
<1>3. CASE call' = [call EXCEPT ![c] = Finished(c, rec, "refused")] /\ UNCHANGED entries
  BY <1>1, <1>3 DEF Outcomes
<1>4. CASE /\ ~Redelivered(e, rec.id) /\ LineHasRoom(e)
           /\ seen' = [seen EXCEPT ![e] = Remember(@, rec.id)]
           /\ queue' = [queue EXCEPT ![e] = Append(@, c)]
           /\ call' = [call EXCEPT ![c] = [rec EXCEPT !.phase = "waiting"]]
  <2> DEFINE new == [rec EXCEPT !.phase = "waiting"]
  <2>1. /\ call' = [call EXCEPT ![c] = new]
        /\ new.id = rec.id /\ new.entry = e /\ new.phase = "waiting" /\ new.outcome = rec.outcome
    BY <1>4 DEF CallRecs
  <2> HIDE DEF new
  <2>2. call'[c] = new /\ \A d \in Calls \ {c} : call'[d] = call[d]
    BY <2>1 DEF Types
  <2>3. seen' = [seen EXCEPT ![e] = Remember(seen[e], rec.id)]
    BY <1>4
  <2>4. Learns(c, e, rec.id, Remember(seen[e], rec.id))
    BY <1>4 DEF Learns, Redelivered
  <2>5. QueueFits'
    <3>1. ASSUME NEW f \in Entries PROVE Len(queue'[f]) <= QueueMax
      <4>1. /\ f = e => queue'[f] = Append(queue[f], c) /\ Len(queue[f]) < QueueMax
            /\ f # e => queue'[f] = queue[f]
            /\ queue[f] \in Seq(Calls) /\ Len(queue[f]) \in Nat /\ QueueMax \in Nat
            /\ Len(queue[f]) <= QueueMax
        BY <1>4, LimitsAssumption DEF LineHasRoom, Types, QueueFits
      <4>2. Len(Append(queue[f], c)) = Len(queue[f]) + 1
        BY <4>1, Appended
      <4> QED
        BY <4>1, <4>2
    <3> QED
      BY <3>1 DEF QueueFits
  <2> QED
    BY <2>1, <2>2, <2>3, <2>4, <2>5 DEF Recalls, Stay
<1>5. CASE ~Redelivered(e, rec.id) /\ Begin(c, e, rec, Remember(seen[e], rec.id))
  <2>1. Begins(c, e, rec, Remember(seen[e], rec.id))
    BY <1>5 DEF Begins, Redelivered
  <2> QED
    BY <1>5, <2>1, BeginRecalls
<1> QED
  BY <1>2, <1>3, <1>4, <1>5 DEF Admit, entries

LEMMA ChatRecalls ==
    ASSUME Types, HandInv, SeenType, QueueFits, NEW c \in Calls, call[c].phase # "waiting",
           NEW e \in Entries, NEW rec \in CallRecs, rec.entry = e, rec.outcome # "answered",
           Chat(c, e, rec)
    PROVE  Recalls(c, e, rec.id) /\ QueueFits'
<1>1. CASE call' = [call EXCEPT ![c] = [rec EXCEPT !.phase = "gate"]] /\ UNCHANGED entries
  <2> DEFINE new == [rec EXCEPT !.phase = "gate"]
  <2>1. /\ call' = [call EXCEPT ![c] = new]
        /\ new.id = rec.id /\ new.entry = e /\ new.phase = "gate" /\ new.outcome = rec.outcome
    BY <1>1 DEF CallRecs
  <2> HIDE DEF new
  <2>2. call'[c] = new /\ \A d \in Calls \ {c} : call'[d] = call[d]
    BY <2>1 DEF Types
  <2>3. ~Taken(c)'
    BY <2>1, <2>2 DEF Taken
  <2>4. seen' = [seen EXCEPT ![e] = seen[e]] /\ queue' = queue
    BY <1>1 DEF entries, SeenType
  <2>5. Learns(c, e, rec.id, seen[e])
    BY <2>3 DEF Learns
  <2> QED
    BY <2>1, <2>2, <2>3, <2>4, <2>5 DEF Recalls, Stay, QueueFits
<1> QED
  BY <1>1, AdmitRecalls DEF Chat

-----------------------------------------------------------------------------
(* The ids that are remembered, the lines and the answered calls.          *)

Answered == \A c \in Calls : call[c].outcome = "answered" => call[c].phase \in Over
RestInv  == SeenType /\ QueueFits /\ Answered

Quiet ==
    /\ seen' = seen /\ queue' = queue
    /\ \A d \in Calls : /\ Taken(d)' => Taken(d) /\ Same(d)
                        /\ call'[d].outcome = "answered" => call'[d].phase \in Over

(* Every step is one of these.                                             *)
MemoryStep ==
    \/ \E c \in Calls, e \in Entries, id \in MessageIds \cup {NoId} :
           Recalls(c, e, id) /\ QueueFits'
    \/ Quiet
    \/ \E e \in Entries : RefuseWaiters(e)

LEMMA LearnsWithin ==
    ASSUME SeenType, NEW c, NEW e \in Entries, NEW id \in MessageIds \cup {NoId}, NEW ids,
           Learns(c, e, id, ids)
    PROVE  Within(ids)
<1>1. Within(seen[e])
  BY DEF SeenType
<1>2. Within(Remember(seen[e], id))
  BY <1>1, RememberKeeps
<1>3. ASSUME NEW s, Within(s), NEW gone PROVE Within(Forget(s, gone))
  <2>1. s \in Seq(MessageIds) /\ Len(s) <= SeenMax /\ Len(s) \in Nat /\ SeenMax \in Nat
    BY <1>3, LimitsAssumption DEF Within
  <2>2. Forget(s, gone) \in Seq(MessageIds) /\ Len(Forget(s, gone)) <= Len(s)
    BY <2>1, ForgetLeaves
  <2>3. Len(Forget(s, gone)) \in Nat
    BY <2>2
  <2> QED
    BY <2>1, <2>2, <2>3 DEF Within
<1> QED
  BY <1>1, <1>2, <1>3 DEF Learns

LEMMA WaitersRefused ==
    ASSUME Types, HandInv, NEW e \in Entries, RefuseWaiters(e), NEW d \in Calls
    PROVE  \/ /\ call'[d] = call[d]
              /\ ~(call[d].phase = "waiting" /\ call[d].entry = e)
           \/ /\ call[d].phase = "waiting" /\ call[d].entry = e /\ d \in ToSet(queue[e])
              /\ call'[d].outcome = "refused" /\ call'[d].phase \in Over
<1>1. queue[e] \in Seq(Calls) /\ DOMAIN queue[e] = 1..Len(queue[e]) /\ call[d] \in CallRecs
  BY DEF Types
<1>2. CASE d \in ToSet(queue[e])
  <2>1. call'[d] = Finished(d, call[d], "refused")
    BY <1>2 DEF RefuseWaiters
  <2>2. PICK i \in 1..Len(queue[e]) : queue[e][i] = d
    BY <1>1, <1>2 DEF ToSet
  <2>3. call[d].phase = "waiting" /\ call[d].entry = e
    BY <2>2 DEF HandInv, QueueWaits
  <2>4. call'[d].outcome = "refused" /\ call'[d].phase \in Over
    BY <1>1, <2>1 DEF Finished, CallRecs, Over
  <2> QED
    BY <1>2, <2>3, <2>4
<1>3. CASE d \notin ToSet(queue[e])
  <2>1. call'[d] = call[d]
    BY <1>3 DEF RefuseWaiters
  <2>2. ASSUME call[d].phase = "waiting", call[d].entry = e PROVE FALSE
    <3>1. PICK i \in 1..Len(queue[e]) : queue[e][i] = d
      BY <2>2 DEF HandInv, WaitsQueue
    <3> QED
      BY <1>1, <1>3, <3>1 DEF ToSet
  <2> QED
    BY <2>1, <2>2
<1> QED
  BY <1>2, <1>3

LEMMA RestKept == ASSUME Types, HandInv, RestInv, MemoryStep PROVE RestInv'
<1>1. ASSUME NEW c \in Calls, NEW e \in Entries, NEW id \in MessageIds \cup {NoId},
             Recalls(c, e, id), QueueFits'
      PROVE  RestInv'
  <2>1. PICK ids : seen' = [seen EXCEPT ![e] = ids] /\ Learns(c, e, id, ids)
    BY <1>1 DEF Recalls
  <2>2. Within(ids)
    BY <2>1, LearnsWithin DEF RestInv
  <2>3. SeenType'
    BY <2>1, <2>2 DEF RestInv, SeenType, Within
  <2>4. ASSUME NEW d \in Calls, call'[d].outcome = "answered" PROVE call'[d].phase \in Over
    <3>1. CASE d = c
      BY <1>1, <2>4, <3>1 DEF Recalls
    <3>2. CASE call'[d] = call[d]
      BY <2>4, <3>2 DEF RestInv, Answered
    <3>3. CASE call[d].phase = "waiting" /\ call'[d] = [call[d] EXCEPT !.phase = "admitted"]
      <4>1. call[d] \in CallRecs
        BY DEF Types
      <4>2. call[d].outcome = "answered"
        BY <2>4, <3>3, <4>1 DEF CallRecs
      <4> QED
        BY <3>3, <4>2 DEF RestInv, Answered, Over
    <3> QED
      BY <1>1, <3>1, <3>2, <3>3 DEF Recalls, Stay
  <2> QED
    BY <1>1, <2>3, <2>4 DEF RestInv, Answered
<1>2. CASE Quiet
  BY <1>2 DEF Quiet, RestInv, SeenType, QueueFits, Answered
<1>3. ASSUME NEW e \in Entries, RefuseWaiters(e) PROVE RestInv'
  <2> DEFINE ids == Forget(seen[e], {call[c].id : c \in ToSet(queue[e])})
  <2>1. seen' = [seen EXCEPT ![e] = ids]
    BY <1>3 DEF RefuseWaiters
  <2>2. Within(ids)
    <3>1. /\ seen[e] \in Seq(MessageIds) /\ Len(seen[e]) <= SeenMax /\ Len(seen[e]) \in Nat
          /\ SeenMax \in Nat
      BY LimitsAssumption DEF RestInv, SeenType, Within
    <3>2. ids \in Seq(MessageIds) /\ Len(ids) <= Len(seen[e])
      BY <3>1, ForgetLeaves
    <3> HIDE DEF ids
    <3>3. Len(ids) \in Nat
      BY <3>2
    <3> QED
      BY <3>1, <3>2, <3>3 DEF Within
  <2> HIDE DEF ids
  <2>3. SeenType'
    BY <2>1, <2>2 DEF RestInv, SeenType, Within
  <2>4. QueueFits'
    <3>1. \A f \in Entries : queue'[f] = queue[f] \/ queue'[f] = <<>>
      BY <1>3 DEF RefuseWaiters, Types
    <3>2. Len(<<>>) = 0 /\ QueueMax \in Nat
      BY LimitsAssumption
    <3> QED
      BY <3>1, <3>2 DEF RestInv, QueueFits
  <2>5. Answered'
    BY <1>3, WaitersRefused DEF RestInv, Answered
  <2> QED
    BY <2>3, <2>4, <2>5 DEF RestInv
<1> QED
  BY <1>1, <1>2, <1>3 DEF MemoryStep

(* Each action is such a step.                                             *)
LEMMA SendRemembers ==
    ASSUME Inv, RestInv, NEW c \in Calls, NEW s \in Sessions, NEW id \in MessageIds \cup {NoId},
           Send(c, s, id)
    PROVE  MemoryStep
<1> DEFINE rec == [call[c] EXCEPT !.session = s, !.entry = live[s], !.id = id,
                                  !.at = Arrivals + 1]
<1>1. call[c] \in CallRecs /\ call[c].phase = "new" /\ call \in [Calls -> CallRecs]
  BY DEF Inv, Types, Send
<1>2. live[s] \in 0..MaxEntries
  BY Constants DEF Inv, Types
<1>3. rec \in CallRecs /\ rec.entry = live[s] /\ rec.id = id /\ rec.outcome = call[c].outcome
  <2> DEFINE n == Arrivals + 1
  <2>1. n \in Nat
    BY ArrivalsType
  <2> HIDE DEF n
  <2>2. rec = [call[c] EXCEPT !.session = s, !.entry = live[s], !.id = id, !.at = n]
    BY DEF n
  <2> HIDE DEF rec
  <2> QED
    BY <1>1, <1>2, <2>1, <2>2 DEF CallRecs
<1>4. rec.outcome # "answered"
  BY <1>1, <1>3 DEF RestInv, Answered, Over
<1>5. \/ live[s] = 0 /\ call' = [call EXCEPT ![c] = Finished(c, rec, "refused")]
         /\ UNCHANGED entries
      \/ live[s] # 0 /\ Chat(c, live[s], rec)
  BY DEF Send
<1> HIDE DEF rec
<1>6. CASE live[s] # 0 /\ Chat(c, live[s], rec)
  <2>1. live[s] \in Entries
    BY <1>6, LiveIsEntry DEF Inv
  <2>2. Recalls(c, live[s], rec.id) /\ QueueFits'
    BY <1>1, <1>3, <1>4, <1>6, <2>1, ChatRecalls DEF Inv, RestInv
  <2> QED
    BY <1>3, <2>1, <2>2 DEF MemoryStep
<1>7. CASE call' = [call EXCEPT ![c] = Finished(c, rec, "refused")] /\ UNCHANGED entries
  <2>1. "refused" \in Outcomes
    BY DEF Outcomes
  <2>2. call' \in [Calls -> CallRecs] /\ call'[c] = Finished(c, rec, "refused")
        /\ \A d \in Calls \ {c} : call'[d] = call[d]
    BY <1>1, <1>3, <1>7, <2>1, FinishedRec
  <2>3. call'[c].outcome = "refused" /\ call'[c].phase \in Over
    BY <1>3, <2>1, <2>2, FinishedFree DEF Inv
  <2>4. Quiet
    BY <1>7, <2>2, <2>3 DEF Quiet, Taken, Same, Over, entries, RestInv, Answered
  <2> QED
    BY <2>4 DEF MemoryStep
<1> QED
  BY <1>5, <1>6, <1>7

LEMMA GateRemembers ==
    ASSUME Inv, RestInv, NEW c \in Calls, GateResolves(c)
    PROVE  MemoryStep
<1>1. call[c] \in CallRecs /\ call \in [Calls -> CallRecs] /\ "handled" \in Outcomes
  BY DEF Inv, Types, Outcomes
<1>2. call' \in [Calls -> CallRecs] /\ call'[c] = Finished(c, call[c], "handled")
      /\ \A d \in Calls \ {c} : call'[d] = call[d]
  BY <1>1, FinishedRec DEF GateResolves
<1>3. call'[c].outcome = "handled" /\ call'[c].phase \in Over
  BY <1>1, <1>2, FinishedFree DEF Inv
<1>4. Quiet
  BY <1>2, <1>3 DEF GateResolves, Quiet, Taken, Same, Over, entries, RestInv, Answered
<1> QED
  BY <1>4 DEF MemoryStep

LEMMA ResumeRemembers ==
    ASSUME Inv, RestInv, NEW c \in Calls, Resume(c)
    PROVE  MemoryStep
<1> DEFINE e == call[c].entry
<1>1. /\ call[c] \in CallRecs /\ call[c].phase = "admitted" /\ e \in Entries
      /\ call[c].id \in MessageIds \cup {NoId}
  BY DEF Inv, Types, Resume, HandInv, Entered, Holding, CallRecs
<1>2. call[c].outcome # "answered" /\ Taken(c)
  BY <1>1 DEF RestInv, Answered, Over, Taken
<1>3. Begin(c, e, call[c], seen[e]) /\ Begins(c, e, call[c], seen[e])
  BY <1>2 DEF Resume, Begins
<1>4. Recalls(c, e, call[c].id) /\ QueueFits'
  BY <1>1, <1>2, <1>3, BeginRecalls DEF Inv, RestInv
<1> QED
  BY <1>1, <1>4 DEF MemoryStep

LEMMA TurnEndsRemembers ==
    ASSUME Inv, RestInv, NEW c \in Calls, NEW outcome \in {"answered", "failed"},
           TurnEnds(c, outcome)
    PROVE  MemoryStep
<1> DEFINE e == call[c].entry
<1>1. /\ call[c] \in CallRecs /\ call[c].phase = "running" /\ e \in Entries
      /\ call[c].id \in MessageIds \cup {NoId}
  BY DEF Inv, Types, TurnEnds, HandInv, Entered, Holding, CallRecs
<1>2. Release(e, [call EXCEPT ![c] = Finished(c, call[c], outcome)])
  BY DEF TurnEnds
<1>3. outcome \in Outcomes
  BY DEF Outcomes
<1>4. /\ Stay(c) /\ QueueFits'
      /\ call'[c].id = call[c].id /\ call'[c].entry = e
      /\ call'[c].outcome = outcome /\ call'[c].phase \in Over
  BY <1>1, <1>2, <1>3, ReleaseRecalls DEF Inv, RestInv
<1>5. Taken(c)
  BY <1>1 DEF Taken
<1>6. CASE outcome = "answered"
  <2>1. seen' = [seen EXCEPT ![e] = seen[e]]
    BY <1>6 DEF TurnEnds, RestInv, SeenType
  <2>2. Learns(c, e, call[c].id, seen[e])
    BY <1>4, <1>5 DEF Learns, Same
  <2>3. Recalls(c, e, call[c].id)
    BY <1>4, <2>1, <2>2 DEF Recalls
  <2> QED
    BY <1>1, <1>4, <2>3 DEF MemoryStep
<1>7. CASE outcome = "failed"
  <2>1. seen' = [seen EXCEPT ![e] = Forget(seen[e], {call[c].id})]
    BY <1>7 DEF TurnEnds
  <2>2. ~Taken(c)'
    BY <1>4, <1>7 DEF Taken, Over
  <2>3. Learns(c, e, call[c].id, Forget(seen[e], {call[c].id}))
    BY <1>5, <2>2 DEF Learns
  <2>4. Recalls(c, e, call[c].id)
    BY <1>4, <2>1, <2>2, <2>3 DEF Recalls
  <2> QED
    BY <1>1, <1>4, <2>4 DEF MemoryStep
<1> QED
  BY <1>6, <1>7

LEMMA DrainStartsRemembers ==
    ASSUME Inv, RestInv, DrainStarts
    PROVE  MemoryStep
<1> DEFINE c == Head(line)
           s == call[c].session
           e == IF live[s] = 0 THEN created + 1 ELSE live[s]
           one == (live[s] = 0)
           rec == [call[c] EXCEPT !.entry = e, !.oneShot = one]
<1>1. line # <<>> /\ line \in Seq(Items)
  BY DEF DrainStarts, Startable, Inv, Types
<1>2. 1 \in 1..Len(line) /\ Head(line) = line[1] /\ c \in Calls
  BY <1>1, HeadAndTail, Constants
<1>3. call[c].phase = "line" /\ s \in Sessions /\ call[c] \in CallRecs
  BY <1>2 DEF Inv, LineInv, Types
<1>4. e \in Entries
  <2>1. live[s] # 0 => live[s] \in Entries
    BY <1>3, LiveIsEntry DEF Inv
  <2>2. live[s] = 0 => created + 1 \in Entries
    BY Constants DEF DrainStarts, Startable, Inv, Types, Entries
  <2> QED
    BY <2>1, <2>2
<1>5. Chat(c, e, rec)
  BY DEF DrainStarts
<1> HIDE DEF e, s, c
<1>6. e \in 0..MaxEntries /\ one \in BOOLEAN
  BY <1>4 DEF Entries
<1> HIDE DEF one
<1>7. /\ rec \in CallRecs /\ rec.entry = e /\ rec.id = call[c].id
      /\ rec.outcome = call[c].outcome /\ rec.id \in MessageIds \cup {NoId}
  BY <1>3, <1>6 DEF CallRecs
<1>8. rec.outcome # "answered"
  BY <1>2, <1>3, <1>7 DEF RestInv, Answered, Over
<1> HIDE DEF rec
<1>9. Recalls(c, e, rec.id) /\ QueueFits'
  BY <1>2, <1>3, <1>4, <1>5, <1>7, <1>8, ChatRecalls DEF Inv, RestInv
<1> QED
  BY <1>2, <1>4, <1>7, <1>9 DEF MemoryStep

LEMMA NextRemembers == ASSUME Inv, RestInv, [Next]_vars PROVE MemoryStep
<1>0. ASSUME UNCHANGED <<seen, queue, call>> PROVE MemoryStep
  BY <1>0 DEF MemoryStep, Quiet, Taken, Same, RestInv, Answered
<1>1. CASE UNCHANGED vars
  BY <1>0, <1>1 DEF vars, entries
<1>2. ASSUME NEW s \in Sessions, Create(s) \/ CreateThrows(s) \/ Attach(s) \/ Detach(s)
      PROVE  MemoryStep
  BY <1>0, <1>2 DEF Create, CreateThrows, Attach, Detach, entries
<1>3. ASSUME NEW s \in Sessions, Abort(s) \/ Destroy(s) PROVE MemoryStep
  <2>1. live[s] # 0 /\ RefuseWaiters(live[s])
    BY <1>3 DEF Abort, Destroy
  <2>2. live[s] \in Entries
    BY <1>3, <2>1, LiveIsEntry DEF Inv
  <2> QED
    BY <2>1, <2>2 DEF MemoryStep
<1>4. CASE CleanupIdleSessions \/ DrainBegins \/ DrainThrows \/ DrainStops
  BY <1>0, <1>4 DEF CleanupIdleSessions, DrainBegins, DrainThrows, DrainStops, entries
<1>5. ASSUME NEW c \in Items, NEW s \in Sessions, Submit(c, s) PROVE MemoryStep
  <2>1. c \in Calls /\ call[c] \in CallRecs /\ call[c].phase = "new" /\ UNCHANGED <<seen, queue>>
    BY <1>5, Constants DEF Submit, Inv, Types, entries
  <2>2. /\ call'[c].phase = "line" /\ call'[c].outcome = call[c].outcome
        /\ \A d \in Calls \ {c} : call'[d] = call[d]
    BY <1>5, <2>1 DEF Submit, Inv, Types, CallRecs
  <2>3. call[c].outcome # "answered"
    BY <2>1 DEF RestInv, Answered, Over
  <2>4. Quiet
    BY <2>1, <2>2, <2>3 DEF Quiet, Taken, Same, RestInv, Answered
  <2> QED
    BY <2>4 DEF MemoryStep
<1>6. ASSUME NEW c \in Items, ItemEnds(c) PROVE MemoryStep
  <2>1. c \in Calls /\ call[c] \in CallRecs /\ call[c].phase = "ended" /\ UNCHANGED <<seen, queue>>
    BY <1>6, Constants DEF ItemEnds, Inv, Types, entries
  <2>2. /\ call'[c].phase = "done" /\ call'[c].outcome = call[c].outcome
        /\ call'[c].id = call[c].id /\ call'[c].entry = call[c].entry
        /\ \A d \in Calls \ {c} : call'[d] = call[d]
    BY <1>6, <2>1 DEF ItemEnds, Inv, Types, CallRecs
  <2>3. Quiet
    BY <2>1, <2>2 DEF Quiet, Taken, Same, Over, RestInv, Answered
  <2> QED
    BY <2>3 DEF MemoryStep
<1> QED
  BY <1>1, <1>2, <1>3, <1>4, <1>5, <1>6, SendRemembers, GateRemembers, ResumeRemembers,
     TurnEndsRemembers, DrainStartsRemembers DEF Next

LEMMA RestInit == ASSUME Init PROVE RestInv
<1>1. SeenType
  <2>1. <<>> \in Seq(MessageIds) /\ Len(<<>>) = 0 /\ SeenMax \in Nat
    BY LimitsAssumption
  <2> QED
    BY <2>1 DEF Init, SeenType, Within
<1>2. QueueFits
  <2>1. Len(<<>>) = 0 /\ QueueMax \in Nat
    BY LimitsAssumption
  <2> QED
    BY <2>1 DEF Init, QueueFits
<1>3. \A c \in Calls : call[c].outcome = "none"
  BY DEF Init, NewCall
<1> QED
  BY <1>1, <1>2, <1>3 DEF RestInv, Answered

LEMMA AlwaysRest == Spec => [](Inv /\ RestInv)
<1>1. Init => Inv /\ RestInv
  BY InitInv, RestInit
<1>2. Inv /\ RestInv /\ [Next]_vars => Inv' /\ RestInv'
  BY NextKeeps, NextRemembers, RestKept DEF Keeps, Inv
<1> QED
  BY <1>1, <1>2, PTL DEF Spec

Flags == attached \subseteq Sessions /\ looping \in BOOLEAN /\ drainDue \in BOOLEAN

LEMMA FlagsKept == ASSUME Flags, [Next]_vars PROVE Flags'
<1> USE DEF Flags
<1>1. CASE UNCHANGED vars
  BY <1>1 DEF vars, drain
<1>2. ASSUME NEW s \in Sessions, Create(s) \/ CreateThrows(s) \/ Attach(s) \/ Detach(s)
      PROVE  Flags'
  BY <1>2 DEF Create, CreateThrows, Attach, Detach, drain
<1>3. ASSUME NEW s \in Sessions, Abort(s) \/ Destroy(s) PROVE Flags'
  BY <1>3 DEF Abort, Destroy, drain
<1>4. CASE CleanupIdleSessions \/ DrainBegins \/ DrainThrows \/ DrainStops
  BY <1>4 DEF CleanupIdleSessions, DrainBegins, DrainThrows, DrainStops
<1>5. ASSUME NEW c \in Items, (\E s \in Sessions : Submit(c, s)) \/ ItemEnds(c) PROVE Flags'
  BY <1>5 DEF Submit, ItemEnds
<1>6. ASSUME NEW c, NEW e, NEW rec, NEW ids, Begin(c, e, rec, ids) \/ Admit(c, e, rec) \/ Chat(c, e, rec)
      PROVE  drainDue' \in BOOLEAN
  BY <1>6 DEF Begin, Release, Admit, Chat
<1>7. ASSUME NEW c \in Calls, NEW s \in Sessions, NEW id \in MessageIds \cup {NoId}, Send(c, s, id)
      PROVE  Flags'
  BY <1>6, <1>7 DEF Send
<1>8. ASSUME NEW c \in Calls, GateResolves(c) PROVE Flags'
  BY <1>8 DEF GateResolves, drain
<1>9. ASSUME NEW c \in Calls, Resume(c) PROVE Flags'
  BY <1>6, <1>9 DEF Resume
<1>10. ASSUME NEW c \in Calls, NEW outcome, TurnEnds(c, outcome) PROVE Flags'
  BY <1>10 DEF TurnEnds, Release
<1>11. CASE DrainStarts
  BY <1>6, <1>11 DEF DrainStarts
<1> QED
  BY <1>1, <1>2, <1>3, <1>4, <1>5, <1>7, <1>8, <1>9, <1>10, <1>11 DEF Next

(* Every variable keeps its type: no line outgrows sessionQueueMax() and   *)
(* no memory of message ids SEEN_IDS_MAX (agent-pool.ts:672-694).          *)
THEOREM TypeCorrect == Spec => []TypeOK
<1>1. Init => Flags
  BY DEF Init, Flags
<1>2. Flags /\ [Next]_vars => Flags'
  BY FlagsKept
<1>3. Inv /\ RestInv /\ Flags => TypeOK
  <2>1. Inv => line \in Seq(Calls)
    <3>1. SUFFICES ASSUME line \in Seq(Items) PROVE line \in Seq(Calls)
      BY DEF Inv, Types
    <3>2. \A i \in 1..Len(line) : line[i] \in Calls
      BY <3>1, Constants
    <3>3. line = [i \in 1..Len(line) |-> line[i]] /\ Len(line) \in Nat
      BY <3>1
    <3> QED
      BY <3>2, <3>3
  <2> QED
    BY <2>1 DEF TypeOK, Inv, Types, RestInv, SeenType, Within, QueueFits, Flags
<1> QED
  BY <1>1, <1>2, <1>3, AlwaysRest, PTL DEF Spec

-----------------------------------------------------------------------------
(* A message id that was taken stays remembered for its entry.             *)

LEMMA FewIds ==
    ASSUME IsFiniteSet(MessageIds), Cardinality(MessageIds) <= SeenMax,
           NEW s \in Seq(MessageIds), IsInjective(s), NEW id \in MessageIds \ ToSet(s)
    PROVE  Len(s) < SeenMax
<1> DEFINE others == MessageIds \ {id}
<1>1. Len(s) \in Nat /\ DOMAIN s = 1..Len(s) /\ SeenMax \in Nat
      /\ Cardinality(MessageIds) \in Nat
  BY FS_CardinalityType, LimitsAssumption
<1>2. IsFiniteSet(others) /\ Cardinality(others) = Cardinality(MessageIds) - 1
  BY FS_RemoveElement
<1>3. SUFFICES ASSUME ~(Len(s) < SeenMax) PROVE FALSE
  OBVIOUS
<1>4. IsFiniteSet(1..Len(s)) /\ Cardinality(1..Len(s)) = Len(s)
  <2>1. PICK n \in Nat : n = Len(s)
    BY <1>1
  <2>2. IsFiniteSet(1..n) /\ Cardinality(1..n) = IF 1 > n THEN 0 ELSE n - 1 + 1
    <3>1. 1 \in Int /\ n \in Int
      OBVIOUS
    <3> QED
      BY <3>1, FS_Interval
  <2>3. Cardinality(1..n) = n
    BY <2>2
  <2> QED
    BY <2>1, <2>2, <2>3
<1>5. s \in [1..Len(s) -> others]
  <2>1. \A i \in 1..Len(s) : s[i] \in MessageIds /\ s[i] # id
    BY <1>1 DEF ToSet
  <2> QED
    BY <1>1, <2>1
<1>6. Cardinality(others) < Cardinality(1..Len(s))
  BY <1>1, <1>2, <1>3, <1>4
<1> HIDE DEF others
<1>7. \E x, y \in 1..Len(s) : x # y /\ s[x] = s[y]
  BY <1>2, <1>4, <1>5, <1>6, FS_PigeonHole
<1> QED
  BY <1>1, <1>7 DEF IsInjective

NoTwice == \A e \in Entries : IsInjective(seen[e])
Known   == \A c \in Calls : Taken(c) /\ call[c].id # NoId =>
               call[c].entry \in Entries /\ call[c].id \in ToSet(seen[call[c].entry])
MemInv  == NoTwice /\ Known /\ RedeliveryNeverRuns

(* What entry e remembers after id was dealt with there.                   *)
LEMMA LearnsKnown ==
    ASSUME IsFiniteSet(MessageIds), Cardinality(MessageIds) <= SeenMax, RestInv, MemInv,
           NEW c, NEW e \in Entries, NEW id \in MessageIds \cup {NoId}, NEW ids,
           Learns(c, e, id, ids)
    PROVE  /\ IsInjective(ids)
           /\ ToSet(seen[e]) \ {id} \subseteq ToSet(ids)
           /\ Taken(c)' /\ id # NoId => id \in ToSet(ids) \/ (Taken(c) /\ Same(c))
           /\ Taken(c)' => (Taken(c) /\ Same(c)) \/ id \notin ToSet(seen[e])
           /\ id \in ToSet(seen[e]) /\ id \notin ToSet(ids) =>
                  ~Taken(c)' /\ Taken(c) /\ call[c].id = id /\ call[c].entry = e
<1>1. /\ Within(seen[e]) /\ IsInjective(seen[e]) /\ seen[e] \in Seq(MessageIds)
  BY DEF RestInv, SeenType, Within, MemInv, NoTwice
<1>2. ASSUME id \notin ToSet(seen[e])
      PROVE  /\ Within(Remember(seen[e], id)) /\ IsInjective(Remember(seen[e], id))
             /\ id # NoId => id \in ToSet(Remember(seen[e], id))
             /\ ToSet(seen[e]) \subseteq ToSet(Remember(seen[e], id))
  <2>1. /\ Within(Remember(seen[e], id)) /\ IsInjective(Remember(seen[e], id))
        /\ id # NoId => id \in ToSet(Remember(seen[e], id))
        /\ Len(seen[e]) < SeenMax => ToSet(seen[e]) \subseteq ToSet(Remember(seen[e], id))
    BY <1>1, <1>2, RememberKeeps
  <2>2. CASE id = NoId
    BY <2>1, <2>2 DEF Remember
  <2>3. CASE id # NoId
    <3>1. Len(seen[e]) < SeenMax
      BY <1>1, <1>2, <2>3, FewIds
    <3> QED
      BY <2>1, <3>1
  <2> QED
    BY <2>2, <2>3
<1>3. CASE ids = seen[e] /\ (Taken(c)' => Taken(c) /\ Same(c))
  BY <1>1, <1>3
<1>4. CASE id \notin ToSet(seen[e]) /\ ids = Remember(seen[e], id)
  BY <1>2, <1>4
<1>5. CASE /\ ~Taken(c)' /\ Taken(c) /\ call[c].id = id /\ call[c].entry = e
           /\ ids = Forget(seen[e], {id})
  <2>1. ToSet(ids) = ToSet(seen[e]) \ {id} /\ IsInjective(ids)
    BY <1>1, <1>5, ForgetLeaves
  <2> QED
    BY <1>5, <2>1
<1>6. CASE /\ ~Taken(c)' /\ id \notin ToSet(seen[e])
           /\ ids = Forget(Remember(seen[e], id), {id})
  <2>1. Remember(seen[e], id) \in Seq(MessageIds)
    BY <1>2, <1>6 DEF Within
  <2>2. ToSet(ids) = ToSet(Remember(seen[e], id)) \ {id} /\ IsInjective(ids)
    BY <1>2, <1>6, <2>1, ForgetLeaves
  <2> QED
    BY <1>2, <1>6, <2>2
<1> QED
  BY <1>3, <1>4, <1>5, <1>6 DEF Learns

LEMMA MemInit == ASSUME Init PROVE MemInv
<1>1. \A c \in Calls : ~Taken(c)
  BY DEF Init, NewCall, Taken
<1>2. NoTwice
  BY DEF Init, NoTwice, IsInjective
<1> QED
  BY <1>1, <1>2 DEF MemInv, Known, RedeliveryNeverRuns

LEMMA MemKept ==
    ASSUME IsFiniteSet(MessageIds), Cardinality(MessageIds) <= SeenMax,
           Types, HandInv, RestInv, MemInv, MemoryStep
    PROVE  MemInv'
<1>1. ASSUME NEW c \in Calls, NEW e \in Entries, NEW id \in MessageIds \cup {NoId},
             Recalls(c, e, id)
      PROVE  MemInv'
  <2>1. PICK ids : seen' = [seen EXCEPT ![e] = ids] /\ Learns(c, e, id, ids)
    BY <1>1 DEF Recalls
  <2>2. /\ IsInjective(ids)
        /\ ToSet(seen[e]) \ {id} \subseteq ToSet(ids)
        /\ Taken(c)' /\ id # NoId => id \in ToSet(ids) \/ (Taken(c) /\ Same(c))
        /\ Taken(c)' => (Taken(c) /\ Same(c)) \/ id \notin ToSet(seen[e])
        /\ id \in ToSet(seen[e]) /\ id \notin ToSet(ids) =>
               ~Taken(c)' /\ Taken(c) /\ call[c].id = id /\ call[c].entry = e
    BY <2>1, LearnsKnown
  <2>3. seen'[e] = ids /\ \A f \in Entries : f # e => seen'[f] = seen[f]
    BY <2>1 DEF RestInv, SeenType
  <2>4. Taken(c)' => call'[c].id = id /\ call'[c].entry = e
    BY <1>1 DEF Recalls
  <2>5. ASSUME NEW d \in Calls \ {c}, Taken(d)' PROVE Taken(d) /\ Same(d)
    <3>1. CASE call'[d] = call[d]
      BY <2>5, <3>1 DEF Taken, Same
    <3>2. CASE call[d].phase = "waiting" /\ call'[d] = [call[d] EXCEPT !.phase = "admitted"]
      <4>1. call[d] \in CallRecs
        BY DEF Types
      <4> QED
        BY <3>2, <4>1 DEF Taken, Same, CallRecs
    <3> QED
      BY <1>1, <3>1, <3>2 DEF Recalls, Stay
  <2>6. NoTwice'
    BY <2>2, <2>3 DEF MemInv, NoTwice
  \* What was known is known, as long as it is taken.
  <2>7. ASSUME NEW d \in Calls, Taken(d)', Taken(d), Same(d), call[d].id # NoId
        PROVE  call'[d].entry \in Entries /\ call'[d].id \in ToSet(seen'[call'[d].entry])
    <3>1. call[d].entry \in Entries /\ call[d].id \in ToSet(seen[call[d].entry])
      BY <2>7 DEF MemInv, Known
    <3>2. call'[d].entry = call[d].entry /\ call'[d].id = call[d].id
      BY <2>7 DEF Same
    <3>3. CASE call[d].entry # e
      BY <2>3, <3>1, <3>2, <3>3
    <3>4. CASE call[d].entry = e /\ call[d].id # id
      BY <2>2, <2>3, <3>1, <3>2, <3>4
    <3>5. CASE call[d].entry = e /\ call[d].id = id
      <4>1. id \in ToSet(seen[e])
        BY <3>1, <3>5
      <4>2. id \in ToSet(ids)
        <5>1. SUFFICES ASSUME id \notin ToSet(ids) PROVE FALSE
          OBVIOUS
        <5>2. ~Taken(c)' /\ Taken(c) /\ call[c].id = id /\ call[c].entry = e
          BY <2>2, <4>1, <5>1
        <5>3. c # d
          BY <2>7, <5>2
        <5> QED
          BY <2>7, <3>5, <5>2, <5>3 DEF MemInv, RedeliveryNeverRuns
      <4> QED
        BY <2>3, <3>2, <3>5, <4>2
    <3> QED
      BY <3>3, <3>4, <3>5
  <2>8. Known'
    <3>1. ASSUME NEW d \in Calls, Taken(d)', call'[d].id # NoId
          PROVE  call'[d].entry \in Entries /\ call'[d].id \in ToSet(seen'[call'[d].entry])
      <4>1. CASE Taken(d) /\ Same(d)
        <5>1. call[d].id # NoId
          BY <3>1, <4>1 DEF Same
        <5> QED
          BY <2>7, <3>1, <4>1, <5>1
      <4>2. CASE d = c /\ ~(Taken(c) /\ Same(c))
        <5>1. call'[d].id = id /\ call'[d].entry = e /\ id # NoId /\ Taken(c)'
          BY <2>4, <3>1, <4>2
        <5>2. id \in ToSet(ids)
          BY <2>2, <4>2, <5>1
        <5> QED
          BY <2>3, <5>1, <5>2
      <4> QED
        BY <2>5, <3>1, <4>1, <4>2
    <3> QED
      BY <3>1 DEF Known
  <2>9. RedeliveryNeverRuns'
    <3>1. SUFFICES ASSUME NEW x \in Calls, NEW y \in Calls, x # y, call'[x].id # NoId,
                          call'[x].id = call'[y].id, call'[x].entry = call'[y].entry,
                          Taken(x)', Taken(y)'
                   PROVE  FALSE
      BY DEF RedeliveryNeverRuns
    <3>2. CASE Taken(x) /\ Same(x) /\ Taken(y) /\ Same(y)
      BY <3>1, <3>2 DEF Same, MemInv, RedeliveryNeverRuns
    <3>3. ASSUME NEW z \in Calls \ {c}, Taken(z)', call'[z].id = id, call'[z].entry = e,
                 id # NoId, ~(Taken(c) /\ Same(c)), Taken(c)'
          PROVE  FALSE
      <4>1. Taken(z) /\ call[z].id = id /\ call[z].entry = e
        BY <2>5, <3>3 DEF Same
      <4>2. id \in ToSet(seen[e])
        BY <3>3, <4>1 DEF MemInv, Known
      <4> QED
        BY <2>2, <3>3, <4>2
    <3>4. CASE x = c /\ ~(Taken(c) /\ Same(c))
      BY <2>4, <3>1, <3>3, <3>4
    <3>5. CASE y = c /\ ~(Taken(c) /\ Same(c))
      BY <2>4, <3>1, <3>3, <3>5
    <3> QED
      BY <2>5, <3>1, <3>2, <3>4, <3>5
  <2> QED
    BY <2>6, <2>8, <2>9 DEF MemInv
<1>2. CASE Quiet
  <2>1. Known'
    BY <1>2 DEF Quiet, Same, MemInv, Known
  <2>2. RedeliveryNeverRuns'
    BY <1>2 DEF Quiet, Same, MemInv, RedeliveryNeverRuns
  <2>3. NoTwice'
    BY <1>2 DEF Quiet, MemInv, NoTwice
  <2> QED
    BY <2>1, <2>2, <2>3 DEF MemInv
<1>3. ASSUME NEW e \in Entries, RefuseWaiters(e) PROVE MemInv'
  <2> DEFINE gone == {call[c].id : c \in ToSet(queue[e])}
             ids  == Forget(seen[e], gone)
  <2>1. seen' = [seen EXCEPT ![e] = ids]
    BY <1>3 DEF RefuseWaiters
  <2>2. ToSet(ids) = ToSet(seen[e]) \ gone /\ IsInjective(ids)
    <3>1. seen[e] \in Seq(MessageIds) /\ IsInjective(seen[e])
      BY DEF RestInv, SeenType, MemInv, NoTwice
    <3> HIDE DEF gone
    <3> QED
      BY <3>1, ForgetLeaves
  <2> HIDE DEF ids
  <2>3. seen'[e] = ids /\ \A f \in Entries : f # e => seen'[f] = seen[f]
    BY <2>1 DEF RestInv, SeenType
  <2>4. ASSUME NEW d \in Calls, Taken(d)'
        PROVE  call'[d] = call[d] /\ Taken(d) /\ ~(call[d].phase = "waiting" /\ call[d].entry = e)
    BY <1>3, <2>4, WaitersRefused DEF Taken, Over
  <2>5. \A w \in ToSet(queue[e]) : w \in Calls /\ call[w].phase = "waiting" /\ call[w].entry = e
    <3>1. queue[e] \in Seq(Calls) /\ DOMAIN queue[e] = 1..Len(queue[e])
      BY DEF Types
    <3> QED
      BY <3>1 DEF HandInv, QueueWaits, ToSet
  <2>6. ASSUME NEW d \in Calls, Taken(d)', call[d].entry = e, call[d].id # NoId
        PROVE  call[d].id \notin gone
    <3>1. SUFFICES ASSUME NEW w \in ToSet(queue[e]), call[w].id = call[d].id PROVE FALSE
      OBVIOUS
    <3>2. w # d /\ Taken(w) /\ Taken(d) /\ call[w].entry = call[d].entry /\ w \in Calls
      BY <2>4, <2>5, <2>6 DEF Taken
    <3> QED
      BY <2>6, <3>1, <3>2 DEF MemInv, RedeliveryNeverRuns
  <2>7. NoTwice'
    BY <2>2, <2>3 DEF MemInv, NoTwice
  <2>8. Known'
    <3>1. ASSUME NEW d \in Calls, Taken(d)', call'[d].id # NoId
          PROVE  call'[d].entry \in Entries /\ call'[d].id \in ToSet(seen'[call'[d].entry])
      <4>1. /\ call'[d] = call[d] /\ call[d].id # NoId /\ call[d].entry \in Entries
            /\ call[d].id \in ToSet(seen[call[d].entry])
        BY <2>4, <3>1 DEF MemInv, Known
      <4> QED
        BY <2>2, <2>3, <2>6, <3>1, <4>1
    <3> QED
      BY <3>1 DEF Known
  <2>9. RedeliveryNeverRuns'
    BY <2>4 DEF MemInv, RedeliveryNeverRuns
  <2> QED
    BY <2>7, <2>8, <2>9 DEF MemInv
<1> QED
  BY <1>1, <1>2, <1>3 DEF MemoryStep

(* A client that sends a message again (agent-pool.ts:663-679) never gets  *)
(* two turns for it on one session, however its deliveries wait, run, fail, *)
(* are refused or aborted, as long as the session remembers as many ids as *)
(* are in use: a failed or refused delivery is forgotten, no other one is. *)
THEOREM OneTurnPerMessageId ==
    ASSUME IsFiniteSet(MessageIds), Cardinality(MessageIds) <= SeenMax
    PROVE  Spec => []RedeliveryNeverRuns
<1>1. Init => MemInv
  BY MemInit
<1>2. Inv /\ RestInv /\ MemInv /\ [Next]_vars => MemInv'
  BY NextRemembers, MemKept DEF Inv
<1>3. MemInv => RedeliveryNeverRuns
  BY DEF MemInv
<1> QED
  BY <1>1, <1>2, <1>3, AlwaysRest, PTL DEF Spec

-----------------------------------------------------------------------------
(* Whatever makes the head of the work queue's line startable leaves a     *)
(* drain due.                                                              *)

InFlight(d) == call[d].phase \notin {"new", "line", "done"}

\* Room for the head of the line comes from sessions that go only.
LEMMA MoreSessions ==
    ASSUME NEW less, NEW more, \A t \in Sessions : less[t] # 0 => more[t] # 0, NEW ch
    PROVE  /\ Size(less) <= Size(more) /\ Size(less) \in Nat /\ Size(more) \in Nat
           /\ CountOn(less, ch) <= CountOn(more, ch)
           /\ CountOn(less, ch) \in Nat /\ CountOn(more, ch) \in Nat
<1> DEFINE a == {s \in Sessions : less[s] # 0}
           b == {s \in Sessions : more[s] # 0}
           c == {s \in Sessions : less[s] # 0 /\ ChannelOf[s] = ch}
           d == {s \in Sessions : more[s] # 0 /\ ChannelOf[s] = ch}
<1>1. a \subseteq b /\ b \subseteq Sessions /\ c \subseteq d /\ d \subseteq Sessions
  OBVIOUS
<1>2. Size(less) = Cardinality(a) /\ Size(more) = Cardinality(b)
      /\ CountOn(less, ch) = Cardinality(c) /\ CountOn(more, ch) = Cardinality(d)
  BY DEF Size, CountOn
<1> HIDE DEF a, b, c, d
<1>3. IsFiniteSet(b) /\ IsFiniteSet(d)
  BY <1>1, Constants, FS_Subset
<1>4. /\ Cardinality(a) <= Cardinality(b) /\ IsFiniteSet(a)
      /\ Cardinality(c) <= Cardinality(d) /\ IsFiniteSet(c)
  BY <1>1, <1>3, FS_Subset
<1> QED
  BY <1>2, <1>3, <1>4, FS_CardinalityType

LEMMA HeadOfLine ==
    ASSUME Inv, line # <<>>
    PROVE  /\ Head(line) \in Items /\ Head(line) \in Calls
           /\ call[Head(line)].phase = "line" /\ call[Head(line)].session \in Sessions
<1>1. line \in Seq(Items)
  BY DEF Inv, Types
<1>2. 1 \in 1..Len(line) /\ Head(line) = line[1] /\ Head(line) \in Items
  BY <1>1, HeadAndTail
<1> QED
  BY <1>2, Constants DEF Inv, LineInv

(* No session goes, no turn ends and no item is over: the head could start *)
(* before if it can now, unless its own session came.                      *)
LEMMA StillStartable ==
    ASSUME Inv, Startable', line' = line, created \in Nat, created' \in Nat, created <= created',
           \A t \in Sessions : live[t] # 0 => live'[t] = live[t],
           \A e \in Entries : busy[e] => busy'[e],
           \A d \in Items : InFlight(d)' <=> InFlight(d),
           \A d \in Calls : call[d].phase = "line" => call'[d] = call[d]
    PROVE  \/ Startable
           \/ live[call'[Head(line')].session] = 0 /\ live'[call'[Head(line')].session] # 0
<1> DEFINE s == call[Head(line)].session
<1>1. line # <<>>
  BY DEF Startable
<1>2. /\ call'[Head(line)] = call[Head(line)] /\ s \in Sessions
  BY <1>1, HeadOfLine
<1>3. SUFFICES ASSUME live[s] # 0 \/ live'[s] = 0 PROVE Startable
  BY <1>2
<1>4. ItemsInFlight' = ItemsInFlight
  BY DEF ItemsInFlight, InFlight
<1>5. Cardinality(ItemsInFlight) < StartLimit
  BY <1>4 DEF Startable
<1>6. IF live'[s] # 0 THEN ~ busy'[live'[s]]
      ELSE /\ Size(live') < MaxSessions
           /\ CountOn(live', ChannelOf[s]) < CapOf[ChannelOf[s]]
           /\ created' < MaxEntries
  BY <1>2 DEF Startable
<1>7. CASE live[s] # 0
  <2>1. live[s] \in Entries /\ live'[s] = live[s]
    BY <1>2, <1>7, LiveIsEntry DEF Inv
  <2>2. ~busy[live[s]]
    BY <1>6, <1>7, <2>1
  <2> QED
    BY <1>1, <1>5, <1>7, <2>2 DEF Startable
<1>8. CASE live[s] = 0
  <2>1. live'[s] = 0
    BY <1>3, <1>8
  <2>2. /\ Size(live) <= Size(live') /\ Size(live) \in Nat /\ Size(live') \in Nat
        /\ CountOn(live, ChannelOf[s]) <= CountOn(live', ChannelOf[s])
        /\ CountOn(live, ChannelOf[s]) \in Nat /\ CountOn(live', ChannelOf[s]) \in Nat
    <3>1. \A t \in Sessions : live[t] # 0 => live'[t] # 0
      OBVIOUS
    <3> QED
      BY <3>1, MoreSessions
  <2>3. MaxSessions \in Nat /\ CapOf[ChannelOf[s]] \in Nat /\ MaxEntries \in Nat
    BY <1>2, LimitsAssumption, ChannelAssumption
  <2>4. /\ Size(live) < MaxSessions /\ CountOn(live, ChannelOf[s]) < CapOf[ChannelOf[s]]
        /\ created < MaxEntries
    BY <1>6, <2>1, <2>2, <2>3
  <2> QED
    BY <1>1, <1>5, <1>8, <2>4 DEF Startable
<1> QED
  BY <1>7, <1>8

DrainKept ==
    Startable' /\ ~ Draining' =>
        \/ Startable /\ ~ Draining
        \/ DrainThrows
        \/ LET s == call'[Head(line')].session IN live[s] = 0 /\ live'[s] # 0

(* A call is dealt with and no drain falls due: nobody let go of a session. *)
LEMMA NoneLetGo ==
    ASSUME Types, NEW c \in Calls, NEW e \in Entries, NEW rec \in CallRecs, NEW ids,
           Begin(c, e, rec, ids) \/ Admit(c, e, rec) \/ Chat(c, e, rec), ~drainDue'
    PROVE  /\ \A f \in Entries : busy[f] => busy'[f]
           /\ \A d \in Calls \ {c} : call'[d] = call[d]
           /\ c \in Items => InFlight(c)'
<1>1. ASSUME NEW p \in {"gate", "waiting", "running"},
             call' = [call EXCEPT ![c] = [rec EXCEPT !.phase = p]]
      PROVE  /\ \A d \in Calls \ {c} : call'[d] = call[d]
             /\ c \in Items => InFlight(c)'
  <2>1. call'[c].phase = p
    BY <1>1 DEF Types, CallRecs
  <2> QED
    BY <1>1, <2>1 DEF Types, InFlight
<1>2. ASSUME NEW outcome, call' = [call EXCEPT ![c] = Finished(c, rec, outcome)]
      PROVE  /\ \A d \in Calls \ {c} : call'[d] = call[d]
             /\ c \in Items => InFlight(c)'
  <2>1. call'[c] = Finished(c, rec, outcome)
    BY <1>2 DEF Types
  <2>2. c \in Items => call'[c].phase = "ended"
    BY <2>1 DEF Finished, CallRecs
  <2> QED
    BY <1>2, <2>2 DEF Types, InFlight
<1>3. ASSUME NEW begun, Begin(c, e, rec, begun)
      PROVE  /\ \A f \in Entries : busy[f] => busy'[f]
             /\ \A d \in Calls \ {c} : call'[d] = call[d]
             /\ c \in Items => InFlight(c)'
  <2>1. busy' = [busy EXCEPT ![e] = TRUE]
        /\ call' = [call EXCEPT ![c] = [rec EXCEPT !.phase = "running"]]
    BY <1>3 DEF Begin, Release
  <2> QED
    BY <1>1, <2>1 DEF Types
<1>4. ASSUME Admit(c, e, rec)
      PROVE  /\ \A f \in Entries : busy[f] => busy'[f]
             /\ \A d \in Calls \ {c} : call'[d] = call[d]
             /\ c \in Items => InFlight(c)'
  BY <1>1, <1>2, <1>3, <1>4 DEF Admit, entries
<1> QED
  BY <1>1, <1>3, <1>4 DEF Chat, entries

LEMMA CallDrains ==
    ASSUME Inv, NEW c \in Calls, NEW e \in Entries, NEW rec \in CallRecs, NEW ids,
           Begin(c, e, rec, ids) \/ Admit(c, e, rec) \/ Chat(c, e, rec), ~looping,
           UNCHANGED <<pool, line, looping>>, c \in Items => InFlight(c), call[c].phase # "line"
    PROVE  DrainKept
<1>1. SUFFICES ASSUME Startable', ~Draining' PROVE (Startable /\ ~Draining) \/
                   (live[call'[Head(line')].session] = 0 /\ live'[call'[Head(line')].session] # 0)
  BY DEF DrainKept
<1>2. ~drainDue' /\ live' = live /\ created' = created /\ created \in Nat
  BY <1>1, Constants DEF Draining, pool, Inv, Types
<1>3. /\ \A f \in Entries : busy[f] => busy'[f]
      /\ \A d \in Calls \ {c} : call'[d] = call[d]
      /\ c \in Items => InFlight(c)'
  BY <1>2, NoneLetGo DEF Inv
<1>4. \A d \in Items : InFlight(d)' <=> InFlight(d)
  <2>1. ASSUME NEW d \in Items, d # c PROVE InFlight(d)' <=> InFlight(d)
    BY <1>3, <2>1, Constants DEF InFlight
  <2> QED
    BY <1>3, <2>1
<1>5. \A d \in Calls : call[d].phase = "line" => call'[d] = call[d]
  BY <1>3
<1>6. Startable \/ (live[call'[Head(line')].session] = 0 /\ live'[call'[Head(line')].session] # 0)
  BY <1>1, <1>2, <1>3, <1>4, <1>5, StillStartable
<1>7. ~drainDue
  BY <1>2 DEF Begin, Admit, Chat, Release
<1> QED
  BY <1>6, <1>7 DEF Draining

LEMMA SendDrains ==
    ASSUME Inv, NEW c \in Calls \ Items, NEW s \in Sessions, NEW id \in MessageIds \cup {NoId},
           Send(c, s, id)
    PROVE  DrainKept
<1> DEFINE rec == [call[c] EXCEPT !.session = s, !.entry = live[s], !.id = id,
                                  !.at = Arrivals + 1]
<1>1. /\ call[c] \in CallRecs /\ call[c].phase = "new" /\ call \in [Calls -> CallRecs]
      /\ ~looping /\ UNCHANGED <<pool, line, looping>>
  BY DEF Inv, Types, Send
<1>2. \/ live[s] = 0 /\ call' = [call EXCEPT ![c] = Finished(c, rec, "refused")]
         /\ UNCHANGED <<entries, drainDue>>
      \/ live[s] # 0 /\ Chat(c, live[s], rec)
  BY DEF Send
<1>3. rec \in CallRecs
  <2> DEFINE n == Arrivals + 1
  <2>1. n \in Nat /\ live[s] \in 0..MaxEntries
    BY ArrivalsType, Constants DEF Inv, Types
  <2> HIDE DEF n
  <2>2. rec = [call[c] EXCEPT !.session = s, !.entry = live[s], !.id = id, !.at = n]
    BY DEF n
  <2> HIDE DEF rec
  <2> QED
    BY <1>1, <2>1, <2>2 DEF CallRecs
<1> HIDE DEF rec
<1>4. CASE live[s] # 0 /\ Chat(c, live[s], rec)
  <2>1. live[s] \in Entries
    BY <1>4, LiveIsEntry DEF Inv
  <2>2. call[c].phase # "line" /\ (c \in Items => InFlight(c))
    BY <1>1
  <2> QED
    BY <1>1, <1>3, <1>4, <2>1, <2>2, CallDrains
<1>5. CASE call' = [call EXCEPT ![c] = Finished(c, rec, "refused")]
           /\ UNCHANGED <<entries, drainDue>>
  <2>1. \A d \in Calls \ {c} : call'[d] = call[d]
    BY <1>1, <1>5
  <2>2. \A d \in Items : InFlight(d)' <=> InFlight(d)
    BY <2>1, Constants DEF InFlight
  <2>3. created \in Nat /\ live' = live /\ created' = created /\ busy' = busy /\ line' = line
    BY <1>1, <1>5, Constants DEF pool, entries, Inv, Types
  <2>4. Startable' => \/ Startable
                      \/ live[call'[Head(line')].session] = 0 /\ live'[call'[Head(line')].session] # 0
    BY <1>1, <2>1, <2>2, <2>3, StillStartable
  <2> QED
    BY <1>1, <1>5, <2>4 DEF DrainKept, Draining
<1> QED
  BY <1>2, <1>4, <1>5

LEMMA GateDrains == ASSUME Inv, NEW c \in Calls, GateResolves(c) PROVE DrainKept
<1>1. /\ call[c] \in CallRecs /\ call[c].phase = "gate" /\ call \in [Calls -> CallRecs]
      /\ call' = [call EXCEPT ![c] = Finished(c, @, "handled")]
      /\ UNCHANGED <<pool, entries, line, drain>>
  BY DEF Inv, Types, GateResolves
<1>2. InFlight(c) /\ call[c].phase # "line"
  BY <1>1 DEF InFlight
<1>3. call'[c] = Finished(c, call[c], "handled") /\ \A d \in Calls \ {c} : call'[d] = call[d]
  BY <1>1
<1>4. c \in Items => InFlight(c)'
  BY <1>1, <1>3 DEF InFlight, Finished, CallRecs
<1>5. \A d \in Items : InFlight(d)' <=> InFlight(d)
  BY <1>2, <1>3, <1>4, Constants DEF InFlight
<1>6. created \in Nat /\ live' = live /\ created' = created /\ busy' = busy /\ line' = line
  BY <1>1, Constants DEF pool, entries, Inv, Types
<1>7. Startable' => \/ Startable
                    \/ live[call'[Head(line')].session] = 0 /\ live'[call'[Head(line')].session] # 0
  BY <1>2, <1>3, <1>5, <1>6, StillStartable
<1> QED
  BY <1>1, <1>7 DEF DrainKept, Draining, drain

LEMMA ResumeDrains == ASSUME Inv, NEW c \in Calls, Resume(c) PROVE DrainKept
<1>1. /\ call[c] \in CallRecs /\ call[c].phase = "admitted" /\ call[c].entry \in Entries
      /\ ~looping /\ UNCHANGED <<pool, line, looping>>
  BY DEF Inv, Types, Resume, HandInv, Entered, Holding
<1>2. InFlight(c) /\ call[c].phase # "line"
  BY <1>1 DEF InFlight
<1>3. Begin(c, call[c].entry, call[c], seen[call[c].entry])
  BY DEF Resume
<1> QED
  BY <1>1, <1>2, <1>3, CallDrains

LEMMA CreateDrains == ASSUME Inv, NEW s \in Sessions, Create(s) PROVE DrainKept
<1>1. SUFFICES ASSUME Startable', ~Draining' PROVE (Startable /\ ~Draining) \/
                   (live[call'[Head(line')].session] = 0 /\ live'[call'[Head(line')].session] # 0)
  BY DEF DrainKept
<1>2. /\ ~looping /\ ~drainDue /\ MakeRoom(s) = live /\ live[s] = 0 /\ created' = created + 1
      /\ live' = [MakeRoom(s) EXCEPT ![s] = created + 1] /\ line' = line /\ call' = call
      /\ busy' = busy
  BY <1>1 DEF Create, Draining, entries
<1>3. /\ \A t \in Sessions : live[t] # 0 => live'[t] = live[t]
      /\ created \in Nat /\ created' \in Nat /\ created <= created'
  BY <1>2, Constants DEF Inv, Types
<1>4. \A d \in Items : InFlight(d)' <=> InFlight(d)
  BY <1>2 DEF InFlight
<1>5. Startable \/ (live[call'[Head(line')].session] = 0 /\ live'[call'[Head(line')].session] # 0)
  BY <1>1, <1>2, <1>3, <1>4, StillStartable
<1> QED
  BY <1>2, <1>5 DEF Draining

\* The pool, the lines and the drain stay as they are.
LEMMA StillDrains ==
    ASSUME UNCHANGED <<live, created, busy, line, looping, drainDue>>, ItemsInFlight' = ItemsInFlight,
           line # <<>> => call'[Head(line)].session = call[Head(line)].session
    PROVE  DrainKept
<1>1. Startable' => Startable
  <2>1. SUFFICES ASSUME Startable' PROVE Startable
    OBVIOUS
  <2>2. line # <<>> /\ call'[Head(line)].session = call[Head(line)].session
    BY <2>1 DEF Startable
  <2>3. Size(live') = Size(live) /\ \A ch : CountOn(live', ch) = CountOn(live, ch)
    OBVIOUS
  <2> QED
    BY <2>1, <2>2, <2>3 DEF Startable
<1> QED
  BY <1>1 DEF DrainKept, Draining

LEMMA AbortDrains == ASSUME Inv, NEW s \in Sessions, Abort(s) PROVE DrainKept
<1>1. /\ live[s] # 0 /\ RefuseWaiters(live[s]) /\ live[s] \in Entries
      /\ UNCHANGED <<live, created, busy, line, looping, drainDue>>
  BY LiveIsEntry DEF Abort, pool, drain, Inv
<1>2. ASSUME NEW d \in Calls
      PROVE  /\ call[d].phase = "line" => call'[d] = call[d]
             /\ d \in Items => (InFlight(d)' <=> InFlight(d))
  <2>1. CASE call'[d] = call[d]
    BY <2>1 DEF InFlight
  <2>2. CASE call[d].phase = "waiting" /\ d \in ToSet(queue[live[s]])
    <3>1. call'[d] = Finished(d, call[d], "refused") /\ call[d] \in CallRecs
      BY <1>1, <2>2 DEF RefuseWaiters, Inv, Types
    <3>2. d \in Items => call'[d].phase = "ended"
      BY <3>1 DEF Finished, CallRecs
    <3> QED
      BY <2>2, <3>2 DEF InFlight
  <2> QED
    BY <1>1, <2>1, <2>2, WaitersRefused DEF Inv
<1>3. ItemsInFlight' = ItemsInFlight
  BY <1>2, Constants DEF ItemsInFlight, InFlight
<1>4. line # <<>> => call'[Head(line)].session = call[Head(line)].session
  BY <1>2, HeadOfLine
<1> QED
  BY <1>1, <1>3, <1>4, StillDrains

LEMMA NextDrains == ASSUME Inv, [Next]_vars PROVE DrainKept
<1>0. ASSUME UNCHANGED <<live, created, busy, call, line, looping, drainDue>> PROVE DrainKept
  BY <1>0, StillDrains DEF ItemsInFlight
<1>1. CASE UNCHANGED vars
  BY <1>0, <1>1 DEF vars, pool, entries, drain
<1>2. ASSUME NEW s \in Sessions, Attach(s) \/ Detach(s) PROVE DrainKept
  BY <1>0, <1>2 DEF Attach, Detach, pool, entries, drain
<1>3. ASSUME NEW s \in Sessions, CreateThrows(s) PROVE DrainKept
  <2>1. CASE MakeRoom(s) = live
    <3>1. live' = live /\ (drainDue' <=> drainDue) /\ call' = call /\ line' = line
          /\ busy' = busy /\ created' = created /\ looping' = looping
      BY <1>3, <2>1 DEF CreateThrows, entries
    <3>2. Startable' => Startable
      BY <3>1 DEF Startable, ItemsInFlight
    <3> QED
      BY <3>1, <3>2 DEF DrainKept, Draining
  <2>2. CASE MakeRoom(s) # live
    BY <1>3, <2>2 DEF CreateThrows, DrainKept, Draining
  <2> QED
    BY <2>1, <2>2
<1>4. ASSUME NEW s \in Sessions, Destroy(s) PROVE DrainKept
  BY <1>4 DEF Destroy, DrainKept, Draining
<1>5. CASE CleanupIdleSessions \/ DrainBegins \/ DrainStarts \/ DrainThrows
  BY <1>5 DEF CleanupIdleSessions, DrainBegins, DrainStarts, DrainKept, Draining
<1>6. CASE DrainStops
  <2>1. ~Startable /\ live' = live /\ call' = call /\ line' = line /\ busy' = busy
        /\ created' = created
    BY <1>6 DEF DrainStops, pool, entries
  <2>2. ~Startable'
    BY <2>1 DEF Startable, ItemsInFlight
  <2> QED
    BY <2>2 DEF DrainKept
<1>7. ASSUME NEW c \in Items, (\E s \in Sessions : Submit(c, s)) \/ ItemEnds(c) PROVE DrainKept
  BY <1>7 DEF Submit, ItemEnds, DrainKept, Draining
<1>8. ASSUME NEW c \in Calls, NEW outcome, TurnEnds(c, outcome) PROVE DrainKept
  BY <1>8 DEF TurnEnds, Release, DrainKept, Draining
<1> QED
  BY <1>1, <1>2, <1>3, <1>4, <1>5, <1>6, <1>7, <1>8, CreateDrains, AbortDrains, SendDrains,
     GateDrains, ResumeDrains DEF Next

(* No wake-up of the work queue is lost (agent-pool.ts:372-418, 802-808):   *)
(* however many sessions, items and turns there are, whatever lets the head *)
(* of its line start leaves a drain due; only a client that creates the     *)
(* head's own session, and a drain that throws, leave it to the next one.   *)
THEOREM NoWakeUpIsLost == Spec => EveryReleaseDrains
<1>1. Inv /\ [Next]_vars =>
          [Startable' /\ ~ Draining' =>
              \/ Startable /\ ~ Draining
              \/ DrainThrows
              \/ LET s == call'[Head(line')].session IN live[s] = 0 /\ live'[s] # 0]_vars
  BY NextDrains DEF DrainKept
<1> QED
  BY <1>1, AlwaysInv, PTL DEF Spec, EveryReleaseDrains
=============================================================================
