--------------------------- MODULE DurableRunProofs ---------------------------
(***************************************************************************)
(* A durable run, for every set of askers, requests and calls: an effect   *)
(* happens once, no step is written twice, an answer follows its request,  *)
(* and what the transcript says of a call agrees with the ledger.          *)
(***************************************************************************)
EXTENDS DurableRun, FiniteSetsExt, WellFoundedInduction, TLAPS

-----------------------------------------------------------------------------
(* The effects.  A bound on them is not inductive: what keeps a second one   *)
(* out is the row.  An asker that is at the effect of a call that may not    *)
(* run twice has won the row, the row is then `started' and stays so or      *)
(* `done', and a row is won from `intent' alone, so it is won once.          *)

\* Past the claim, with the effect before it.
AtEffect(a, c) == at[a] = "running" /\ call[a] = c

Typed ==
    /\ ledger \in [Calls -> Rows] /\ at \in [Askers -> Places]
    /\ call = [a \in Askers |-> call[a]] /\ effects \in [Calls -> Nat]

\* Who is at the effect of a once call has its row, and the effect is to come.
OwnsTheRow ==
    \A a \in Askers, c \in Once :
        AtEffect(a, c) => ledger[c] = "started" /\ effects[c] = 0

RowIsOwnedByOne ==
    \A a, b \in Askers, c \in Once : AtEffect(a, c) /\ AtEffect(b, c) => a = b

\* No effect without a row that was won.
EffectHasRow ==
    \A c \in Once : effects[c] # 0 => ledger[c] \in {"started", "done"}

\* Who is about to write `done' has had its effect.
DoneHasEffect ==
    \A a \in Askers, c \in Once : at[a] = "finishing" /\ call[a] = c => effects[c] # 0

RowsInv ==
    /\ Typed /\ OwnsTheRow /\ RowIsOwnedByOne /\ EffectHasRow /\ DoneHasEffect
    /\ EffectsHappenOnce

-----------------------------------------------------------------------------
LEMMA InitRows == Init => RowsInv
  BY DEF Init, RowsInv, Typed, OwnsTheRow, RowIsOwnedByOne, EffectHasRow, DoneHasEffect,
         EffectsHappenOnce, AtEffect, Rows, Places, Once

(* Steps that touch neither the rows nor the effects: they only must not carry
   an asker to the effect, or to `done', of a call that may not run twice. *)
LEMMA QuietRows ==
    ASSUME NEW a \in Askers, NEW place \in Places, RowsInv,
           at' = [at EXCEPT ![a] = place],
           UNCHANGED <<ledger, effects>>,
           call' = [b \in Askers |-> call'[b]],
           \A b \in Askers : b # a => call'[b] = call[b],
           place \in {"running", "finishing"} => call'[a] \notin Once
    PROVE  RowsInv'
<1>1. Typed'
  BY DEF RowsInv, Typed
<1>2. \A b \in Askers, c \in Once :
        at'[b] \in {"running", "finishing"} /\ call'[b] = c
          => at'[b] = at[b] /\ call'[b] = call[b]
  BY DEF RowsInv, Typed
<1>3. \A b \in Askers, c \in Once : AtEffect(b, c)' => AtEffect(b, c)
  BY <1>2 DEF AtEffect
<1>4. \A b \in Askers, c \in Once :
        at'[b] = "finishing" /\ call'[b] = c => at[b] = "finishing" /\ call[b] = c
  BY <1>2
<1>5. OwnsTheRow' /\ RowIsOwnedByOne'
  BY <1>3 DEF RowsInv, OwnsTheRow, RowIsOwnedByOne
<1>6. EffectHasRow' /\ DoneHasEffect' /\ EffectsHappenOnce'
  BY <1>4 DEF RowsInv, EffectHasRow, DoneHasEffect, EffectsHappenOnce
<1> QED BY <1>1, <1>5, <1>6 DEF RowsInv

LEMMA ReadRows == ASSUME NEW a \in Askers, RowsInv, Read(a) PROVE RowsInv'
<1>1. PICK place \in Places : /\ at' = [at EXCEPT ![a] = place]
                              /\ place \notin {"running", "finishing"}
  BY DEF Read, Leaves, Go, WillAppend, Places
<1>2. call' = [b \in Askers |-> call'[b]] /\ \A b \in Askers : b # a => call'[b] = call[b]
  BY DEF Read, Leaves, Forgets, RowsInv, Typed
<1>3. UNCHANGED <<ledger, effects>>
  BY DEF Read, disk, history
<1> QED BY <1>1, <1>2, <1>3, QuietRows

LEMMA GateRows == ASSUME NEW a \in Askers, RowsInv, Gate(a) PROVE RowsInv'
<1>1. PICK place \in Places : /\ at' = [at EXCEPT ![a] = place]
                              /\ place \in {"running", "finishing"} => call[a] \in Safe
  BY DEF Gate, Go, WillAppend, Places
<1>2. UNCHANGED <<ledger, effects, call>>
  BY DEF Gate, disk, history
<1> QED BY <1>1, <1>2, QuietRows DEF RowsInv, Typed, Once

LEMMA OtherQuietRows ==
    ASSUME NEW a \in Askers, RowsInv,
           ModelReplies(a) \/ Appends(a) \/ Check(a) \/ Dies(a)
             \/ \E r \in Requests : Ask(a, r)
    PROVE  RowsInv'
<1>1. PICK place \in Places : /\ at' = [at EXCEPT ![a] = place]
                              /\ place \notin {"running", "finishing"}
  BY DEF ModelReplies, Appends, Check, Dies, Ask, Leaves, Go, WillAppend, Places
<1>2. UNCHANGED <<ledger, effects>>
  BY DEF ModelReplies, Appends, Check, Dies, Ask, disk, history
<1>3. call' = [b \in Askers |-> call'[b]] /\ \A b \in Askers : b # a => call'[b] = call[b]
  BY DEF ModelReplies, Appends, Check, Dies, Ask, Leaves, Forgets, RowsInv, Typed
<1> QED BY <1>1, <1>2, <1>3, QuietRows

(* The row is written, never taken back. *)
LEMMA IntentRows == ASSUME NEW a \in Askers, RowsInv, Intent(a) PROVE RowsInv'
<1>1. /\ at' = [at EXCEPT ![a] = "claiming"]
      /\ UNCHANGED <<call, effects>>
      /\ ledger' = [ledger EXCEPT ![call[a]] = IF @ = "none" THEN "intent" ELSE @]
  BY DEF Intent, Go, mind, history
<1>2. Typed'
  BY <1>1 DEF RowsInv, Typed, Rows, Places
<1>3. \A c \in Once : ledger[c] \in {"started", "done"} => ledger'[c] = ledger[c]
  BY <1>1 DEF RowsInv, Typed, Once
<1> QED
  BY <1>1, <1>2, <1>3 DEF RowsInv, Typed, OwnsTheRow, RowIsOwnedByOne, EffectHasRow,
     DoneHasEffect, EffectsHappenOnce, AtEffect

(* The claim is won from `intent', where nobody is at the effect and none has
   happened; a loser goes on only with a call whose target dedupes. *)
LEMMA ClaimRows == ASSUME NEW a \in Askers, RowsInv, Claim(a) PROVE RowsInv'
<1>1. /\ UNCHANGED <<call, effects>>
      /\ ledger' = [ledger EXCEPT ![call[a]] = IF Wins(call[a]) THEN "started" ELSE @]
  BY DEF Claim, history
<1>2. PICK place \in {"running", "appending"} :
         /\ at' = [at EXCEPT ![a] = place]
         /\ place = "running" => Wins(call[a]) \/ call[a] \in Keyed
  BY DEF Claim, Go, WillAppend
<1>3. Typed'
  BY <1>1, <1>2 DEF RowsInv, Typed, Rows, Places
<1>4. CASE Wins(call[a]) /\ call[a] \in Once
  <2>1. /\ effects[call[a]] = 0
        /\ \A b \in Askers : ~AtEffect(b, call[a])
    BY <1>4 DEF RowsInv, Wins, EffectHasRow, OwnsTheRow
  <2> QED
    BY <1>1, <1>2, <1>3, <1>4, <2>1 DEF RowsInv, Typed, OwnsTheRow, RowIsOwnedByOne,
       EffectHasRow, DoneHasEffect, EffectsHappenOnce, AtEffect, Once
<1>5. CASE ~(Wins(call[a]) /\ call[a] \in Once)
  <2>1. \A c \in Once : ledger'[c] = ledger[c]
    BY <1>1, <1>5 DEF RowsInv, Typed, Once
  <2>2. place = "running" => call[a] \notin Once
    BY <1>2, <1>5 DEF Once
  <2> QED
    BY <1>1, <1>2, <1>3, <2>1, <2>2 DEF RowsInv, Typed, OwnsTheRow, RowIsOwnedByOne,
       EffectHasRow, DoneHasEffect, EffectsHappenOnce, AtEffect
<1> QED BY <1>4, <1>5

(* The one owner of the row has the effect, once. *)
LEMMA EffectRows == ASSUME NEW a \in Askers, RowsInv, Effect(a) PROVE RowsInv'
<1>1. /\ UNCHANGED ledger
      /\ at[a] = "running"
      /\ effects' = [effects EXCEPT ![call[a]] = @ + 1]
  BY DEF Effect, disk
<1>2. PICK place \in {"appending", "finishing", "idle"} :
         /\ at' = [at EXCEPT ![a] = place]
         /\ place = "finishing" => call'[a] = call[a]
  BY DEF Effect, Leaves, Go, WillAppend, mind
<1>3. /\ call' = [b \in Askers |-> call'[b]]
      /\ \A b \in Askers : b # a => call'[b] = call[b]
  BY DEF Effect, Leaves, Forgets, mind, RowsInv, Typed
<1>4. effects' = [c \in Calls |-> IF c = call[a] THEN effects[c] + 1 ELSE effects[c]]
  BY <1>1 DEF RowsInv, Typed
<1>5. Typed'
  <2>1. effects' \in [Calls -> Nat]
    BY <1>4 DEF RowsInv, Typed
  <2> QED BY <1>1, <1>2, <1>3, <2>1 DEF RowsInv, Typed, Places
<1>6. \A b \in Askers, c \in Once : AtEffect(b, c)' => b # a /\ AtEffect(b, c)
  BY <1>2, <1>3 DEF RowsInv, Typed, AtEffect
<1>7. CASE call[a] \in Once
  <2>1. /\ effects[call[a]] = 0 /\ ledger[call[a]] = "started"
        /\ \A b \in Askers : b # a => ~AtEffect(b, call[a])
    BY <1>1, <1>7 DEF RowsInv, OwnsTheRow, RowIsOwnedByOne, AtEffect
  <2>2. effects'[call[a]] = 1 /\ \A c \in Once : c # call[a] => effects'[c] = effects[c]
    BY <1>4, <1>7, <2>1 DEF Once
  <2>3. OwnsTheRow' /\ RowIsOwnedByOne'
    BY <1>1, <1>6, <2>1, <2>2 DEF RowsInv, OwnsTheRow, RowIsOwnedByOne
  <2>4. EffectHasRow' /\ EffectsHappenOnce'
    BY <1>1, <2>1, <2>2 DEF RowsInv, EffectHasRow, EffectsHappenOnce
  <2>5. DoneHasEffect'
    BY <1>2, <1>3, <1>4, <2>2 DEF RowsInv, Typed, DoneHasEffect
  <2> QED BY <1>5, <2>3, <2>4, <2>5 DEF RowsInv
<1>8. CASE call[a] \notin Once
  <2>1. \A c \in Once : effects'[c] = effects[c]
    BY <1>4, <1>8 DEF Once
  <2>2. OwnsTheRow' /\ RowIsOwnedByOne'
    BY <1>1, <1>6, <2>1 DEF RowsInv, OwnsTheRow, RowIsOwnedByOne
  <2>3. EffectHasRow' /\ EffectsHappenOnce'
    BY <1>1, <2>1 DEF RowsInv, EffectHasRow, EffectsHappenOnce
  <2>4. DoneHasEffect'
    BY <1>2, <1>3, <1>8, <2>1 DEF RowsInv, Typed, DoneHasEffect
  <2> QED BY <1>5, <2>2, <2>3, <2>4 DEF RowsInv
<1> QED BY <1>7, <1>8

(* `done' is written after the effect: by then nobody else is at it. *)
LEMMA DoneRows == ASSUME NEW a \in Askers, RowsInv, Done(a) PROVE RowsInv'
<1>1. /\ UNCHANGED <<call, effects>>
      /\ at[a] = "finishing"
      /\ ledger' = [ledger EXCEPT ![call[a]] = "done"]
      /\ at' = [at EXCEPT ![a] = "appending"]
  BY DEF Done, history, WillAppend, Go
<1>2. Typed'
  BY <1>1 DEF RowsInv, Typed, Rows, Places
<1>3. call[a] \in Once => \A b \in Askers : ~AtEffect(b, call[a])
  BY <1>1 DEF RowsInv, DoneHasEffect, OwnsTheRow
<1>4. \A c \in Once : ledger'[c] = IF c = call[a] THEN "done" ELSE ledger[c]
  BY <1>1 DEF RowsInv, Typed, Once
<1> QED
  BY <1>1, <1>2, <1>3, <1>4 DEF RowsInv, Typed, OwnsTheRow, RowIsOwnedByOne, EffectHasRow,
     DoneHasEffect, EffectsHappenOnce, AtEffect

LEMMA NextRows == RowsInv /\ [Next]_vars => RowsInv'
<1> SUFFICES ASSUME RowsInv, [Next]_vars PROVE RowsInv'
  OBVIOUS
<1>1. CASE UNCHANGED vars
  BY <1>1 DEF vars, RowsInv, Typed, OwnsTheRow, RowIsOwnedByOne, EffectHasRow, DoneHasEffect,
     EffectsHappenOnce, AtEffect
<1>2. CASE Next
  <2>1. PICK a \in Askers : Step(a) \/ Dies(a) \/ \E r \in Requests : Ask(a, r)
    BY <1>2 DEF Next
  <2> QED
    BY <2>1, ReadRows, GateRows, OtherQuietRows, IntentRows, ClaimRows, EffectRows, DoneRows DEF Step
<1> QED BY <1>1, <1>2

(* The effect of a call whose target does not dedupe happens at most once,
   however many processes ask on the run and wherever they die. *)
THEOREM AtMostOneEffect == Spec => []EffectsHappenOnce
<1>1. RowsInv => EffectsHappenOnce
  BY DEF RowsInv
<1> QED BY <1>1, InitRows, NextRows, PTL DEF Spec

-----------------------------------------------------------------------------
(* The transcript.  It only grows, so a seq that is still free when the      *)
(* append comes says that nothing was written since the step was decided:    *)
(* what was true of the transcript that was read is true of the one written  *)
(* to.                                                                       *)

\* The least of a set of numbers is in it, below the others.
LEMMA MinOfNats ==
    ASSUME NEW S, S \subseteq Nat, S # {}
    PROVE  Min(S) \in S /\ \A y \in S : Min(S) <= y
<1> DEFINE Less == {ss \in Nat \X Nat : ss[1] < ss[2]}
<1>1. IsWellFoundedOn(Less, Nat)
  BY NatLessThanWellFounded DEF OpToRel
<1>2. PICK x \in S : \A y \in S : <<y, x>> \notin Less
  BY <1>1, WFMin
<1>3. \A y \in S : x <= y
  <2>1. SUFFICES ASSUME NEW y \in S PROVE ~ (y < x)
    OBVIOUS
  <2>2. <<y, x>> \in Nat \X Nat
    BY <2>1
  <2> QED
    BY <1>2, <2>2
<1> QED
  BY <1>3 DEF Min

\* So is the greatest, where there is a bound.
LEMMA MaxOfBoundedNats ==
    ASSUME NEW S, S \subseteq Nat, S # {}, NEW b \in Nat, \A x \in S : x <= b
    PROVE  Max(S) \in S /\ \A y \in S : y <= Max(S)
<1> DEFINE D == {b - x : x \in S}
<1>1. D \subseteq Nat /\ D # {}
  <2>1. \A x \in S : b - x \in Nat
    OBVIOUS
  <2>2. PICK x \in S : TRUE
    OBVIOUS
  <2>3. b - x \in D
    OBVIOUS
  <2> QED
    BY <2>1, <2>3
<1>2. PICK m \in S : Min(D) = b - m
  BY <1>1, MinOfNats
<1>3. \A y \in S : b - m <= b - y
  BY <1>1, <1>2, MinOfNats
<1>4. \A y \in S : y <= m
  BY <1>3
<1> QED
  BY <1>4 DEF Max

CallPlaces == {"gate", "checking", "intending", "claiming", "running", "finishing"}
Deciding == {"model", "appending"} \cup CallPlaces

\* Who asks, asks something.
HasRequest(a) == at[a] # "idle" => request[a] \in Requests

\* A step was decided from a transcript that may have grown since.
SeqWasNext(a) == at[a] \in Deciding => seq[a] \in 1..(Len(transcript) + 1)

\* The call in hand has no result in the transcript it was found in.
CallIsOpen(a) ==
    at[a] \in CallPlaces =>
        /\ call[a] \in Calls
        /\ Lands(a) => ~HasResult(transcript, call[a])
        /\ at[a] = "claiming" => ledger[call[a]] # "none"
        /\ at[a] = "finishing" => effects[call[a]] >= 1

\* What is said of a call agrees with its row and its effect.
Supported(e) ==
    e.type = "toolResult" =>
        /\ e.how = "ran" =>
             /\ effects[e.call] >= 1
             /\ e.call \notin Safe => ledger[e.call] = "done"
        /\ e.how \in {"cut", "held"} => ledger[e.call] \in {"started", "done"}

\* An entry that can follow a transcript.
Follows(e, es) ==
    /\ e.type = "input" => ~HasInput(es, e.request)
    /\ e.type = "toolResult" => ~HasResult(es, e.call)
    /\ e.type = "answer" =>
         /\ ~HasAnswer(es, e.request) /\ HasInput(es, e.request)
         /\ Len(es) > 0 /\ es[Len(es)].type = "assistant"

BodyIsRight(a) ==
    at[a] = "appending" =>
        /\ body[a] \in Entries /\ Supported(body[a])
        /\ Lands(a) => Follows(body[a], transcript)

MindIsRight(a) == HasRequest(a) /\ SeqWasNext(a) /\ CallIsOpen(a) /\ BodyIsRight(a)

DoneRanOnce == \A c \in Calls : ledger[c] = "done" => effects[c] >= 1

TranscriptIsRight ==
    NoStepTwice /\ RanMeansDone /\ UnfinishedHasARow /\ AnswersFollowTheirRequest

Inv ==
    /\ TypeOK /\ DoneRanOnce /\ TranscriptIsRight
    /\ \A a \in Askers : MindIsRight(a)

\* What a step may do to the files: add to them.
DiskGrows ==
    /\ \/ transcript' = transcript
       \/ \E e \in Entries : transcript' = Append(transcript, e)
    /\ \A c \in Calls :
         /\ effects'[c] >= effects[c]
         /\ ledger[c] # "none" => ledger'[c] # "none"
         /\ ledger[c] \in {"started", "done"} => ledger'[c] \in {"started", "done"}
         /\ ledger[c] = "done" => ledger'[c] = "done"

-----------------------------------------------------------------------------
(* Entries, and what their type says of them. *)

LEMMA EntryShapes ==
    ASSUME NEW e \in Entries
    PROVE  /\ e.type \in {"input", "answer", "assistant", "toolResult"}
           /\ e.type = "input" => e.request \in Requests /\ e = Input(e.request)
           /\ e.type = "answer" => e.request \in Requests /\ e = Answer(e.request)
           /\ e.type = "toolResult" => e.call \in Calls
  BY DEF Entries, Input, Answer

LEMMA EntriesMade ==
    /\ \A r \in Requests : Input(r) \in Entries /\ Answer(r) \in Entries
    /\ \A cs \in Replies : Assistant(cs) \in Entries
    /\ \A c \in Calls, how \in Hows : ToolResult(c, how) \in Entries
  BY DEF Entries, Input, Answer, Assistant, ToolResult

(* The transcript grew by an entry: the old entries are where they were. *)
LEMMA Appended ==
    ASSUME NEW s \in Seq(Entries), NEW e \in Entries
    PROVE  /\ Append(s, e) \in Seq(Entries)
           /\ Len(s) \in Nat /\ DOMAIN s = 1..Len(s)
           /\ Len(Append(s, e)) = Len(s) + 1
           /\ DOMAIN Append(s, e) = 1..(Len(s) + 1)
           /\ \A i \in 1..Len(s) : Append(s, e)[i] = s[i]
           /\ Append(s, e)[Len(s) + 1] = e
  OBVIOUS

-----------------------------------------------------------------------------
(* What holds of an entry, or of another asker, when the files grow. *)

LEMMA SupportedStays ==
    ASSUME TypeOK, DiskGrows, TypeOK', NEW e \in Entries, Supported(e)
    PROVE  Supported(e)'
<1>1. CASE e.type # "toolResult"
  BY <1>1 DEF Supported
<1>2. CASE e.type = "toolResult"
  <2>1. e.call \in Calls
    BY <1>2, EntryShapes
  <2>2. effects[e.call] \in Nat /\ effects'[e.call] \in Nat
    BY <2>1 DEF TypeOK
  <2>3. /\ effects'[e.call] >= effects[e.call]
        /\ ledger[e.call] \in {"started", "done"} => ledger'[e.call] \in {"started", "done"}
        /\ ledger[e.call] = "done" => ledger'[e.call] = "done"
    BY <2>1 DEF DiskGrows
  <2>4. effects[e.call] >= 1 => effects'[e.call] >= 1
    BY <2>2, <2>3
  <2> QED
    BY <1>2, <2>3, <2>4 DEF Supported
<1> QED
  BY <1>1, <1>2

LEMMA OthersKeep ==
    ASSUME Inv, TypeOK', DiskGrows, NEW b \in Askers,
           at'[b] = at[b], request'[b] = request[b], seq'[b] = seq[b],
           body'[b] = body[b], call'[b] = call[b]
    PROVE  MindIsRight(b)'
<1>0. MindIsRight(b) /\ TypeOK
  BY DEF Inv
<1>1. Len(transcript) \in Nat /\ Len(transcript') \in Nat /\ Len(transcript') >= Len(transcript)
  <2>1. transcript \in Seq(Entries)
    BY <1>0 DEF TypeOK
  <2> QED
    BY <2>1, Appended DEF DiskGrows
<1>2. HasRequest(b)' /\ SeqWasNext(b)'
  BY <1>0, <1>1 DEF MindIsRight, HasRequest, SeqWasNext
<1>3. at[b] \in Deciding /\ Lands(b)' => Lands(b) /\ transcript' = transcript
  <2>1. SUFFICES ASSUME at[b] \in Deciding, Lands(b)' PROVE Lands(b) /\ transcript' = transcript
    OBVIOUS
  <2>2. seq[b] \in 1..(Len(transcript) + 1) /\ seq[b] = Len(transcript') + 1
    BY <1>0, <2>1 DEF MindIsRight, SeqWasNext, Lands
  <2>3. Len(transcript') = Len(transcript)
    BY <1>1, <2>2
  <2>4. transcript' = transcript
    BY <1>0, <2>3, Appended DEF DiskGrows, TypeOK
  <2> QED
    BY <2>2, <2>3, <2>4 DEF Lands
<1>4. CallIsOpen(b)'
  <2>1. SUFFICES ASSUME at[b] \in CallPlaces PROVE CallIsOpen(b)'
    BY DEF CallIsOpen
  <2>2. /\ call[b] \in Calls
        /\ Lands(b) => ~HasResult(transcript, call[b])
        /\ at[b] = "claiming" => ledger[call[b]] # "none"
        /\ at[b] = "finishing" => effects[call[b]] >= 1
    BY <1>0, <2>1 DEF MindIsRight, CallIsOpen
  <2>3. Lands(b)' => ~HasResult(transcript, call[b])'
    BY <1>3, <2>1, <2>2 DEF Deciding
  <2>4. effects[call[b]] \in Nat /\ effects'[call[b]] \in Nat
    BY <1>0, <2>2 DEF TypeOK
  <2>5. effects[call[b]] >= 1 => effects'[call[b]] >= 1
    BY <2>2, <2>4 DEF DiskGrows
  <2>6. ledger[call[b]] # "none" => ledger'[call[b]] # "none"
    BY <2>2 DEF DiskGrows
  <2> QED
    BY <2>2, <2>3, <2>5, <2>6 DEF CallIsOpen
<1>5. BodyIsRight(b)'
  <2>1. SUFFICES ASSUME at[b] = "appending" PROVE BodyIsRight(b)'
    BY DEF BodyIsRight
  <2>2. /\ body[b] \in Entries /\ Supported(body[b])
        /\ Lands(b) => Follows(body[b], transcript)
    BY <1>0, <2>1 DEF MindIsRight, BodyIsRight
  <2>3. Supported(body[b])'
    <3>1. PICK e \in Entries : e = body[b]
      BY <2>2
    <3>2. Supported(e)'
      BY <1>0, <2>2, <3>1, SupportedStays
    <3> QED
      BY <3>1, <3>2 DEF Supported
  <2>4. Lands(b)' => Follows(body[b], transcript)'
    BY <1>3, <2>1, <2>2 DEF Deciding
  <2> QED
    BY <2>2, <2>3, <2>4 DEF BodyIsRight
<1> QED
  BY <1>2, <1>4, <1>5 DEF MindIsRight

LEMMA TranscriptStays ==
    ASSUME TypeOK, TypeOK', TranscriptIsRight, DiskGrows, transcript' = transcript
    PROVE  TranscriptIsRight'
<1>1. NoStepTwice' /\ AnswersFollowTheirRequest'
  BY DEF TranscriptIsRight, NoStepTwice, AnswersFollowTheirRequest, HasInput
<1>2. \A e \in ToSet(transcript) : e \in Entries /\ Supported(e)
  <2>1. \A e \in ToSet(transcript) : e \in Entries
    BY DEF TypeOK, ToSet
  <2>2. \A e \in ToSet(transcript) : Supported(e)
    BY DEF TranscriptIsRight, RanMeansDone, UnfinishedHasARow, Supported
  <2> QED
    BY <2>1, <2>2
<1>3. \A e \in ToSet(transcript) : Supported(e)'
  BY <1>2, SupportedStays
<1>4. RanMeansDone' /\ UnfinishedHasARow'
  BY <1>3 DEF RanMeansDone, UnfinishedHasARow, Supported
<1> QED
  BY <1>1, <1>4 DEF TranscriptIsRight

(* A step of one asker that writes no entry. *)
LEMMA QuietStep ==
    ASSUME Inv, TypeOK', DiskGrows, transcript' = transcript, DoneRanOnce',
           NEW a \in Askers, MindIsRight(a)',
           \A b \in Askers : b # a => /\ at'[b] = at[b] /\ request'[b] = request[b]
                                      /\ seq'[b] = seq[b]
                                      /\ body'[b] = body[b] /\ call'[b] = call[b]
    PROVE  Inv'
<1>1. TranscriptIsRight'
  BY TranscriptStays DEF Inv
<1>2. \A b \in Askers : MindIsRight(b)'
  BY OthersKeep
<1> QED
  BY <1>1, <1>2 DEF Inv

(* The files as they are. *)
LEMMA UntouchedDisk ==
    ASSUME Inv, UNCHANGED <<transcript, ledger, effects>>
    PROVE  DiskGrows /\ DoneRanOnce'
<1>1. \A c \in Calls : effects[c] \in Nat
  BY DEF Inv, TypeOK
<1> QED
  BY <1>1 DEF Inv, DiskGrows, DoneRanOnce

(* An asker that has decided nothing knows nothing that could be stale. *)
LEMMA EmptyMind ==
    ASSUME NEW a \in Askers, at'[a] \in {"idle", "reading"},
           at'[a] = "reading" => request'[a] \in Requests
    PROVE  MindIsRight(a)'
  BY DEF MindIsRight, HasRequest, SeqWasNext, CallIsOpen, BodyIsRight, Deciding, CallPlaces

-----------------------------------------------------------------------------
(* The steps, one by one. *)

LEMMA AskInv == ASSUME Inv, NEW a \in Askers, NEW r \in Requests, Ask(a, r) PROVE Inv'
<1>1. TypeOK'
  <2>1. asks' \in 0..MaxAsks
    BY RunAssumption DEF Ask, Inv, TypeOK
  <2> QED
    BY <2>1 DEF Ask, Go, Inv, TypeOK, Places, disk
<1>2. at'[a] = "reading" /\ request'[a] = r /\ UNCHANGED <<transcript, ledger, effects>>
  BY DEF Ask, Go, Inv, TypeOK, disk
<1>3. \A b \in Askers : b # a => /\ at'[b] = at[b] /\ request'[b] = request[b]
                                 /\ seq'[b] = seq[b]
                                 /\ body'[b] = body[b] /\ call'[b] = call[b]
  BY DEF Ask, Go, Inv, TypeOK
<1> QED
  BY <1>1, <1>2, <1>3, UntouchedDisk, EmptyMind, QuietStep

LEMMA LeavesTyped ==
    ASSUME TypeOK, NEW a \in Askers, Leaves(a)
    PROVE  /\ at' \in [Askers -> Places] /\ at'[a] = "idle"
           /\ request' \in [Askers -> Requests \cup {Nothing}]
           /\ seq' \in [Askers -> Nat] /\ body' \in [Askers -> Entries \cup {Nothing}]
           /\ call' \in [Askers -> Calls \cup {Nothing}]
           /\ \A b \in Askers : b # a => /\ at'[b] = at[b] /\ request'[b] = request[b]
                                         /\ seq'[b] = seq[b]
                                         /\ body'[b] = body[b] /\ call'[b] = call[b]
  BY DEF Leaves, Forgets, Go, TypeOK, Places

LEMMA DiesInv == ASSUME Inv, NEW a \in Askers, Dies(a) PROVE Inv'
<1>1. TypeOK
  BY DEF Inv
<1>2. Leaves(a) /\ UNCHANGED <<transcript, ledger, effects, issued, asks>>
  BY DEF Dies, disk, history
<1>3. TypeOK'
  BY <1>1, <1>2, LeavesTyped DEF TypeOK
<1> QED
  BY <1>1, <1>2, <1>3, LeavesTyped, UntouchedDisk, EmptyMind, QuietStep

(* Read: what is appended next follows what was read. *)
LEMMA LastIsAssistant ==
    ASSUME NEW es \in Seq(Entries), LastAssistant(es) = Len(es), Len(es) > 0
    PROVE  es[Len(es)].type = "assistant"
<1> DEFINE I == {i \in 1..Len(es) : es[i].type = "assistant"}
<1>1. LastAssistant(es) = IF I # {} THEN Max(I) ELSE 0
  BY DEF LastAssistant, SelectLastInSeq
<1>2. I # {} /\ Max(I) = Len(es)
  <2> HIDE DEF I
  <2>1. I # {}
    BY <1>1
  <2> QED
    BY <1>1, <2>1
<1>3. Len(es) \in Nat /\ I \subseteq Nat /\ \A i \in I : i <= Len(es)
  OBVIOUS
<1>4. Max(I) \in I
  BY <1>2, <1>3, MaxOfBoundedNats
<1> QED
  BY <1>2, <1>4

LEMMA SeesNext ==
    ASSUME TypeOK, NEW a \in Askers, Sees(a), transcript' = transcript
    PROVE  /\ seq' \in [Askers -> Nat] /\ seq'[a] \in 1..(Len(transcript') + 1)
           /\ \A b \in Askers : b # a => seq'[b] = seq[b]
<1>1. Len(transcript) \in Nat
  BY DEF TypeOK
<1> QED
  BY <1>1 DEF Sees, TypeOK

(* An entry that was decided from the transcript just read. *)
LEMMA DecidesInv ==
    ASSUME Inv, NEW a \in Askers, request[a] \in Requests, NEW e \in Entries, e.type # "toolResult",
           Follows(e, transcript), WillAppend(a, e), Sees(a),
           UNCHANGED <<transcript, ledger, effects, issued, asks, call>>
    PROVE  Inv'
<1>0. TypeOK
  BY DEF Inv
<1>1. TypeOK'
  <2>1. at' \in [Askers -> Places] /\ body' \in [Askers -> Entries \cup {Nothing}]
    BY <1>0 DEF WillAppend, Go, TypeOK, Places
  <2>2. seq' \in [Askers -> Nat] /\ request' = request
    BY <1>0, SeesNext DEF Sees
  <2> QED
    BY <1>0, <2>1, <2>2 DEF TypeOK
<1>2. at'[a] = "appending" /\ body'[a] = e
  BY <1>0 DEF WillAppend, Go, TypeOK
<1>3. \A b \in Askers : b # a => /\ at'[b] = at[b] /\ request'[b] = request[b]
                                 /\ seq'[b] = seq[b]
                                 /\ body'[b] = body[b] /\ call'[b] = call[b]
  BY <1>0, SeesNext DEF Sees, WillAppend, Go, TypeOK
<1>4. MindIsRight(a)'
  <2>1. HasRequest(a)' /\ SeqWasNext(a)' /\ CallIsOpen(a)'
    BY <1>0, <1>2, SeesNext DEF Sees, HasRequest, SeqWasNext, CallIsOpen, CallPlaces
  <2>2. Supported(body[a])' /\ Follows(body[a], transcript)'
    BY <1>2 DEF Supported, Follows, HasInput, HasAnswer, HasResult
  <2> QED
    BY <1>2, <2>1, <2>2 DEF MindIsRight, BodyIsRight
<1> QED
  BY <1>1, <1>3, <1>4, UntouchedDisk, QuietStep

(* A place was decided from the transcript just read, with a call in hand or
   the model to be asked. *)
LEMMA TakesUpInv ==
    ASSUME Inv, NEW a \in Askers, request[a] \in Requests, NEW place \in {"gate", "model"}, Go(a, place), Sees(a),
           UNCHANGED <<transcript, ledger, effects, issued, asks, body>>,
           call' \in [Askers -> Calls \cup {Nothing}],
           place = "gate" => call'[a] \in Calls /\ ~HasResult(transcript, call'[a]),
           \A b \in Askers : b # a => call'[b] = call[b]
    PROVE  Inv'
<1>0. TypeOK
  BY DEF Inv
<1>1. TypeOK'
  <2>1. at' \in [Askers -> Places]
    BY <1>0 DEF Go, TypeOK, Places
  <2>2. seq' \in [Askers -> Nat] /\ request' = request
    BY <1>0, SeesNext DEF Sees
  <2> QED
    BY <1>0, <2>1, <2>2 DEF TypeOK
<1>2. at'[a] = place
  BY <1>0 DEF Go, TypeOK
<1>3. \A b \in Askers : b # a => /\ at'[b] = at[b] /\ request'[b] = request[b]
                                 /\ seq'[b] = seq[b]
                                 /\ body'[b] = body[b] /\ call'[b] = call[b]
  BY <1>0, SeesNext DEF Sees, Go, TypeOK
<1>4. MindIsRight(a)'
  <2>1. HasRequest(a)' /\ SeqWasNext(a)'
    BY <1>0, SeesNext DEF Sees, HasRequest, SeqWasNext
  <2>2. CallIsOpen(a)'
    BY <1>2 DEF CallIsOpen, CallPlaces, HasResult
  <2>3. BodyIsRight(a)'
    BY <1>2 DEF BodyIsRight
  <2> QED
    BY <2>1, <2>2, <2>3 DEF MindIsRight
<1> QED
  BY <1>1, <1>3, <1>4, UntouchedDisk, QuietStep

LEMMA ReadInv == ASSUME Inv, NEW a \in Askers, Read(a) PROVE Inv'
<1> DEFINE es == transcript
           r == request[a]
<1>0. TypeOK /\ UNCHANGED <<transcript, ledger, effects, issued, asks>>
  BY DEF Inv, Read, disk, history
<1>1. CASE Leaves(a)
  <2>1. TypeOK'
    BY <1>0, <1>1, LeavesTyped DEF TypeOK
  <2> QED
    BY <1>0, <1>1, <2>1, LeavesTyped, UntouchedDisk, EmptyMind, QuietStep
<1>2. r \in Requests
  BY DEF Read, Inv, MindIsRight, HasRequest
<1>3. CASE ~HasInput(es, r) /\ WillAppend(a, Input(r)) /\ Sees(a) /\ UNCHANGED call
  <2>1. Follows(Input(r), transcript)
    BY <1>3 DEF Follows, Input
  <2> QED
    BY <1>0, <1>2, <1>3, <2>1, EntriesMade, DecidesInv DEF Input
<1>4. CASE /\ HasInput(es, r) /\ Sees(a) /\ Go(a, "gate") /\ UNCHANGED body
           /\ \E c \in Pending(es) : call' = [call EXCEPT ![a] = c]
  <2>1. PICK c \in Pending(es) : call' = [call EXCEPT ![a] = c]
    BY <1>4
  <2>2. c \in Calls /\ ~HasResult(transcript, c)
    BY DEF Pending
  <2>3. /\ call' \in [Askers -> Calls \cup {Nothing}] /\ call'[a] = c
        /\ \A b \in Askers : b # a => call'[b] = call[b]
    BY <1>0, <2>1, <2>2 DEF TypeOK
  <2> QED
    BY <1>0, <1>2, <1>4, <2>2, <2>3, TakesUpInv
<1>5. CASE /\ ~HasAnswer(es, r) /\ HasInput(es, r) /\ LastAssistant(es) = Len(es)
           /\ WillAppend(a, Answer(r)) /\ Sees(a) /\ UNCHANGED call
  <2>1. es \in Seq(Entries) /\ Len(es) > 0
    BY <1>0, <1>5 DEF HasInput, ToSet, TypeOK
  <2>2. es[Len(es)].type = "assistant"
    BY <1>5, <2>1, LastIsAssistant
  <2>3. Follows(Answer(r), transcript)
    BY <1>5, <2>1, <2>2 DEF Follows, Answer
  <2> QED
    BY <1>0, <1>2, <1>5, <2>3, EntriesMade, DecidesInv DEF Answer
<1>6. CASE Go(a, "model") /\ Sees(a) /\ UNCHANGED <<body, call>>
  BY <1>0, <1>2, <1>6, TakesUpInv DEF TypeOK
<1> QED
  BY <1>1, <1>3, <1>4, <1>5, <1>6 DEF Read

LEMMA ModelRepliesInv == ASSUME Inv, NEW a \in Askers, ModelReplies(a) PROVE Inv'
<1>0. TypeOK /\ MindIsRight(a) /\ at[a] = "model"
  BY DEF Inv, ModelReplies
<1>1. PICK cs \in Replies : issued' = issued \cup ToSet(cs) /\ WillAppend(a, Assistant(cs))
  BY DEF ModelReplies
<1>2. UNCHANGED <<transcript, ledger, effects, request, seq, call, asks>>
  BY DEF ModelReplies, disk
<1>3. Assistant(cs) \in Entries /\ Assistant(cs).type = "assistant"
  BY EntriesMade DEF Assistant
<1>4. TypeOK'
  <2>1. at' \in [Askers -> Places] /\ body' \in [Askers -> Entries \cup {Nothing}]
    BY <1>0, <1>1, <1>3 DEF WillAppend, Go, TypeOK, Places
  <2>2. ToSet(cs) \subseteq Calls
    BY DEF Replies, SeqOf, ToSet
  <2> QED
    BY <1>0, <1>1, <1>2, <2>1, <2>2 DEF TypeOK
<1>5. at'[a] = "appending" /\ body'[a] = Assistant(cs)
  BY <1>0, <1>1, <1>3 DEF WillAppend, Go, TypeOK
<1>6. \A b \in Askers : b # a => /\ at'[b] = at[b] /\ request'[b] = request[b]
                                 /\ seq'[b] = seq[b]
                                 /\ body'[b] = body[b] /\ call'[b] = call[b]
  BY <1>0, <1>1, <1>2 DEF WillAppend, Go, TypeOK
<1>7. MindIsRight(a)'
  <2>1. HasRequest(a)' /\ SeqWasNext(a)' /\ CallIsOpen(a)'
    BY <1>0, <1>2, <1>5 DEF MindIsRight, HasRequest, SeqWasNext, CallIsOpen, CallPlaces,
       Deciding
  <2>2. Supported(body[a])' /\ Follows(body[a], transcript)'
    BY <1>3, <1>5 DEF Supported, Follows
  <2> QED
    BY <1>3, <1>5, <2>1, <2>2 DEF MindIsRight, BodyIsRight
<1> QED
  BY <1>2, <1>4, <1>6, <1>7, UntouchedDisk, QuietStep

(* One statement of a tool call's execution that leads to another. *)
LEMMA MovesOnInv ==
    ASSUME Inv, NEW a \in Askers, at[a] \in CallPlaces, NEW place \in CallPlaces,
           Go(a, place), UNCHANGED <<transcript, request, seq, call, body, issued, asks>>,
           ledger' \in [Calls -> Rows], effects' \in [Calls -> Nat],
           DiskGrows, DoneRanOnce',
           place = "claiming" => ledger'[call[a]] # "none",
           place = "finishing" => effects'[call[a]] >= 1
    PROVE  Inv'
<1>0. TypeOK /\ MindIsRight(a)
  BY DEF Inv
<1>1. TypeOK'
  BY <1>0 DEF Go, TypeOK, Places, CallPlaces
<1>2. at'[a] = place
  BY <1>0 DEF Go, TypeOK
<1>3. \A b \in Askers : b # a => /\ at'[b] = at[b] /\ request'[b] = request[b]
                                 /\ seq'[b] = seq[b]
                                 /\ body'[b] = body[b] /\ call'[b] = call[b]
  BY <1>0 DEF Go, TypeOK
<1>4. MindIsRight(a)'
  <2>1. HasRequest(a)' /\ SeqWasNext(a)'
    BY <1>0, <1>2 DEF MindIsRight, HasRequest, SeqWasNext, CallPlaces, Deciding
  <2>2. CallIsOpen(a)'
    BY <1>0, <1>2 DEF MindIsRight, CallIsOpen, Lands
  <2>3. BodyIsRight(a)'
    BY <1>2 DEF BodyIsRight, CallPlaces
  <2> QED
    BY <2>1, <2>2, <2>3 DEF MindIsRight
<1> QED
  BY <1>1, <1>3, <1>4, QuietStep

(* The execution is over: its result is what is appended next. *)
LEMMA ConcludesInv ==
    ASSUME Inv, NEW a \in Askers, at[a] \in CallPlaces, NEW how \in Hows,
           WillAppend(a, ToolResult(call[a], how)),
           UNCHANGED <<transcript, request, seq, call, issued, asks>>,
           ledger' \in [Calls -> Rows], effects' \in [Calls -> Nat],
           DiskGrows, DoneRanOnce',
           how = "ran" => /\ effects'[call[a]] >= 1
                          /\ call[a] \notin Safe => ledger'[call[a]] = "done",
           how \in {"cut", "held"} => ledger'[call[a]] \in {"started", "done"}
    PROVE  Inv'
<1>0. TypeOK /\ MindIsRight(a) /\ call[a] \in Calls
  BY DEF Inv, MindIsRight, CallIsOpen
<1>1. ToolResult(call[a], how) \in Entries
  BY <1>0, EntriesMade
<1>2. TypeOK'
  <2>1. at' \in [Askers -> Places] /\ body' \in [Askers -> Entries \cup {Nothing}]
    BY <1>0, <1>1 DEF WillAppend, Go, TypeOK, Places
  <2> QED
    BY <1>0, <2>1 DEF TypeOK
<1>3. at'[a] = "appending" /\ body'[a] = ToolResult(call[a], how)
  BY <1>0 DEF WillAppend, Go, TypeOK
<1>4. \A b \in Askers : b # a => /\ at'[b] = at[b] /\ request'[b] = request[b]
                                 /\ seq'[b] = seq[b]
                                 /\ body'[b] = body[b] /\ call'[b] = call[b]
  BY <1>0 DEF WillAppend, Go, TypeOK
<1>5. MindIsRight(a)'
  <2>1. HasRequest(a)' /\ SeqWasNext(a)' /\ CallIsOpen(a)'
    BY <1>0, <1>3 DEF MindIsRight, HasRequest, SeqWasNext, CallIsOpen, CallPlaces, Deciding
  <2>2. Supported(body[a])'
    BY <1>3 DEF Supported, ToolResult
  <2>3. Lands(a)' => Follows(body[a], transcript)'
    BY <1>0, <1>3 DEF MindIsRight, CallIsOpen, Lands, Follows, ToolResult, HasResult
  <2> QED
    BY <1>1, <1>3, <2>1, <2>2, <2>3 DEF MindIsRight, BodyIsRight
<1> QED
  BY <1>2, <1>4, <1>5, QuietStep

LEMMA GateInv == ASSUME Inv, NEW a \in Askers, Gate(a) PROVE Inv'
<1>1. /\ at[a] \in CallPlaces
      /\ UNCHANGED <<transcript, ledger, effects, request, seq, call, issued, asks>>
      /\ ledger' \in [Calls -> Rows] /\ effects' \in [Calls -> Nat]
  BY DEF Gate, disk, history, CallPlaces, Inv, TypeOK
<1>2. CASE WillAppend(a, ToolResult(call[a], "denied"))
  BY <1>1, <1>2, UntouchedDisk, ConcludesInv DEF Hows
<1>3. CASE \E place \in {"running", "checking"} : Go(a, place) /\ UNCHANGED body
  BY <1>1, <1>3, UntouchedDisk, MovesOnInv DEF CallPlaces
<1> QED
  BY <1>2, <1>3 DEF Gate

LEMMA CheckInv == ASSUME Inv, NEW a \in Askers, Check(a) PROVE Inv'
<1>1. /\ at[a] \in CallPlaces /\ call[a] \in Calls
      /\ UNCHANGED <<transcript, ledger, effects, request, seq, call, issued, asks>>
      /\ ledger' \in [Calls -> Rows] /\ effects' \in [Calls -> Nat]
  BY DEF Check, disk, history, CallPlaces, Inv, TypeOK, MindIsRight, CallIsOpen
<1>2. CASE ledger[call[a]] = "done" /\ WillAppend(a, ToolResult(call[a], "ran"))
  <2>1. effects[call[a]] >= 1
    BY <1>1, <1>2 DEF Inv, DoneRanOnce
  <2> QED
    BY <1>1, <1>2, <2>1, UntouchedDisk, ConcludesInv DEF Hows
<1>3. CASE ledger[call[a]] = "started" /\ WillAppend(a, ToolResult(call[a], "cut"))
  BY <1>1, <1>3, UntouchedDisk, ConcludesInv DEF Hows
<1>4. CASE Go(a, "intending") /\ UNCHANGED body
  BY <1>1, <1>4, UntouchedDisk, MovesOnInv DEF CallPlaces
<1> QED
  BY <1>2, <1>3, <1>4 DEF Check

LEMMA IntentInv == ASSUME Inv, NEW a \in Askers, Intent(a) PROVE Inv'
<1>1. /\ at[a] \in CallPlaces /\ call[a] \in Calls /\ Go(a, "claiming")
      /\ UNCHANGED <<transcript, effects, request, seq, call, body, issued, asks>>
  BY DEF Intent, mind, history, CallPlaces, Inv, MindIsRight, CallIsOpen
<1>2. \A c \in Calls : /\ ledger[c] \in Rows /\ effects[c] \in Nat
                       /\ ledger'[c] = IF c = call[a] /\ ledger[c] = "none" THEN "intent"
                                                                           ELSE ledger[c]
  BY DEF Intent, Inv, TypeOK
<1>3. ledger' \in [Calls -> Rows] /\ effects' \in [Calls -> Nat]
  BY <1>1 DEF Intent, Inv, TypeOK, Rows
<1>4. DiskGrows /\ DoneRanOnce'
  BY <1>1, <1>2 DEF DiskGrows, DoneRanOnce, Inv
<1>5. ledger'[call[a]] # "none"
  BY <1>1, <1>2
<1> QED
  BY <1>1, <1>3, <1>4, <1>5, MovesOnInv DEF CallPlaces

(* The claim is won from `intent' only; its loser finds the row of another. *)
LEMMA ClaimInv == ASSUME Inv, NEW a \in Askers, Claim(a) PROVE Inv'
<1>1. /\ at[a] \in CallPlaces /\ call[a] \in Calls /\ ledger[call[a]] # "none"
      /\ UNCHANGED <<transcript, effects, request, seq, call, issued, asks>>
  BY DEF Claim, history, CallPlaces, Inv, MindIsRight, CallIsOpen
<1>2. \A c \in Calls : /\ ledger[c] \in Rows /\ effects[c] \in Nat
                       /\ ledger'[c] = IF c = call[a] /\ ledger[c] = "intent"
                                       THEN "started" ELSE ledger[c]
  BY DEF Claim, Wins, Inv, TypeOK
<1>3. ledger' \in [Calls -> Rows] /\ effects' \in [Calls -> Nat]
  BY <1>1 DEF Claim, Inv, TypeOK, Rows
<1>4. DiskGrows /\ DoneRanOnce'
  BY <1>1, <1>2 DEF DiskGrows, DoneRanOnce, Inv
<1>5. CASE Go(a, "running") /\ UNCHANGED body
  BY <1>1, <1>3, <1>4, <1>5, MovesOnInv DEF CallPlaces
<1>6. CASE ~Wins(call[a]) /\ WillAppend(a, ToolResult(call[a], "held"))
  <2>1. ledger'[call[a]] \in {"started", "done"}
    BY <1>1, <1>2, <1>6 DEF Wins, Rows
  <2> QED
    BY <1>1, <1>3, <1>4, <1>6, <2>1, ConcludesInv DEF Hows
<1> QED
  BY <1>5, <1>6 DEF Claim

LEMMA EffectInv == ASSUME Inv, NEW a \in Askers, Effect(a) PROVE Inv'
<1>0. TypeOK
  BY DEF Inv
<1>1. /\ at[a] \in CallPlaces /\ call[a] \in Calls
      /\ UNCHANGED <<transcript, ledger, issued, asks>>
  BY DEF Effect, disk, CallPlaces, Inv, MindIsRight, CallIsOpen
<1>2. \A c \in Calls : /\ effects[c] \in Nat
                       /\ effects'[c] = IF c = call[a] THEN effects[c] + 1 ELSE effects[c]
  BY <1>0 DEF Effect, TypeOK
<1>3. ledger' \in [Calls -> Rows] /\ effects' \in [Calls -> Nat]
  BY <1>0, <1>1, <1>2 DEF Effect, TypeOK
<1>4. DiskGrows /\ DoneRanOnce'
  BY <1>1, <1>2 DEF DiskGrows, DoneRanOnce, Inv
<1>5. effects'[call[a]] >= 1
  BY <1>1, <1>2
<1>6. CASE /\ call[a] \in Safe /\ WillAppend(a, ToolResult(call[a], "ran"))
           /\ UNCHANGED <<request, seq, call>>
  BY <1>1, <1>3, <1>4, <1>5, <1>6, ConcludesInv DEF Hows
<1>7. CASE Go(a, "finishing") /\ UNCHANGED mind
  BY <1>1, <1>3, <1>4, <1>5, <1>7, MovesOnInv DEF CallPlaces, mind
<1>8. CASE Leaves(a)
  <2>1. TypeOK'
    BY <1>0, <1>1, <1>3, <1>8, LeavesTyped DEF TypeOK
  <2> QED
    BY <1>0, <1>1, <1>4, <1>8, <2>1, LeavesTyped, EmptyMind, QuietStep
<1> QED
  BY <1>6, <1>7, <1>8 DEF Effect

LEMMA DoneInv == ASSUME Inv, NEW a \in Askers, Done(a) PROVE Inv'
<1>1. /\ at[a] \in CallPlaces /\ call[a] \in Calls /\ effects[call[a]] >= 1
      /\ WillAppend(a, ToolResult(call[a], "ran"))
      /\ UNCHANGED <<transcript, effects, request, seq, call, issued, asks>>
  BY DEF Done, history, CallPlaces, Inv, MindIsRight, CallIsOpen
<1>2. \A c \in Calls : /\ effects[c] \in Nat
                       /\ ledger'[c] = IF c = call[a] THEN "done" ELSE ledger[c]
  BY DEF Done, Inv, TypeOK
<1>3. ledger' \in [Calls -> Rows] /\ effects' \in [Calls -> Nat]
  BY <1>1 DEF Done, Inv, TypeOK, Rows
<1>4. DiskGrows /\ DoneRanOnce'
  BY <1>1, <1>2 DEF DiskGrows, DoneRanOnce, Inv
<1> QED
  BY <1>1, <1>2, <1>3, <1>4, ConcludesInv DEF Hows

-----------------------------------------------------------------------------
(* The append.  It lands only on the transcript it was decided from. *)

LEMMA AppendKeeps ==
    ASSUME TypeOK, TranscriptIsRight, NEW e \in Entries, Follows(e, transcript), Supported(e),
           transcript' = Append(transcript, e), UNCHANGED <<ledger, effects>>
    PROVE  TranscriptIsRight'
<1> DEFINE n == Len(transcript)
<1>0. /\ transcript \in Seq(Entries) /\ n \in Nat
      /\ DOMAIN transcript = 1..n /\ DOMAIN transcript' = 1..(n + 1)
      /\ transcript' \in Seq(Entries) /\ transcript'[n + 1] = e
      /\ \A i \in 1..n : transcript'[i] = transcript[i] /\ transcript[i] \in Entries
  BY Appended DEF TypeOK
<1>n. n \in Nat
  BY <1>0
<1> HIDE DEF n
<1>1. ToSet(transcript) = {transcript[i] : i \in 1..n}
  BY <1>0 DEF ToSet
<1>2. ToSet(transcript') = ToSet(transcript) \cup {e}
  <2>1. ToSet(transcript') = {transcript'[i] : i \in 1..(n + 1)}
    BY <1>0 DEF ToSet
  <2>2. \A i : i \in 1..(n + 1) <=> i \in 1..n \/ i = n + 1
    BY <1>0
  <2> QED
    BY <1>0, <1>1, <2>1, <2>2
<1>3. RanMeansDone' /\ UnfinishedHasARow'
  BY <1>2 DEF TranscriptIsRight, RanMeansDone, UnfinishedHasARow, Supported
<1>4. NoStepTwice'
  <2>1. SUFFICES ASSUME NEW i \in 1..(n + 1), NEW j \in 1..(n + 1), i < j
                 PROVE  CASE transcript'[i].type = "assistant" -> TRUE
                          [] transcript'[i].type = "toolResult" ->
                               ~(transcript'[j].type = "toolResult"
                                   /\ transcript'[j].call = transcript'[i].call)
                          [] OTHER -> transcript'[j] # transcript'[i]
    BY <1>0 DEF NoStepTwice
  <2>2. i \in 1..n /\ transcript'[i] = transcript[i]
    BY <1>0, <2>1
  <2>3. CASE j \in 1..n
    BY <1>0, <2>1, <2>2, <2>3 DEF TranscriptIsRight, NoStepTwice
  <2>4. CASE j = n + 1
    <3> DEFINE d == transcript[i]
    <3>1. d \in Entries /\ d \in ToSet(transcript)
      BY <1>0, <1>1, <2>2
    <3>2. d.type = "toolResult" => ~(e.type = "toolResult" /\ e.call = d.call)
      BY <3>1 DEF Follows, HasResult
    <3>3. d.type \in {"input", "answer"} => e # d
      BY <3>1, EntryShapes DEF Follows, HasInput, HasAnswer
    <3>4. d.type \in {"input", "answer", "assistant", "toolResult"}
      BY <3>1, EntryShapes
    <3> QED
      BY <1>0, <2>2, <2>4, <3>2, <3>3, <3>4
  <2> QED
    BY <1>0, <2>3, <2>4
<1>5. AnswersFollowTheirRequest'
  <2>1. SUFFICES ASSUME NEW i \in 1..(n + 1), transcript'[i].type = "answer"
                 PROVE  /\ i > 1 /\ transcript'[i - 1].type = "assistant"
                        /\ HasInput(SubSeq(transcript', 1, i - 2), transcript'[i].request)
    BY <1>0 DEF AnswersFollowTheirRequest
  <2>2. CASE i \in 1..n
    <3>1. /\ i > 1 /\ transcript[i - 1].type = "assistant"
          /\ HasInput(SubSeq(transcript, 1, i - 2), transcript[i].request)
      BY <1>0, <2>1, <2>2 DEF TranscriptIsRight, AnswersFollowTheirRequest
    <3>2. SubSeq(transcript', 1, i - 2) = SubSeq(transcript, 1, i - 2)
      BY <1>0, <2>2, <3>1
    <3>3. i - 1 \in 1..n
      BY <1>n, <2>2, <3>1
    <3>4. transcript'[i] = transcript[i] /\ transcript'[i - 1] = transcript[i - 1]
      BY <1>0, <2>2, <3>3
    <3> QED
      BY <3>1, <3>2, <3>4
  <2>3. CASE i = n + 1
    <3>1. n > 0 /\ transcript[n].type = "assistant" /\ HasInput(transcript, e.request)
      BY <1>0, <2>1, <2>3 DEF Follows
    <3>2. PICK k \in 1..n : transcript[k] = Input(e.request)
      BY <1>1, <3>1 DEF HasInput
    <3>3. k # n
      BY <3>1, <3>2 DEF Input
    <3>4. k \in 1..(n - 1) /\ n \in 1..n /\ i - 1 = n /\ i - 2 = n - 1 /\ i > 1
      BY <1>n, <2>3, <3>1, <3>3
    <3> DEFINE s == SubSeq(transcript', 1, n - 1)
    <3>5. DOMAIN s = 1..(n - 1) /\ s[k] = transcript[k]
      BY <1>0, <3>1, <3>4
    <3>6. HasInput(s, e.request)
      BY <3>2, <3>4, <3>5 DEF HasInput, ToSet
    <3>7. transcript'[i - 1] = transcript[n] /\ transcript'[i] = e
      BY <1>0, <2>3, <3>4
    <3> QED
      BY <3>1, <3>4, <3>6, <3>7
  <2> QED
    BY <1>0, <2>2, <2>3
<1> QED
  BY <1>3, <1>4, <1>5 DEF TranscriptIsRight

LEMMA AppendsInv == ASSUME Inv, NEW a \in Askers, Appends(a) PROVE Inv'
<1>0. /\ TypeOK /\ MindIsRight(a) /\ TranscriptIsRight /\ DoneRanOnce
      /\ at[a] = "appending" /\ body[a] \in Entries
  BY DEF Inv, Appends, MindIsRight, BodyIsRight
<1>1. UNCHANGED <<ledger, request, effects, issued, asks>>
  BY DEF Appends, history
<1>2. at'[a] = "reading"
  BY <1>0 DEF Appends, Go, TypeOK
<1>3. \A b \in Askers : b # a => /\ at'[b] = at[b] /\ request'[b] = request[b]
                                 /\ seq'[b] = seq[b]
                                 /\ body'[b] = body[b] /\ call'[b] = call[b]
  BY <1>0, <1>1 DEF Appends, Go, Forgets, TypeOK
<1>4. TypeOK'
  <2>1. transcript' \in Seq(Entries)
    BY <1>0, Appended DEF Appends, TypeOK
  <2>2. /\ at' \in [Askers -> Places] /\ seq' \in [Askers -> Nat]
        /\ body' \in [Askers -> Entries \cup {Nothing}]
        /\ call' \in [Askers -> Calls \cup {Nothing}]
    BY <1>0 DEF Appends, Go, Forgets, TypeOK, Places
  <2> QED
    BY <1>0, <1>1, <2>1, <2>2 DEF TypeOK
<1>5. DiskGrows /\ DoneRanOnce'
  <2>1. transcript' = transcript \/ transcript' = Append(transcript, body[a])
    BY DEF Appends
  <2>2. \A c \in Calls : effects[c] \in Nat
    BY <1>0 DEF TypeOK
  <2> QED
    BY <1>0, <1>1, <2>1, <2>2 DEF DiskGrows, DoneRanOnce
<1>6. TranscriptIsRight'
  <2>1. CASE Lands(a)
    <3>1. transcript' = Append(transcript, body[a])
      BY <2>1 DEF Appends
    <3>2. Follows(body[a], transcript) /\ Supported(body[a])
      BY <1>0, <2>1 DEF MindIsRight, BodyIsRight
    <3> QED
      BY <1>0, <1>1, <3>1, <3>2, AppendKeeps
  <2>2. CASE ~Lands(a)
    BY <1>0, <1>4, <1>5, <2>2, TranscriptStays DEF Appends
  <2> QED
    BY <2>1, <2>2
<1>7. \A b \in Askers : MindIsRight(b)'
  <2>1. MindIsRight(a)'
    BY <1>0, <1>1, <1>2, EmptyMind DEF MindIsRight, HasRequest
  <2> QED
    BY <1>3, <1>4, <1>5, <2>1, OthersKeep
<1> QED
  BY <1>4, <1>5, <1>6, <1>7 DEF Inv

-----------------------------------------------------------------------------
LEMMA InitInv == Init => Inv
<1> SUFFICES ASSUME Init PROVE Inv
  OBVIOUS
<1>1. TypeOK
  BY RunAssumption DEF Init, TypeOK, Rows, Places
<1>2. DoneRanOnce
  BY DEF Init, DoneRanOnce
<1>3. TranscriptIsRight
  <2>1. transcript = << >> /\ ToSet(transcript) = {}
    BY DEF Init, ToSet
  <2> QED
    BY <2>1 DEF TranscriptIsRight, NoStepTwice, RanMeansDone, UnfinishedHasARow,
       AnswersFollowTheirRequest
<1>4. \A a \in Askers : MindIsRight(a)
  BY DEF Init, MindIsRight, HasRequest, SeqWasNext, CallIsOpen, BodyIsRight, Deciding,
     CallPlaces
<1> QED
  BY <1>1, <1>2, <1>3, <1>4 DEF Inv

LEMMA NextInv == Inv /\ [Next]_vars => Inv'
<1> SUFFICES ASSUME Inv, [Next]_vars PROVE Inv'
  OBVIOUS
<1>1. CASE UNCHANGED vars
  BY <1>1 DEF vars, Inv, TypeOK, DoneRanOnce, TranscriptIsRight, NoStepTwice, RanMeansDone,
     UnfinishedHasARow, AnswersFollowTheirRequest, MindIsRight, HasRequest, SeqWasNext,
     CallIsOpen, BodyIsRight, Lands, Follows, Supported, HasInput, HasAnswer, HasResult
<1>2. CASE Next
  <2>1. PICK a \in Askers : Step(a) \/ Dies(a) \/ \E r \in Requests : Ask(a, r)
    BY <1>2 DEF Next
  <2> QED
    BY <2>1, AskInv, DiesInv, ReadInv, ModelRepliesInv, AppendsInv, GateInv, CheckInv,
       IntentInv, ClaimInv, EffectInv, DoneInv DEF Step
<1> QED
  BY <1>1, <1>2

LEMMA SpecInv == Spec => []Inv
  BY InitInv, NextInv, PTL DEF Spec

(* Every variable keeps to its type. *)
THEOREM TypeCorrect == Spec => []TypeOK
<1>1. Inv => TypeOK
  BY DEF Inv
<1> QED
  BY <1>1, SpecInv, PTL

(* Two processes on one file never write a step twice (run.ts:3-4). *)
THEOREM StepsAreWrittenOnce == Spec => []NoStepTwice
<1>1. Inv => NoStepTwice
  BY DEF Inv, TranscriptIsRight
<1> QED
  BY <1>1, SpecInv, PTL

(* An answer is the model's reply to a transcript that held the request. *)
THEOREM AnswersAreReplies == Spec => []AnswersFollowTheirRequest
<1>1. Inv => AnswersFollowTheirRequest
  BY DEF Inv, TranscriptIsRight
<1> QED
  BY <1>1, SpecInv, PTL

(* What the transcript says ran has had its effect and its `done' row; what it
   says was cut off or held has a row (ledger.ts:104-108). *)
THEOREM TranscriptAgreesWithLedger == Spec => []TranscriptAgreesWithRows
<1>1. Inv => TranscriptAgreesWithRows
  BY DEF Inv, TranscriptIsRight, TranscriptAgreesWithRows
<1> QED
  BY <1>1, SpecInv, PTL

(* Who appends has its entry in the transcript, or another's in its place. *)
THEOREM AppendsAreNeverLost == Spec => LosersAreOvertaken
<1>1. Inv /\ [Next]_vars =>
        [\A a \in Askers :
          at[a] = "appending" /\ at'[a] = "reading" =>
              \/ Len(transcript) >= seq[a]
              \/ Len(transcript') = seq[a] /\ transcript'[seq[a]] = body[a]]_vars
  <2>1. SUFFICES ASSUME Inv, Next, NEW a \in Askers,
                        at[a] = "appending", at'[a] = "reading"
                 PROVE  \/ Len(transcript) >= seq[a]
                        \/ Len(transcript') = seq[a] /\ transcript'[seq[a]] = body[a]
    OBVIOUS
  <2>2. TypeOK /\ MindIsRight(a) /\ body[a] \in Entries
    BY <2>1 DEF Inv, MindIsRight, BodyIsRight
  <2>3. Appends(a)
    <3>1. PICK x \in Askers : Step(x) \/ Dies(x) \/ \E r \in Requests : Ask(x, r)
      BY <2>1 DEF Next
    <3>2. CASE x # a
      <4>1. at'[a] = at[a]
        BY <2>2, <3>1, <3>2 DEF Step, Read, ModelReplies, Appends, Gate, Check, Intent, Claim,
           Effect, Done, Dies, Ask, Leaves, WillAppend, Go, TypeOK
      <4> QED
        BY <2>1, <4>1
    <3>3. CASE x = a
      BY <2>1, <2>2, <3>1, <3>3 DEF Step, Read, ModelReplies, Gate, Check, Intent, Claim,
         Effect, Done, Dies, Ask, Leaves, Go, TypeOK
    <3> QED
      BY <3>2, <3>3
  <2>4. Len(transcript) \in Nat /\ seq[a] \in 1..(Len(transcript) + 1)
    BY <2>1, <2>2 DEF TypeOK, MindIsRight, SeqWasNext, Deciding
  <2>5. CASE Lands(a)
    BY <2>2, <2>3, <2>5, Appended DEF Appends, Lands, TypeOK
  <2>6. CASE ~Lands(a)
    BY <2>4, <2>6 DEF Lands
  <2> QED
    BY <2>5, <2>6
<1> QED
  BY <1>1, SpecInv, PTL DEF Spec, LosersAreOvertaken
=============================================================================
