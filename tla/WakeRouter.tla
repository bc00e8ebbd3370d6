----------------------------- MODULE WakeRouter -----------------------------
(* The wake router of the daemon (daemon/wake-router.ts, wake-wiring.ts):    *)
(* triggers wait for their batch, equal keys collapse to one with a count,   *)
(* urgent ones are announced, or held through quiet hours in memory and in a *)
(* file.  A step is a stretch of the code between two awaits.                *)
(*                                                                           *)
(* A key stands for its dedupe key, its priority and its payload.  A batch   *)
(* is handled within the dedupe window, so a queued key is in its window.    *)
EXTENDS Naturals, Sequences, FiniteSets, SequencesExt, Functions

CONSTANTS Keys,          \* dedupe keys of triggers that are not the owner's
          Urgent,        \* those of priority urgent
          Reports,       \* those whose payload is not a file of the wake folder
          MaxHeld,       \* MAX_HELD
          MaxEvents, MaxOwners, MaxDiskErrors, MaxCrashes

\* What the constants are; MCParts assumes it.
WakeAssumption ==
    /\ Urgent \subseteq Keys /\ Reports \subseteq Keys /\ IsFiniteSet(Keys)
    /\ {MaxHeld, MaxEvents, MaxOwners, MaxDiskErrors, MaxCrashes} \subseteq Nat

VARIABLES
    queued,     \* keys waiting for their batch
    count,      \* how often a key that is queued or in the batch was triggered
    known,      \* keys inside their dedupe window
    timer,      \* the batch timer is armed
    due,        \* a drain runs or is chained
    dead,       \* the chain of drains was rejected: none will ever run
    phase,      \* what handleBatch awaits
    aborted,    \* the owner pre-empted the background turn
    inflight,   \* the batch being handled
    rest,       \* what of it is not decided yet; its head is being spoken
    held,       \* urgent events held: counts by key, and those past MaxHeld
    heldTimer,  \* the end-of-quiet-hours timer is armed
    out,        \* released and not announced yet
    file,       \* the held file
    payloads,   \* keys whose payload file exists
    quiet,      \* it is quiet hours
    alive,      \* the daemon runs
    owed,       \* history: urgent triggers the router has promised to announce
    unsaved,    \* history: the last save of the held file failed
    events, owners, errors, crashes

memory == <<queued, count, known, timer, due, dead, phase, aborted, inflight,
            rest, held, heldTimer, out>>
bounds == <<events, owners, errors, crashes>>
vars == <<memory, file, payloads, quiet, alive, owed, unsaved, bounds>>

Total(f) == FoldFunction(+, 0, f)
Nothing == [by |-> [k \in Keys |-> 0], more |-> 0]
Size(h) == Total(h.by) + h.more
KeysOf(h) == {k \in Keys : h.by[k] > 0}
Together(g, h) == [by |-> [k \in Keys |-> g.by[k] + h.by[k]], more |-> g.more + h.more]

HeldRecs == [by : [Keys -> 0..MaxEvents], more : 0..MaxEvents]

Quiescent ==
    /\ queued = <<>> /\ count = [k \in Keys |-> 0] /\ known = {}
    /\ timer = FALSE /\ due = FALSE /\ dead = FALSE
    /\ phase = "idle" /\ aborted = FALSE /\ inflight = <<>> /\ rest = <<>>
    /\ held = Nothing /\ heldTimer = FALSE /\ out = Nothing

Init ==
    /\ Quiescent
    /\ file = Nothing /\ payloads = {} /\ quiet = FALSE /\ alive = TRUE
    /\ owed = 0 /\ unsaved = FALSE
    /\ events = 0 /\ owners = 0 /\ errors = 0 /\ crashes = 0

-----------------------------------------------------------------------------
(* The held file. *)

\* A write that fails is logged and swallowed: memory alone has the new state.
SaveHeld(h) ==
    \/ file' = h /\ unsaved' = FALSE /\ UNCHANGED errors
    \/ /\ errors < MaxDiskErrors /\ errors' = errors + 1
       /\ unsaved' = TRUE /\ UNCHANGED file

\* Mutated: past the cap an event is dropped.
Hold_DropPastCap(h, k) ==
    IF h.by[k] > 0 \/ Cardinality(KeysOf(h)) < MaxHeld
    THEN [h EXCEPT !.by[k] = @ + count[k]]
    ELSE h

\* hold(): merge with what is held of the key, or count it past the cap.
Hold(h, k) ==
    IF h.by[k] > 0 \/ Cardinality(KeysOf(h)) < MaxHeld
    THEN [h EXCEPT !.by[k] = @ + count[k]]
    ELSE [h EXCEPT !.more = @ + count[k]]

\* loadHeld(): a row counts only if its payload is under the wake folder.
Loaded == [file EXCEPT !.by = [k \in Keys |-> IF k \in Reports THEN 0 ELSE @[k]]]

-----------------------------------------------------------------------------
(* Triggers. *)

\* Mutated: the batch being handled is in none of the maps.
HeldPaths_NoInflight == KeysOf(held) \cup Range(queued)

\* heldPaths()
HeldPaths == KeysOf(held) \cup Range(queued) \cup Range(inflight)

\* stash(): write the payload, then prune old files that nothing points at.
Stash(k) ==
    IF k \in Reports THEN UNCHANGED payloads
    ELSE \E doomed \in SUBSET (payloads \ (HeldPaths \cup {k})) :
             payloads' = (payloads \ doomed) \cup {k}

\* arm()
Arm == timer' = TRUE

Promise(k) == owed' = IF k \in Urgent THEN owed + 1 ELSE owed

\* A notice under way has its count already; a later trigger is a repeat.
BeingSpoken(k) == phase = "speaking" /\ k = Head(rest)

\* submit() of a trigger that is not the owner's.
Submit(k) ==
    /\ alive /\ events < MaxEvents /\ events' = events + 1
    /\ Stash(k)
    /\ \/ /\ k \notin known
          /\ queued' = Append(queued, k) /\ count' = [count EXCEPT ![k] = 1]
          /\ known' = known \cup {k} /\ Arm
          /\ IF dead THEN UNCHANGED owed ELSE Promise(k)
          /\ UNCHANGED <<held, file, unsaved, errors>>
       \/ /\ k \in known /\ count[k] > 0
          /\ IF BeingSpoken(k) \/ dead
             THEN UNCHANGED <<count, owed>>
             ELSE count' = [count EXCEPT ![k] = @ + 1] /\ Promise(k)
          /\ UNCHANGED <<queued, known, timer, held, file, unsaved, errors>>
       \/ /\ k \in known /\ count[k] = 0 /\ held.by[k] > 0
          /\ held' = [held EXCEPT !.by[k] = @ + 1] /\ SaveHeld(held')
          /\ Promise(k)
          /\ UNCHANGED <<queued, count, known, timer>>
       \/ /\ k \in known /\ count[k] = 0 /\ held.by[k] = 0      \* to the digest
          /\ UNCHANGED <<queued, count, known, timer, held, file, unsaved, errors, owed>>
    /\ UNCHANGED <<due, dead, phase, aborted, inflight, rest, heldTimer, out,
                   quiet, alive, owners, crashes>>

\* dedupeWindowMs pass since the key was first seen.
WindowPasses(k) ==
    /\ k \in known /\ count[k] = 0
    /\ known' = known \ {k}
    /\ UNCHANGED <<queued, count, timer, due, dead, phase, aborted, inflight, rest,
                   held, heldTimer, out, file, payloads, quiet, alive, owed, unsaved, bounds>>

\* submit() of an owner's event: it aborts the background turn, if one runs.
Owner ==
    /\ alive /\ phase = "turn" /\ ~aborted
    /\ owners < MaxOwners /\ owners' = owners + 1
    /\ aborted' = TRUE
    /\ UNCHANGED <<queued, count, known, timer, due, dead, phase, inflight, rest, held,
                   heldTimer, out, file, payloads, quiet, alive, owed, unsaved,
                   events, errors, crashes>>

-----------------------------------------------------------------------------
(* The pump. *)

BatchTimerFires ==
    /\ alive /\ timer
    /\ timer' = FALSE /\ due' = ~dead
    /\ UNCHANGED <<queued, count, known, dead, phase, aborted, inflight, rest, held,
                   heldTimer, out, file, payloads, quiet, alive, owed, unsaved, bounds>>

\* The entries handled before the first notice that must be awaited.
Decided(b) ==
    IF quiet THEN b
    ELSE LET stop == {i \in 1..Len(b) : b[i] \in Urgent}
         IN  IF stop = {} THEN b
             ELSE SubSeq(b, 1, (CHOOSE i \in stop : \A j \in stop : i <= j) - 1)

\* What is held once the loop has been through `done'.
HeldAfter(done) ==
    LET h[i \in 0..Len(done)] ==
            IF i = 0 THEN held
            ELSE IF done[i] \in Urgent THEN Hold(h[i - 1], done[i]) ELSE h[i - 1]
    IN  h[Len(done)]

HoldsAny(done) == Range(done) \cap Urgent # {}

\* What done leaves held, and the entries whose seen.queued it clears.
Settle(done, spoken) ==
    /\ held' = HeldAfter(done)
    /\ count' = [k \in Keys |-> IF k \in Range(done) \cup spoken THEN 0 ELSE count[k]]
    /\ heldTimer' = (heldTimer \/ HoldsAny(done))
    /\ IF HoldsAny(done) THEN SaveHeld(held') ELSE UNCHANGED <<file, unsaved, errors>>

\* The loop of handleBatch over batch b, up to its next await.  Writing a line
\* of the digest may throw: it rejects the drain and every drain chained to it.
Decide(b, spoken) ==
    LET done == Decided(b)
        left == SubSeq(b, Len(done) + 1, Len(b))
        told == Total([k \in Keys |-> IF k \in spoken THEN count[k] ELSE 0])
    IN  \/ /\ Settle(done, spoken)
           /\ rest' = left /\ phase' = IF left = <<>> THEN "idle" ELSE "speaking"
           /\ owed' = owed - told
           /\ UNCHANGED <<due, dead>>
        \/ \E i \in 1..Len(done) :
               /\ done[i] \notin Urgent /\ errors < MaxDiskErrors
               /\ LET before == SubSeq(done, 1, i - 1)
                  IN  /\ held' = HeldAfter(before)
                      /\ heldTimer' = (heldTimer \/ HoldsAny(before))
                      /\ file' = IF HoldsAny(before) THEN held' ELSE file
                      /\ unsaved' = (unsaved /\ ~HoldsAny(before))
               /\ errors' = errors + 1
               /\ rest' = <<>> /\ phase' = "idle" /\ due' = FALSE /\ dead' = TRUE
               /\ owed' = Size(held') + Size(out)
               /\ UNCHANGED count

\* drain(), or its next round: nothing to do, or the head of the queue is a batch.
Drain ==
    /\ alive /\ due /\ phase = "idle"
    /\ \/ /\ queued = <<>> \/ timer
          /\ due' = FALSE
          /\ UNCHANGED <<queued, inflight, rest, phase>>
       \/ /\ queued # <<>> /\ ~timer
          /\ \E n \in 1..Len(queued) :
                 /\ inflight' = SubSeq(queued, 1, n) /\ rest' = inflight'
                 /\ queued' = SubSeq(queued, n + 1, Len(queued))
          /\ phase' = "turn"
          /\ UNCHANGED due
    /\ UNCHANGED <<count, known, timer, dead, aborted, held, heldTimer, out,
                   file, payloads, quiet, alive, owed, unsaved, bounds>>

\* Mutated: it is counted as handled.
Requeue_Dropped == UNCHANGED queued

\* A pre-empted batch goes back to the head of the queue.
Requeue == queued' = rest \o queued

Closed(b) == inflight' = IF rest' = <<>> /\ ~dead' THEN <<>> ELSE b

\* The background turn is over; without runTurn there is none and this is the
\* next thing to happen.
TurnEnds ==
    /\ alive /\ phase = "turn"
    /\ aborted' = FALSE
    /\ IF aborted
       THEN /\ Requeue /\ phase' = "idle" /\ rest' = <<>>
            /\ UNCHANGED <<count, held, heldTimer, file, unsaved, errors, owed, due,
                           dead, inflight>>
       ELSE Decide(rest, {}) /\ Closed(inflight) /\ UNCHANGED queued
    /\ UNCHANGED <<known, timer, out, payloads, quiet, alive, events, owners, crashes>>

\* The notice of the head of the batch is out; the loop goes on.
Spoken ==
    /\ alive /\ phase = "speaking"
    /\ Decide(Tail(rest), {Head(rest)}) /\ Closed(inflight)
    /\ UNCHANGED <<queued, known, timer, aborted, out, payloads, quiet, alive,
                   events, owners, crashes>>

-----------------------------------------------------------------------------
(* Quiet hours. *)

QuietBegins ==
    /\ ~quiet /\ quiet' = TRUE
    /\ UNCHANGED <<memory, file, payloads, alive, owed, unsaved, bounds>>

QuietEnds ==
    /\ quiet /\ quiet' = FALSE
    /\ UNCHANGED <<memory, file, payloads, alive, owed, unsaved, bounds>>

\* release() outside quiet hours: the file is emptied before the first notice.
Release(h) ==
    /\ out' = Together(out, h) /\ held' = Nothing
    /\ SaveHeld(Nothing)

\* Fired in quiet hours, the timer only arms itself again.
HeldTimerFires ==
    /\ alive /\ heldTimer /\ ~quiet
    /\ heldTimer' = FALSE
    /\ IF held = Nothing THEN UNCHANGED <<out, held, file, unsaved, errors>>
       ELSE Release(held)
    /\ UNCHANGED <<queued, count, known, timer, due, dead, phase, aborted, inflight,
                   rest, payloads, quiet, alive, owed, events, owners, crashes>>

\* The notices of what was released, then the one for the overflow.
HeldSpoken ==
    /\ alive
    /\ \/ \E k \in KeysOf(out) :
              out' = [out EXCEPT !.by[k] = 0] /\ owed' = owed - out.by[k]
       \/ KeysOf(out) = {} /\ out.more > 0
          /\ out' = Nothing /\ owed' = owed - out.more
    /\ UNCHANGED <<queued, count, known, timer, due, dead, phase, aborted, inflight,
                   rest, held, heldTimer, file, payloads, quiet, alive, unsaved, bounds>>

-----------------------------------------------------------------------------
(* The daemon stops and starts.  What waits for its batch or is being         *)
(* announced was never promised to survive; what is held is, on the file.     *)

Crash ==
    /\ alive /\ crashes < MaxCrashes /\ crashes' = crashes + 1
    /\ alive' = FALSE
    /\ owed' = IF unsaved THEN Size(file) ELSE Size(held)
    /\ queued' = <<>> /\ count' = [k \in Keys |-> 0] /\ known' = {}
    /\ timer' = FALSE /\ due' = FALSE /\ dead' = FALSE
    /\ phase' = "idle" /\ aborted' = FALSE /\ inflight' = <<>> /\ rest' = <<>>
    /\ held' = Nothing /\ heldTimer' = FALSE /\ out' = Nothing
    /\ UNCHANGED <<file, payloads, quiet, unsaved, events, owners, errors>>

\* The constructor: loadHeld(), then release().
Restart ==
    /\ ~alive /\ alive' = TRUE
    /\ IF Loaded = Nothing \/ quiet
       THEN /\ held' = Loaded /\ heldTimer' = (Loaded # Nothing)
            /\ UNCHANGED <<out, file, unsaved, errors>>
       ELSE Release(Loaded) /\ UNCHANGED heldTimer
    /\ UNCHANGED <<queued, count, known, timer, due, dead, phase, aborted, inflight,
                   rest, payloads, quiet, owed, events, owners, crashes>>

Next ==
    \/ \E k \in Keys : Submit(k) \/ WindowPasses(k)
    \/ Owner
    \/ BatchTimerFires \/ Drain \/ TurnEnds \/ Spoken
    \/ QuietBegins \/ QuietEnds \/ HeldTimerFires \/ HeldSpoken
    \/ Crash \/ Restart

Spec == Init /\ [][Next]_vars

\* Timers fire, notices and turns end, nights end, and the service manager
\* starts the daemon again.  The held timer is set for the end of the night it
\* was armed in, so a later night does not put it off.
Fairness ==
    /\ WF_vars(BatchTimerFires) /\ WF_vars(Drain) /\ WF_vars(TurnEnds)
    /\ WF_vars(Spoken) /\ WF_vars(HeldSpoken)
    /\ WF_vars(QuietEnds) /\ SF_vars(HeldTimerFires) /\ WF_vars(Restart)

FairSpec == Spec /\ Fairness

-----------------------------------------------------------------------------
TypeOK ==
    /\ {queued, inflight, rest} \subseteq SeqOf(Keys, Cardinality(Keys))
    /\ count \in [Keys -> 0..MaxEvents] /\ known \subseteq Keys
    /\ {timer, due, dead, aborted, heldTimer, quiet, alive, unsaved} \subseteq BOOLEAN
    /\ phase \in {"idle", "turn", "speaking"}
    /\ {held, out, file} \subseteq HeldRecs
    /\ payloads \subseteq Keys /\ owed \in 0..MaxEvents

\* "An urgent event is never dropped" (wake-router.ts:16): at any moment every
\* urgent trigger promised is in the queue, in the batch, held or released, with
\* its count; after a restart, all that was held is.  When a digest write has
\* killed the pump, the queue is given up, what is held is not.
UrgentIsNeverDropped ==
    alive => owed = Size(held) + Size(out)
                 + IF dead THEN 0
                   ELSE Total([k \in Keys |-> IF k \in Urgent THEN count[k] ELSE 0])

\* The payload of whatever is still to be announced or digested survives the
\* pruning of the wake folder (wake-router.ts:210-217, wake-wiring.ts:136-144),
\* as long as no write failed (a stale held file may name what is out already).
PayloadsAreKept ==
    alive /\ errors = 0 =>
        (KeysOf(held) \cup Range(queued) \cup Range(rest)) \ Reports \subseteq payloads

\* An urgent trigger is not announced yet; pre-empted turns, nights, restarts
\* and, for what is held, the death of the pump only put it off.
Unsettled == owed > 0
=============================================================================
