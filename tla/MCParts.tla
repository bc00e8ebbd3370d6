------------------------------ MODULE MCParts ------------------------------
(* Six parts that share no state, one small instance of each.  A behaviour is *)
(* a behaviour of one of them, `part'; the others stay in their initial state, *)
(* and so do their variables.  The parts that keep their names to themselves   *)
(* are instances of their proof modules, so that PartsProofs has their         *)
(* theorems at hand; a proof module adds nothing that TLC runs.                *)
EXTENDS GoalRun, BoardPlane, TLC

CONSTANTS s1, c1, c2, x, i1, i2, u1, u2, note, g1, g2, v1, v2, chat, ls, sh
CONSTANTS
    Sessions, Calls, Items, MessageIds, NoId, NoSession, ChannelOf, CapOf, NeverEvict,
    MaxSessions, QueueMax, SeenMax, StartLimit, SlashLines, Unverified, MaxEntries,
    Ids, MaxStops, MaxIoErrors, MaxShortWrites,
    Keys, Urgent, Reports, MaxHeld, MaxEvents, MaxOwners, MaxDiskErrors, MaxCrashes,
    MaxRequests, Chats, Commands, Allowable, MaxEnds, MaxPresses

VARIABLES part,
    live, created, busy, queue, seen, stopped, attached, call, line, looping, drainDue,
    log, synced, torn, up, status, receipt, pending, running, nextSeq, active, acked,
    runs, stops, ioErrors, shortWrites,
    queued, count, known, timer, due, dead, phase, aborted, inflight, rest, held,
    heldTimer, out, file, payloads, quiet, alive, owed, unsaved, events, owners,
    errors, crashes,
    ask, liveBySession, allowances, pressed, inbox, ends

poolVars == <<live, created, busy, queue, seen, stopped, attached, call, line, looping,
              drainDue>>
queueVars == <<log, synced, torn, up, status, receipt, pending, running, nextSeq, active,
               acked, runs, stops, ioErrors, shortWrites>>
wakeVars == <<queued, count, known, timer, due, dead, phase, aborted, inflight, rest, held,
              heldTimer, out, file, payloads, quiet, alive, owed, unsaved, events, owners,
              errors, crashes>>
runVars == vars
cardVars == <<ask, liveBySession, allowances, pressed, inbox, ends>>

MCChannelOf == [s \in Sessions |-> "computer"]
MCCapOf == [ch \in {"computer"} |-> 1]

Pool == INSTANCE AgentPoolProofs
Queue == INSTANCE WorkQueueProofs
Wake == INSTANCE WakeRouterProofs
Cards == INSTANCE ChannelApprovalsProofs

ASSUME PartsAssumption ==
    /\ Pool!SessionsAssumption /\ Pool!NoIdAssumption
    /\ Pool!ChannelAssumption /\ Pool!LimitsAssumption
    /\ Queue!IdsAssumption /\ Queue!StartLimitAssumption /\ Queue!BoundsAssumption
    /\ Wake!WakeAssumption /\ BoardAssumption /\ Cards!ApprovalAssumption

Parts == {"pool", "queue", "wake", "goal", "board", "cards"}

PartsInit ==
    /\ part \in Parts
    /\ Pool!Init /\ Queue!Init /\ Wake!Init /\ Init /\ BoardInit /\ Cards!Init

PartsNext ==
    /\ UNCHANGED part
    /\ \/ part = "pool" /\ Pool!Next
          /\ UNCHANGED <<queueVars, wakeVars, runVars, boardVars, cardVars>>
       \/ part = "queue" /\ Queue!Next
          /\ UNCHANGED <<poolVars, wakeVars, runVars, boardVars, cardVars>>
       \/ part = "wake" /\ Wake!Next
          /\ UNCHANGED <<poolVars, queueVars, runVars, boardVars, cardVars>>
       \/ part = "goal" /\ Next
          /\ UNCHANGED <<poolVars, queueVars, wakeVars, boardVars, cardVars>>
       \/ part = "board" /\ BoardNext
          /\ UNCHANGED <<poolVars, queueVars, wakeVars, runVars, cardVars>>
       \/ part = "cards" /\ Cards!Next
          /\ UNCHANGED <<poolVars, queueVars, wakeVars, runVars, boardVars>>

partsVars == <<part, poolVars, queueVars, wakeVars, runVars, boardVars, cardVars>>

\* Each part with the fairness of its own module; no fair action of another part
\* is enabled in its initial state.
PartsFairness ==
    \/ part = "pool" /\ Pool!Fairness
    \/ part = "queue" /\ Queue!Fairness
    \/ part = "wake" /\ Wake!Fairness
    \/ part = "goal" /\ Fairness
    \/ part = "board" /\ BoardFairness
    \/ part = "cards" /\ Cards!Fairness

PartsFairSpec == PartsInit /\ [][PartsNext]_partsVars /\ PartsFairness

-----------------------------------------------------------------------------
\* Every variable keeps its type, in every part.
PartsTypeOK ==
    /\ Pool!TypeOK /\ Queue!TypeOK /\ Wake!TypeOK
    /\ TypeOK /\ BoardTypeOK /\ Cards!TypeOK

\* What was done is not done again: a redelivered message id has one turn
\* (agent-pool.ts:663-679), and a task that was not taken back as stale is with
\* one vessel at most (task-queue.ts:77-131), whatever is retried, cut or aborted.
NothingIsDoneTwice == Pool!RedeliveryNeverRuns /\ OneCopyOfATask

\* An urgent event is counted until it is announced, over pre-empted turns,
\* nights, failed writes and restarts (wake-router.ts:16-18), and the file a
\* waiting event points at is not pruned (:210-217).
NothingIsLost == Wake!UrgentIsNeverDropped /\ Wake!PayloadsAreKept

\* Nothing passes a limit or a gate it was to wait at: even when writes throw no
\* more items are in flight than the throttle allows (queue.ts:290-312), and what
\* runs was approved, by its own live card or by an allowance in force that covers
\* it (channel-approvals.ts:139-193).
NothingSlipsThrough == Queue!ThrottleNeverOverAdmits /\ Cards!ApprovalsWereGiven

\* Nobody waits for ever: a message gets its answer, an item its outcome, an
\* urgent event its notice, a goal, a task and a prompt their end, however they
\* are aborted, redelivered, held, retried or cut off, under the fairness each
\* module states.  (Inputs are bounded, so who waits for ever is seen here.)
PartsUnsettled ==
    \/ Pool!Unsettled \/ Queue!Unsettled \/ Wake!Unsettled
    \/ Unsettled \/ BoardUnsettled \/ Cards!Unsettled
EveryoneSettles == PartsUnsettled ~> ~PartsUnsettled
=============================================================================
