-------------------------------- MODULE Floor --------------------------------
(***************************************************************************)
(* The floor of a huddle (table/floor.ts): who may speak, for how long,    *)
(* and who is next.  Officers have no verb of their own; humans raise,     *)
(* cut, yield, invite, drop and close, in any order, and everything else   *)
(* is done by the daemon's timers, by the officers' answers, which may     *)
(* come after their turn is over, and by the narration of an answer        *)
(* (daemon/huddle-stage.ts), which reports its length when it starts.      *)
(*                                                                         *)
(* Time passes in ticks; a timer that is due fires before the next tick,   *)
(* in any order with what else happens then.  Only the synthesis of a      *)
(* narration, a subprocess the daemon waits for, holds all timers up.  An  *)
(* answer or a narration that never comes stays in `awaited'.              *)
(***************************************************************************)
EXTENDS Integers, FiniteSets, SequencesExt

CONSTANTS
    Officers, Humans,
    ChairAgent,     \* CHAIR_AGENT_ID, one of the Officers
    NoHolder,
    Roster,         \* config.roster
    ChairSeat,      \* config.chair: "human" or "agent"
    ChairMode,      \* config.chairMode: "auto", "human" or "agent"
    MaxRounds,
    PrepareBudget, SpeakBudget, SpeakGrace, AudioStartGrace, ReadingTime, MaxTurnTime,
    MaxDuration, PresenceTimeout,
    SynthesisTime,  \* the longest synthesis; like the budgets, in ticks
    RaiseQueueMax,
    MaxLate,        \* bound: answers and narrations awaited of turns that are over
    MaxActs         \* bound: what the humans do in all

VARIABLES
    huddle,     \* "idle", "open" or "closed"
    ring,       \* the officers who speak in every round, in order
    ringPos,    \* how many of them the round has reached
    round,      \* rounds that are over
    raised,     \* raiseQueue
    turn,       \* the current turn, or NoHolder
    timers,     \* ticks until each timer is due, or Off
    awaited,    \* what is still to come, of this turn or of one that is over
    lastHuman,  \* lastHumanActor
    away,       \* ticks since a human did something, as far as it matters
    acts,       \* history: what the humans have done, a count
    waiting,    \* history: whose turn in this round is still to come
    passed      \* history: who stood behind a holder that was dropped, or came there

floorVars == <<huddle, ring, ringPos, round, raised, turn, timers, awaited, lastHuman,
               away, acts, waiting, passed>>

Off == -1
TimerNames == {"prepare", "speak", "maxTurn", "chairHuman", "wallClock"}
MaxOf(m, n) == IF m >= n THEN m ELSE n
MinOf(m, n) == IF m <= n THEN m ELSE n

TurnIds == 1 .. MaxLate + 2
HuddleTurns ==
    [id: TurnIds, holder: Officers \cup Humans, seat: {"ring", "chair"}, interject: BOOLEAN,
     speaking: BOOLEAN, heard: BOOLEAN, said: SUBSET (TurnIds \cup Humans)]
Awaited == [turn: TurnIds, what: {"text", "audio"}]

ASSUME FloorAssumption ==
    /\ Officers \cap Humans = {} /\ ChairAgent \in Officers
    /\ NoHolder \notin HuddleTurns
    /\ Roster \in Seq(Officers \cup Humans)
    /\ ChairSeat \in {"human", "agent"} /\ ChairMode \in {"auto", "human", "agent"}
    /\ {MaxRounds, PrepareBudget, SpeakBudget, ReadingTime, MaxDuration} \subseteq Nat \ {0}
    /\ {SpeakGrace, AudioStartGrace, MaxTurnTime, PresenceTimeout, SynthesisTime} \subseteq Nat
    /\ {RaiseQueueMax, MaxLate, MaxActs} \subseteq Nat

\* The ceiling of a turn, meant to lie above the budgets of its phases.
MaxTurn == MaxOf(MaxTurnTime, PrepareBudget + MaxOf(SpeakBudget, AudioStartGrace) + SpeakGrace)

\* Mutated: duplicates stay.
Ring_Doubled(occupant) == SelectSeq(Roster, LAMBDA p : p # occupant)

\* The roster without the chair's occupant and without duplicates, in its order.
Ring(occupant) ==
    LET upTo[i \in 0 .. Len(Roster)] ==
            IF i = 0 THEN <<>>
            ELSE IF Roster[i] \in {occupant} \cup ToSet(upTo[i - 1]) THEN upTo[i - 1]
            ELSE Append(upTo[i - 1], Roster[i])
    IN  upTo[Len(Roster)]

FloorInit ==
    /\ huddle = "idle" /\ ring = <<>> /\ ringPos = 0 /\ round = 0 /\ raised = <<>>
    /\ turn = NoHolder /\ timers = [n \in TimerNames |-> Off] /\ awaited = {}
    /\ lastHuman \in Humans /\ away = 0 /\ acts = 0
    /\ waiting = {} /\ passed = {}

-----------------------------------------------------------------------------
(* Granting. *)

\* What is awaited when a turn starts: of the turns that are over, MaxLate at most.
Leftover(kept) ==
    /\ kept \subseteq awaited
    /\ Cardinality(kept) = MinOf(Cardinality(awaited), MaxLate)

FreshId(kept) ==
    CHOOSE i \in TurnIds :
        /\ i \notin {c.turn : c \in kept}
        /\ turn # NoHolder => i # turn.id

\* The timers of a turn that starts: the ceiling, and the thinking of an officer
\* or the patience with a human in the chair.  The wall clock runs on.
TurnTimers(human, seat, wallClock) ==
    [prepare |-> IF human THEN Off ELSE PrepareBudget,
     speak |-> Off,
     maxTurn |-> MaxTurn,
     chairHuman |-> IF human /\ seat = "chair" THEN PrepareBudget ELSE Off,
     wallClock |-> wallClock]

StartTurn(holder, seat, interject, wallClock) ==
    \E kept \in SUBSET awaited :
        LET id == FreshId(kept)
            human == holder \in Humans
        IN  /\ Leftover(kept)
            /\ turn' = [id |-> id, holder |-> holder, seat |-> seat, said |-> {},
                        interject |-> interject, speaking |-> human, heard |-> FALSE]
            /\ timers' = TurnTimers(human, seat, wallClock)
            /\ awaited' = IF human THEN kept ELSE kept \cup {[turn |-> id, what |-> "text"]}
            /\ huddle' = "open"

\* resolveChair, for a human `who' seen last `since' ticks ago.
Chair(who, since) ==
    IF ChairMode = "human" \/ (ChairMode = "auto" /\ since <= PresenceTimeout)
    THEN who ELSE ChairAgent

\* grantNext: who raised a hand, then the ring, then the chair.
Grant(rg, pos, hands, who, since, wallClock) ==
    /\ ringPos' = pos
    /\ \/ /\ hands # <<>>
          /\ StartTurn(Head(hands), "ring", TRUE, wallClock)
          /\ raised' = Tail(hands)
       \/ /\ hands = <<>> /\ pos < Len(rg)
          /\ StartTurn(rg[pos + 1], "ring", FALSE, wallClock)
          /\ raised' = hands
       \/ /\ hands = <<>> /\ pos >= Len(rg)
          /\ StartTurn(Chair(who, since), "chair", FALSE, wallClock)
          /\ raised' = hands

FinishClosing ==
    /\ huddle' = "closed" /\ turn' = NoHolder
    /\ timers' = [n \in TimerNames |-> Off]
    /\ UNCHANGED awaited

-----------------------------------------------------------------------------
(* Releasing: the turn is recorded and the huddle moves on, with the ring, the
   hands and the last human as the caller leaves them. *)

Over == round + 1 >= MaxRounds \/ timers.wallClock = 0

NewRound(rg) == /\ waiting' = ToSet(rg)
                /\ passed' = {}

Release(rg, pos, hands, left, who, since) ==
    \/ /\ turn.interject
       /\ Grant(rg, pos, hands, who, since, timers.wallClock)
       /\ waiting' = left
       /\ UNCHANGED <<round, passed>>
    \/ /\ ~turn.interject /\ turn.seat = "ring"
       /\ Grant(rg, pos + 1, hands, who, since, timers.wallClock)
       /\ waiting' = left \ {turn.holder}
       /\ UNCHANGED round
       /\ passed' = IF turn.holder \in ToSet(rg) \/ pos >= Len(rg) THEN passed
                    ELSE passed \cup {rg[pos + 1]}
    \/ /\ turn.seat = "chair"
       /\ round' = round + 1
       /\ NewRound(rg)
       /\ \/ Over /\ FinishClosing /\ ringPos' = 0 /\ raised' = hands
          \/ ~Over /\ Grant(rg, 0, hands, who, since, timers.wallClock)

ReleaseCurrent ==
    /\ Release(ring, ringPos, raised, waiting, lastHuman, away)
    /\ UNCHANGED ring

Open(h) ==
    /\ huddle = "idle"
    /\ ring' = Ring(IF ChairSeat = "human" THEN h ELSE ChairAgent)
    /\ Grant(ring', 0, raised, h, 0, MaxDuration)
    /\ NewRound(ring')
    /\ lastHuman' = h /\ away' = 0
    /\ UNCHANGED <<round, acts>>

-----------------------------------------------------------------------------
(* What the humans do. *)

HumanFrame(h) ==
    /\ huddle = "open" /\ acts < MaxActs
    /\ acts' = acts + 1
    /\ lastHuman' = h /\ away' = 0

Raise(h) ==
    /\ HumanFrame(h)
    /\ raised' = IF h \in ToSet(raised) \/ Len(raised) >= RaiseQueueMax THEN raised
                 ELSE Append(raised, h)
    /\ UNCHANGED <<huddle, ring, ringPos, round, turn, timers, awaited, waiting, passed>>

Invite(h, p) ==
    /\ HumanFrame(h)
    /\ p # h /\ p \notin ToSet(ring)
    /\ ring' = Append(ring, p)
    /\ waiting' = waiting \cup {p}
    /\ passed' = IF ringPos > Len(ring) THEN passed \cup {p} ELSE passed
    /\ UNCHANGED <<huddle, ringPos, round, raised, turn, timers, awaited>>

\* Mutated: ringPos stays where it is.
PulledBack_Not(at) == ringPos

\* ringPos after the one at `at' has left the ring.
PulledBack(at) == IF at <= ringPos THEN ringPos - 1 ELSE ringPos

Drop(h, p) ==
    /\ HumanFrame(h)
    /\ p \in ToSet(ring)
    /\ LET at == CHOOSE i \in DOMAIN ring : ring[i] = p
           rg == RemoveAt(ring, at)
           pos == PulledBack(at)
           hands == RemoveFirst(raised, p)   \* no hand is raised twice
       IN  /\ ring' = rg
           /\ \/ /\ turn.holder = p
                 /\ Release(rg, pos, hands, waiting \ {p}, h, 0)
              \/ /\ turn.holder # p
                 /\ ringPos' = pos /\ raised' = hands /\ waiting' = waiting \ {p}
                 /\ UNCHANGED <<huddle, round, turn, timers, awaited, passed>>

\* The cutter takes the floor; whoever was cut keeps the place in the ring.
Cut(h) ==
    /\ HumanFrame(h)
    /\ StartTurn(h, "ring", TRUE, timers.wallClock)
    /\ UNCHANGED <<ring, ringPos, round, raised, waiting, passed>>

Yield(h) ==
    /\ HumanFrame(h)
    /\ turn.holder = h
    /\ Release(ring, ringPos, raised, waiting, h, 0)
    /\ UNCHANGED ring

CloseHuddle(h) ==
    /\ HumanFrame(h)
    /\ FinishClosing
    /\ UNCHANGED <<ring, ringPos, round, raised, waiting, passed>>

\* noteHumanTurnText: what the holder types is what the turn says.
Message(h) ==
    /\ HumanFrame(h)
    /\ turn' = IF turn.holder = h THEN [turn EXCEPT !.said = @ \cup {h}] ELSE turn
    /\ UNCHANGED <<huddle, ring, ringPos, round, raised, timers, awaited, waiting, passed>>

-----------------------------------------------------------------------------
(* Answers and narrations. *)

\* Mutated: an answer is taken for that of whoever is thinking now.
IsCurrent_Any(c) == turn # NoHolder

IsCurrent(c) == turn # NoHolder /\ turn.id = c.turn

\* onPrepareResolved with a text: the turn speaks, at first for as long as it takes
\* to read it or for its narration to start.
AnswerComes(c) ==
    /\ IsCurrent(c) /\ ~turn.speaking
    /\ turn' = [turn EXCEPT !.speaking = TRUE, !.said = {c.turn}]
    /\ timers' = [timers EXCEPT !.prepare = Off,
                                !.speak = MaxOf(ReadingTime, AudioStartGrace)]
    /\ awaited' = (awaited \ {c}) \cup {[c EXCEPT !.what = "audio"]}
    /\ UNCHANGED <<huddle, ring, ringPos, round, raised, lastHuman, away, acts, waiting,
                   passed>>

\* An empty answer, or an error.  (The call itself is no longer awaited: it would
\* be dropped as stale.)
NothingToSay(c) ==
    /\ IsCurrent(c) /\ ~turn.speaking
    /\ ReleaseCurrent
    /\ UNCHANGED <<lastHuman, away, acts>>

\* `lag' ticks pass while no timer can fire.
TimePasses(lag) == away' = MinOf(away + lag, PresenceTimeout + 1)
Remaining(lag) ==
    [n \in TimerNames |-> IF timers[n] = Off THEN Off ELSE MaxOf(timers[n] - lag, 0)]

\* runTurnPipeline's end and noteTurnAudio: the narration starts, and its length is
\* known (or cut to the budget).
NarrationStarts(c) ==
    /\ IsCurrent(c) /\ turn.speaking
    /\ \E lag \in 0 .. SynthesisTime, length \in 1 .. SpeakBudget :
          /\ timers' = [Remaining(lag) EXCEPT !.speak = length]
          /\ TimePasses(lag)
    /\ turn' = [turn EXCEPT !.heard = TRUE]
    /\ awaited' = awaited \ {c}
    /\ UNCHANGED <<huddle, ring, ringPos, round, raised, lastHuman, acts, waiting, passed>>

\* What comes of a turn that is over changes nothing, but takes its time.
Late(c) ==
    /\ ~IsCurrent(c)
    /\ \E lag \in 0 .. SynthesisTime :
          /\ c.what = "text" => lag = 0
          /\ timers' = Remaining(lag)
          /\ TimePasses(lag)
    /\ awaited' = awaited \ {c}
    /\ UNCHANGED <<huddle, ring, ringPos, round, raised, turn, lastHuman, acts, waiting,
                   passed>>

Arrives(c) ==
    \/ c.what = "text" /\ (AnswerComes(c) \/ NothingToSay(c))
    \/ c.what = "audio" /\ NarrationStarts(c)
    \/ Late(c)

-----------------------------------------------------------------------------
(* Timers. *)

Due(n) == timers[n] = 0

PrepareDeadline == /\ Due("prepare") /\ ~turn.speaking
                   /\ ReleaseCurrent
                   /\ UNCHANGED <<lastHuman, away, acts>>

SpeakElapsed == /\ Due("speak") /\ turn.speaking
                /\ ReleaseCurrent
                /\ UNCHANGED <<lastHuman, away, acts>>

MaxTurnExpired == /\ Due("maxTurn")
                  /\ ReleaseCurrent
                  /\ UNCHANGED <<lastHuman, away, acts>>

\* The agent takes the chair in the same round.
ChairHumanTimeout ==
    /\ Due("chairHuman")
    /\ StartTurn(ChairAgent, "chair", FALSE, timers.wallClock)
    /\ UNCHANGED <<ring, ringPos, round, raised, lastHuman, away, acts, waiting, passed>>

WallClock ==
    /\ Due("wallClock")
    /\ FinishClosing
    /\ UNCHANGED <<ring, ringPos, round, raised, lastHuman, away, acts, waiting, passed>>

Fires == PrepareDeadline \/ SpeakElapsed \/ MaxTurnExpired \/ ChairHumanTimeout \/ WallClock

Tick ==
    /\ huddle = "open"
    /\ \A n \in TimerNames : ~Due(n)
    /\ timers' = Remaining(1)
    /\ TimePasses(1)
    /\ UNCHANGED <<huddle, ring, ringPos, round, raised, turn, awaited, lastHuman, acts,
                   waiting, passed>>

-----------------------------------------------------------------------------
HumanStep(h) ==
    \/ Raise(h) \/ Cut(h) \/ Yield(h) \/ CloseHuddle(h) \/ Message(h)
    \/ \E p \in Officers \cup Humans : Invite(h, p) \/ Drop(h, p)

FloorNext ==
    \/ \E h \in Humans : Open(h) \/ HumanStep(h)
    \/ \E c \in awaited : Arrives(c)
    \/ Fires
    \/ Tick

FloorSpec == FloorInit /\ [][FloorNext]_floorVars

-----------------------------------------------------------------------------
(* Properties. *)

\* Every variable keeps its type.
FloorTypeOK ==
    /\ huddle \in {"idle", "open", "closed"}
    /\ ring \in Seq(Officers \cup Humans) /\ IsInjective(ring)
    /\ ringPos \in 0 .. Len(ring) + 1 /\ round \in 0 .. MaxRounds
    /\ raised \in Seq(Humans) /\ Len(raised) <= RaiseQueueMax /\ IsInjective(raised)
    /\ turn \in HuddleTurns \cup {NoHolder}
    /\ timers \in [TimerNames -> Nat \cup {Off}]
    /\ awaited \subseteq Awaited
    /\ lastHuman \in Humans /\ away \in 0 .. PresenceTimeout + 1
    /\ acts \in 0 .. MaxActs
    /\ waiting \subseteq Officers \cup Humans /\ passed \subseteq Officers \cup Humans

(* While the huddle is open someone has the floor, with a timer that ends the
   turn whatever its phase; a turn of the ring is that of the one the round has
   reached, whoever joins or leaves; and what a turn says is its own answer or
   what its holder typed, however late another answer comes (floor.ts:4-9). *)
TheFloorIsHeld ==
    huddle = "open" =>
        /\ turn # NoHolder /\ turn.said \subseteq {turn.id, turn.holder}
        /\ timers.maxTurn # Off /\ timers.wallClock # Off
        /\ turn.holder \in Officers =>
              timers[IF turn.speaking THEN "speak" ELSE "prepare"] # Off
        /\ turn.seat = "ring" /\ ~turn.interject => turn.holder = ring[ringPos + 1]

Granted == turn' # NoHolder /\ (turn = NoHolder \/ turn'.id # turn.id)

(* In a round everyone of the ring has one turn, none twice and none passed over:
   not by raised hands, cuts, timeouts, nor by who is invited or dropped, but for
   the one who stands behind a holder that is dropped (floor.ts:511-513, 540-544). *)
RoundsAreFair ==
    [][Granted =>
        /\ turn'.seat = "ring" /\ ~turn'.interject => turn'.holder \in waiting'
        /\ turn'.seat = "chair" /\ (turn = NoHolder \/ turn.seat = "ring")
              => waiting' \subseteq passed']_floorVars

(* The ceiling on a turn never ends one whose narration has the time it was
   promised (floor.ts:98-100). *)
CeilingSparesTheHealthy ==
    huddle = "open" /\ turn.heard /\ timers.maxTurn = 0 => timers.speak = 0
=============================================================================
