-------------------------- MODULE ChannelApprovals --------------------------
(* Approval cards in a chat (daemon/channel-approvals.ts, gateway.ts): a      *)
(* gated command of a bridge-started turn waits until somebody presses a      *)
(* button on its card, until its time is up, or until another prompt or the   *)
(* end of the bridge's session closes it.  A press reaches the daemon later,  *)
(* in any order, and cards that are closed can still be pressed.              *)
EXTENDS Naturals, FiniteSets

CONSTANTS MaxRequests, Sessions, Chats, Commands,
          Allowable,     \* commands allowable() lets an allowance cover
          MaxEnds,       \* bound on ends of each session
          MaxPresses     \* bound on presses

\* What the constants are; MCParts assumes it.
ApprovalAssumption ==
    Allowable \subseteq Commands /\ {MaxRequests, MaxEnds, MaxPresses} \subseteq Nat

VARIABLES
    ask,            \* request -> what it asks, and what became of it
    liveBySession,  \* session -> its live prompt
    allowances,     \* <<session, chat, command>> that need no card for now
    pressed,        \* history: <<request, decision>> somebody pressed
    inbox,          \* presses on their way to the daemon
    ends            \* history: session -> how often endSession() was called

vars == <<ask, liveBySession, allowances, pressed, inbox, ends>>

Requests == 1..MaxRequests      \* by requestId, in the order they are made
None == 0

Decisions == {"approve", "deny", "allow_chat", "undelivered"}
Outcomes == {"none", "approved", "denied", "undelivered", "expired", "replaced"}
Scopes == Sessions \X Chats \X Commands
Asks == [scope : Scopes, operator : BOOLEAN, outcome : Outcomes, era : 0..MaxEnds]
NotAsked == [outcome |-> "not asked"]

Asked == {r \in Requests : ask[r] # NotAsked}
Live == {r \in Asked : ask[r].outcome = "none"}
SessionOf(r) == ask[r].scope[1]
CommandOf(r) == ask[r].scope[3]

Init ==
    /\ ask = [r \in Requests |-> NotAsked]
    /\ liveBySession = [s \in Sessions |-> None]
    /\ allowances = {} /\ pressed = {} /\ inbox = {}
    /\ ends = [s \in Sessions |-> 0]

Outcome(decision) ==
    CASE decision \in {"approve", "allow_chat"} -> "approved"
      [] decision = "deny" -> "denied"
      [] decision = "undelivered" -> "undelivered"

\* settle(): a prompt that is not live any more keeps its outcome.
Settled(asks, r, outcome) ==
    IF r \in Live THEN [asks EXCEPT ![r].outcome = outcome] ELSE asks

\* liveBySession without the prompt r.
Without(r) ==
    [s \in Sessions |-> IF liveBySession[s] = r THEN None ELSE liveBySession[s]]

\* request(): an allowance of this session and chat answers for the operator;
\* otherwise the prompt replaces the session's live one.
Request(r, scope, operator) ==
    /\ r \notin Asked /\ 1..r - 1 \subseteq Asked
    /\ LET s == scope[1]
           new == [scope |-> scope, operator |-> operator, outcome |-> "none", era |-> ends[s]]
           previous == liveBySession[s]
           closed == IF previous = None THEN ask ELSE Settled(ask, previous, "replaced")
       IN  IF operator /\ scope \in allowances
           THEN /\ ask' = [ask EXCEPT ![r] = [new EXCEPT !.outcome = "approved"]]
                /\ UNCHANGED liveBySession
           ELSE /\ ask' = [closed EXCEPT ![r] = new]
                /\ liveBySession' = [liveBySession EXCEPT ![s] = r]
    /\ UNCHANGED <<allowances, pressed, inbox, ends>>

\* Somebody presses a button of a card, or the bridge could not draw it.
Press(r, decision) ==
    /\ r \in Asked /\ <<r, decision>> \notin pressed
    /\ Cardinality(pressed) < MaxPresses
    /\ pressed' = pressed \cup {<<r, decision>>}
    /\ inbox' = inbox \cup {<<r, decision>>}
    /\ UNCHANGED <<ask, liveBySession, allowances, ends>>

\* "Allow in this chat" on a command that may not be allowed is one approve.
Effective(r, decision) ==
    IF decision = "allow_chat" /\ CommandOf(r) \notin Allowable THEN "approve" ELSE decision

\* respond() from a socket of the bridge bound to session s, or to none.
Respond(p, s) ==
    /\ p \in inbox
    /\ inbox' = inbox \ {p}
    /\ LET r == p[1]
           decision == Effective(r, p[2])
       IN  IF r \in Live /\ SessionOf(r) = s
           THEN /\ allowances' = allowances \cup
                       (IF decision = "allow_chat" THEN {ask[r].scope} ELSE {})
                /\ ask' = Settled(ask, r, Outcome(decision))
                /\ liveBySession' = Without(r)
           ELSE UNCHANGED <<ask, liveBySession, allowances>>
    /\ UNCHANGED <<pressed, ends>>

\* The prompt's time is up.
Expires(r) ==
    /\ r \in Live
    /\ ask' = Settled(ask, r, "expired") /\ liveBySession' = Without(r)
    /\ UNCHANGED <<allowances, pressed, inbox, ends>>

\* Half an hour after an allowance was given.
AllowanceExpires(scope) ==
    /\ scope \in allowances
    /\ allowances' = allowances \ {scope}
    /\ UNCHANGED <<ask, liveBySession, pressed, inbox, ends>>

\* Mutated: the end of the session only closes its prompt.
Forgotten_Nothing(s) == {}

Forgotten(s) == {scope \in allowances : scope[1] = s}

\* endSession(): the bridge destroys its session, or its socket closes.
EndSession(s) ==
    /\ ends[s] < MaxEnds /\ ends' = [ends EXCEPT ![s] = @ + 1]
    /\ ask' = IF liveBySession[s] = None THEN ask
              ELSE Settled(ask, liveBySession[s], "expired")
    /\ liveBySession' = [liveBySession EXCEPT ![s] = None]
    /\ allowances' = allowances \ Forgotten(s)
    /\ UNCHANGED <<pressed, inbox>>

Next ==
    \/ \E r \in Requests :
           \/ \E scope \in Scopes, operator \in BOOLEAN : Request(r, scope, operator)
           \/ \E decision \in Decisions : Press(r, decision)
           \/ Expires(r)
    \/ \E p \in inbox, s \in Sessions \cup {None} : Respond(p, s)
    \/ \E scope \in Scopes : AllowanceExpires(scope)
    \/ \E s \in Sessions : EndSession(s)

Spec == Init /\ [][Next]_vars

\* The time-to-live timer of a prompt fires.
Fairness == \A r \in Requests : WF_vars(Expires(r))

FairSpec == Spec /\ Fairness

-----------------------------------------------------------------------------
TypeOK ==
    /\ ask \in [Requests -> Asks \cup {NotAsked}]
    /\ liveBySession \in [Sessions -> Requests \cup {None}]
    /\ allowances \subseteq Scopes
    /\ pressed \subseteq Requests \X Decisions /\ inbox \subseteq pressed
    /\ ends \in [Sessions -> 0..MaxEnds]

\* "Only a live, in-time approve resolves approved" (channel-approvals.ts:157): a
\* command runs because its own card was approved, or because the operator asked
\* again for one that "allow in this chat" covers: the same command, allowable,
\* pressed in the same session and chat, and no end of the session in between,
\* however late or out of order presses arrive.  A prompt is live exactly as
\* long as its session points at it.
ApprovalsWereGiven ==
    /\ \A r \in Asked : ask[r].outcome = "approved" =>
           \/ \E d \in {"approve", "allow_chat"} : <<r, d>> \in pressed \ inbox
           \/ /\ ask[r].operator /\ CommandOf(r) \in Allowable
              /\ \E q \in Asked : /\ <<q, "allow_chat">> \in pressed \ inbox
                                  /\ ask[q].outcome = "approved"
                                  /\ ask[q].scope = ask[r].scope
                                  /\ ask[q].era = ask[r].era
    /\ Live = {liveBySession[s] : s \in Sessions} \ {None}

\* A prompt waits for its press, or for its time to be up.
Unsettled == Live # {}
=============================================================================
