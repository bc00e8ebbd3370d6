----------------------- MODULE ChannelApprovalsProofs -----------------------
(***************************************************************************)
(* Nothing runs that nobody approved: proofs about ChannelApprovals, for   *)
(* any number of prompts, sessions, chats, commands and ends of sessions.  *)
(***************************************************************************)
EXTENDS ChannelApprovals, TLAPS

(* A session points at its own live prompt and at nothing else, and every  *)
(* live prompt is pointed at.                                              *)
Pointed ==
    /\ \A s \in Sessions : liveBySession[s] # None =>
           liveBySession[s] \in Live /\ SessionOf(liveBySession[s]) = s
    /\ \A r \in Live : liveBySession[SessionOf(r)] = r

(* A live prompt was asked since the last end of its session.              *)
Fresh == \A r \in Live : ask[r].era = ends[SessionOf(r)]

Pressed(r) == \E d \in {"approve", "allow_chat"} : <<r, d>> \in pressed \ inbox

(* q is the prompt whose button allowed the command of scope, in era e.    *)
Allows(q, scope, e) ==
    /\ q \in Asked /\ <<q, "allow_chat">> \in pressed \ inbox
    /\ ask[q].outcome = "approved" /\ ask[q].scope = scope /\ ask[q].era = e
    /\ scope[3] \in Allowable

(* An allowance in force was given since the last end of its session.      *)
Backed == \A scope \in allowances : \E q \in Requests : Allows(q, scope, ends[scope[1]])

Given ==
    \A r \in Asked : ask[r].outcome = "approved" =>
        \/ Pressed(r)
        \/ ask[r].operator /\ \E q \in Requests : Allows(q, ask[r].scope, ask[r].era)

Inv == TypeOK /\ Pointed /\ Fresh /\ Backed /\ Given

-----------------------------------------------------------------------------
LEMMA NotAskedIsNoAsk == NotAsked \notin Asks
  BY DEF NotAsked, Asks, Outcomes

LEMMA AskedType ==
    ASSUME TypeOK
    PROVE  /\ Asked \subseteq Requests
           /\ \A r \in Asked : /\ ask[r] \in Asks /\ ask[r].scope \in Scopes
                               /\ SessionOf(r) \in Sessions
                               /\ ask[r].outcome \in Outcomes
  BY NotAskedIsNoAsk DEF TypeOK, Asked, Asks, Scopes, SessionOf

LEMMA RequestsArePositive ==
    ASSUME ApprovalAssumption
    PROVE  Requests \subseteq Nat /\ None \notin Requests
  BY DEF ApprovalAssumption, Requests, None

LEMMA InitInv == ASSUME ApprovalAssumption, Init PROVE Inv
<1>1. Asked = {} /\ Live = {}
  BY DEF Init, Asked, Live
<1>2. TypeOK
  BY DEF Init, TypeOK, ApprovalAssumption, None
<1> QED
  BY <1>1, <1>2 DEF Inv, Init, Pointed, Fresh, Backed, Given

(* Inv says of every prompt and allowance what ApprovalsWereGiven says.    *)
LEMMA InvSuffices == ASSUME ApprovalAssumption, Inv PROVE ApprovalsWereGiven
<1>1. TypeOK /\ Pointed /\ Given
  BY DEF Inv
<1>2. Live = {liveBySession[s] : s \in Sessions} \ {None}
  <2>1. \A r \in Live : r \in {liveBySession[s] : s \in Sessions} \ {None}
    BY <1>1, AskedType, RequestsArePositive DEF Pointed, Live
  <2> QED
    BY <1>1, <2>1 DEF Pointed
<1>3. ASSUME NEW r \in Asked, ask[r].outcome = "approved"
      PROVE  \/ \E d \in {"approve", "allow_chat"} : <<r, d>> \in pressed \ inbox
             \/ /\ ask[r].operator /\ CommandOf(r) \in Allowable
                /\ \E q \in Asked : /\ <<q, "allow_chat">> \in pressed \ inbox
                                    /\ ask[q].outcome = "approved"
                                    /\ ask[q].scope = ask[r].scope
                                    /\ ask[q].era = ask[r].era
  BY <1>1, <1>3 DEF Given, Pressed, Allows, CommandOf
<1> QED
  BY <1>2, <1>3 DEF ApprovalsWereGiven

-----------------------------------------------------------------------------
(* What was approved, and why, stays: a step keeps Backed and Given if it  *)
(* changes no prompt but to settle it, takes back no press, and has its    *)
(* reasons for what it approves and allows anew.                           *)
Keeps ==
    /\ pressed \subseteq pressed' /\ pressed \ inbox \subseteq pressed' \ inbox'
    /\ \A r \in Asked :
           /\ r \in Asked' /\ ask'[r].scope = ask[r].scope
           /\ ask'[r].era = ask[r].era /\ ask'[r].operator = ask[r].operator
           /\ ask[r].outcome = "approved" => ask'[r].outcome = "approved"

LEMMA AllowsStays ==
    ASSUME Keeps, NEW q \in Requests, NEW scope, NEW e, Allows(q, scope, e)
    PROVE  Allows(q, scope, e)'
  BY DEF Allows, Keeps

LEMMA ReasonsStay ==
    ASSUME Inv, Keeps,
           \A r \in Asked' : ask'[r].outcome = "approved" =>
               \/ r \in Asked /\ ask[r].outcome = "approved"
               \/ Pressed(r)'
               \/ /\ ask'[r].operator
                  /\ \E q \in Requests : Allows(q, ask'[r].scope, ask'[r].era),
           \A scope \in allowances' :
               \/ scope \in allowances /\ ends'[scope[1]] = ends[scope[1]]
               \/ \E q \in Requests : Allows(q, scope, ends[scope[1]])' 
    PROVE  Backed' /\ Given'
<1>1. \A scope \in allowances' : \E q \in Requests : Allows(q, scope, ends[scope[1]])'
  <2>1. SUFFICES ASSUME NEW scope \in allowances', scope \in allowances,
                        ends'[scope[1]] = ends[scope[1]]
                 PROVE  \E q \in Requests : Allows(q, scope, ends[scope[1]])'
    OBVIOUS
  <2>2. PICK q \in Requests : Allows(q, scope, ends[scope[1]])
    BY <2>1 DEF Inv, Backed
  <2>3. Allows(q, scope, ends[scope[1]])'
    BY <2>1, <2>2 DEF Allows, Keeps
  <2> QED
    BY <2>3
<1>2. ASSUME NEW r \in Asked', ask'[r].outcome = "approved"
      PROVE  \/ Pressed(r)'
             \/ (ask[r].operator /\ \E q \in Requests : Allows(q, ask[r].scope, ask[r].era))'
  <2>1. CASE /\ ask'[r].operator
             /\ \E q \in Requests : Allows(q, ask'[r].scope, ask'[r].era)
    BY <2>1 DEF Allows, Keeps
  <2>2. CASE r \in Asked /\ ask[r].outcome = "approved" /\ Pressed(r)
    BY <2>2 DEF Pressed, Keeps
  <2>3. CASE /\ r \in Asked /\ ask[r].outcome = "approved" /\ ask[r].operator
             /\ \E q \in Requests : Allows(q, ask[r].scope, ask[r].era)
    BY <2>3 DEF Allows, Keeps
  <2> QED
    BY <1>2, <2>1, <2>2, <2>3 DEF Inv, Given
<1> QED
  BY <1>1, <1>2 DEF Backed, Given

-----------------------------------------------------------------------------
(* settle() closes one prompt and no other.                                *)
LEMMA SettledIs ==
    ASSUME TypeOK, NEW r \in Live, NEW outcome
    PROVE  /\ Settled(ask, r, outcome)[r] = [ask[r] EXCEPT !.outcome = outcome]
           /\ \A q \in Requests : q # r => Settled(ask, r, outcome)[q] = ask[q]
           /\ DOMAIN Settled(ask, r, outcome) = Requests
  BY AskedType DEF Settled, TypeOK, Live

(* Closing the live prompt r of a session that points nowhere afterwards.  *)
LEMMA CloseLive ==
    ASSUME ApprovalAssumption, Inv, NEW r \in Live,
           NEW outcome \in Outcomes, outcome # "none",
           ask' = Settled(ask, r, outcome), liveBySession' = Without(r)
    PROVE  /\ ask' \in [Requests -> Asks \cup {NotAsked}]
           /\ liveBySession' \in [Sessions -> Requests \cup {None}]
           /\ Asked' = Asked /\ Live' = Live \ {r}
           /\ \A q \in Asked : /\ ask'[q].scope = ask[q].scope /\ ask'[q].era = ask[q].era
                               /\ ask'[q].operator = ask[q].operator
                               /\ q # r => ask'[q] = ask[q]
           /\ ask'[r].outcome = outcome
           /\ Pointed'
<1>1. TypeOK /\ Pointed
  BY DEF Inv
<1>2. ask[r] \in Asks /\ ask[r].outcome = "none" /\ r \in Requests
  BY <1>1, AskedType DEF Live
<1>3. ask' = [ask EXCEPT ![r].outcome = outcome]
  BY DEF Settled
<1>4. ask'[r] = [ask[r] EXCEPT !.outcome = outcome] /\ ask'[r] \in Asks
  BY <1>1, <1>2, <1>3 DEF TypeOK, Asks
<1>5. \A q \in Requests : q # r => ask'[q] = ask[q]
  BY <1>1, <1>3 DEF TypeOK
<1>6. ask' \in [Requests -> Asks \cup {NotAsked}]
  BY <1>1, <1>3, <1>4 DEF TypeOK
<1>7. Asked' = Asked
  BY <1>2, <1>4, <1>5, NotAskedIsNoAsk DEF Asked
<1>8. Live' = Live \ {r}
  BY <1>2, <1>4, <1>5, <1>7 DEF Live, Asked, Asks
<1>9. \A q \in Asked : /\ ask'[q].scope = ask[q].scope /\ ask'[q].era = ask[q].era
                       /\ ask'[q].operator = ask[q].operator
                       /\ q # r => ask'[q] = ask[q]
  BY <1>2, <1>4, <1>5 DEF Asked, Asks
<1>10. /\ liveBySession' \in [Sessions -> Requests \cup {None}]
       /\ \A s \in Sessions : liveBySession'[s] =
              IF liveBySession[s] = r THEN None ELSE liveBySession[s]
  BY <1>1 DEF Without, TypeOK
<1>11. Pointed'
  <2>1. ASSUME NEW s \in Sessions, liveBySession'[s] # None
        PROVE  liveBySession'[s] \in Live' /\ SessionOf(liveBySession[s])' = s
    <3>1. liveBySession'[s] = liveBySession[s] /\ liveBySession[s] # r
      BY <1>10, <2>1
    <3>2. liveBySession[s] \in Live /\ SessionOf(liveBySession[s]) = s
      BY <1>1, <2>1, <3>1 DEF Pointed
    <3> QED
      BY <1>8, <1>9, <3>1, <3>2 DEF SessionOf, Live
  <2>2. ASSUME NEW q \in Live'
        PROVE  liveBySession'[SessionOf(q)'] = q
    <3>1. q \in Live /\ q # r /\ SessionOf(q)' = SessionOf(q) /\ SessionOf(q) \in Sessions
      BY <1>1, <1>8, <1>9, <2>2, AskedType DEF SessionOf, Live
    <3>2. liveBySession[SessionOf(q)] = q
      BY <1>1, <3>1 DEF Pointed
    <3> QED
      BY <1>10, <3>1, <3>2
  <2> QED
    BY <2>1, <2>2 DEF Pointed
<1> QED
  BY <1>4, <1>6, <1>7, <1>8, <1>9, <1>10, <1>11, <1>2 DEF Asks

-----------------------------------------------------------------------------
LEMMA ExpiresInv ==
    ASSUME ApprovalAssumption, Inv, NEW r \in Requests, Expires(r)
    PROVE  Inv'
<1>1. /\ r \in Live /\ ask' = Settled(ask, r, "expired") /\ liveBySession' = Without(r)
      /\ UNCHANGED <<allowances, pressed, inbox, ends>>
  BY DEF Expires
<1>2. TypeOK' /\ Pointed'
  BY <1>1, CloseLive DEF Inv, TypeOK, Outcomes
<1>3. Fresh'
  BY <1>1, CloseLive DEF Inv, Fresh, Outcomes, SessionOf, Live
<1>4. Keeps
  BY <1>1, CloseLive DEF Keeps, Outcomes, Live
<1>5. Backed' /\ Given'
  <2>1. \A q \in Asked' : ask'[q].outcome = "approved" =>
            q \in Asked /\ ask[q].outcome = "approved"
    BY <1>1, CloseLive DEF Outcomes
  <2> QED
    BY <1>1, <1>4, <2>1, ReasonsStay
<1> QED
  BY <1>2, <1>3, <1>5 DEF Inv

LEMMA PressInv ==
    ASSUME ApprovalAssumption, Inv, NEW r \in Requests, NEW d \in Decisions, Press(r, d)
    PROVE  Inv'
<1>1. /\ <<r, d>> \notin pressed
      /\ pressed' = pressed \cup {<<r, d>>} /\ inbox' = inbox \cup {<<r, d>>}
      /\ UNCHANGED <<ask, liveBySession, allowances, ends>>
  BY DEF Press
<1>2. Asked' = Asked /\ Live' = Live
  BY <1>1 DEF Asked, Live
<1>3. TypeOK' /\ Pointed' /\ Fresh'
  BY <1>1, <1>2 DEF Inv, TypeOK, Pointed, Fresh, SessionOf
<1>4. pressed \ inbox \subseteq pressed' \ inbox'
  BY <1>1
<1>5. Keeps
  BY <1>1, <1>2, <1>4 DEF Keeps
<1>6. Backed' /\ Given'
  BY <1>1, <1>2, <1>5, ReasonsStay
<1> QED
  BY <1>3, <1>6 DEF Inv

LEMMA AllowanceExpiresInv ==
    ASSUME Inv, NEW scope \in Scopes, AllowanceExpires(scope)
    PROVE  Inv'
<1>1. /\ allowances' \subseteq allowances
      /\ UNCHANGED <<ask, liveBySession, pressed, inbox, ends>>
  BY DEF AllowanceExpires
<1>2. Asked' = Asked /\ Live' = Live
  BY <1>1 DEF Asked, Live
<1>3. TypeOK' /\ Pointed' /\ Fresh'
  BY <1>1, <1>2 DEF Inv, TypeOK, Pointed, Fresh, SessionOf
<1>4. Keeps
  BY <1>1, <1>2 DEF Keeps
<1>5. Backed' /\ Given'
  BY <1>1, <1>2, <1>4, ReasonsStay
<1> QED
  BY <1>3, <1>5 DEF Inv

LEMMA EndSessionInv ==
    ASSUME ApprovalAssumption, Inv, NEW s \in Sessions, EndSession(s)
    PROVE  Inv'
<1> DEFINE r == liveBySession[s]
<1>1. TypeOK /\ Pointed /\ Fresh
  BY DEF Inv
<1>2. /\ ends[s] < MaxEnds /\ ends' = [ends EXCEPT ![s] = @ + 1]
      /\ allowances' = allowances \ Forgotten(s)
      /\ UNCHANGED <<pressed, inbox>>
      /\ liveBySession' = [liveBySession EXCEPT ![s] = None]
  BY DEF EndSession
<1>3. ends' \in [Sessions -> 0..MaxEnds] /\ \A x \in Sessions : x # s => ends'[x] = ends[x]
  BY <1>1, <1>2 DEF TypeOK, ApprovalAssumption
<1>4. /\ allowances' \subseteq Scopes
      /\ \A scope \in allowances' :
             scope \in allowances /\ ends'[scope[1]] = ends[scope[1]]
  BY <1>1, <1>2, <1>3 DEF TypeOK, Forgotten, Scopes
<1>5. CASE r = None
  <2>1. ask' = ask /\ liveBySession' = liveBySession
    BY <1>1, <1>2, <1>5 DEF EndSession, TypeOK
  <2>2. Asked' = Asked /\ Live' = Live
    BY <2>1 DEF Asked, Live
  <2>3. \A q \in Live : SessionOf(q) # s
    BY <1>1, <1>5, AskedType, RequestsArePositive DEF Pointed, Live
  <2>4. TypeOK' /\ Pointed'
    BY <1>1, <1>2, <1>3, <1>4, <2>1, <2>2 DEF TypeOK, Pointed, SessionOf
  <2>5. Fresh'
    BY <1>1, <1>3, <2>1, <2>2, <2>3, AskedType DEF Fresh, SessionOf, Live
  <2>6. Keeps
    BY <1>2, <2>1, <2>2 DEF Keeps
  <2>7. Backed' /\ Given'
    BY <1>4, <2>1, <2>2, <2>6, ReasonsStay
  <2> QED
    BY <2>4, <2>5, <2>7 DEF Inv
<1>6. CASE r # None
  <2>1. r \in Live /\ SessionOf(r) = s /\ ask' = Settled(ask, r, "expired")
    BY <1>1, <1>6 DEF EndSession, Pointed
  <2>2. liveBySession' = Without(r)
    <3>1. \A x \in Sessions : liveBySession[x] = r => x = s
      BY <1>1, <1>6, <2>1 DEF Pointed
    <3> QED
      BY <1>1, <1>2, <3>1 DEF Without, TypeOK
  <2> HIDE DEF r
  <2>3. /\ Asked' = Asked /\ Live' = Live \ {r} /\ Pointed'
        /\ ask' \in [Requests -> Asks \cup {NotAsked}]
        /\ liveBySession' \in [Sessions -> Requests \cup {None}]
        /\ \A q \in Asked : /\ ask'[q].scope = ask[q].scope /\ ask'[q].era = ask[q].era
                            /\ ask'[q].operator = ask[q].operator
                            /\ q # r => ask'[q] = ask[q]
        /\ ask'[r].outcome = "expired"
    BY <2>1, <2>2, CloseLive DEF Outcomes
  <2>4. TypeOK'
    BY <1>1, <1>2, <1>3, <1>4, <2>3 DEF TypeOK
  <2>5. \A q \in Live' : q \in Live /\ SessionOf(q)' = SessionOf(q) /\ SessionOf(q) # s
    <3>1. \A q \in Live : SessionOf(q) = s => q = r
      BY <1>1, <2>1 DEF Pointed
    <3> QED
      BY <2>3, <3>1 DEF SessionOf, Live
  <2>6. Fresh'
    BY <1>1, <1>3, <2>3, <2>5, AskedType DEF Fresh, Live
  <2>7. Keeps
    BY <1>2, <2>1, <2>3 DEF Keeps, Live
  <2>8. Backed' /\ Given'
    <3>1. \A q \in Asked' : ask'[q].outcome = "approved" =>
              q \in Asked /\ ask[q].outcome = "approved"
      BY <2>3
    <3> QED
      BY <1>4, <2>7, <3>1, ReasonsStay
  <2> QED
    BY <2>3, <2>4, <2>6, <2>8 DEF Inv
<1> QED
  BY <1>5, <1>6

LEMMA RespondInv ==
    ASSUME ApprovalAssumption, Inv, NEW p \in inbox, NEW s, Respond(p, s)
    PROVE  Inv'
<1> DEFINE r == p[1]
           decision == Effective(r, p[2])
<1>1. TypeOK /\ Pointed /\ Fresh /\ p \in pressed
  BY DEF Inv, TypeOK
<1>2. p = <<r, p[2]>> /\ r \in Requests /\ p[2] \in Decisions
  BY <1>1 DEF TypeOK
<1>3. inbox' = inbox \ {p} /\ UNCHANGED <<pressed, ends>>
  BY DEF Respond
<1>4. pressed \ inbox \subseteq pressed' \ inbox' /\ p \in pressed' \ inbox'
  BY <1>1, <1>3
<1>5. CASE ~(r \in Live /\ SessionOf(r) = s)
  <2>1. UNCHANGED <<ask, liveBySession, allowances>>
    BY <1>5 DEF Respond
  <2>2. Asked' = Asked /\ Live' = Live
    BY <2>1 DEF Asked, Live
  <2>3. TypeOK' /\ Pointed' /\ Fresh'
    BY <1>1, <1>3, <2>1, <2>2 DEF TypeOK, Pointed, Fresh, SessionOf
  <2>4. Keeps
    BY <1>3, <1>4, <2>1, <2>2 DEF Keeps
  <2>5. Backed' /\ Given'
    BY <1>3, <2>1, <2>2, <2>4, ReasonsStay
  <2> QED
    BY <2>3, <2>5 DEF Inv
<1>6. CASE r \in Live /\ SessionOf(r) = s
  <2>1. /\ allowances' = allowances \cup
               (IF decision = "allow_chat" THEN {ask[r].scope} ELSE {})
        /\ ask' = Settled(ask, r, Outcome(decision)) /\ liveBySession' = Without(r)
    BY <1>6 DEF Respond
  <2>2. decision \in Decisions
    BY <1>2 DEF Effective, Decisions
  <2>3. Outcome(decision) \in Outcomes \ {"none"}
    BY <2>2 DEF Outcome, Outcomes, Decisions
  <2>4. decision = "allow_chat" =>
            p[2] = "allow_chat" /\ CommandOf(r) \in Allowable /\ Outcome(decision) = "approved"
    BY <2>2 DEF Effective, Outcome
  <2>5. Outcome(decision) = "approved" => p[2] \in {"approve", "allow_chat"}
    BY <1>2, <2>2 DEF Effective, Outcome, Decisions
  <2> HIDE DEF r, decision
  <2>6. /\ Asked' = Asked /\ Live' = Live \ {r} /\ Pointed'
        /\ ask' \in [Requests -> Asks \cup {NotAsked}]
        /\ liveBySession' \in [Sessions -> Requests \cup {None}]
        /\ \A q \in Asked : /\ ask'[q].scope = ask[q].scope /\ ask'[q].era = ask[q].era
                            /\ ask'[q].operator = ask[q].operator
                            /\ q # r => ask'[q] = ask[q]
        /\ ask'[r].outcome = Outcome(decision)
    BY <1>6, <2>1, <2>3, CloseLive
  <2>7. r \in Asked /\ ask[r].outcome = "none" /\ ask[r].scope \in Scopes
        /\ ask[r].era = ends[ask[r].scope[1]]
    BY <1>1, <1>6, AskedType DEF Live, Fresh, SessionOf
  <2>8. TypeOK'
    BY <1>1, <1>3, <2>1, <2>6, <2>7 DEF TypeOK
  <2>9. Fresh'
    BY <1>1, <1>3, <2>6 DEF Fresh, SessionOf, Live
  <2>10. Keeps
    BY <1>3, <1>4, <2>6, <2>7 DEF Keeps
  <2>11. \A q \in Asked' : ask'[q].outcome = "approved" =>
             (q \in Asked /\ ask[q].outcome = "approved") \/ Pressed(q)'
    BY <1>2, <1>4, <2>5, <2>6 DEF Pressed
  <2>12. \A scope \in allowances' :
             \/ scope \in allowances /\ ends'[scope[1]] = ends[scope[1]]
             \/ \E q \in Requests : Allows(q, scope, ends[scope[1]])'
    <3>1. SUFFICES ASSUME decision = "allow_chat"
                   PROVE  Allows(r, ask[r].scope, ends[ask[r].scope[1]])'
      BY <1>2, <1>3, <2>1, <2>6, <2>7
    <3> QED
      BY <1>1, <1>2, <1>3, <2>4, <2>6, <2>7, <3>1 DEF Allows, CommandOf
  <2>13. Backed' /\ Given'
    BY <2>10, <2>11, <2>12, ReasonsStay
  <2> QED
    BY <2>6, <2>8, <2>9, <2>13 DEF Inv
<1> QED
  BY <1>5, <1>6

LEMMA RequestInv ==
    ASSUME ApprovalAssumption, Inv, NEW r \in Requests, NEW scope \in Scopes,
           NEW operator \in BOOLEAN, Request(r, scope, operator)
    PROVE  Inv'
<1> DEFINE s == scope[1]
           new == [scope |-> scope, operator |-> operator, outcome |-> "none", era |-> ends[s]]
           previous == liveBySession[s]
           closed == IF previous = None THEN ask ELSE Settled(ask, previous, "replaced")
<1>1. TypeOK /\ Pointed /\ Fresh /\ s \in Sessions
  BY DEF Inv, Scopes
<1>2. r \notin Asked /\ UNCHANGED <<allowances, pressed, inbox, ends>>
  BY DEF Request
<1>3. new \in Asks /\ [new EXCEPT !.outcome = "approved"] \in Asks
  BY <1>1 DEF TypeOK, Asks, Outcomes
<1>4. CASE operator /\ scope \in allowances
  <2>1. ask' = [ask EXCEPT ![r] = [new EXCEPT !.outcome = "approved"]] /\ UNCHANGED liveBySession
    BY <1>4 DEF Request
  <2>2. ask' \in [Requests -> Asks \cup {NotAsked}]
    BY <1>1, <1>3, <2>1 DEF TypeOK
  <2>3. /\ ask'[r] = [new EXCEPT !.outcome = "approved"]
        /\ \A q \in Requests : q # r => ask'[q] = ask[q]
    BY <1>1, <2>1 DEF TypeOK
  <2>4. Asked' = Asked \cup {r} /\ r \notin Live
    BY <1>2, <1>3, <2>3, NotAskedIsNoAsk DEF Asked, Live
  <2>5. Live' = Live
    BY <2>3, <2>4 DEF Live, Asked
  <2>6. TypeOK' /\ Pointed' /\ Fresh'
    BY <1>1, <1>2, <2>1, <2>2, <2>3, <2>4, <2>5, AskedType
       DEF TypeOK, Pointed, Fresh, SessionOf, Live
  <2>7. Keeps
    BY <1>2, <2>3, <2>4, AskedType DEF Keeps, Asked
  <2>8. PICK q \in Requests : Allows(q, scope, ends[s])
    BY <1>4 DEF Inv, Backed
  <2>9. \A x \in Asked' : ask'[x].outcome = "approved" =>
            \/ x \in Asked /\ ask[x].outcome = "approved"
            \/ /\ ask'[x].operator
               /\ \E y \in Requests : Allows(y, ask'[x].scope, ask'[x].era)
    BY <1>1, <1>4, <2>3, <2>4, <2>8, AskedType
  <2>10. Backed' /\ Given'
    BY <1>2, <2>7, <2>9, ReasonsStay
  <2> QED
    BY <2>6, <2>10 DEF Inv
<1>5. CASE ~(operator /\ scope \in allowances)
  <2>1. ask' = [closed EXCEPT ![r] = new] /\ liveBySession' = [liveBySession EXCEPT ![s] = r]
    BY <1>5 DEF Request
  <2>2. /\ closed \in [Requests -> Asks \cup {NotAsked}]
        /\ \A q \in Requests : q # previous => closed[q] = ask[q]
        /\ previous # None => /\ previous \in Live
                              /\ closed[previous] = [ask[previous] EXCEPT !.outcome = "replaced"]
                              /\ closed[previous] \in Asks
    <3>1. CASE previous = None
      BY <1>1, <3>1 DEF TypeOK
    <3>2. CASE previous # None
      <4>1. previous \in Live /\ closed = [ask EXCEPT ![previous].outcome = "replaced"]
        BY <1>1, <3>2 DEF Pointed, Settled
      <4>2. previous \in Requests /\ ask[previous] \in Asks
        BY <1>1, <4>1, AskedType DEF Live
      <4> HIDE DEF previous, closed
      <4>3. /\ closed[previous] = [ask[previous] EXCEPT !.outcome = "replaced"]
            /\ \A q \in Requests : q # previous => closed[q] = ask[q]
        BY <1>1, <4>1, <4>2 DEF TypeOK
      <4>4. closed[previous] \in Asks
        BY <4>2, <4>3 DEF Asks, Outcomes
      <4> QED
        BY <1>1, <4>1, <4>2, <4>3, <4>4 DEF TypeOK
    <3> QED
      BY <3>1, <3>2
  <2>3. \A x \in Sessions : previous # None /\ liveBySession[x] = previous => x = s
    BY <1>1 DEF Pointed
  <2>4. \A q \in Live : SessionOf(q) = s => q = previous
    BY <1>1 DEF Pointed
  <2>5. new.scope = scope /\ new.outcome = "none" /\ new.era = ends[s]
    OBVIOUS
  <2> HIDE DEF previous, closed, new
  <2>6. /\ ask'[r] = new
        /\ \A q \in Requests : q # r => ask'[q] = closed[q]
        /\ ask' \in [Requests -> Asks \cup {NotAsked}]
    BY <1>3, <2>1, <2>2
  <2>7. previous # r
    <3>1. previous = r => previous # None
      BY RequestsArePositive
    <3> QED
      BY <1>2, <2>2, <3>1 DEF Live
  <2>8. \A q \in Asked : /\ q \in Requests /\ q # r /\ ask'[q] \in Asks
                         /\ ask'[q].scope = ask[q].scope /\ ask'[q].era = ask[q].era
                         /\ ask'[q].operator = ask[q].operator
                         /\ q = previous => ask'[q].outcome = "replaced"
                         /\ q # previous => ask'[q] = ask[q]
    <3>1. TAKE q \in Asked
    <3>2. q \in Requests /\ q # r /\ ask[q] \in Asks
      BY <1>1, <1>2, AskedType
    <3>3. CASE q # previous
      BY <2>2, <2>6, <3>2, <3>3
    <3>4. CASE q = previous
      BY <2>2, <2>6, <3>2, <3>4, RequestsArePositive DEF Asks
    <3> QED
      BY <3>2, <3>3, <3>4
  <2>9. Asked' = Asked \cup {r}
    <3>1. \A q \in Requests : q \notin Asked /\ q # r => ask'[q] = NotAsked
      BY <2>2, <2>6, RequestsArePositive DEF Asked, Live
    <3>2. \A q \in Asked : ask'[q] # NotAsked
      BY <2>8, NotAskedIsNoAsk
    <3> QED
      BY <1>3, <2>6, <3>1, <3>2, NotAskedIsNoAsk DEF Asked, new
  <2>10. Live' = (Live \ {previous}) \cup {r}
    <3>1. r \in Live'
      BY <2>5, <2>6, <2>9 DEF Live
    <3>2. \A q \in Asked : q \in Live' <=> q \in Live /\ q # previous
      BY <2>8, <2>9 DEF Live
    <3> QED
      BY <2>9, <3>1, <3>2 DEF Live
  <2>11. \A q \in Live' : q # r => /\ q \in Live /\ q # previous
                                   /\ SessionOf(q)' = SessionOf(q) /\ SessionOf(q) # s
                                   /\ SessionOf(q) \in Sessions
    BY <1>1, <2>4, <2>8, <2>10, AskedType DEF SessionOf, Live
  <2>12. liveBySession' \in [Sessions -> Requests \cup {None}]
    BY <1>1, <2>1 DEF TypeOK
  <2>13. SessionOf(r)' = s
    BY <2>5, <2>6 DEF SessionOf
  <2>14. TypeOK'
    BY <1>1, <1>2, <2>6, <2>12 DEF TypeOK
  <2>15. \A x \in Sessions : liveBySession'[x] = IF x = s THEN r ELSE liveBySession[x]
    BY <1>1, <2>1 DEF TypeOK
  <2>16. Pointed'
    <3>1. ASSUME NEW x \in Sessions, liveBySession'[x] # None
          PROVE  liveBySession'[x] \in Live' /\ SessionOf(liveBySession[x])' = x
      <4>1. CASE x = s
        BY <2>10, <2>13, <2>15, <4>1
      <4>2. CASE x # s
        <5>1. /\ liveBySession'[x] = liveBySession[x] /\ liveBySession[x] \in Live
              /\ SessionOf(liveBySession[x]) = x
          BY <1>1, <2>15, <3>1, <4>2 DEF Pointed
        <5>2. liveBySession[x] # previous
          BY <2>3, <3>1, <4>2, <5>1
        <5> QED
          BY <2>8, <2>10, <5>1, <5>2 DEF SessionOf, Live
      <4> QED
        BY <4>1, <4>2
    <3>2. ASSUME NEW q \in Live' PROVE liveBySession'[SessionOf(q)'] = q
      BY <1>1, <2>11, <2>13, <2>15, <3>2 DEF Pointed
    <3> QED
      BY <3>1, <3>2 DEF Pointed
  <2>17. Fresh'
    <3>1. ASSUME NEW q \in Live' PROVE ask'[q].era = ends'[SessionOf(q)']
      <4>1. CASE q = r
        BY <1>2, <2>5, <2>6, <2>13, <4>1
      <4>2. CASE q # r
        BY <1>1, <1>2, <2>8, <2>11, <4>2 DEF Fresh, Live
      <4> QED
        BY <4>1, <4>2
    <3> QED
      BY <3>1 DEF Fresh
  <2>18. Keeps
    <3>1. previous # None => ask[previous].outcome = "none"
      BY <2>2 DEF Live
    <3>2. \A q \in Asked : ask[q].outcome = "approved" => q # previous
      BY <3>1, <1>1, AskedType, RequestsArePositive
    <3> QED
      BY <1>2, <2>8, <2>9, <3>2 DEF Keeps
  <2>19. \A q \in Asked' : ask'[q].outcome = "approved" =>
             q \in Asked /\ ask[q].outcome = "approved"
    BY <2>5, <2>6, <2>8, <2>9
  <2>20. Backed' /\ Given'
    BY <1>2, <2>18, <2>19, ReasonsStay
  <2> QED
    BY <2>14, <2>16, <2>17, <2>20 DEF Inv
<1> QED
  BY <1>4, <1>5

LEMMA StepInv == ASSUME ApprovalAssumption, Inv, [Next]_vars PROVE Inv'
<1>1. CASE UNCHANGED vars
  <2>1. Asked' = Asked /\ Live' = Live
    BY <1>1 DEF vars, Asked, Live
  <2>2. TypeOK' /\ Pointed' /\ Fresh'
    BY <1>1, <2>1 DEF vars, Inv, TypeOK, Pointed, Fresh, SessionOf
  <2>3. Keeps
    BY <1>1, <2>1 DEF vars, Keeps
  <2>4. Backed' /\ Given'
    BY <1>1, <2>1, <2>3, ReasonsStay DEF vars
  <2> QED
    BY <2>2, <2>4 DEF Inv
<1>2. ASSUME NEW r \in Requests, NEW scope \in Scopes, NEW operator \in BOOLEAN,
             Request(r, scope, operator)
      PROVE  Inv'
  BY <1>2, RequestInv
<1>3. ASSUME NEW r \in Requests, NEW d \in Decisions, Press(r, d) PROVE Inv'
  BY <1>3, PressInv
<1>4. ASSUME NEW r \in Requests, Expires(r) PROVE Inv'
  BY <1>4, ExpiresInv
<1>5. ASSUME NEW p \in inbox, NEW s \in Sessions \cup {None}, Respond(p, s) PROVE Inv'
  BY <1>5, RespondInv
<1>6. ASSUME NEW scope \in Scopes, AllowanceExpires(scope) PROVE Inv'
  BY <1>6, AllowanceExpiresInv
<1>7. ASSUME NEW s \in Sessions, EndSession(s) PROVE Inv'
  BY <1>7, EndSessionInv
<1> QED
  BY <1>1, <1>2, <1>3, <1>4, <1>5, <1>6, <1>7 DEF Next

(* Every variable keeps its type (request, respond and endSession).        *)
THEOREM TypeCorrect == ApprovalAssumption => (Spec => []TypeOK)
<1> SUFFICES ASSUME ApprovalAssumption PROVE Spec => []TypeOK
  OBVIOUS
<1>1. Init => Inv
  BY InitInv
<1>2. Inv /\ [Next]_vars => Inv'
  BY StepInv
<1>3. Inv => TypeOK
  BY DEF Inv
<1> QED
  BY <1>1, <1>2, <1>3, PTL DEF Spec

(* "Only a live, in-time approve resolves approved", however many prompts, *)
(* presses and ends of sessions there are (channel-approvals.ts:157).      *)
THEOREM NothingRunsUnapproved == ApprovalAssumption => (Spec => []ApprovalsWereGiven)
<1> SUFFICES ASSUME ApprovalAssumption PROVE Spec => []ApprovalsWereGiven
  OBVIOUS
<1>1. Init => Inv
  BY InitInv
<1>2. Inv /\ [Next]_vars => Inv'
  BY StepInv
<1>3. Inv => ApprovalsWereGiven
  BY InvSuffices
<1> QED
  BY <1>1, <1>2, <1>3, PTL DEF Spec
=============================================================================
