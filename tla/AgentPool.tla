----------------------------- MODULE AgentPool -----------------------------
(***************************************************************************)
(* The session pool of packages/daemon/agent-pool.ts: sessions come, are   *)
(* evicted, reaped and destroyed; chat() lets one turn of a session run at *)
(* a time, lines the others up and drops redeliveries; the drain loop      *)
(* feeds accepted work items (module WorkQueue) into free sessions.        *)
(*                                                                         *)
(* Code between two awaits is one step.  An entry is one SessionEntry      *)
(* object: a session id that ends and comes back has a new entry, and a    *)
(* call that awaits keeps the entry it captured.  Entries are numbered in  *)
(* the order of their createdAt.                                           *)
(***************************************************************************)
EXTENDS Integers, Sequences, FiniteSets, FiniteSetsExt, SequencesExt

CONSTANTS
    Sessions,      \* session ids
    Calls,         \* calls of chat()
    Items,         \* those of them that are work items of the queue
    MessageIds,    \* options.messageId
    NoId,          \* a call without one
    NoSession,     \* a call that was not made yet
    ChannelOf,     \* session id -> channel
    CapOf,         \* channel -> capFor(channel)
    NeverEvict,    \* channels of NEVER_EVICT
    MaxSessions,   \* MAX_SESSIONS
    QueueMax,      \* sessionQueueMax()
    SeenMax,       \* SEEN_IDS_MAX
    StartLimit,    \* the work queue's start throttle
    SlashLines,    \* some texts start with a slash, so the gate awaits
    Unverified,    \* createSession may refuse an unverified model
    MaxEntries     \* bound: sessions ever created

ASSUME SessionsAssumption == IsFiniteSet(Sessions) /\ IsFiniteSet(Calls) /\ Items \subseteq Calls
ASSUME NoIdAssumption == NoId \notin MessageIds /\ NoSession \notin Sessions
ASSUME ChannelAssumption ==
    \A s \in Sessions : ChannelOf[s] \in DOMAIN CapOf /\ CapOf[ChannelOf[s]] \in Nat \ {0}
ASSUME LimitsAssumption ==
    /\ MaxSessions \in Nat \ {0} /\ QueueMax \in Nat /\ SeenMax \in Nat \ {0}
    /\ StartLimit \in Nat \ {0} /\ MaxEntries \in Nat
    /\ SlashLines \in BOOLEAN /\ Unverified \in BOOLEAN

VARIABLES
    live,       \* sessions: id -> its entry, 0 when the Map has no such key
    created,    \* number of entries created
    busy,       \* entry -> entry.busy
    queue,      \* entry -> calls waiting in entry.queue
    seen,       \* entry -> entry.seenIds, oldest first
    stopped,    \* entry -> agent.abort() hit the turn in flight
    attached,   \* sessions with a client on them: inUse
    call,       \* call -> what has become of it
    line,       \* work items accepted and not started, oldest first
    looping,    \* the drain loop is at work
    drainDue    \* a microtask that drains is queued

entries == <<busy, queue, seen, stopped>>
pool    == <<live, created>>
drain   == <<looping, drainDue>>
vars    == <<pool, entries, attached, call, line, drain>>

Entries  == 1..MaxEntries
Phases   == {"new", "line", "gate", "waiting", "admitted", "running", "ended", "done"}
Outcomes == {"none", "answered", "handled", "failed", "refused", "duplicate"}
CallRecs == [phase : Phases, session : Sessions \cup {NoSession}, entry : 0..MaxEntries,
             id : MessageIds \cup {NoId}, oneShot : BOOLEAN,
             at : Nat, outcome : Outcomes]

Live == {s \in Sessions : live[s] # 0}

\* chat() returned; the continuation of a work item still has to run.
Finished(c, rec, outcome) ==
    [rec EXCEPT !.phase = IF c \in Items THEN "ended" ELSE "done", !.outcome = outcome]

-----------------------------------------------------------------------------
(* seenIds: a Set in insertion order that drops its oldest past the limit. *)

Remember(ids, id) ==
    IF id = NoId THEN ids
    ELSE IF Len(ids) < SeenMax THEN Append(ids, id)
    ELSE Append(Tail(ids), id)

\* The ids that are not in gone, in their order.
Forget(ids, gone) ==
    LET left[n \in 0..Len(ids)] ==
            IF n = 0 THEN <<>>
            ELSE IF ids[n] \in gone THEN left[n - 1] ELSE Append(left[n - 1], ids[n])
    IN  left[Len(ids)]

-----------------------------------------------------------------------------
(* Room for a session: evictable(), and createSession's two evictions.     *)

\* Mutated: a busy session may be evicted.
Evictable_Busy(lv, s) ==
    /\ lv[s] # 0
    /\ ChannelOf[s] \notin NeverEvict
    /\ s \notin attached

Evictable(lv, s) ==
    /\ lv[s] # 0
    /\ ChannelOf[s] \notin NeverEvict
    /\ ~ busy[lv[s]]
    /\ s \notin attached

CountOn(lv, channel) == Cardinality({s \in Sessions : lv[s] # 0 /\ ChannelOf[s] = channel})
Size(lv) == Cardinality({s \in Sessions : lv[s] # 0})

\* The sessions without the oldest of S, if S has any.
WithoutOldest(lv, S) ==
    [s \in Sessions |-> IF s \in S /\ lv[s] = Min({lv[t] : t \in S}) THEN 0 ELSE lv[s]]

MakeRoom(s) ==
    LET onChannel == {t \in Live : Evictable(live, t) /\ ChannelOf[t] = ChannelOf[s]}
        first == IF CountOn(live, ChannelOf[s]) >= CapOf[ChannelOf[s]]
                 THEN WithoutOldest(live, onChannel) ELSE live
    IN  IF Size(first) >= MaxSessions
        THEN WithoutOldest(first, {t \in Sessions : Evictable(first, t)})
        ELSE first

\* Callers create an id only when hasSession says no (or it is a fresh one).
Create(s) ==
    /\ ~looping
    /\ live[s] = 0 /\ created < MaxEntries
    /\ created' = created + 1
    /\ live' = [MakeRoom(s) EXCEPT ![s] = created + 1]
    /\ drainDue' = (drainDue \/ MakeRoom(s) # live)
    /\ UNCHANGED <<entries, attached, call, line, looping>>

\* The model check throws after the evictions were made.
CreateThrows(s) ==
    /\ Unverified /\ ~looping
    /\ live[s] = 0
    /\ live' = MakeRoom(s)
    /\ drainDue' = (drainDue \/ MakeRoom(s) # live)
    /\ UNCHANGED <<created, entries, attached, call, line, looping>>

-----------------------------------------------------------------------------
(* chat().                                                                 *)

\* Mutated: the session is idle for a moment between two turns.
Release_Idle(e, calls) ==
    /\ busy' = [busy EXCEPT ![e] = FALSE]
    /\ queue' = [queue EXCEPT ![e] = IF @ = <<>> THEN @ ELSE Tail(@)]
    /\ call' = IF queue[e] = <<>> THEN calls
               ELSE [calls EXCEPT ![Head(queue[e])].phase = "admitted"]
    /\ drainDue' = TRUE

\* Mutated: the last one in line goes first.
Release_Last(e, calls) ==
    /\ busy' = [busy EXCEPT ![e] = queue[e] # <<>>]
    /\ queue' = [queue EXCEPT ![e] = IF @ = <<>> THEN @ ELSE Front(@)]
    /\ call' = IF queue[e] = <<>> THEN calls
               ELSE [calls EXCEPT ![Last(queue[e])].phase = "admitted"]
    /\ drainDue' = TRUE

\* Mutated: nothing drains the work queue when a session falls idle.
Release_NoDrain(e, calls) ==
    /\ busy' = [busy EXCEPT ![e] = queue[e] # <<>>]
    /\ queue' = [queue EXCEPT ![e] = IF @ = <<>> THEN @ ELSE Tail(@)]
    /\ call' = IF queue[e] = <<>> THEN calls
               ELSE [calls EXCEPT ![Head(queue[e])].phase = "admitted"]
    /\ UNCHANGED drainDue

\* release(entry): to the next in line, with busy still true, or idle.
\* `calls' is what the releasing call has made of `call'.
Release(e, calls) ==
    /\ busy' = [busy EXCEPT ![e] = queue[e] # <<>>]
    /\ queue' = [queue EXCEPT ![e] = IF @ = <<>> THEN @ ELSE Tail(@)]
    /\ call' = IF queue[e] = <<>> THEN calls
               ELSE [calls EXCEPT ![Head(queue[e])].phase = "admitted"]
    /\ drainDue' = TRUE

\* The usage monitor, then the model: from busy = true to the first await.
Begin(c, e, rec, ids) ==
    \/ /\ busy' = [busy EXCEPT ![e] = TRUE]
       /\ seen' = [seen EXCEPT ![e] = ids]
       /\ stopped' = [stopped EXCEPT ![e] = FALSE]
       /\ call' = [call EXCEPT ![c] = [rec EXCEPT !.phase = "running"]]
       /\ UNCHANGED <<queue, drainDue>>
    \/ /\ seen' = [seen EXCEPT ![e] = Forget(ids, {rec.id})]
       /\ Release(e, [call EXCEPT ![c] = Finished(c, rec, "refused")])
       /\ UNCHANGED stopped

Redelivered(e, id) == id \in ToSet(seen[e])

\* Mutated: off by one.
LineHasRoom_OneMore(e) == Len(queue[e]) <= QueueMax

LineHasRoom(e) == Len(queue[e]) < QueueMax

\* From the duplicate check on: refused, lined up, or begun.
Admit(c, e, rec) ==
    \/ /\ Redelivered(e, rec.id)
       /\ call' = [call EXCEPT ![c] = Finished(c, rec, "duplicate")]
       /\ UNCHANGED <<entries, drainDue>>
    \/ /\ ~ Redelivered(e, rec.id) /\ busy[e]
       /\ ~ LineHasRoom(e)
       /\ call' = [call EXCEPT ![c] = Finished(c, rec, "refused")]
       /\ UNCHANGED <<entries, drainDue>>
    \/ /\ ~ Redelivered(e, rec.id) /\ busy[e]
       /\ LineHasRoom(e)
       /\ seen' = [seen EXCEPT ![e] = Remember(@, rec.id)]
       /\ queue' = [queue EXCEPT ![e] = Append(@, c)]
       /\ call' = [call EXCEPT ![c] = [rec EXCEPT !.phase = "waiting"]]
       /\ UNCHANGED <<busy, stopped, drainDue>>
    \/ /\ ~ Redelivered(e, rec.id) /\ ~busy[e]
       /\ Begin(c, e, rec, Remember(seen[e], rec.id))

\* chat() up to its first await; a slash line goes to the gate and no further.
Chat(c, e, rec) ==
    \/ Admit(c, e, rec)
    \/ /\ SlashLines
       /\ call' = [call EXCEPT ![c] = [rec EXCEPT !.phase = "gate"]]
       /\ UNCHANGED <<entries, drainDue>>

Arrivals == Cardinality({c \in Calls : call[c].phase # "new"})

\* A client's message: chat(session, text, turn, {messageId}).
Send(c, s, id) ==
    /\ ~looping
    /\ call[c].phase = "new"
    /\ LET rec == [call[c] EXCEPT !.session = s, !.entry = live[s], !.id = id,
                                  !.at = Arrivals + 1]
       IN  IF live[s] = 0
           THEN /\ call' = [call EXCEPT ![c] = Finished(c, rec, "refused")]
                /\ UNCHANGED <<entries, drainDue>>
           ELSE Chat(c, live[s], rec)
    /\ UNCHANGED <<pool, attached, line, looping>>

\* gateInput resolves: a slash line is answered without the model, whether its
\* command is known or not.
GateResolves(c) ==
    /\ ~looping
    /\ call[c].phase = "gate"
    /\ call' = [call EXCEPT ![c] = Finished(c, @, "handled")]
    /\ UNCHANGED <<pool, entries, attached, line, drain>>

\* The microtask of a call that was handed the session.
Resume(c) ==
    /\ ~looping
    /\ call[c].phase = "admitted"
    /\ Begin(c, call[c].entry, call[c], seen[call[c].entry])
    /\ UNCHANGED <<pool, attached, line, looping>>

TurnEnds(c, outcome) ==
    /\ ~looping
    /\ call[c].phase = "running"
    /\ LET e == call[c].entry
       IN  /\ seen' = IF outcome = "failed" THEN [seen EXCEPT ![e] = Forget(@, {call[c].id})]
                      ELSE seen
           /\ Release(e, [call EXCEPT ![c] = Finished(c, @, outcome)])
    /\ UNCHANGED <<pool, stopped, attached, line, looping>>

-----------------------------------------------------------------------------
(* Ending turns and sessions.                                              *)

\* No hand-over is under way on e: its microtask runs before the next event.
Settled(e) == \A c \in Calls : call[c].phase = "admitted" => call[c].entry # e

\* Every waiter of e is told no, and its message id may come again.
RefuseWaiters(e) ==
    /\ call' = [c \in Calls |-> IF c \in ToSet(queue[e]) THEN Finished(c, call[c], "refused")
                                ELSE call[c]]
    /\ seen' = [seen EXCEPT ![e] = Forget(@, {call[c].id : c \in ToSet(queue[e])})]
    /\ queue' = [queue EXCEPT ![e] = <<>>]

Abort(s) ==
    /\ ~looping
    /\ live[s] # 0 /\ busy[live[s]] /\ Settled(live[s])
    /\ RefuseWaiters(live[s])
    /\ stopped' = [stopped EXCEPT ![live[s]] = TRUE]
    /\ UNCHANGED <<pool, busy, attached, line, drain>>

\* Mutated: the turn in flight goes on.
Destroy_NoAbort(s) ==
    /\ ~looping
    /\ live[s] # 0 /\ Settled(live[s])
    /\ live' = [live EXCEPT ![s] = 0]
    /\ RefuseWaiters(live[s])
    /\ attached' = attached \ {s}
    /\ drainDue' = TRUE
    /\ UNCHANGED <<created, busy, stopped, line, looping>>

\* destroySession, for the client that ends its session.
Destroy(s) ==
    /\ ~looping
    /\ live[s] # 0 /\ Settled(live[s])
    /\ live' = [live EXCEPT ![s] = 0]
    /\ stopped' = [stopped EXCEPT ![live[s]] = busy[live[s]]]
    /\ RefuseWaiters(live[s])
    /\ attached' = attached \ {s}
    /\ drainDue' = TRUE
    /\ UNCHANGED <<created, busy, line, looping>>

\* cleanupIdleSessions: whichever evictable sessions have been idle too long.
CleanupIdleSessions ==
    /\ ~looping
    /\ \E idle \in SUBSET {s \in Live : Evictable(live, s)} :
           live' = [s \in Sessions |-> IF s \in idle THEN 0 ELSE live[s]]
    /\ looping' = TRUE
    /\ UNCHANGED <<created, entries, attached, call, line, drainDue>>

Attach(s) ==
    /\ ~looping
    /\ live[s] # 0
    /\ attached' = attached \cup {s}
    /\ UNCHANGED <<pool, entries, call, line, drain>>

Detach(s) ==
    /\ ~looping
    /\ s \in attached
    /\ attached' = attached \ {s}
    /\ UNCHANGED <<pool, entries, call, line, drain>>

-----------------------------------------------------------------------------
(* Work items: submit(), drainQueue() and the continuation of an item.     *)

ItemsInFlight ==
    {c \in Items : call[c].phase \notin {"new", "line", "done"}}

\* The head of the line can start: the throttle, and the loop's `blocked'.
Startable ==
    /\ line # <<>>
    /\ Cardinality(ItemsInFlight) < StartLimit
    /\ LET s == call[Head(line)].session
       IN  IF live[s] # 0 THEN ~ busy[live[s]]
           ELSE /\ Size(live) < MaxSessions
                /\ CountOn(live, ChannelOf[s]) < CapOf[ChannelOf[s]]
                /\ created < MaxEntries   \* the bound

Submit(c, s) ==
    /\ ~looping
    /\ call[c].phase = "new"
    /\ call' = [call EXCEPT ![c] = [@ EXCEPT !.phase = "line", !.session = s,
                                             !.at = Arrivals + 1]]
    /\ line' = Append(line, c)
    /\ looping' = TRUE
    /\ UNCHANGED <<pool, entries, attached, drainDue>>

\* The microtask that drains.
DrainBegins ==
    /\ ~looping /\ drainDue
    /\ looping' = TRUE
    /\ drainDue' = FALSE
    /\ UNCHANGED <<pool, entries, attached, call, line>>

\* One turn of the loop: the head gets its session, a new one if need be.
DrainStarts ==
    /\ looping /\ Startable
    /\ LET c == Head(line)
           s == call[c].session
           e == IF live[s] = 0 THEN created + 1 ELSE live[s]
       IN  /\ live' = [live EXCEPT ![s] = e]
           /\ created' = IF live[s] = 0 THEN created + 1 ELSE created
           /\ Chat(c, e, [call[c] EXCEPT !.entry = e, !.oneShot = (live[s] = 0)])
    /\ line' = Tail(line)
    /\ looping' = TRUE
    /\ UNCHANGED attached

\* createSession throws out of the loop: the head still waits.
DrainThrows ==
    /\ Unverified
    /\ looping /\ Startable
    /\ live[call[Head(line)].session] = 0
    /\ looping' = FALSE
    /\ UNCHANGED <<pool, entries, attached, call, line, drainDue>>

DrainStops ==
    /\ looping /\ ~ Startable
    /\ looping' = FALSE
    /\ UNCHANGED <<pool, entries, attached, call, line, drainDue>>

\* The .then of an item: markEnded, end its one-shot session, drain again.
ItemEnds(c) ==
    /\ ~looping
    /\ call[c].phase = "ended"
    /\ call' = [call EXCEPT ![c].phase = "done"]
    /\ LET s == call[c].session
           over == /\ call[c].oneShot
                   /\ \A i \in DOMAIN line : call[line[i]].session # s
                   /\ live[s] # 0 /\ ~ busy[live[s]]
       IN  live' = IF over THEN [live EXCEPT ![s] = 0] ELSE live
    /\ looping' = TRUE
    /\ drainDue' = (drainDue \/ live' # live)
    /\ UNCHANGED <<created, entries, attached, line>>

-----------------------------------------------------------------------------
NewCall == [phase |-> "new", session |-> NoSession, entry |-> 0, id |-> NoId,
            oneShot |-> FALSE, at |-> 0, outcome |-> "none"]

Init ==
    /\ live = [s \in Sessions |-> 0] /\ created = 0
    /\ busy = [e \in Entries |-> FALSE]
    /\ queue = [e \in Entries |-> <<>>]
    /\ seen = [e \in Entries |-> <<>>]
    /\ stopped = [e \in Entries |-> FALSE]
    /\ attached = {}
    /\ call = [c \in Calls |-> NewCall]
    /\ line = <<>>
    /\ looping = FALSE /\ drainDue = FALSE

Next ==
    \/ \E s \in Sessions : \/ Create(s) \/ CreateThrows(s) \/ Abort(s) \/ Destroy(s)
                           \/ Attach(s) \/ Detach(s)
    \/ \E c \in Calls \ Items, s \in Sessions, id \in MessageIds \cup {NoId} : Send(c, s, id)
    \/ \E c \in Items : ItemEnds(c) \/ \E s \in Sessions : Submit(c, s)
    \/ \E c \in Calls : \/ GateResolves(c) \/ Resume(c)
                        \/ \E outcome \in {"answered", "failed"} : TurnEnds(c, outcome)
    \/ CleanupIdleSessions \/ DrainBegins \/ DrainStarts \/ DrainThrows \/ DrainStops

Spec == Init /\ [][Next]_vars

\* Every turn is bounded in time, a handler resolves, and microtasks run.
\* The event loop is fair, so a drain that happens over and over between two
\* events starves none of them (hence SF: a drain disables the other steps).
Fairness ==
    /\ \A c \in Calls : /\ SF_vars(GateResolves(c)) /\ SF_vars(Resume(c))
                        /\ SF_vars(\E outcome \in {"answered", "failed"} : TurnEnds(c, outcome))
    /\ \A c \in Items : SF_vars(ItemEnds(c))
    /\ WF_vars(DrainBegins \/ DrainStarts \/ DrainStops)

FairSpec == Spec /\ Fairness

-----------------------------------------------------------------------------
TypeOK ==
    /\ live \in [Sessions -> 0..created] /\ created \in 0..MaxEntries
    /\ busy \in [Entries -> BOOLEAN] /\ stopped \in [Entries -> BOOLEAN]
    /\ queue \in [Entries -> Seq(Calls)] /\ \A e \in Entries : Len(queue[e]) <= QueueMax
    /\ seen \in [Entries -> Seq(MessageIds)] /\ \A e \in Entries : Len(seen[e]) <= SeenMax
    /\ attached \subseteq Sessions
    /\ call \in [Calls -> CallRecs]
    /\ line \in Seq(Calls)
    /\ looping \in BOOLEAN /\ drainDue \in BOOLEAN

Holders(e) == {c \in Calls : call[c].entry = e /\ call[c].phase \in {"admitted", "running"}}

(* One agent never runs two turns at once, and `busy' says exactly whether *)
(* one holds the session: a hand-over keeps it, and every way a turn can   *)
(* end, be refused for the budget or be aborted gives it back.             *)
BusyIsOneTurn ==
    \A e \in Entries : Cardinality(Holders(e)) = IF busy[e] THEN 1 ELSE 0

(* Nobody waits in vain: a waiting message stands in the line of the entry *)
(* it was sent to, once, and a turn that will hand the session on holds    *)
(* that entry.                                                             *)
WaitersWillBeServed ==
    \A c \in Calls : call[c].phase = "waiting" =>
        /\ Cardinality({i \in DOMAIN queue[call[c].entry] : queue[call[c].entry][i] = c}) = 1
        /\ busy[call[c].entry]

(* A session passes from turn to turn (agent-pool.ts:802-808): never two at *)
(* once, never held by nobody, and never past the line for good.            *)
SessionsAreHandedOver == BusyIsOneTurn /\ WaitersWillBeServed

Taken(c) ==
    call[c].phase \in {"waiting", "admitted", "running"} \/ call[c].outcome = "answered"

(* A redelivered message id never has two turns on one session: while one  *)
(* waits or runs, or after it was answered, no other call with that id     *)
(* waits or runs.  (The ids remembered are at least the ids in use.)       *)
RedeliveryNeverRuns ==
    \A c, d \in Calls :
        (c # d /\ call[c].id # NoId /\ call[c].id = call[d].id
               /\ call[c].entry = call[d].entry /\ Taken(c)) => ~ Taken(d)

(* "nothing can jump the queue": whoever is handed the session was waiting *)
(* longest, of all who wait for that entry.                                *)
LongestWaiterFirst ==
    [][\A c, d \in Calls :
          (/\ call[c].phase = "waiting" /\ call'[c].phase = "admitted"
           /\ call[d].phase = "waiting" /\ call[d].entry = call[c].entry)
              => call[c].at <= call[d].at]_vars

(* Making room never costs a session in use: one that disappears as        *)
(* another appears had no turn, no client and no channel that is kept; and *)
(* the pool outgrows MAX_SESSIONS only when every session was in use.      *)
RoomIsMadeOfIdleSessions ==
    [][/\ \A s, t \in Sessions :
              (live[s] # 0 /\ live'[s] = 0 /\ live[t] = 0 /\ live'[t] # 0)
                  => ~ busy[live[s]] /\ s \notin attached /\ ChannelOf[s] \notin NeverEvict
       /\ (Size(live') > Size(live) /\ Size(live') > MaxSessions)
              => \A s \in Live : ~ Evictable(live, s)]_vars

Draining == looping \/ drainDue

(* "Start waiting items while a slot and the start throttle allow":        *)
(* whenever the head of the line could start, a drain is under way or due. *)
NoDrainIsMissed == Startable => Draining

(* No wake-up of the work queue is lost: whatever makes its head startable *)
(* (a turn or session that ends, room, the throttle) leaves a drain due,   *)
(* but for a client that creates the very session the head waits for, and  *)
(* a createSession that throws out of the drain itself.                    *)
EveryReleaseDrains ==
    [][Startable' /\ ~ Draining' =>
          \/ Startable /\ ~ Draining
          \/ DrainThrows
          \/ LET s == call'[Head(line')].session IN live[s] = 0 /\ live'[s] # 0]_vars

(* A message has neither its answer nor its refusal yet.                    *)
Unsettled == \E c \in Calls : call[c].phase \notin {"new", "line", "done"}

(* "A destroyed session must not keep running its in-flight turn", "queued *)
(* messages never run on an ended session": a turn on an entry that ended  *)
(* has been told to stop.                                                  *)
EndedSessionsStop ==
    \A c \in Calls : (call[c].phase = "running" /\ live[call[c].session] # call[c].entry)
                        => stopped[call[c].entry]
=============================================================================
