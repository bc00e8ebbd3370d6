----------------------------- MODULE BoardPlane -----------------------------
(* The board's control plane (board-plane/control-plane.ts, task-queue.ts)    *)
(* and its vessels (board-vessel/vessel-client.ts): tasks in a SQLite table   *)
(* are given to the vessels of a member over WebSockets; replies are checked  *)
(* and posted.  Links drop, the plane restarts, vessels are slow.  One member *)
(* with several vessels; tasks are 1, 2, ... in the order of createdAt.       *)
EXTENDS Naturals, Sequences, FiniteSets, SequencesExt

CONSTANTS Vessels, MaxTasks,
          RetryMax,       \* failures after which failTask gives up
          MaxCopies,      \* how often a task is given out at once before it may age
          MaxTroubles     \* links cut, restarts of the plane, replies that fail

\* What the constants are; MCParts assumes it.
BoardAssumption ==
    IsFiniteSet(Vessels) /\ {MaxTasks, RetryMax, MaxCopies, MaxTroubles} \subseteq Nat

VARIABLES
    table,      \* board_tasks: status, channelId, retryCount, and if assignedAt is stale
    linked,     \* the plane's map of authenticated vessels, in its order
    toVessel,   \* tasks on their way to a vessel
    work,       \* vessel -> task -> how many handleTask calls are at it
    toPlane,    \* replies on their way to the plane
    posted,     \* tasks whose response went to its channel
    recovered,  \* history: tasks recoverStaleTasks has taken back
    troubles

boardVars == <<table, linked, toVessel, work, toPlane, posted, recovered, troubles>>

Tasks == 1..MaxTasks
Statuses == {"none", "pending", "assigned", "retry", "completed", "failed"}
Rows == [status : Statuses, channel : {"", "board"}, retries : 0..RetryMax, stale : BOOLEAN]
Replies == [task : Tasks, ok : BOOLEAN]

NoMail == [v \in Vessels |-> <<>>]

BoardInit ==
    /\ table = [t \in Tasks |-> [status |-> "none", channel |-> "", retries |-> 0,
                                 stale |-> FALSE]]
    /\ linked = <<>> /\ toVessel = NoMail /\ toPlane = NoMail
    /\ work = [v \in Vessels |-> [t \in Tasks |-> 0]]
    /\ posted = {} /\ recovered = {} /\ troubles = 0

\* Where vessel v is at task t: on its way there, in its hands, or in a reply.
Handling(v, t) ==
    {<<v, "sent", i>> : i \in {j \in DOMAIN toVessel[v] : toVessel[v][j] = t}}
    \cup {<<v, "working", n>> : n \in 1..work[v][t]}
    \cup {<<v, "answered", i>> : i \in {j \in DOMAIN toPlane[v] : toPlane[v][j].task = t}}

Copies(t) == Cardinality(UNION {Handling(v, t) : v \in Vessels})

-----------------------------------------------------------------------------
(* The table. *)

Waiting(tab) == {t \in Tasks : tab[t].status \in {"pending", "retry"}}

\* assignTask(), and the message that carries the task; p is the table and the mail.
Assign(p, v) ==
    IF Waiting(p.table) = {} THEN p
    ELSE LET t == CHOOSE t \in Waiting(p.table) : \A u \in Waiting(p.table) : t <= u
         IN  [table |-> [p.table EXCEPT ![t].status = "assigned", ![t].stale = FALSE],
              mail |-> [p.mail EXCEPT ![v] = Append(@, t)]]

Completed(tab, t) == [tab EXCEPT ![t].status = "completed"]

Failed(tab, t) ==
    LET n == tab[t].retries + 1
    IN  [tab EXCEPT ![t].status = IF n < RetryMax THEN "retry" ELSE "failed",
                    ![t].retries = IF n < RetryMax THEN n ELSE RetryMax,
                    ![t].stale = FALSE]

\* Mutated: whatever is assigned is taken back, however young.
Stale_Young == {t \in Tasks : table[t].status = "assigned"}

Stale == {t \in Tasks : table[t].status = "assigned" /\ table[t].stale}

\* recoverStaleTasks()
Recovered ==
    [t \in Tasks |-> IF t \in Stale
                     THEN [table[t] EXCEPT !.status = "pending", !.stale = FALSE]
                     ELSE table[t]]

\* getRecentTasks(channelId)
RecentTasks(channel) ==
    {t \in Tasks : table[t].status = "completed" /\ table[t].channel = channel}

-----------------------------------------------------------------------------
(* The plane. *)

Deliver(p) == table' = p.table /\ toVessel' = p.mail

\* A mention in a channel that is not rate limited: TaskRouter.handleMessage.
Create(t) ==
    /\ table[t].status = "none" /\ \A u \in 1..t - 1 : table[u].status # "none"
    /\ table' = [table EXCEPT ![t].status = "pending", ![t].channel = "board"]
    /\ UNCHANGED <<linked, toVessel, work, toPlane, posted, recovered, troubles>>

\* A vessel connects, authenticates and says it is ready.
Connect(v) ==
    /\ v \notin Range(linked)
    /\ linked' = Append(linked, v)
    /\ Deliver(Assign([table |-> table, mail |-> toVessel], v))
    /\ UNCHANGED <<work, toPlane, posted, recovered, troubles>>

\* task:complete and task:failed; the response of a task is posted if the lookup
\* made before it was completed found it.
Reply(v) ==
    /\ toPlane[v] # <<>>
    /\ toPlane' = [toPlane EXCEPT ![v] = Tail(@)]
    /\ LET t == Head(toPlane[v]).task
           good == Head(toPlane[v]).ok
       IN  /\ Deliver(Assign([table |-> IF good THEN Completed(table, t) ELSE Failed(table, t),
                              mail |-> toVessel], v))
           /\ posted' = IF good THEN posted \cup (RecentTasks("") \cap {t}) ELSE posted
    /\ UNCHANGED <<linked, work, recovered, troubles>>

\* One task for every vessel of the map, in its order.
AssignAll(p) ==
    LET given[n \in 0..Len(linked)] ==
            IF n = 0 THEN p ELSE Assign(given[n - 1], linked[n])
    IN  given[Len(linked)]

\* The health interval: take back stale tasks, then give out what waits.
HealthTick ==
    /\ Deliver(AssignAll([table |-> Recovered, mail |-> toVessel]))
    /\ recovered' = recovered \cup {t \in Stale : table[t].stale}
    /\ UNCHANGED <<linked, work, toPlane, posted, troubles>>

\* staleTaskMaxAgeMs after the assignment; bounded by the copies still about.
Ages(t) ==
    /\ table[t].status = "assigned" /\ ~table[t].stale /\ Copies(t) < MaxCopies
    /\ table' = [table EXCEPT ![t].stale = TRUE]
    /\ UNCHANGED <<linked, toVessel, work, toPlane, posted, recovered, troubles>>

-----------------------------------------------------------------------------
(* The vessels. *)

\* task:assign starts a handleTask beside those that run.
Receive(v) ==
    /\ toVessel[v] # <<>>
    /\ work' = [work EXCEPT ![v][Head(toVessel[v])] = @ + 1]
    /\ toVessel' = [toVessel EXCEPT ![v] = Tail(@)]
    /\ UNCHANGED <<table, linked, toPlane, posted, recovered, troubles>>

\* onTask returns, its response passing the content policy or not, or throws;
\* without a link the reply is dropped.
Finish(v, t, good) ==
    /\ work[v][t] > 0
    /\ good \/ troubles < MaxTroubles
    /\ troubles' = IF good THEN troubles ELSE troubles + 1
    /\ work' = [work EXCEPT ![v][t] = @ - 1]
    /\ toPlane' = IF v \in Range(linked)
                  THEN [toPlane EXCEPT ![v] = Append(@, [task |-> t, ok |-> good])]
                  ELSE toPlane
    /\ UNCHANGED <<table, linked, toVessel, posted, recovered>>

\* The link of a vessel drops with all that is under way on it; its tasks stay
\* assigned, its handleTask calls go on.
Drop(v) ==
    /\ troubles < MaxTroubles /\ troubles' = troubles + 1
    /\ \E i \in DOMAIN linked : linked[i] = v /\ linked' = RemoveAt(linked, i)
    /\ toVessel' = [toVessel EXCEPT ![v] = <<>>]
    /\ toPlane' = [toPlane EXCEPT ![v] = <<>>]
    /\ UNCHANGED <<table, work, posted, recovered>>

\* The plane is stopped and started: only the table is left.
PlaneRestarts ==
    /\ troubles < MaxTroubles /\ linked # <<>>
    /\ troubles' = troubles + 1
    /\ linked' = <<>> /\ toVessel' = NoMail /\ toPlane' = NoMail
    /\ table' = Recovered /\ recovered' = recovered \cup {t \in Stale : table[t].stale}
    /\ UNCHANGED <<work, posted>>

BoardNext ==
    \/ \E t \in Tasks : Create(t) \/ Ages(t)
    \/ \E v \in Vessels :
           \/ Connect(v) \/ Reply(v) \/ Receive(v) \/ Drop(v)
           \/ \E t \in Tasks, good \in BOOLEAN : Finish(v, t, good)
    \/ HealthTick \/ PlaneRestarts

BoardSpec == BoardInit /\ [][BoardNext]_boardVars

\* The interval ticks, time passes, vessels reconnect with a bounded backoff,
\* messages of a live link arrive and onTask ends.
BoardFairness ==
    /\ WF_boardVars(HealthTick) /\ \A t \in Tasks : WF_boardVars(Ages(t))
    /\ \A v \in Vessels :
           /\ WF_boardVars(Connect(v)) /\ WF_boardVars(Reply(v)) /\ WF_boardVars(Receive(v))
           /\ \A t \in Tasks : WF_boardVars(\E good \in BOOLEAN : Finish(v, t, good))

BoardFairSpec == BoardSpec /\ BoardFairness

-----------------------------------------------------------------------------
BoardTypeOK ==
    /\ table \in [Tasks -> Rows]
    /\ Range(linked) \subseteq Vessels
    /\ \A v \in Vessels : Range(toVessel[v]) \subseteq Tasks /\ Range(toPlane[v]) \subseteq Replies
    /\ work \in [Vessels -> [Tasks -> Nat]]
    /\ posted \subseteq Tasks /\ recovered \subseteq Tasks
    /\ troubles \in 0..MaxTroubles

\* A task that was never taken back as stale is in one vessel's hands at most,
\* and then it is assigned: it is not done twice, whatever links drop and however
\* often it is retried.
OneCopyOfATask ==
    \A t \in Tasks \ recovered :
        Copies(t) <= IF table[t].status = "assigned" THEN 1 ELSE 0

\* The response of a completed task is posted (control-plane.ts:152-154, 173-175).
CompletedIsPosted == \A t \in Tasks : table[t].status = "completed" => t \in posted

\* A task is neither completed nor failed yet.
BoardUnsettled == \E t \in Tasks : table[t].status \notin {"none", "completed", "failed"}
=============================================================================
