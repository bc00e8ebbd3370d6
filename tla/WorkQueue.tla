----------------------------- MODULE WorkQueue -----------------------------
(***************************************************************************)
(* The durable work queue of packages/daemon/queue.ts: an append-only file *)
(* of accept/start/end/unknown lines, the in-memory state rebuilt from it, *)
(* and the drain loop of packages/daemon/agent-pool.ts that starts items.  *)
(*                                                                         *)
(* One daemon writes the file (module QueueLock is about that); it may be  *)
(* killed, lose power or be stopped at any point and be started again.     *)
(* Every JavaScript call that does not await is one step.  A death inside  *)
(* a call is a death just after it whose caller never used the result.     *)
(*                                                                         *)
(* The file is the sequence of its parsable lines.  `torn' says that its   *)
(* last bytes are a fragment without a newline: replay skips a fragment,   *)
(* and a line appended right after it fuses with it and is skipped too.    *)
(***************************************************************************)
EXTENDS Integers, Sequences, FiniteSets, FiniteSetsExt

CONSTANTS
    Ids,             \* requestIds callers use
    StartLimit,      \* startLimitFor(...): concurrent starts
    MaxStops,        \* bound: crashes, power cuts and clean stops
    MaxIoErrors,     \* bound: writes that throw out of their caller
    MaxShortWrites   \* bound: writeSync calls that write part of their line

ASSUME IdsAssumption == IsFiniteSet(Ids)
ASSUME StartLimitAssumption == StartLimit \in Nat \ {0}
ASSUME BoundsAssumption ==
    MaxStops \in Nat /\ MaxIoErrors \in Nat /\ MaxShortWrites \in Nat

VARIABLES
    log,          \* the parsable lines of the file, oldest first
    synced,       \* how many of them are on the disk, not only in the page cache
    torn,         \* the file ends in an unterminated fragment
    up,           \* a daemon has the queue open
    status,       \* items: id -> status, "none" when the Map has no such key
    receipt,      \* items: id -> receipt.seq
    pending,      \* ids waiting to start, oldest first
    running,      \* the start throttle's counter
    nextSeq,
    active,       \* ids whose chat() is in flight in this daemon
    acked,        \* history: id -> the seq its caller was given, 0 for none
    runs,         \* history: id -> how often its text was sent to an agent
    stops, ioErrors, shortWrites   \* the bounded fault counters

file    == <<log, synced, torn>>
memory  == <<up, status, receipt, pending, running, nextSeq, active>>
history == <<acked, runs>>
faults  == <<stops, ioErrors, shortWrites>>
vars    == <<file, memory, history, faults>>

Ops      == {"accept", "start", "unknown", "done", "failed"}
Statuses == {"none", "queued", "running", "done", "failed", "unknown"}
Lines    == [op : Ops, id : Ids, seq : Nat]

Line(op, id) == [op |-> op, id |-> id, seq |-> 0]

-----------------------------------------------------------------------------
(* Replay: what the constructor rebuilds from the lines l of the file.     *)

AcceptsOf(l, id) == {i \in DOMAIN l : l[i].op = "accept" /\ l[i].id = id}

\* Only the first accept of an id counts, and only lines after it move it.
EventsOf(l, id) ==
    {i \in DOMAIN l : /\ l[i].op # "accept"
                      /\ l[i].id = id
                      /\ \E a \in AcceptsOf(l, id) : a < i}

\* Mutated: the line's op taken for a status.
StatusAfter_Op(op) == op

StatusAfter(op) == IF op = "start" THEN "running" ELSE op

\* Mutated: an item that had started but not ended waits again.
ReplayStatus_Resend(l, id) ==
    IF AcceptsOf(l, id) = {} THEN "none"
    ELSE IF EventsOf(l, id) = {} \/ l[Max(EventsOf(l, id))].op = "start" THEN "queued"
    ELSE StatusAfter(l[Max(EventsOf(l, id))].op)

ReplayStatus(l, id) ==
    IF AcceptsOf(l, id) = {} THEN "none"
    ELSE IF EventsOf(l, id) = {} THEN "queued"
    ELSE StatusAfter(l[Max(EventsOf(l, id))].op)

ReplayReceipt(l, id) ==
    IF AcceptsOf(l, id) = {} THEN 0 ELSE l[Min(AcceptsOf(l, id))].seq

ReplayNextSeq(l) == 1 + Max({0} \cup {ReplayReceipt(l, id) : id \in Ids})

\* Mutated: newest first.
InAcceptOrder_Newest(l, S) ==
    {p \in [1..Cardinality(S) -> S] :
        \A i, j \in 1..Cardinality(S) :
            i < j => Min(AcceptsOf(l, p[i])) > Min(AcceptsOf(l, p[j]))}

\* The ids of S in the order of their first accept: the items Map's order.
InAcceptOrder(l, S) ==
    {p \in [1..Cardinality(S) -> S] :
        \A i, j \in 1..Cardinality(S) :
            i < j => Min(AcceptsOf(l, p[i])) < Min(AcceptsOf(l, p[j]))}

WithStatus(l, s) == {id \in Ids : ReplayStatus(l, id) = s}

-----------------------------------------------------------------------------
(* write(line, sync): one writeSync, then an fsync for SyncedOps.  The     *)
(* count writeSync returns is not looked at, so a short write (disk full)  *)
(* is a fragment the caller takes for a line.                              *)

\* Mutated: starts are left to the page cache.
SyncedOps_NotStart == {"accept", "unknown"}

\* Mutated: accepts are left to the page cache.
SyncedOps_NotAccept == {"start", "unknown"}

\* The lines written with sync = true.
SyncedOps == {"accept", "start", "unknown"}

Lands(line) == IF torn THEN log ELSE Append(log, line)

Write(line) ==
    /\ UNCHANGED <<stops, ioErrors>>
    /\ \/ /\ log' = Lands(line)
          /\ torn' = FALSE
          /\ synced' = IF line.op \in SyncedOps THEN Len(log') ELSE synced
          /\ UNCHANGED shortWrites
       \/ /\ shortWrites < MaxShortWrites
          /\ shortWrites' = shortWrites + 1
          /\ torn' = TRUE
          /\ UNCHANGED <<log, synced>>

\* The line lands in the page cache and fsyncSync throws out of the caller.
WriteThrows(line) ==
    /\ ioErrors < MaxIoErrors
    /\ ioErrors' = ioErrors + 1
    /\ log' = Lands(line)
    /\ torn' = FALSE
    /\ UNCHANGED <<synced, stops, shortWrites>>

-----------------------------------------------------------------------------
Forgotten ==
    /\ status' = [id \in Ids |-> "none"]
    /\ receipt' = [id \in Ids |-> 0]
    /\ pending' = <<>>
    /\ running' = 0
    /\ nextSeq' = 1
    /\ active' = {}

Init ==
    /\ log = <<>> /\ synced = 0 /\ torn = FALSE
    /\ up = FALSE
    /\ status = [id \in Ids |-> "none"]
    /\ receipt = [id \in Ids |-> 0]
    /\ pending = <<>> /\ running = 0 /\ nextSeq = 1 /\ active = {}
    /\ acked = [id \in Ids |-> 0]
    /\ runs = [id \in Ids |-> 0]
    /\ stops = 0 /\ ioErrors = 0 /\ shortWrites = 0

\* enqueue of an id the Map does not hold.
Enqueue(id) ==
    /\ up /\ status[id] = "none"
    /\ Write([op |-> "accept", id |-> id, seq |-> nextSeq])
    /\ nextSeq' = nextSeq + 1
    /\ status' = [status EXCEPT ![id] = "queued"]
    /\ receipt' = [receipt EXCEPT ![id] = nextSeq]
    /\ pending' = Append(pending, id)
    /\ acked' = [acked EXCEPT ![id] = nextSeq]
    /\ UNCHANGED <<up, running, active, runs>>

\* Mutated: a repeated id is given a receipt of its own.
EnqueueKnown_Fresh(id) ==
    /\ up /\ status[id] # "none"
    /\ acked' = [acked EXCEPT ![id] = nextSeq]
    /\ UNCHANGED <<file, memory, runs, faults>>

\* enqueue of a known id: the original receipt, and nothing else.
EnqueueKnown(id) ==
    /\ up /\ status[id] # "none"
    /\ acked' = [acked EXCEPT ![id] = receipt[id]]
    /\ UNCHANGED <<file, memory, runs, faults>>

\* enqueue throws: the caller has no receipt and the Map no item.
EnqueueThrows(id) ==
    /\ up /\ status[id] = "none"
    /\ WriteThrows([op |-> "accept", id |-> id, seq |-> nextSeq])
    /\ UNCHANGED <<memory, history>>

\* Mutated: off by one at the throttle.
IsNext_OneMore(id) ==
    /\ up /\ running <= StartLimit
    /\ pending # <<>> /\ id = Head(pending)

\* peek, for the drain loop: the head of the line, unless the throttle is full.
IsNext(id) ==
    /\ up /\ running < StartLimit
    /\ pending # <<>> /\ id = Head(pending)

\* One turn of the drain loop: markStarted, then chat().
Start(id) ==
    /\ IsNext(id) /\ status[id] = "queued"
    /\ Write(Line("start", id))
    /\ status' = [status EXCEPT ![id] = "running"]
    /\ running' = running + 1
    /\ pending' = Tail(pending)
    /\ active' = active \cup {id}
    /\ runs' = [runs EXCEPT ![id] = @ + 1]
    /\ UNCHANGED <<up, receipt, nextSeq, acked>>

\* markStarted throws out of the drain loop before chat(): the item still waits.
StartThrows(id) ==
    /\ IsNext(id) /\ status[id] = "queued"
    /\ WriteThrows(Line("start", id))
    /\ UNCHANGED <<memory, history>>

\* The turn is over and its reply is classified: markEnded, no fsync.
End(id, op) ==
    /\ up /\ id \in active /\ status[id] = "running"
    /\ Write(Line(op, id))
    /\ status' = [status EXCEPT ![id] = op]
    /\ running' = running - 1
    /\ active' = active \ {id}
    /\ UNCHANGED <<up, receipt, pending, nextSeq, history>>

\* writeSync throws out of markEnded (nothing lands): the turn is over, and
\* the item and the throttle still count it as running.
EndThrows(id) ==
    /\ up /\ id \in active
    /\ ioErrors < MaxIoErrors
    /\ ioErrors' = ioErrors + 1
    /\ active' = active \ {id}
    /\ UNCHANGED <<file, up, status, receipt, pending, running, nextSeq,
                   history, stops, shortWrites>>

\* A crash keeps every synced line and any number of the later ones (all of
\* them for a kill, fewer for a power cut); a write it cut short is a fragment.
Crash ==
    /\ up /\ stops < MaxStops
    /\ stops' = stops + 1
    /\ up' = FALSE
    /\ \E n \in synced..Len(log) : log' = SubSeq(log, 1, n)
    /\ torn' \in BOOLEAN
    /\ Forgotten
    /\ UNCHANGED <<synced, history, ioErrors, shortWrites>>

\* close(): a clean stop with whatever is in flight.
Close ==
    /\ up /\ stops < MaxStops
    /\ stops' = stops + 1
    /\ up' = FALSE
    /\ Forgotten
    /\ UNCHANGED <<file, history, ioErrors, shortWrites>>

\* Mutated: the lost items are marked in memory only.
Settles_NoLines(lost, k) ==
    /\ torn' = FALSE
    /\ UNCHANGED <<log, synced, history, ioErrors, shortWrites>>

\* The constructor writes one synced `unknown' line per item of `lost' that
\* was in flight; k of them are written before it returns or dies.
Settles(lost, k) ==
    /\ log' = log \o [i \in 1..k |-> Line("unknown", lost[i])]
    /\ synced' = IF k = 0 \/ "unknown" \notin SyncedOps THEN synced ELSE Len(log')
    /\ torn' = FALSE
    /\ UNCHANGED <<history, ioErrors, shortWrites>>

Open ==
    /\ ~up
    /\ \E lost \in InAcceptOrder(log, WithStatus(log, "running")) :
           Settles(lost, Cardinality(WithStatus(log, "running")))
    /\ \E waiting \in InAcceptOrder(log, WithStatus(log, "queued")) :
           pending' = waiting
    /\ up' = TRUE
    /\ status' = [id \in Ids |->
                    IF ReplayStatus(log, id) = "running" THEN "unknown"
                    ELSE ReplayStatus(log, id)]
    /\ receipt' = [id \in Ids |-> ReplayReceipt(log, id)]
    /\ nextSeq' = ReplayNextSeq(log)
    /\ running' = 0
    /\ active' = {}
    /\ UNCHANGED stops

\* The daemon dies inside the constructor, between two `unknown' lines.
OpenDies ==
    /\ ~up /\ stops < MaxStops
    /\ stops' = stops + 1
    /\ \E lost \in InAcceptOrder(log, WithStatus(log, "running")) :
          \E k \in 0..(Cardinality(WithStatus(log, "running")) - 1) :
              Settles(lost, k)
    /\ UNCHANGED memory

Next ==
    \/ \E id \in Ids : \/ Enqueue(id) \/ EnqueueKnown(id) \/ EnqueueThrows(id)
                       \/ Start(id) \/ StartThrows(id)
                       \/ \E op \in {"done", "failed"} : End(id, op)
                       \/ EndThrows(id)
    \/ Crash \/ Close \/ Open \/ OpenDies

Spec == Init /\ [][Next]_vars

\* The drain loop runs after every submit, turn and session end; the service
\* manager restarts the daemon; every turn is bounded, so it ends.
Fairness ==
    /\ WF_vars(Open)
    /\ \A id \in Ids : /\ WF_vars(Start(id))
                       /\ WF_vars(\E op \in {"done", "failed"} : End(id, op))

FairSpec == Spec /\ Fairness

-----------------------------------------------------------------------------
TypeOK ==
    /\ log \in Seq(Lines) /\ synced \in 0..Len(log) /\ torn \in BOOLEAN
    /\ up \in BOOLEAN
    /\ status \in [Ids -> Statuses] /\ receipt \in [Ids -> Nat]
    /\ pending \in Seq(Ids) /\ running \in Nat /\ nextSeq \in Nat \ {0}
    /\ active \subseteq Ids
    /\ acked \in [Ids -> Nat] /\ runs \in [Ids -> Nat]
    /\ stops \in 0..MaxStops /\ ioErrors \in 0..MaxIoErrors
    /\ shortWrites \in 0..MaxShortWrites

(* "never runs twice", "a started one is never resent": the text of a      *)
(* request reaches an agent at most once, whatever is killed, cut off or   *)
(* restarted in between.                                                   *)
RunsAtMostOnce == \A id \in Ids : runs[id] <= 1

(* "an accepted item is on disk": what a power cut at this moment would    *)
(* leave of the file still knows every id whose caller holds a receipt,    *)
(* and rebuilds that same receipt.                                         *)
OnDisk == SubSeq(log, 1, synced)
AcceptedIsOnDisk ==
    \A id \in Ids : acked[id] # 0 => /\ ReplayStatus(OnDisk, id) # "none"
                                     /\ ReplayReceipt(OnDisk, id) = acked[id]

(* A restart forgets and invents nothing: replaying the file now would     *)
(* rebuild exactly the Map, the line of waiting ids and the next sequence  *)
(* number the running daemon holds.                                        *)
MemoryIsReplay ==
    up => /\ \A id \in Ids : /\ status[id] = ReplayStatus(log, id)
                             /\ receipt[id] = ReplayReceipt(log, id)
          /\ pending \in InAcceptOrder(log, WithStatus(log, "queued"))
          /\ nextSeq = ReplayNextSeq(log)

(* The throttle counts the turns in flight, no more and no fewer, so it    *)
(* neither lets an extra one start nor keeps a free slot closed.           *)
ThrottleIsExact == running = Cardinality(active) /\ running <= StartLimit

(* Even when writes throw, no more turns are in flight than the throttle   *)
(* allows (it may count a turn whose end could not be written).            *)
ThrottleNeverOverAdmits == Cardinality(active) <= running /\ running <= StartLimit

(* "Items start in acceptance order", over every restart: when an id's     *)
(* turn starts, no id accepted before it is still waiting.                 *)
StartsInAcceptanceOrder ==
    [][\A id, older \in Ids :
          (runs'[id] > runs[id] /\ 0 < acked[older] /\ acked[older] < acked[id])
              => status[older] # "queued"]_vars

(* "a known requestId returns its original receipt": what a caller is      *)
(* given for an id never changes, in this daemon or the next.              *)
ReceiptsAreStable ==
    [][\A id \in Ids : acked[id] # 0 => acked'[id] = acked[id]]_vars

(* An accepted item has no outcome yet: neither did it run to an end nor    *)
(* did a restart report it unknown.  A write that fails may leave it so.   *)
Unsettled ==
    /\ ioErrors + shortWrites = 0
    /\ \E id \in Ids :
           acked[id] # 0 /\ ~(up /\ status[id] \in {"done", "failed", "unknown"})

-----------------------------------------------------------------------------
(* What the queue promises, abstractly.  While no daemon runs, an item     *)
(* that was in flight already counts as unknown, and the waiting ones      *)
(* stand in the order the file accepted them.                              *)
AbstractPhase ==
    [id \in Ids |->
        IF up THEN status[id]
        ELSE IF ReplayStatus(log, id) = "running" THEN "unknown"
        ELSE ReplayStatus(log, id)]

AbstractLine ==
    IF up THEN pending
    ELSE CHOOSE p \in InAcceptOrder(log, WithStatus(log, "queued")) : TRUE

Once == INSTANCE OnceQueue WITH phase <- AbstractPhase, line <- AbstractLine
ImplementsOnceQueue == Once!Spec
=============================================================================
