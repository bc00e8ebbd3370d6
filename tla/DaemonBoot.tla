------------------------------ MODULE DaemonBoot ------------------------------
(***************************************************************************)
(* What a crash leaves of the daemon's work and what the next boot makes   *)
(* of it: the session journal (daemon/session-journal.ts), the pool's      *)
(* journaling of sessions, turns and tool calls (daemon/agent-pool.ts),    *)
(* the durable queue's hand-over to the pool, and the order of the boot    *)
(* (daemon/index.ts), with EIGHT_RESUME_ON_BOOT=1 and                      *)
(* EIGHT_AUTO_CONTINUE=1.                                                  *)
(*                                                                         *)
(* On disk: the journal, the newest checkpoint of the lineage each entry   *)
(* names, the queue, and whether the usage limits are reached              *)
(* (providers/usage-monitor.ts).  In memory: the rest, lost by Crash.      *)
(* One step is what runs between two awaits; a death inside a step is a    *)
(* death right after it.  The line of messages behind a busy session is    *)
(* AgentPool's: here a message to a busy session is sent when its turn     *)
(* comes, except a continuation, which waits.                              *)
(***************************************************************************)
EXTENDS Integers, FiniteSets, SequencesExt

CONSTANTS
    Sessions,
    Turns,       \* the texts sent, each once
    NoTurn,
    Items,       \* the turns that come through the queue ({}: the queue is off)
    Target,      \* Target[t]: the session turn t is for
    MaxAttempts, \* continuations of one turn (maxAttempts)
    MaxCrashes,  \* bound: crashes of the daemon
    BootCrashes, \* a crash may also hit the boot
    Recreate,    \* an id may be created again while its old turn still ends
    Failures,    \* sessions may fail to be recreated or restored at boot
    Budgeted     \* turns may use up the daily or weekly usage limits

ASSUME BootAssumption ==
    /\ Items \subseteq Turns /\ NoTurn \notin Turns
    /\ Target \in [Turns -> Sessions]
    /\ MaxAttempts \in Nat /\ MaxCrashes \in Nat
    /\ {BootCrashes, Recreate, Failures, Budgeted} \subseteq BOOLEAN

VARIABLES
    journal,  \* disk: session -> its entry, for the journaled sessions
    line,     \* disk: the accepted items no session has started
    spent,    \* disk: usage.json says a limit is reached
    stage,    \* where the daemon is between boot and crash
    pool,     \* session -> its agent, for the live sessions
    running,  \* the chat() calls that have not ended
    toSettle, \* settleInterruptedToolCalls: the entries' calls, as it read them
    toResume, \* continueInterruptedTurns: the entries it has yet to reach
    drainDue, \* a drainQueue is due (a microtask, or submit's own call)
    crashes,  \* history: crashes so far
    sent,     \* history: turns the clients have sent
    runs,     \* history: how often each turn was started
    cut,      \* history: turns a crash cut in the middle of a write
    refused   \* history: turns this boot was to continue and the limit refused

disk == <<journal, line, spent>>
boot == <<toSettle, toResume>>
history == <<crashes, sent, runs, cut, refused>>
bootVars == <<journal, line, spent, stage, pool, running, toSettle, toResume, drainDue,
          crashes, sent, runs, cut, refused>>

Kinds == {"read", "write"}
Stages == {"down", "constructed", "settling", "continuing", "serving"}

(* What a conversation holds: the turns said in it, and the notes that the
   write of a turn was cut off and not run again. *)
Facts == [what: {"said", "note"}, turn: Turns]
Said(t) == [what |-> "said", turn |-> t]
Note(t) == [what |-> "note", turn |-> t]

\* A tool call that has started: the turn it belongs to, and its replay class.
ToolCalls == [turn: Turns, again: BOOLEAN, kind: Kinds]

(* A journal entry.  ckpt is the newest checkpoint under the entry's
   ttSessionId; a lineage with none restores to nothing, so both are {}. *)
Entries == [turn: Turns \cup {NoTurn}, attempts: Nat, calls: SUBSET ToolCalls,
            ckpt: SUBSET Facts]
FreshEntry == [turn |-> NoTurn, attempts |-> 0, calls |-> {}, ckpt |-> {}]

\* A live session's agent: its history, and whether the entry names its lineage.
Agents == [history: SUBSET Facts, named: BOOLEAN]

(* A chat() call.  at: its session's entry is the live one, was replaced by
   another createSession, or was destroyed (and the agent aborted). *)
Runs == [turn: Turns, again: BOOLEAN, at: {"live", "replaced", "destroyed"},
         phase: {"waiting", "running", "ended"}, call: Kinds \cup {"none"},
         oneShot: BOOLEAN]

Run(t, again, phase, oneShot) ==
    [turn |-> t, again |-> again, at |-> "live", phase |-> phase,
     call |-> "none", oneShot |-> oneShot]

On(s) == {r \in running : Target[r.turn] = s}
OnEntry(s) == {r \in On(s) : r.at = "live" /\ r.phase # "ended"}
Busy(s) == OnEntry(s) # {}

\* The turn of a run that is known to the disk as a call: markToolStart's record.
CallOf(r) == [turn |-> r.turn, again |-> r.again, kind |-> r.call]

(***************************************************************************)
(* The journal's writes.  All but upsert are no-ops for a session that is  *)
(* not journaled.                                                          *)
(***************************************************************************)
Upsert(j, s, entry) == [x \in DOMAIN j \cup {s} |-> IF x = s THEN entry ELSE j[x]]
Without(f, s) == [x \in DOMAIN f \ {s} |-> f[x]]
Update(j, s, entry) == IF s \in DOMAIN j THEN Upsert(j, s, entry) ELSE j

MarkToolStart(j, s, c) == Update(j, s, [j[s] EXCEPT !.calls = @ \cup {c}])
MarkToolEnd(j, s, c) == Update(j, s, [j[s] EXCEPT !.calls = @ \ {c}])
ClearInFlight(j, s) == Update(j, s, [j[s] EXCEPT !.calls = {}])
MarkTurnStart(j, s, t) == Update(j, s, [j[s] EXCEPT !.turn = t, !.attempts = 0])
MarkTurnEnd(j, s) == Update(j, s, [j[s] EXCEPT !.turn = NoTurn, !.attempts = 0])

-----------------------------------------------------------------------------
BootInit ==
    /\ journal = << >> /\ pool = << >> /\ line = << >> /\ spent = FALSE
    /\ stage = "serving" /\ running = {} /\ drainDue = FALSE
    /\ toSettle = << >> /\ toResume = {}
    /\ crashes = 0 /\ sent = {} /\ cut = {} /\ refused = {} /\ runs = [t \in Turns |-> 0]

(* The event loop is free: no microtask is pending, and the boot is not in
   the middle of its synchronous part. *)
Free == ~drainDue /\ stage \in {"constructed", "settling", "serving"}

\* createSession(): a new agent, and a new journal entry over any older one.
Created(s) ==
    /\ pool' = Upsert(pool, s, [history |-> {}, named |-> TRUE])
    /\ journal' = Upsert(journal, s, FreshEntry)

\* The entry object of s is no longer the one in the pool's map.
Cast(s, fate) ==
    {IF Target[r.turn] = s /\ r.at = "live" THEN [r EXCEPT !.at = fate] ELSE r :
        r \in running}

CreateSession(s) ==
    /\ Free /\ stage = "serving" /\ s \notin DOMAIN pool
    /\ Recreate \/ On(s) = {}
    /\ Created(s)
    /\ UNCHANGED <<line, spent, stage, running, drainDue, boot, history>>

\* chat() up to the model: the turn is journaled before anything is shown.
Begin(t, j, p, rs, oneShot) ==
    LET s == Target[t]
    IN  /\ journal' = MarkTurnStart(j, s, t)
        /\ pool' = [p EXCEPT ![s].history = @ \cup {Said(t)}]
        /\ running' = rs \cup {Run(t, FALSE, "running", oneShot)}
        /\ runs' = [runs EXCEPT ![t] = @ + 1]

ClientSends(t) ==
    /\ Free /\ stage = "serving"
    /\ t \notin Items \cup sent /\ Target[t] \in DOMAIN pool /\ ~Busy(Target[t])
    /\ sent' = sent \cup {t}
    /\ UNCHANGED <<line, spent, stage, boot, crashes, cut, refused>>

Send(t) ==
    /\ ClientSends(t) /\ ~spent
    /\ Begin(t, journal, pool, running, FALSE)
    /\ UNCHANGED drainDue

\* At the usage limit chat() answers without a turn, before it journals one.
SendRefused(t) ==
    /\ ClientSends(t) /\ spent
    /\ drainDue' = (Items # {})
    /\ UNCHANGED <<journal, pool, running, runs>>

\* The call is journaled without what it is.
ToolStarts_Blank(r, kind) ==
    /\ Free
    /\ r \in running /\ r.phase = "running" /\ r.call = "none" /\ r.at # "destroyed"
    /\ running' = (running \ {r}) \cup {[r EXCEPT !.call = kind]}
    /\ journal' = MarkToolStart(journal, Target[r.turn], CallOf(r))
    /\ UNCHANGED <<line, spent, stage, pool, drainDue, boot, history>>

ToolStarts(r, kind) ==
    /\ Free
    /\ r \in running /\ r.phase = "running" /\ r.call = "none" /\ r.at # "destroyed"
    /\ LET started == [r EXCEPT !.call = kind]
       IN  /\ running' = (running \ {r}) \cup {started}
           /\ journal' = MarkToolStart(journal, Target[r.turn], CallOf(started))
    /\ UNCHANGED <<line, spent, stage, pool, drainDue, boot, history>>

ToolEnds(r) ==
    /\ Free
    /\ r \in running /\ r.phase = "running" /\ r.call # "none"
    /\ running' = (running \ {r}) \cup {[r EXCEPT !.call = "none"]}
    /\ journal' = MarkToolEnd(journal, Target[r.turn], CallOf(r))
    /\ UNCHANGED <<line, spent, stage, pool, drainDue, boot, history>>

(* The interval policy cuts a checkpoint of the agent's whole history under
   its own lineage; the journal finds it only if its entry names that one. *)
Checkpoint(r) ==
    /\ Free
    /\ r \in running /\ r.phase = "running" /\ r.at = "live"
    /\ LET s == Target[r.turn]
       IN  /\ s \in DOMAIN journal /\ pool[s].named
           /\ journal' = [journal EXCEPT ![s].ckpt = pool[s].history]
    /\ UNCHANGED <<line, spent, stage, pool, running, drainDue, boot, history>>

\* A session's conversation grows by F.
Says(p, s, F) ==
    [x \in DOMAIN p |-> IF x = s THEN [p[x] EXCEPT !.history = @ \cup F] ELSE p[x]]

(* The end of chat(): what the turn used is recorded, and may reach a limit.
   Its finally drops the calls and the turn by session id, then release hands
   the session to the one that waits, who is refused if a limit is reached. *)
TurnEnds(r) ==
    /\ Free
    /\ r \in running /\ r.phase = "running"
    /\ spent' \in {spent, spent \/ Budgeted}
    /\ LET s == Target[r.turn]
           left == IF r.turn \in Items /\ ~r.again
                   THEN {[r EXCEPT !.phase = "ended", !.call = "none"]} ELSE {}
           next == {w \in OnEntry(s) : w.phase = "waiting" /\ r.at = "live"}
           started == IF spent' THEN {} ELSE next
       IN  /\ journal' = MarkTurnEnd(ClearInFlight(journal, s), s)
           /\ running' = (running \ ({r} \cup next)) \cup left
                           \cup {[w EXCEPT !.phase = "running"] : w \in started}
           /\ runs' = [t \in Turns |->
                         runs[t] + Cardinality({w \in started : w.turn = t})]
           /\ pool' = Says(pool, s, {Said(w.turn) : w \in started})
           /\ refused' = refused \cup {w.turn : w \in next \ started}
    /\ drainDue' = (Items # {})
    /\ UNCHANGED <<line, stage, boot, crashes, sent, cut>>

\* The limits are per day and per week, and may be raised.
LimitsReset ==
    /\ spent
    /\ spent' = FALSE
    /\ UNCHANGED <<journal, line, stage, pool, running, drainDue, boot, history>>

\* destroySession() without unjournal().
Destroyed_LeftInJournal(s) == pool' = Without(pool, s) /\ UNCHANGED journal

\* destroySession(): by a client, the idle timer or an eviction.
Destroyed(s) ==
    /\ pool' = Without(pool, s)
    /\ journal' = Without(journal, s)

Destroy(s) ==
    /\ Free /\ stage = "serving" /\ s \in DOMAIN pool
    /\ Destroyed(s)
    /\ running' = {r \in Cast(s, "destroyed") : ~(r.at = "destroyed" /\ r.phase = "waiting")}
    /\ drainDue' = (Items # {})
    /\ UNCHANGED <<line, spent, stage, boot, history>>

-----------------------------------------------------------------------------
(* The durable queue.  Its file and its statuses are WorkQueue's; here an item
   is in line until it is started, and what has started is never in line again. *)

Submit(t) ==
    /\ Free /\ stage = "serving" /\ t \in Items \ sent
    /\ sent' = sent \cup {t}
    /\ line' = Append(line, t)
    /\ drainDue' = TRUE
    /\ UNCHANGED <<journal, spent, stage, pool, running, boot, crashes, runs, cut, refused>>

HeadMayStart == line # << >> /\ ~Busy(Target[Head(line)])

\* A drain comes at an await, and the boot continues the turns without one.
DrainRuns == drainDue /\ stage # "continuing"

\* drainQueue takes the head: a new session for it, or its session if idle.
DrainStarts ==
    /\ DrainRuns /\ HeadMayStart /\ ~spent
    /\ LET t == Head(line)
           s == Target[t]
       IN  IF s \in DOMAIN pool
           THEN Begin(t, journal, pool, running, FALSE)
           ELSE Begin(t, Upsert(journal, s, FreshEntry),
                      Upsert(pool, s, [history |-> {}, named |-> TRUE]), running, TRUE)
    /\ line' = Tail(line)
    /\ UNCHANGED <<spent, stage, drainDue, boot, crashes, sent, cut, refused>>

\* The head is taken and refused at the usage limit: it failed without a turn.
DrainRefused ==
    /\ DrainRuns /\ HeadMayStart /\ spent
    /\ LET t == Head(line)
           s == Target[t]
       IN  /\ running' = running \cup {Run(t, FALSE, "ended", s \notin DOMAIN pool)}
           /\ IF s \in DOMAIN pool THEN UNCHANGED <<journal, pool>> ELSE Created(s)
    /\ line' = Tail(line)
    /\ UNCHANGED <<spent, stage, drainDue, boot, history>>

DrainStops ==
    /\ DrainRuns /\ ~HeadMayStart
    /\ drainDue' = FALSE
    /\ UNCHANGED <<disk, stage, pool, running, boot, history>>

\* The item's .then: a session made for it is destroyed once it is idle.
ItemEnds(r) ==
    /\ Free
    /\ r \in running /\ r.phase = "ended"
    /\ LET s == Target[r.turn]
       IN  IF /\ r.oneShot /\ s \in DOMAIN pool /\ ~Busy(s)
              /\ \A i \in DOMAIN line : Target[line[i]] # s
           THEN Destroyed(s) ELSE UNCHANGED <<journal, pool>>
    /\ running' = running \ {r}
    /\ drainDue' = TRUE
    /\ UNCHANGED <<line, spent, stage, boot, history>>

-----------------------------------------------------------------------------
(* Crash and boot. *)

Crash ==
    /\ stage # "down" /\ (stage = "serving" \/ BootCrashes)
    /\ crashes < MaxCrashes
    /\ crashes' = crashes + 1
    /\ cut' = cut \cup {r.turn : r \in {x \in running : x.call = "write"}}
    /\ stage' = "down" /\ pool' = << >> /\ running' = {} /\ drainDue' = FALSE
    /\ toSettle' = << >> /\ toResume' = {} /\ refused' = {}
    /\ UNCHANGED <<disk, sent, runs>>

\* new AgentPool(): the queue's drain is a microtask, so it comes before the resume.
Boot ==
    /\ stage = "down"
    /\ stage' = "constructed"
    /\ drainDue' = (Items # {})
    /\ UNCHANGED <<disk, pool, running, boot, history>>

Interrupted(j) == {s \in DOMAIN j : j[s].turn # NoTurn}

(* resumeJournaledSessions: every journaled session is created, over a live
   one too, and restored.  lost: createSession threw.  broken: the restore
   failed, and the entry goes on naming the old lineage. *)
Resumed(lost, broken) ==
    [s \in DOMAIN pool \cup (DOMAIN journal \ lost) |->
        IF s \in DOMAIN journal \ lost
        THEN [history |-> IF s \in broken THEN {} ELSE journal[s].ckpt,
              named |-> s \notin broken]
        ELSE pool[s]]

\* The entry is moved to the new lineage before the restore is known to work.
Resume_MovedFirst ==
    /\ stage = "constructed" /\ ~drainDue
    /\ \E broken \in SUBSET DOMAIN journal :
        /\ Failures \/ broken = {}
        /\ pool' = Resumed({}, broken)
        /\ journal' = [s \in DOMAIN journal |->
                         [journal[s] EXCEPT !.ckpt = pool'[s].history]]
    /\ toSettle' = [s \in {x \in DOMAIN journal : journal[x].calls # {}} |-> journal[s].calls]
    /\ stage' = "settling"
    /\ UNCHANGED <<line, spent, running, toResume, drainDue, history>>

Resume ==
    /\ stage = "constructed" /\ ~drainDue
    /\ \E lost \in SUBSET DOMAIN journal, broken \in SUBSET DOMAIN journal :
        /\ Failures \/ (lost = {} /\ broken = {})
        /\ pool' = Resumed(lost, broken)
        /\ running' = {IF Target[r.turn] \in DOMAIN journal \ lost
                       THEN [r EXCEPT !.at = "replaced"] ELSE r : r \in running}
    /\ toSettle' = [s \in {x \in DOMAIN journal : journal[x].calls # {}} |-> journal[s].calls]
    /\ stage' = "settling"
    /\ UNCHANGED <<disk, toResume, drainDue, history>>

(* settleInterruptedToolCalls, one entry: reads are run again, the rest only
   reported in a note; then the journal's in-flight list is cleared. *)
Settle(s) ==
    /\ Free /\ stage = "settling" /\ s \in DOMAIN toSettle
    /\ toSettle' = Without(toSettle, s)
    /\ IF s \in DOMAIN pool
       THEN /\ pool' = [pool EXCEPT ![s].history = @ \cup
                          {Note(c.turn) : c \in {x \in toSettle[s] : x.kind = "write"}}]
            /\ journal' = ClearInFlight(journal, s)
       ELSE UNCHANGED <<pool, journal>>
    /\ UNCHANGED <<line, spent, stage, running, toResume, drainDue, history>>

\* The boot does not await settleInterruptedToolCalls.
Settled_NotAwaited ==
    /\ Free /\ stage = "settling"
    /\ stage' = "continuing"
    /\ toResume' = Interrupted(journal)
    /\ UNCHANGED <<disk, pool, running, toSettle, drainDue, history>>

Settled ==
    /\ Free /\ stage = "settling" /\ DOMAIN toSettle = {}
    /\ stage' = "continuing"
    /\ toResume' = Interrupted(journal)
    /\ UNCHANGED <<disk, pool, running, toSettle, drainDue, history>>

\* chat() with the continuation of t: it waits in line, runs or is refused.
Resent(s, t) ==
    \/ /\ Busy(s)
       /\ running' = running \cup {Run(t, TRUE, "waiting", FALSE)}
       /\ UNCHANGED <<pool, runs, refused, drainDue>>
    \/ /\ ~Busy(s) /\ ~spent
       /\ running' = running \cup {Run(t, TRUE, "running", FALSE)}
       /\ runs' = [runs EXCEPT ![t] = @ + 1]
       /\ pool' = Says(pool, s, {Said(t)})
       /\ UNCHANGED <<refused, drainDue>>
    \/ /\ ~Busy(s) /\ spent
       /\ refused' = refused \cup {t}
       /\ drainDue' = (Items # {})
       /\ UNCHANGED <<pool, running, runs>>

\* The continuation takes the turn off the disk before it runs it.
Continues_Consumed(s) ==
    /\ journal[s].attempts < MaxAttempts
    /\ journal' = MarkTurnEnd(journal, s)
    /\ Resent(s, journal[s].turn)

\* The attempt is not journaled before the run.
Continues_NotCounted(s) ==
    /\ journal[s].attempts < MaxAttempts
    /\ UNCHANGED journal
    /\ Resent(s, journal[s].turn)

\* The attempt is journaled, then the continuation is sent; its reply is ignored.
Continues(s) ==
    /\ journal[s].attempts < MaxAttempts
    /\ journal' = [journal EXCEPT ![s].attempts = @ + 1]
    /\ Resent(s, journal[s].turn)

\* An abandoned turn stays in the journal.
Abandons_LeftPending(s) ==
    /\ journal[s].attempts >= MaxAttempts
    /\ UNCHANGED <<journal, pool, running, runs, refused, drainDue>>

Abandons(s) ==
    /\ journal[s].attempts >= MaxAttempts
    /\ journal' = MarkTurnEnd(journal, s)
    /\ UNCHANGED <<pool, running, runs, refused, drainDue>>

ContinueOne(s) ==
    /\ stage = "continuing" /\ s \in toResume
    /\ toResume' = toResume \ {s}
    /\ IF s \notin DOMAIN pool
       THEN UNCHANGED <<journal, pool, running, runs, refused, drainDue>>
       ELSE Continues(s) \/ Abandons(s)
    /\ UNCHANGED <<line, spent, stage, toSettle, crashes, sent, cut>>

\* The gateway starts: clients reach the pool from here on.
Serve ==
    /\ stage = "continuing" /\ toResume = {}
    /\ stage' = "serving"
    /\ UNCHANGED <<disk, pool, running, boot, drainDue, history>>

ItemStep == DrainStarts \/ DrainRefused \/ DrainStops \/ (\E r \in running : ItemEnds(r))
TurnStep == \E r \in running : TurnEnds(r)

BootStep ==
    \/ Boot \/ Resume \/ Settled \/ Serve
    \/ \E s \in Sessions : Settle(s) \/ ContinueOne(s)

BootNext ==
    \/ \E s \in Sessions : CreateSession(s) \/ Destroy(s)
    \/ \E t \in Turns : Send(t) \/ SendRefused(t) \/ Submit(t)
    \/ \E r \in running :
         \/ \E kind \in Kinds : ToolStarts(r, kind)
         \/ ToolEnds(r) \/ Checkpoint(r)
    \/ TurnStep \/ ItemStep \/ BootStep \/ LimitsReset \/ Crash

BootSpec == BootInit /\ [][BootNext]_bootVars

(* The boot is one async function that nothing cancels, and every turn ends:
   agent.chat() resolves or throws, whatever tool calls and drains come between
   (hence SF: they disable its end for the moment).  There are finitely many
   turns, so as long as one of those that run ends they all do. *)
FairSpec ==
    /\ BootSpec
    /\ WF_bootVars(BootStep)
    /\ SF_bootVars(TurnStep)
    /\ WF_bootVars(ItemStep)

-----------------------------------------------------------------------------
BootTypeOK ==
    /\ DOMAIN journal \subseteq Sessions
    /\ \A s \in DOMAIN journal : journal[s] \in Entries
    /\ line \in Seq(Items) /\ IsInjective(line)
    /\ stage \in Stages
    /\ DOMAIN pool \subseteq Sessions
    /\ \A s \in DOMAIN pool : pool[s] \in Agents
    /\ running \subseteq Runs
    /\ DOMAIN toSettle \subseteq Sessions
    /\ \A s \in DOMAIN toSettle : toSettle[s] \subseteq ToolCalls
    /\ toResume \subseteq Sessions
    /\ drainDue \in BOOLEAN /\ crashes \in 0..MaxCrashes
    /\ sent \subseteq Turns /\ cut \subseteq Turns /\ runs \in [Turns -> Nat]
    /\ spent \in BOOLEAN /\ refused \subseteq Turns

(* A turn that a crash cut in the middle of a write, and that is continued,
   runs on a conversation that says the write was not run again
   (session-journal.ts:28-37). *)
EveryCutWriteIsWarned ==
    \A r \in running :
        r.again /\ r.turn \in cut /\ r.at = "live" /\ r.phase = "running"
            => Note(r.turn) \in pool[Target[r.turn]].history

(* What the boot does never costs a session the checkpoint its entry leads
   to: a failed restore, or a crash, is retried at the next start
   (session-journal.ts:387-390). *)
CheckpointsSurvive ==
    [][stage # "serving" =>
        \A s \in DOMAIN journal :
            /\ s \in DOMAIN journal'
            /\ journal[s].ckpt \subseteq journal'[s].ckpt]_bootVars

(* Once clients are served the journal names the live sessions and no other:
   a crash brings back every open session and no ended one
   (session-journal.ts:5-8). *)
JournalIsTheLiveSessions ==
    stage = "serving" => DOMAIN journal = DOMAIN pool

(* What runs on a live session is on disk, the turn and its tool call, so that a
   crash can continue the one and report the other (agent-pool.ts:725-727). *)
RunningTurnsAreOnDisk ==
    \A r \in running :
        LET s == Target[r.turn]
        IN  r.at = "live" /\ r.phase = "running"
                => /\ s \in DOMAIN journal
                   /\ journal[s].turn = r.turn
                   /\ r.call # "none" => CallOf(r) \in journal[s].calls

(* However often the daemon crashes, a turn is run once and continued at most
   MaxAttempts times (session-journal.ts:25-28). *)
ContinuationsAreBounded == \A t \in Turns : runs[t] <= 1 + MaxAttempts

(* An item that had started when the daemon died is never sent again: once it
   has been started and no run of it is left, none begins (queue.ts:10-11). *)
UnknownItemsNeverRunAgain ==
    [][\A t \in Items :
        runs'[t] > runs[t] =>
            runs[t] = 0 \/ \E r \in running : r.turn = t /\ r.phase # "ended"]_bootVars

(* A turn never has two runs at once: continueInterruptedTurns is for turns that
   were still pending at the crash (session-journal.ts:25-26). *)
OneRunPerTurn ==
    \A r1, r2 \in running :
        r1.turn = r2.turn /\ r1.phase = "running" /\ r2.phase = "running" => r1 = r2

Pending(t) == Target[t] \in DOMAIN journal /\ journal[Target[t]].turn = t

(* A turn pending on disk when the daemon is down is not pending for ever: the
   next boot continues it to its end, or gives it up (session-journal.ts:19-28),
   unless it was to continue it and the usage limit refused it. *)
InterruptedTurnsAreSettled ==
    \A t \in Turns :
        (stage = "down" /\ Pending(t)) ~> (~Pending(t) \/ t \in refused)

(* Once clients are served, a turn pending on disk is one that runs or waits to:
   a turn is journaled as it starts and dropped as it ends, and one a crash left
   pending was sent again by the boot, or given up (session-journal.ts:21-28). *)
PendingTurnsAreRunning ==
    stage = "serving" =>
        \A t \in Turns :
            Pending(t) => \E r \in running : r.turn = t /\ r.phase # "ended"

=============================================================================
