# A TLA+ model of 8gent-code

8gent-code is an AI coding assistant: a terminal UI and other surfaces talk
over a WebSocket to a daemon, the daemon keeps one agent per session, and an
agent runs turns of model calls and tools. This directory models the parts of
it that must be right while several things happen at once or a process dies:
who runs which turn on which session, what is on disk when, and what a restart
makes of it. Paths below are relative to `src/packages/` unless they start
with `src/`.

Contents: 1 the system, 2 the modules, 3 the runs, 4 the proofs,
5 disagreements found, 6 what is left out, 7 the plan.

## 1. The system

### Components, state, operations

| component | state | operations | hard behaviours |
|---|---|---|---|
| durable work queue, `daemon/queue.ts` | disk: an append-only JSONL file of `accept`, `start`, `end`, `unknown` lines; memory: the items Map, the line of waiting ids, the start counter, the next seq | enqueue, peek, markStarted, markEnded, open (replay), close | kill, power cut (lines not fsynced), a second crash while opening, writes that throw or are cut short |
| its lock, `daemon/queue.ts:77-180` | the file `<queue>.lock` with a pid | createLock, acquireLock, releaseLock | several daemons start on one data dir; stale locks; a kill between two system calls |
| agent pool, `daemon/agent-pool.ts` | per session: the live entry, `busy`, the line of waiters, seen message ids; the pool's cap and per-channel caps; attached clients | chat, abort, createSession, destroySession, setInUse, cleanupIdleSessions, submit, drainQueue | a call awaits (gate, line, model) while its session is aborted, destroyed or created again; hand-over of the session to a waiter; redelivered messages; evictions; lost wake-ups of the drain |
| session journal, `daemon/session-journal.ts`, and boot, `daemon/index.ts:286-313` | disk: per open session its pending turn, continuation attempts, tool calls in flight, checkpoint lineage | upsert, markTurnStart/End, markToolStart/End, remove; resumeJournaledSessions, settleInterruptedToolCalls, continueInterruptedTurns | crash while serving or booting, crash loops, tool calls cut in the middle, the queue's drain running before the resume |
| durable run, `durable-run/*.ts` | disk (SQLite): the transcript by seq, the effect ledger | ask, step, append, ledger.get/intent/claim/done, durableTool | several processes on one file, death at every statement |
| gateway, `daemon/gateway.ts` | connections, sessions per connection | auth, session:create/resume/destroy, prompt, approvals | clients vanish at any moment |
| wake router, `daemon/wake-router.ts`, `wake-wiring.ts` | memory: the queue of triggers, dedupe windows, the batch in flight, held urgent events and their overflow count; disk: the held file, payload files | submit, pump (drain, handleBatch), hold, release, loadHeld, stash with pruning | a background turn pre-empted by the owner, a drain chain that rejects, quiet hours, failed saves, kills |
| goal loop, `goal/*.ts`, under its manager, `daemon/goal-rpc.ts` | memory: run state, counters, the subgoal to inject; disk: event rows, the run's row, a hash-chained ledger | start, the turns and verdicts of the loop, injectSubgoal, abort, resume | abort at any await, a kill between two writes, a run that ends while something is injected |
| board plane, `board-plane/*.ts`, and its vessels, `board-vessel/vessel-client.ts` | SQLite: tasks with status, retries, assignedAt; memory: links | create, assign, complete, fail, recoverStale, health tick; connect, handleTask | links that drop, replies lost, a stale task answered by two vessels, restarts of the plane |
| channel approvals, `daemon/channel-approvals.ts` | pending prompts, the live prompt of each session, allowances | request, respond, endSession | presses that arrive late or out of order, a prompt replaced by the next, an allowance that outlives its session |
| shared sessions, `daemon/shared-sessions.ts` | who sees which session | list, attach, detach, abort | several surfaces on one session |
| memory consolidation queue, `memory/queue.ts` | SQLite jobs with leases | enqueue, lease, complete, fail | an expired lease whose worker still finishes |
| worktree pool, `orchestration/worktree-pool.ts` | running count, waiters, worktrees | spawn, startTask, cleanup | a counter updated after an await |
| the Table's floor, `table/floor.ts`, with `daemon/huddle-*.ts` around it | the ring of speakers and the place the round has reached, raised hands, the turn with its phase, five timers | open, raise, invite, drop, cut, yield, close, message; answers, narrations and timers | late answers and narrations, members who come and go in the middle of a round, several budgets under one ceiling, people who leave |
| the Table's store, `table/store.ts` | channels, members, messages (SQLite) | post, join | |
| agent loop, `eight/agent.ts`; providers, `providers/*.ts` | conversation, checkpoints | chat, abort, restore, failover | model output |
| permissions, `permissions/*.ts`, `decide/*.ts` | policies, approvals | evaluate a command | pattern matching over text |
| tools, cron, hooks, MCP, kernel, g8way, control plane, voice, UI ... | | | see section 6 |

### How they interact

Clients reach the pool through the gateway (any message, any order, any time).
`AgentPool.submit` puts a work item in the durable queue; `drainQueue` takes
the head when a session, room and a start slot are free, and calls `chat` like
a client; a turn that ends, a session that ends and `submit` itself trigger it,
the pool's release through a microtask. Every session, turn and tool call of
the pool is written to the session journal before it happens. At boot the
pool's constructor opens the queue (which takes the lock, replays the file and
schedules a drain), then `main()` awaits resume, settle and continue before the
gateway listens. A durable run is separate: a library any process may use on
one SQLite file. The wake router, the goal manager and the approval prompts live
in the same daemon and share no state with the pool or with each other: the
gateway calls each, and each talks back through callbacks (speak, runTurn, an
event sink, a promise); a huddle's floor asks a model for an officer's answer and
hears from the stage when its narration starts. The board plane is a server of its
own whose vessels are clients over WebSockets.

### What makes each part correct

* queue: an accepted request is on disk, keeps its receipt, runs at most once,
  in order of acceptance, and gets an outcome; the throttle is exact.
* lock: one writer, whose lock no other start removes; the queue is not left to
  nobody.
* pool: one turn at a time on an agent, first come first served; ended sessions
  stop; each message is answered or refused; a redelivered id does not run
  twice; room is made of idle sessions; no wake-up is lost.
* boot: what runs is on disk; a write that was cut is reported to the model
  before the turn goes on; continuations do not loop; no history is lost to a
  failed restore; a turn is not run beside itself.
* wake router: an urgent trigger is counted until it is announced, and what a
  waiting event points at is not deleted.
* goal loop: an aborted run takes no further turn; its three records agree
  whatever instant the daemon dies at.
* board: a task nobody took back is with one vessel; every task ends.
* approvals: what runs was approved, by its own card or by an allowance that
  covers it; every prompt is settled.
* floor: while a huddle is open someone has the floor and a timer ends the turn;
  a turn says what its own holder said; everyone has one turn in a round.
* durable run: an effect happens once; a step is written once; transcript and
  ledger agree.

## 2. The modules

| module | models | proofs |
|---|---|---|
| `WorkQueue` | the queue and the drain's use of it | `WorkQueueProofs` |
| `OnceQueue` | what the queue promises, abstractly | its refinement, in `WorkQueueProofs` |
| `QueueLock` | the lock file | `SafePartsProofs` |
| `AgentPool` | the pool | `AgentPoolProofs` |
| `DaemonBoot` | journal, queue and pool across crashes and boots | `SafePartsProofs` |
| `DurableRun` | processes on one run | `DurableRunProofs` |
| `WakeRouter` | the wake router and its wiring | `WakeRouterProofs` |
| `GoalRun` | one run of the goal loop, its manager and its records | `GoalBoardProofs` |
| `BoardPlane` | the board's plane, its table and its vessels | `GoalBoardProofs` |
| `ChannelApprovals` | the prompts, allowances and presses | `ChannelApprovalsProofs` |
| `Floor` | the floor of a huddle | `SafePartsProofs` |
| `MCSafeParts` | one instance each of `QueueLock`, `DaemonBoot` and `Floor` | |
| `MCParts` | one instance each of `AgentPool`, `WorkQueue`, `WakeRouter`, `GoalRun`, `BoardPlane`, `ChannelApprovals` | `PartsProofs` |
| other `MC*` | the instances for TLC | |

One JavaScript call between two awaits is one step; in `QueueLock` a step is
one system call, in `DurableRun` one SQL statement or effect, since other
processes interleave there. A death inside a step is a death right after it.
`MCParts` and `MCSafeParts` put together parts that share no state: some
are extended, with their names told apart by a prefix (`BoardNext`, `FloorNext`),
and the four others of `MCParts` are instances (`Pool!`, `Queue!`, `Wake!`,
`Cards!`), of their proof modules, so that `PartsProofs` can cite their theorems.
Operators named `X_Y` (marked *Mutated*) are wrong versions of `X`, kept to
show that the properties notice them; no specification uses them.

**WorkQueue.** `log` is the file's lines, `synced` how many are durable, `torn`
an unterminated tail; `status`, `receipt`, `pending`, `running`, `nextSeq` are
the fields of the class; `active` are the turns in flight, `acked` and `runs`
history. `Enqueue`, `EnqueueKnown`, `Start` (markStarted, then chat), `End`
(markEnded) and `Open` (constructor) are the calls; `EnqueueThrows`,
`StartThrows`, `EndThrows` the same with an I/O error; `Crash`, `Close`,
`OpenDies` the stops. `Write` may land a whole line or, silently, a fragment:
`writeSync`'s count is ignored. A power cut keeps a prefix of the file that
contains all synced lines; the file's directory entry is durable; a line whose
newline alone is missing counts as whole; a short `unknown` line is a crash
before it. `MCWorkQueue!SoundSpec` leaves the three errors out: most promises
are given up by a write that throws (section 5); `parts` has such writes.

**OnceQueue** has two variables, the phase of each request and the line. It
says: accepted once, started from the head and only once, ended once, and a
stop turns what is in flight to unknown and keeps the line. `WorkQueue` implements
it under `AbstractPhase` and `AbstractLine`, which read the disk while no
daemon runs.

**QueueLock.** `lock` is the pid at the path. `Create`, `Read`, `Judge`, `Move`,
`Look`, `Restore` are the calls of acquireLock in order (link, read, kill(pid, 0),
rename, read, link back), `Close` and `Unlink` those of close. `exposed` marks
the documented limit. Pids are not reused.

**AgentPool.** An *entry* is one incarnation of a session; `live` maps a session
to its entry. `call` holds one record per chat() call with its phase: `gate`
(awaiting the slash gate), `waiting` (in the entry's line), `admitted` (handed
the session, its microtask to come), `running`, `done`. A text of the gate is a
slash line, and it is answered there whether its command is known or not
(`input-gate.ts:70-74`, `slash.ts:153-157`): `GateResolves` touches no entry. `Send`, `GateResolves`,
`Resume`, `TurnEnds` are the stretches of chat() between awaits; `Abort`,
`Destroy`, `CleanupIdleSessions`, `Create`, `Attach`, `Detach` the other entry
points; `Submit`, `DrainBegins`, `DrainStarts`, `DrainStops`, `DrainThrows`,
`ItemEnds` the queue's side, with `looping` for a drain under way. A hand-over's
microtask runs before the next event, so `Abort` and `Destroy` wait for it
(`Settled`); a drain's loop is not interleaved with other events.

**DaemonBoot.** `journal` is the file; `pool`, `running` and the boot's own
position (`stage`, `toSettle`, `toResume`) are memory, lost by `Crash`.
`Send`, `ToolStarts`, `ToolEnds`, `Checkpoint`, `TurnEnds`, `CreateSession`,
`Destroy` are the pool's journaled steps; `Boot`, `Resume`, `Settle`, `Settled`,
`ContinueOne`, `Serve` the boot's awaits in order; `Submit`, `DrainStarts`,
`DrainRefused`, `DrainStops`, `ItemEnds` the queue. `spent` is what
`~/.8gent/usage.json` says of the daily and weekly limits, so a boot meets it;
at a limit chat() answers without a turn (`SendRefused`, `DrainRefused`, and a
continuation in `Resent` or in `TurnEnds`, where it was the next in line), and
`refused` keeps the continuations it answered so. `LimitsReset` is a new day, or a
limit that was raised. Journal writes succeed; the pool has room
for every session; waiting lines are AgentPool's matter; the runtime is local,
so the boot's drain does not throw for a missing key.

**DurableRun.** `transcript` and `ledger` are the tables. `Read` decides the
step, `ModelReplies` is the provider, `Gate`, `Check`, `Intent`, `Claim`,
`Effect`, `Done` are durableTool, `Appends` the INSERT OR IGNORE, `Dies` a kill
or a rejected ask. `Calls` are split as the tools declare them: `Safe` (reads),
`Keyed` (the target dedupes), and the rest, `Once`; the run has one call of each
of the last two kinds, and the proofs cover all three. Call ids are unique.

**WakeRouter.** A key is a trigger's dedupe key with its priority and payload.
`queued`, `count`, `known`, `inflight`, `held` are the router's queue, the counts
of its entries, its dedupe windows, the batch in flight and the held map with
the overflow; `rest` is what of the batch the loop has still to do, `out` what a
release has still to say; `due` and `dead` are the promise chain of `pump`: a
drain runs or is chained, or the chain was rejected. `Submit` is submit() with
stash's pruning before it; `Owner`, `BatchTimerFires`, `Drain`, `TurnEnds`,
`Spoken`, `HeldTimerFires`, `HeldSpoken` are the stretches between awaits and
timers; `SaveHeld` may fail, which the code logs and forgets; `Crash` and
`Restart` lose memory and load the file. `owed` counts what was promised: a
trigger that waits for its batch is lost by a kill, and no comment says
otherwise. A batch is handled within the dedupe window (5 s against 10 minutes).

**GoalRun.** `goal` is the loop's run, with what it awaits; `writes` is what the
running code has still to write, in order, so that `Dies` can fall between any
two: rows (`eventRows`), ledger lines (`chain`, `tornEntry`), the run's row
(`runRow`), and the closing of the ledger. `Start`, `AgentReady`, `TurnEnds`,
`JudgeEnds` are the loop from await to await; `InjectSubgoal` and `Abort` the
user. Caps other than turns and dissent may trip at any check. `Resumable` is
what resume() accepts.

**BoardPlane.** `table` is board_tasks; `linked` the plane's connections;
`toVessel` and `toPlane` the messages under way, lost with their link; `work` the
handleTask calls of each vessel, which run beside each other. `Connect` is a
connection up to its `ready`; `Reply` the two answers with the hand-out of the
next task; `HealthTick` the interval; `Ages` the passing of
`staleTaskMaxAgeMs`, bounded by `MaxCopies`.

**ChannelApprovals.** `ask` holds each prompt and what became of it,
`liveBySession` and `allowances` are the class's maps; a press (`Press`) is under
way in `inbox` until `Respond` takes it, in any order, from a socket bound to any
session or none. `era` counts the ends of the session, so that an allowance can
be told from one of an earlier life.

**Floor.** `huddle`, `ring`, `ringPos`, `round`, `raised`, `turn`, `timers` are the
fields of FloorMachine; `awaited` holds what is still to come of the turns, of those
that are over too (`MaxLate` of them): an officer's text, then the start of its
narration, which the daemon's stage reports with its length. Any of them may come
late or never. `Raise`, `Invite`, `Drop`, `Cut`, `Yield`, `CloseHuddle`, `Message` are the
verbs; one with a stale turn id counts as presence alone, as `Message` by somebody
who has not the floor. `AnswerComes`, `NothingToSay`, `NarrationStarts`, `Late` are
the callbacks, `PrepareDeadline` to `WallClock` the timers. Time passes in ticks
(`Tick`) and a timer that is due fires before the next one, in any order with the
rest; only speech synthesis, a subprocess the daemon waits for
(`huddle-voice.ts:164`), holds them up, by up to `SynthesisTime`. `waiting` and
`passed` are history.

**MCParts** is a sum, not a product: `part` chooses one of six specifications
once, the variables of the others stay as they began. It makes one question of
six: does anybody wait for ever, is anything done twice or dropped. `MCSafeParts`
is another such sum, of parts whose safety alone is checked. A sum extends the
modules whose own properties its run checks by name (`QueueLock`, `DaemonBoot` and
`Floor`; `GoalRun`) and instantiates the rest; that is why `DaemonBoot` and `Floor`
put their part's name before the usual ones (`BootSpec`, `FloorSpec`, `BootTypeOK`).

## 3. The runs

| run | question | instance |
|---|---|---|
| `queue_restarts` | does the queue keep the promises of its header over kills, power cuts and clean stops, if no write throws? | 3 requests, 2 at a time, 2 stops |
| `queue_short_write` | is an acknowledged request on disk after a short write? (no) | 2 requests, 1 stop, 1 short write |
| `pool_turns` | turns and lines of one session | 4 messages, line of 2, 2 entries |
| `pool_room` | evictions and wake-ups | 3 sessions, caps of 1 and 2, room for 2, a message and an item, either through the gate |
| `safe_parts` | one writer; what runs is on disk and cut writes are reported; a floor that is held and rounds that are fair | lock: 4 starts, lock absent or stale, 3 attempts; boot: 2 sessions, 2 turns, 2 crashes while serving, failed restores; floor: 2 rounds, a chair agent, 2 officers and 2 humans, one officer named twice in the roster, 2 acts of the humans, 1 late answer, budgets of one tick, 5 ticks in all |
| `floor_ceiling` | does the ceiling spare a healthy turn? (no) | 1 officer, 1 round, the default budgets in ticks of 30 s |
| `boot_crash_loop` | crashes at any point of the boot, ids created again, usage limits reached and reset | 2 sessions, a turn and an item, 2 crashes |
| `boot_budget_strands_turn` | is a turn pending on disk one that runs? (no, if the boot meets a usage limit) | 2 sessions, 2 turns, 1 crash |
| `boot_item_runs_twice` | one run per turn? (no, with queue, resume and continue all on) | 1 session, 2 turns, one an item, 1 crash |
| `parts` | is anything done twice, dropped, unapproved, or waited for in vain, under faults? | pool: 2 messages through the gate, of one id or none, 2 entries; queue: 2 requests, 1 stop, 1 write that throws; wake router: 2 urgent keys and another, 2 triggers, room for 1 held, 1 pre-emption, 1 failed write, 1 kill; goal: 3 turns, 2 dissents, 2 subgoals, 1 kill; board: 2 vessels, 2 tasks, 1 retry, 1 trouble; approvals: 2 prompts, 2 presses, 2 commands, 1 end |
| `wake_report_after_restart` | does a held event survive a restart? (no, for a report) | 2 keys, one a report, 1 kill |
| `durable_run` | effects, ledger, transcript | 2 processes, 2 requests, 2 calls (one once, one keyed), 3 asks |

**What they show.** `queue_restarts`: `RunsAtMostOnce`, `AcceptedIsOnDisk`,
`MemoryIsReplay` (a restart would rebuild exactly what the daemon holds),
`ThrottleIsExact`, `StartsInAcceptanceOrder`, `ReceiptsAreStable` and the
refinement `ImplementsOnceQueue`. `safe_parts`: of the lock `OneWriter`,
`WriterHasALock` and `SomeoneHasTheQueue`, the first two but for the excused cases
of section 5; of the boot `EveryCutWriteIsWarned`, `RunningTurnsAreOnDisk` and
`CheckpointsSurvive`; of the floor `TheFloorIsHeld` and `RoundsAreFair`, which
excuses who stands behind a dropped holder (section 5).
`pool_turns`: `SessionsAreHandedOver`, `LongestWaiterFirst`, `EndedSessionsStop`.
`pool_room`: `RoomIsMadeOfIdleSessions`,
`EveryReleaseDrains`. `boot_crash_loop`:
`JournalIsTheLiveSessions`, `ContinuationsAreBounded`,
`InterruptedTurnsAreSettled`, which excuses a turn the usage limit refused to
continue: `boot_budget_strands_turn` shows it. `durable_run`: `EffectsHappenOnce`, `NoStepTwice`,
`TranscriptAgreesWithRows`, `AnswersFollowTheirRequest`, `LosersAreOvertaken`.
`parts`: `NothingIsDoneTwice` (redelivered messages, board tasks),
`NothingIsLost` (urgent triggers and the files waiting events point at),
`NothingSlipsThrough` (the throttle, with failing writes, and the approvals),
`TrailsAgree` and `AbortTakesNoTurn`, and
`EveryoneSettles`: a message, a work item (if no write failed: a failed `end`
line keeps its slot until a restart), an urgent event, a goal, a task and a
prompt all come to an end.

**Bounds.** Every bound is a constant. Two stops reach a crash, a recovery and
a crash of the recovery; a third adds no new kind of step, since all memory is
lost each time. Three requests are the fewest that can be reordered around a
running one. Four messages fill a line of two behind a running turn and
overflow it. Two entries of one session are an ended one and its successor.
Three sessions over two channels, with room for two, make an eviction by each
rule and one forced beyond the cap. Four daemons are one more than the scenario
the lock's comment names. Three asks are two that race and one that retries
after a death. In `parts`, two urgent triggers with room for one are the fewest
that overflow; one fault of each kind may fall together with one of each other
(a failed save, then a kill); two tasks on two vessels let a hand-out choose and
a stale task meet its successor; two prompts are a card and the one that replaces
it or uses its allowance, and two presses may be both on one card or one on each; three turns with two dissents end a goal every way
there is. In `safe_parts`, two acts of the humans are a raised hand or a cut and
what happens to it, or a drop and an invitation; the second round is reached
within five ticks, and two humans are one in the ring and one in the chair. A longer
synthesis or budget changes which timer is due first, which one tick against one
already leaves open. `Budgeted` lets a turn's end reach a usage limit: it is on
where the boot meets a limit, in `boot_crash_loop` and `boot_budget_strands_turn`,
and off in `safe_parts`, where a refused turn is one that did not run; the
theorems cover both. `SpeakGrace`, half a second, is no tick of 30 s in
`floor_ceiling`. Symmetry is used over requests, calls, askers, daemons and, in `pool_room`, the
two sessions of one channel, never
with a liveness property (in `safe_parts` the daemons appear in the lock's part
alone); deadlock checking is off where the bounds or the code
let everything come to rest.

**Fairness.** `WorkQueue!FairSpec`: the service manager restarts the daemon,
the drain runs after every submit and every end, a turn is bounded in time.
`AgentPool!FairSpec`: the event loop is fair, turns end, the gate's handler
resolves; strong fairness because a drain disables the other steps for the
moment. `DaemonBoot!FairSpec`: the boot is one async function nothing cancels, so
its next step is enabled until it is taken, but for the drains, which are finitely
many (weak, as for the queue's steps); some turn ends as long as one runs, strongly because a drain or a tool call disables
its end for the moment; the turns are finitely many, so each of them ends.
Nothing is assumed of clients, of crashes or of a limit being reset. `parts` takes each part with its own: the two above, and
`WakeRouter!Fairness` (timers fire, turns and notices end, nights end, the
daemon is started again; strong for the held timer, which a new night puts off
but does not cancel), `GoalRun!Fairness` (an agent is built or not, turns are
capped in steps, the judge answers or fails, writes go on),
`BoardFairness` of `BoardPlane` (the interval ticks, assignments age, vessels connect again
with a bounded backoff, messages on a live link arrive, tasks return or throw)
and `ChannelApprovals!Fairness` (a prompt's timer fires).

## 4. The proofs

Every theorem holds for every value of the constants that the ASSUMEs of its
module allow (ids are a finite set, limits and bounds are natural numbers, `Safe`
and `Keyed` are disjoint sets of calls, and so on) and, where it says so, under a
further assumption. A further assumption is one the runs make too, and section 5
names the behaviour of the code that makes it necessary. The proofs about `QueueLock`,
`DaemonBoot` and `Floor` are three sections of `SafePartsProofs`, those about `GoalRun`
and `BoardPlane` two of `GoalBoardProofs`.

`WorkQueueProofs`:

* `TypeCorrect == Spec => []TypeOK`. Not inductive alone: `running' = running - 1`
  stays in `Nat` only because the counter is the number of running items, and the
  next sequence number, read from the file, is bounded only because each line and
  each short write used up at most a fixed number of them.
* `AtMostOnce`: with `MaxShortWrites = 0`, `Spec => []RunsAtMostOnce`, I/O
  errors included. The invariant speaks about the file: an id that ran has its
  accept and its start line, in this order, in the part no crash can take, so
  no replay makes it wait again; and an id that waits has not run. The lemmas
  say what replay returns for a file that is extended or cut.
* `ThrottleHolds == Spec => []ThrottleNeverOverAdmits`, whatever writes throw or
  fall short, and `ThrottleLeaksNoSlot`: with `MaxIoErrors = 0`,
  `Spec => []ThrottleIsExact`. The counter is the number of running items; every
  turn in flight is one of them, and one more stays only after an end line that
  could not be written.
* `AcceptedStaysOnDisk` and `ReceiptsNeverChange`: with `MaxShortWrites = 0` and
  `MaxIoErrors = 0`, `Spec => []AcceptedIsOnDisk` and `Spec => ReceiptsAreStable`.
  An id that was acknowledged has its accept line in the synced part of the
  file, with that receipt, and replay goes by the first accept line of an id.
* `MemoryIsTheFiles` (`MemoryIsReplay`), `FirstAcceptedStartsFirst`
  (`StartsInAcceptanceOrder`) and `QueueKeepsItsPromise`
  (`ImplementsOnceQueue`), under the same two assumptions. The invariant is in two
  parts. `FileInv` is about the file alone, whoever reads it: an id is accepted
  once, receipts rise, lines that are fsynced are in the part no crash takes, and
  behind an end line of an id there is nothing more of it. `Replayed` says that a
  running daemon holds what replay of that file gives: states, the line, the next
  number. Each write extends the file by one line, and the lemmas say how replay
  changes by it, so that the handler's own assignments can be compared with it.
  Acceptance order follows, as the line is in the order of the accept lines. For
  the refinement `InitIsInit` and `StepIsStep` map the initial states and the
  steps: a crash or a stop is the abstract stop, which loses what is in flight;
  opening the queue, torn off at any line or not, is invisible, since the phases
  were read from the disk before.

`SafePartsProofs`, of the lock, for any number of daemons and attempts:

* `LockTypeCorrect`, `AtMostOneWriter == Spec => []OneWriter` and
  `LocksAreNotLost == Spec => []WriterHasALock`. One writer is not inductive:
  the invariant says where a writer's lock is, at its path or with a taker that
  moved it by mistake, that one taker at most has such a lock and that nothing
  is at the path meanwhile, and that a lock taken over was a dead daemon's. It
  may stop to hold once `exposed` is set.
* `QueueIsTaken == ASSUME Attempts > 1 PROVE Spec => []SomeoneHasTheQueue`. With one
  attempt a lone daemon gives up after it cleared a dead one's lock. The invariant
  follows the excuses of who may still give up: as long as nobody wrote, the lock
  at the path is a dead daemon's or that of one who is still starting.

`SafePartsProofs`, of journal and boot, wherever the daemon crashes unless it says otherwise:

* `BootTypeCorrect == BootSpec => []BootTypeOK`.
* `JournalNamesTheLive`: with `~Failures`,
  `BootSpec => []JournalIsTheLiveSessions`. From the end of the resume on, the
  sessions of the pool are those of the journal, and before it they are among
  them. A session that cannot be recreated stays in the journal on purpose.
* `ContinuationsHaveABound == BootSpec => []ContinuationsAreBounded`. The runs a
  turn had and the one it has coming are at most one more than the attempts its
  entry counts on disk, or than `MaxAttempts` once it is nobody's pending turn; a
  refused continuation has used up an attempt without a run.
* `CheckpointsAreKept`: with `QueueIsOff`, `BootSpec => CheckpointsSurvive`;
  `WhatRunsIsOnDisk`: with `~Recreate` too, `BootSpec => []RunningTurnsAreOnDisk`;
  `CutWritesAreWarned`: with `~BootCrashes` and `MaxAttempts <= 1` too,
  `BootSpec => []EveryCutWriteIsWarned`. What runs on a live
  session is that entry's pending turn, with its call among those in flight; a
  turn that was cut is pending with the write still in flight, reported or
  noted, until its continuation runs on a conversation that has the note. Section 5 has what each assumption excludes.

`DurableRunProofs`, for every set of processes, requests and calls:

* `AtMostOneEffect == Spec => []EffectsHappenOnce`. A bound on effects is not
  inductive; the row keeps a second effect out: who is at the effect of a once
  call won its row, which is won from `intent` alone and never goes back to it,
  one process at most is there, and an effect implies a row `started` or `done`.
* `TypeCorrect`, `StepsAreWrittenOnce` (`NoStepTwice`), `AnswersAreReplies`
  (`AnswersFollowTheirRequest`), `TranscriptAgreesWithLedger`
  (`TranscriptAgreesWithRows`) and `AppendsAreNeverLost` (`LosersAreOvertaken`).
  The transcript only grows, so an entry lands only on the transcript it was
  decided from. The invariant says, of each process, what holds as long as its
  seq is free: its call has no result, its input is new, its answer follows a
  reply. What it will say of a call is already true of the ledger, whose rows
  only advance.

`AgentPoolProofs`, for any sets of messages, sessions, channels and items and any
caps:

* `HandedOver == Spec => []SessionsAreHandedOver` and
  `FirstComeFirstServed == Spec => LongestWaiterFirst`. One turn per session is
  not inductive: the session is handed from a turn that ends to the first
  waiter without becoming free, and what was handed over runs only a microtask
  later. The invariant names the one call that holds each entry, running or
  admitted; `busy` is true exactly for the entries that are held; a call waits
  exactly if it stands in its entry's line, once; a line is behind a holder;
  and lines are in the order of arrival.
* `EndedOnesStop == Spec => []EndedSessionsStop`: every call that holds or waits
  for an entry that is no longer live was aborted when the entry ended.
* `RoomOfIdleSessions == Spec => RoomIsMadeOfIdleSessions`: each step that makes
  a session removes idle ones only, and leaves the pool beyond its cap only
  when nothing could be evicted.
* `TypeCorrect == Spec => []TypeOK`: what is left of the pool's types once the
  lines are known to be sequences of calls, each at most once; the memory of ids is
  cut to `SeenMax` wherever it grows.
* `OneTurnPerMessageId`: with at most `SeenMax` ids, `Spec => []RedeliveryNeverRuns`.
  With more the memory forgets the oldest, as the code says. The invariant: the id
  of a call that waits, runs or was answered is in the memory of its entry, and no
  memory has an id twice, so that cutting it forgets none.
* `NoWakeUpIsLost == Spec => EveryReleaseDrains`. Of each action, either the head of
  the work queue's line could start before it, or cannot after it, or a drain is due.

`ChannelApprovalsProofs`, for any number of prompts, presses, sessions and ends:

* `TypeCorrect` and `NothingRunsUnapproved == ApprovalAssumption => (Spec =>
  []ApprovalsWereGiven)`. The invariant adds that the live prompts are the ones
  the sessions point at, that an allowance in force comes from a card that was
  approved with "allow" in the session's current life, and that a prompt not
  asked yet has no press under way.

`GoalBoardProofs`, of the goal run, for every budget and set of subgoals:

* `AbortIsObeyed == Spec => AbortTakesNoTurn` and `BudgetIsKept`: no counter passes
  its cap. The invariant says that nobody aborts a run before its loop began, where
  a turn would still be asked for, and that a run that waits for a turn or a verdict
  has one left of each.
* `TheTrailsAgree == Spec => []TrailsAgree`. The invariant `InOrder` has two
  shapes. Rows and ledger are level and what is still to write (`writes`) tells
  further kinds, each a row and then its line; or the row of one kind is written
  and its line comes first. The run's last row and the closing of the ledger come
  after all of that. A kill drops `writes` at any place of it.
* `TypeCorrect == Spec => []TypeOK`: what the two invariants leave of the types.

`GoalBoardProofs`, of the board, for any vessels and any number of tasks:

* `OneCopy == BoardSpec => []OneCopyOfATask` and `BoardTypeCorrect`. The bound on the
  count is not inductive: a step has to be told what becomes of which copy. The
  invariant `Single` speaks of places, a vessel with a position of its mail, a
  handleTask call or a position of its replies: a task that was never taken back has
  one at most, and none unless it is assigned. A message that arrives or a call that
  ends maps the places after it one to one to places before it, a link that drops
  leaves some of them, a reply that is taken leaves none, and `assignTask()`, alone or
  once for every vessel in a health tick (`AssignAllKeeps`), gives a first place to a
  task that was pending and so had none.

`SafePartsProofs`, of the floor, for any number of officers, humans and rounds and any budgets:

* `FloorTypeCorrect == FloorSpec => []FloorTypeOK`,
  `FloorHeld == FloorSpec => []TheFloorIsHeld` and
  `FairRounds == FloorSpec => RoundsAreFair`. The invariant says where the round is:
  whoever is ahead of its place has not had a turn yet (`waiting`), and whoever
  has had none is ahead or was passed over by a drop (`passed`); the ring names
  nobody twice, whatever the roster and the invitations are. Each phase of a turn
  has its timer set.

`WakeRouterProofs`, for any keys, any cap on what is held and any bounds:

* `UrgentSurvives`: with `Urgent \cap Reports = {}`, `Spec => []UrgentIsNeverDropped`.
  `OweInv` counts: what was promised (`owed`) is at least the total of what is held, of
  what a release has still to say and of the counts of the urgent keys in the queue and
  the batch, or, of a daemon that is down, of the file; and exactly that total when no
  report is urgent. `LineInv` says where triggers wait: a key is once in the queue or once
  in the rest of the batch, never in both, and has a count there; the file, as
  `loadHeld()` reads it, says what is held unless a write failed; a trigger that waits and
  is not a report has its payload while no write failed; a daemon that is down has lost
  its memory. Totals are sums over a finite set, so the
  first lemmas show what a sum does when one count changes, moves or is cleared, and
  what the loop over a batch (`HeldAfter`) leaves held. With an urgent report it fails
  after a restart, which is what `wake_report_after_restart` shows; nothing else needs
  the assumption.
* `PayloadsSurvive == Spec => []PayloadsAreKept` and `TypeCorrect == Spec => []TypeOK`,
  from the same two.

`PartsProofs`, of `MCParts`:

* `IsAPool`, `IsAQueue`, `IsARouter`, `IsAGoalRun`, `IsABoard`, `IsAnApproval`: a behaviour
  of the parts is one of each part's own specification, since a step of one part is a
  stutter of the others. So the theorems above hold of it: `GatesHold`
  (`NothingSlipsThrough`), `PartsTypeCorrect` (`PartsTypeOK`), `DoneOnce`
  (`NothingIsDoneTwice`) with at most `SeenMax` message ids, and `EventsAreKept`
  (`NothingIsLost`) with `Urgent \cap Reports = {}`. `PartsAssumption` collects what each
  part assumes of its constants.

Every invariant and every action property of the passing runs is the property of a
theorem. Only model-checked: `EveryoneSettles` and `InterruptedTurnsAreSettled`, since
liveness under fairness and ENABLED are beyond the prover.

## 5. Disagreements with comments and docs

Shown by a run that fails on purpose:

* `queue_short_write`: `queue.ts:256` says an accepted item is on disk; `write`
  ignores the count of `writeSync`, so on a full disk a fragment is taken for
  the accept line and the receipt is handed out.
* `boot_budget_strands_turn`: `session-journal.ts:23-26` says that the boot sends
  the turns that were still pending again, and that one whose attempts are used up
  is reported, not retried. At a usage limit chat() returns before its `try`
  (`agent-pool.ts:708-714`), so its `finally` does not drop the turn from the
  journal, and `continueInterruptedTurns` ignores the reply
  (`session-journal.ts:613-622`): the turn stays pending with the attempt spent,
  nobody runs it or gives it up until the daemon has crashed once more, and then
  it is given up without having been continued.
* `boot_item_runs_twice`: `session-journal.ts:25-27` says an interrupted turn is
  re-run exactly once; with `EIGHT_WORK_QUEUE`, `EIGHT_RESUME_ON_BOOT` and
  `EIGHT_AUTO_CONTINUE` the constructor's drain starts a waiting item before
  the resume reads the journal, and the item is then continued beside itself.
* `wake_report_after_restart`: `wake-router.ts:16-18` says an urgent event is
  never dropped and survives a restart in the held file; `loadHeld` keeps a row
  only if its payload is a `.txt` of the wake folder, and the feed's critical
  events point at a `report.json` (`wake-wiring.ts:176`). The passing run makes
  reports of the events that are not urgent only.
* `floor_ceiling`: `floor.ts:96-98` says the ceiling on a turn can never fire before
  a healthy turn has been given the time it was promised. It is the thinking time
  plus the larger of two other budgets (`:415`), but a turn may use all three one
  after the other: 120 s, 30 s until its narration starts, 120 s of narration; the
  ceiling comes at 240.5 s and cuts off who is still speaking.

Seen with other constants or formulas, kept out of the runs:

* `BoardPlane!CompletedIsPosted`: the response of a completed task never reaches
  its channel. `control-plane.ts:155` looks the task up with
  `getRecentTasks("", 1)`, by an empty channel id and among completed tasks,
  before it completes it; without a find nothing is posted (`:173-174`).
* The board's health tick gives a task to every vessel, though its comment
  (`control-plane.ts:229`) says to idle ones; and a late failure puts a task
  another vessel completed back to retry.
* `UrgentIsNeverDropped` of a router whose digest could not be written: the
  rejection of one drain rejects every later one (`wake-router.ts:346-347`), so
  what waits for its batch, and all that comes, is never handled; the property
  gives the queue up in that case. It also gives up what a release has not yet
  said when the daemon is killed: the file is emptied before the first notice
  (`:297-300`). A trigger that comes while its own notice is being sent, or
  after its event was counted in the overflow, is a repeat.
* `TrailsAgree` without its excuse: `injectSubgoal` into a run that is over
  writes a row, but the ledger is closed, so resume refuses the run
  (`goal-rpc.ts:333`).
* `goal-loop.ts:22-23` says an aborted run stops with `user_abort`: aborted while
  the agent is built it fails with `executor_error`, and a satisfied verdict
  under way completes it. A second injected subgoal replaces one no turn has
  taken (`goal-loop.ts:109`).
* `RoundsAreFair` without `passed`: when the holder of a ring turn is dropped the
  next one moves to the holder's place and the round goes on behind it
  (`floor.ts:542-556`, `:928`), so that one has no turn in this round, nor an invitee who
  comes to that place; `floor.ts:529-531` and `roster-mutation.test.ts:12-13` say
  that nobody is skipped.
* `huddle-routes.ts:90-92` says that a slow narration must never extend or stall
  the floor; `spawnSync` (`huddle-voice.ts:164`, up to 120 s) stalls every timer of the
  daemon, which `Late` and `NarrationStarts` have.
* `huddle-stage.ts` takes a turn's index as `turns.length` before it waits for the
  stage and appends the turn after: two turns may share an index, and one that was
  cut while it waited is not in the manifest. No property is about the manifest.
* `ReceiptsAreStable` with `MaxIoErrors = 1`: after an fsync that throws in
  `enqueue`, a retry gets a later seq than the one replay finds (`queue.ts:8`).
* `NoDrainIsMissed`: a client that creates the very session a blocked item
  waits for makes it startable and nothing starts it until the next turn ends
  or the five-minute cleanup (`agent-pool.ts:388`); `EveryReleaseDrains` has
  this exception.
* `EveryCutWriteIsWarned` with `BootCrashes`: the note that a write was cut is
  in memory when the in-flight list is cleared on disk
  (`session-journal.ts:522`); a second crash there continues the turn without
  it.
* `RunningTurnsAreOnDisk` with `Recreate`: the aborted turn of a destroyed
  session clears, by session id, the journaled turn of its successor
  (`agent-pool.ts:784`).
* `UnknownItemsNeverRunAgain` with an item in flight at the crash: the queue
  marks it unknown, auto-continue runs its turn again (`queue.ts:10-11`). The run
  of `boot_item_runs_twice` is another one: that item was not in flight.
* `CheckpointsSurvive` with an item whose session was open at the crash: the
  drain's createSession writes a fresh entry over the crashed one
  (`session-journal.ts:387-390`).
* `OneWriter` without the excuse: a taker killed between its rename and its
  link back leaves the writer's lock moved away; a daemon that starts at any
  later time is a second writer, not only within the microseconds
  `queue.ts:134` names.

## 6. Not modelled

* `AgentPool`: events streamed to clients, tenants, model selection, what is
  counted towards the usage limits (any turn may find one reached);
  `submit` has no caller in production yet, so its callers are any.
* The gateway's deferred `session:create` (`gateway.ts:611`): a client that
  leaves before the timer leaves a session to the idle reaper.
* Failed journal writes (swallowed by the code), the journal's bytes, a torn
  line of `checkpoints.jsonl` (`checkpoint-store.ts:248`).
* Tools that drained items run on a session while `settleInterruptedToolCalls`
  works through its snapshot of the journal (`session-journal.ts:481`), and a
  one-shot session that a second work item takes over before its creator ends
  (`agent-pool.ts:409`): the models have both steps, no property is about them.
* The memory queue and the worktree pool have no caller in production; a model
  would have to invent the one who uses them. Shared sessions are sets the
  gateway changes one handler at a time.
* Of the Table: its store, the prompts and minutes of a huddle, the manifest and
  the bake of a recorded one. `Floor` has no fairness: its timers are part of it.
* The judge's failover, the board's audit log, rate limits and health alerts;
  `WakeRouter.flush`, which only tests and shutdown use.
* Packages that are sequential text processing (permissions, decide, repo
  context, planner), device or network I/O (voice, eyes, hands, providers, MCP,
  g8way, telegram), batch jobs (kernel, ast-index, render), user interfaces
  (`src/apps`), hosted services (control plane, auth, db), and assets.

## 7. Plan

1. Done: `WorkQueue`, `OnceQueue`, `QueueLock`, `AgentPool`, `DaemonBoot`,
   `DurableRun`, `WakeRouter`, `GoalRun`, `BoardPlane`, `ChannelApprovals`, `Floor`; the
   proofs of section 4, of every invariant and action property that a passing run checks.
2. Next: `AgentPool` composed with `WorkQueue`, so that the pool's drain runs on
   the real file and the at-most-once promise is checked end to end.
3. Proofs left: that a replay restores the queue even when writes fall short or throw,
   as far as it does; and what of the two liveness properties is safety (no step of a
   part waits for one that cannot come).
