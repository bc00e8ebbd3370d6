------------------------------ MODULE GoalRun ------------------------------
(* One run of the goal loop (goal/goal-loop.ts, budget.ts, executor-eight.ts) *)
(* under its manager (daemon/goal-rpc.ts): turns of an executor scored by a   *)
(* judge until a verdict, a budget or the user ends it.  Every event goes to  *)
(* a database row (persistence.ts), then to a line of the signed ledger       *)
(* (ledger.ts); a daemon that dies may do so between any two writes.          *)
EXTENDS Naturals, Sequences, FiniteSets, SequencesExt

CONSTANTS Subgoals,      \* texts that may be injected
          NoSubgoal,
          MaxTurns,      \* budget.turns
          MaxDissent,    \* budget.maxDissentStreak
          MaxDeaths

ASSUME GoalAssumption ==
    /\ NoSubgoal \notin Subgoals /\ IsFiniteSet(Subgoals)
    /\ MaxTurns \in Nat \ {0} /\ MaxDissent \in Nat \ {0} /\ MaxDeaths \in Nat

VARIABLES
    goal,        \* the loop's run: status, stopReason, counters, and what it awaits
    aborting,    \* abortRequested, and the executor's aborted
    pendingGoal, \* pendingSubgoal
    injected,    \* run.subgoals
    given,       \* history: subgoals a turn was asked to work on
    writes,      \* what the running code has still to write, in order
    eventRows,   \* goal_events: the kinds, by seq
    chain,       \* the ledger's entries: the kinds, by seq
    tornEntry,   \* its last line was cut off
    closed,      \* the ledger object is closed
    runRow,      \* goal_runs.status
    serving,     \* the daemon that started the run lives
    deaths

goalVars == <<goal, aborting, pendingGoal, injected, given>>
diskVars == <<eventRows, chain, tornEntry, runRow>>
vars == <<goalVars, writes, diskVars, closed, serving, deaths>>

Terminal == {"completed", "stopped", "failed"}
Endings == {"run.completed", "run.failed", "run.aborted"}
Kinds == Endings \cup {"run.started", "turn.requested", "turn.completed", "judge.requested",
                       "judge.verdict", "budget.tripped", "subgoal.injected"}
Stores == {"row", "ledger"}
Writes == [to : Stores, kind : Kinds] \cup [to : {"run"}, kind : {"running"} \cup Terminal]
          \cup [to : {"close"}, kind : {"close"}]

Reasons == {"none", "user_abort", "budget", "executor_error", "judge_error",
            "judge_satisfied", "judge_dissent_streak"}
Runs == [status : {"pending", "running", "judging"} \cup Terminal, reason : Reasons,
         awaits : {"start", "agent", "chat", "judge", "nothing"},
         turns : 0..MaxTurns, dissent : 0..MaxDissent, worked : BOOLEAN]

Init ==
    /\ goal = [status |-> "pending", reason |-> "none", awaits |-> "start",
               turns |-> 0, dissent |-> 0, worked |-> FALSE]
    /\ aborting = FALSE /\ pendingGoal = NoSubgoal /\ injected = {} /\ given = {}
    /\ writes = <<>> /\ eventRows = <<>> /\ chain = <<>> /\ tornEntry = FALSE
    /\ closed = FALSE /\ runRow = "pending" /\ serving = TRUE /\ deaths = 0

-----------------------------------------------------------------------------
(* emit(): to the database, then to the ledger, for each event in turn. *)

Emits(kinds) ==
    FlattenSeq([i \in DOMAIN kinds |->
        <<[to |-> "row", kind |-> kinds[i]]>>
        \o (IF kinds[i] = "run.started" THEN <<[to |-> "run", kind |-> "running"]>> ELSE <<>>)
        \o <<[to |-> "ledger", kind |-> kinds[i]]>>])

EndOf(status, reason) ==
    IF status = "failed" THEN "run.failed"
    ELSE IF reason = "user_abort" THEN "run.aborted" ELSE "run.completed"

\* Mutated: the ledger is closed as soon as the run has ended.
Farewell_CloseFirst(kinds, status, reason) ==
    <<[to |-> "close", kind |-> "close"]>>
    \o Emits(Append(kinds, EndOf(status, reason))) \o <<[to |-> "run", kind |-> status]>>

\* terminate(), then the manager's settled.then: the run's row, and close().
Farewell(kinds, status, reason) ==
    Emits(Append(kinds, EndOf(status, reason)))
    \o <<[to |-> "run", kind |-> status], [to |-> "close", kind |-> "close"]>>

\* The run of the program stands still until what it has to write is written.
Ready == serving /\ writes = <<>>

Terminate(run, status, reason, kinds) ==
    /\ goal' = [run EXCEPT !.status = status, !.reason = reason, !.awaits = "nothing"]
    /\ writes' = Farewell(kinds, status, reason)
    /\ UNCHANGED <<pendingGoal, given>>

-----------------------------------------------------------------------------
(* The loop. *)

\* Mutated: abort is left to the executor.
Iterate_NoAbort(run, kinds) ==
    \/ Terminate(run, "stopped", "budget", Append(kinds, "budget.tripped"))
    \/ /\ run.turns < MaxTurns
       /\ goal' = [run EXCEPT !.status = "running", !.awaits = "agent"]
       /\ given' = given \cup ({pendingGoal} \ {NoSubgoal})
       /\ pendingGoal' = NoSubgoal
       /\ writes' = Emits(Append(kinds, "turn.requested"))

\* The head of an iteration: abort wins over the budget, the budget over a turn.
\* Any other cap (tokens, files, egress, time) may trip.
Iterate(run, kinds) ==
    \/ aborting /\ Terminate(run, "stopped", "user_abort", kinds)
    \/ /\ ~aborting
       /\ Terminate(run, "stopped", "budget", Append(kinds, "budget.tripped"))
    \/ /\ ~aborting /\ run.turns < MaxTurns
       /\ goal' = [run EXCEPT !.status = "running", !.awaits = "agent"]
       /\ given' = given \cup ({pendingGoal} \ {NoSubgoal})
       /\ pendingGoal' = NoSubgoal
       /\ writes' = Emits(Append(kinds, "turn.requested"))

Start ==
    /\ Ready /\ goal.awaits = "start"
    /\ Iterate([goal EXCEPT !.status = "running"], <<"run.started">>)
    /\ UNCHANGED <<aborting, injected, diskVars, closed, serving, deaths>>

\* The executor has built its agent, or could not; told to abort, it throws.
AgentReady ==
    /\ Ready /\ goal.awaits = "agent"
    /\ \/ Terminate(goal, "failed", "executor_error", <<>>)
       \/ /\ ~aborting
          /\ goal' = [goal EXCEPT !.awaits = "chat"]
          /\ UNCHANGED <<pendingGoal, given, writes>>
    /\ UNCHANGED <<aborting, injected, diskVars, closed, serving, deaths>>

\* The turn throws (its agent may have been cleaned up under it), or returns;
\* then the budget comes before the judge.
TurnEnds ==
    /\ Ready /\ goal.awaits = "chat"
    /\ \/ Terminate(goal, "failed", "executor_error", <<>>)
       \/ \E work \in BOOLEAN :
              LET run == [goal EXCEPT !.turns = @ + 1, !.worked = @ \/ work]
              IN  \/ Terminate(run, "stopped", "budget", <<"turn.completed", "budget.tripped">>)
                  \/ /\ run.turns < MaxTurns
                     /\ goal' = [run EXCEPT !.status = "judging", !.awaits = "judge"]
                     /\ writes' = Emits(<<"turn.completed", "judge.requested">>)
                     /\ UNCHANGED <<pendingGoal, given>>
    /\ UNCHANGED <<aborting, injected, diskVars, closed, serving, deaths>>

\* The verdict; only one that continues counts as dissent.
JudgeEnds ==
    /\ Ready /\ goal.awaits = "judge"
    /\ LET scored == <<"judge.verdict">>
           run == [goal EXCEPT !.dissent = @ + 1]
       IN  \/ Terminate(goal, "failed", "judge_error", <<>>)
           \/ goal.worked /\ Terminate(goal, "completed", "judge_satisfied", scored)
           \/ ~goal.worked /\ Terminate(goal, "failed", "executor_error", scored)
           \/ Terminate(goal, "stopped", "judge_dissent_streak", scored)
           \/ /\ run.dissent >= MaxDissent
              /\ Terminate(run, "stopped", "judge_dissent_streak",
                           Append(scored, "budget.tripped"))
           \/ run.dissent < MaxDissent /\ Iterate(run, scored)
    /\ UNCHANGED <<aborting, injected, diskVars, closed, serving, deaths>>

-----------------------------------------------------------------------------
(* The user, through the manager's map of runs, which keeps ended ones. *)

InjectSubgoal(s) ==
    /\ Ready /\ goal.awaits # "start" /\ s \notin injected
    /\ pendingGoal' = s /\ injected' = injected \cup {s}
    /\ writes' = Emits(<<"subgoal.injected">>)
    /\ UNCHANGED <<goal, aborting, given, diskVars, closed, serving, deaths>>

Abort ==
    /\ Ready /\ goal.awaits # "start" /\ ~aborting
    /\ aborting' = TRUE
    /\ UNCHANGED <<goal, pendingGoal, injected, given, writes, diskVars, closed, serving, deaths>>

-----------------------------------------------------------------------------
(* Writes and deaths. *)

Write ==
    /\ serving /\ writes # <<>>
    /\ writes' = Tail(writes)
    /\ LET w == Head(writes)
       IN  /\ eventRows' = IF w.to = "row" THEN Append(eventRows, w.kind) ELSE eventRows
           /\ chain' = IF w.to = "ledger" /\ ~closed THEN Append(chain, w.kind) ELSE chain
           /\ runRow' = IF w.to = "run" THEN w.kind ELSE runRow
           /\ closed' = (closed \/ w.to = "close")
    /\ UNCHANGED <<goalVars, tornEntry, serving, deaths>>

\* A kill; in the middle of a ledger line it leaves a fragment of it.  The next
\* daemon shows the run from disk, and starts no loop for it.
Dies ==
    /\ serving /\ goal.awaits # "start" /\ deaths < MaxDeaths
    /\ deaths' = deaths + 1 /\ serving' = FALSE
    /\ tornEntry' \in {FALSE, writes # <<>> /\ Head(writes).to = "ledger"}
    /\ UNCHANGED <<goalVars, writes, eventRows, chain, runRow, closed>>

Next ==
    \/ Start \/ AgentReady \/ TurnEnds \/ JudgeEnds
    \/ \E s \in Subgoals : InjectSubgoal(s)
    \/ Abort \/ Write \/ Dies

Spec == Init /\ [][Next]_vars

\* Turns end (tool steps are capped), the judge answers or fails over, and the
\* process goes on writing.
Fairness ==
    WF_vars(AgentReady) /\ WF_vars(TurnEnds) /\ WF_vars(JudgeEnds) /\ WF_vars(Write)

FairSpec == Spec /\ Fairness

-----------------------------------------------------------------------------
TypeOK ==
    /\ goal \in Runs /\ aborting \in BOOLEAN
    /\ pendingGoal \in Subgoals \cup {NoSubgoal}
    /\ injected \subseteq Subgoals /\ given \subseteq injected
    /\ Range(writes) \subseteq Writes
    /\ Range(eventRows) \cup Range(chain) \subseteq Kinds
    /\ tornEntry \in BOOLEAN /\ closed \in BOOLEAN /\ serving \in BOOLEAN
    /\ runRow \in {"pending", "running"} \cup Terminal /\ deaths \in 0..MaxDeaths

Over == goal.status \in Terminal
Ended(kinds) == Range(kinds) \cap Endings # {}

\* resume() after a restart: the chain verifies and says what the rows say.
Resumable == ~tornEntry /\ chain = eventRows

\* Whatever instant the daemon dies at, the three records of the run agree: the
\* ledger never tells more than the rows; the run is not shown as over before
\* both tell its end; and resume() accepts the run, unless the kill cut an event
\* in two or a subgoal was injected into a run that was over
\* (goal-rpc.ts:361-367, 380-401).
TrailsAgree ==
    /\ IsPrefix(chain, eventRows)
    /\ runRow \in Terminal => Ended(chain) /\ Ended(eventRows)
    /\ (writes = <<>> /\ \A i \in 1..Len(eventRows) - 1 : eventRows[i] \notin Endings)
           => Resumable

\* "abort wins ties" (goal-loop.ts:144): whenever abort() comes, while an agent is
\* built, a turn or the judge runs, no further turn is asked for or sent.
AbortTakesNoTurn ==
    [][aborting => (goal'.awaits \in {"agent", "chat"} => goal' = goal)]_vars

\* The run has not ended yet, or its row does not say so.
Unsettled == serving /\ goal.status # "pending" /\ ~(Over /\ runRow \in Terminal)
=============================================================================
