-------------------------- MODULE GoalBoardProofs --------------------------
(* Proofs about GoalRun and BoardPlane, the two parts that MCParts extends,   *)
(* for every value of their constants.                                        *)
(*                                                                            *)
(* The goal run: what abort and budget achieve, and that the three records of *)
(* a run agree at every instant.  The board: a task that was never taken back *)
(* is in one place at most, on its way to a vessel, in its hands, or in a     *)
(* reply.  Each step moves places or takes some away, and only assignTask()   *)
(* adds one, to a task in no place.                                           *)
EXTENDS GoalRun, BoardPlane, SequenceTheorems, WellFoundedInduction, FiniteSetTheorems, TLAPS

-----------------------------------------------------------------------------
(* The goal run. *)

\* The counters leave room for the turn or the verdict a run waits for.
HasRoom(run) == run.turns < MaxTurns /\ run.dissent < MaxDissent

(* Nobody can abort a run that has not begun, and no step leads back there;  *)
(* a run that still waits for something has room.                            *)
Inv ==
    /\ goal \in Runs /\ aborting \in BOOLEAN
    /\ aborting => goal.awaits # "start"
    /\ goal.awaits # "nothing" => HasRoom(goal)

\* What a step does to a run that was aborted.
Obeys == aborting => (goal'.awaits \in {"agent", "chat"} => goal' = goal)

\* Whatever the run was, once it has ended nothing more is asked of it.
LEMMA TerminateEnds ==
    ASSUME NEW run \in Runs, NEW status \in Terminal, NEW reason \in Reasons, NEW kinds,
           Terminate(run, status, reason, kinds), aborting' \in BOOLEAN
    PROVE  Inv' /\ Obeys
<1>1. goal' \in Runs /\ goal'.awaits = "nothing"
  BY DEF Terminate, Runs, Terminal
<1> QED
  BY <1>1 DEF Inv, Obeys

\* Only a run nobody aborted goes on to another turn.
LEMMA IterateObeys ==
    ASSUME NEW run \in Runs, NEW kinds, HasRoom(run), Iterate(run, kinds),
           aborting \in BOOLEAN, aborting' = aborting
    PROVE  Inv' /\ Obeys
<1>1. CASE aborting /\ Terminate(run, "stopped", "user_abort", kinds)
  BY <1>1, TerminateEnds DEF Terminal, Reasons
<1>2. CASE ~aborting /\ Terminate(run, "stopped", "budget", Append(kinds, "budget.tripped"))
  BY <1>2, TerminateEnds DEF Terminal, Reasons
<1>3. CASE ~aborting /\ goal' = [run EXCEPT !.status = "running", !.awaits = "agent"]
  BY <1>3 DEF Runs, HasRoom, Inv, Obeys
<1> QED
  BY <1>1, <1>2, <1>3 DEF Iterate

LEMMA Caps == MaxTurns \in Nat \ {0} /\ MaxDissent \in Nat \ {0}
  BY GoalAssumption

LEMMA InitInv == ASSUME Init PROVE Inv
<1>1. goal \in Runs
  <2>1. 0 \in 0..MaxTurns /\ 0 \in 0..MaxDissent
    BY Caps
  <2> QED
    BY <2>1 DEF Init, Runs, Reasons
<1>2. HasRoom(goal)
  BY Caps DEF Init, HasRoom
<1> QED
  BY <1>1, <1>2 DEF Init, Inv

LEMMA StartObeys == ASSUME Inv, Start PROVE Inv' /\ Obeys
<1>1. [goal EXCEPT !.status = "running"] \in Runs
      /\ HasRoom([goal EXCEPT !.status = "running"])
  BY DEF Inv, Runs, HasRoom, Start
<1> QED
  BY <1>1, IterateObeys DEF Start, Inv

LEMMA AgentReadyObeys == ASSUME Inv, AgentReady PROVE Inv' /\ Obeys
<1>1. CASE Terminate(goal, "failed", "executor_error", <<>>)
  BY <1>1, TerminateEnds DEF Inv, AgentReady, Terminal, Reasons
<1>2. CASE ~aborting /\ goal' = [goal EXCEPT !.awaits = "chat"]
  BY <1>2 DEF Inv, Runs, HasRoom, Obeys, AgentReady
<1> QED
  BY <1>1, <1>2 DEF AgentReady

LEMMA TurnEndsObeys == ASSUME Inv, TurnEnds PROVE Inv' /\ Obeys
<1>1. CASE Terminate(goal, "failed", "executor_error", <<>>)
  BY <1>1, TerminateEnds DEF Inv, TurnEnds, Terminal, Reasons
<1>2. ASSUME NEW done \in BOOLEAN, NEW run,
             run = [goal EXCEPT !.turns = @ + 1, !.worked = @ \/ done],
             \/ Terminate(run, "stopped", "budget", <<"turn.completed", "budget.tripped">>)
             \/ /\ run.turns < MaxTurns
                /\ goal' = [run EXCEPT !.status = "judging", !.awaits = "judge"]
      PROVE  Inv' /\ Obeys
  <2>1. goal.turns + 1 \in 0..MaxTurns /\ (goal.worked \/ done) \in BOOLEAN
    <3>1. goal.turns \in 0..MaxTurns /\ goal.worked \in BOOLEAN /\ goal.turns < MaxTurns
      BY DEF Inv, Runs, HasRoom, TurnEnds
    <3> QED
      BY <1>2, <3>1, Caps
  <2>2. run \in Runs /\ run.dissent < MaxDissent
    BY <1>2, <2>1 DEF Inv, Runs, HasRoom, TurnEnds
  <2>3. CASE Terminate(run, "stopped", "budget", <<"turn.completed", "budget.tripped">>)
    BY <2>2, <2>3, TerminateEnds DEF Inv, TurnEnds, Terminal, Reasons
  <2>4. CASE /\ run.turns < MaxTurns
             /\ goal' = [run EXCEPT !.status = "judging", !.awaits = "judge"]
    BY <2>2, <2>4 DEF Inv, Runs, HasRoom, Obeys, TurnEnds
  <2> QED
    BY <1>2, <2>3, <2>4
<1> QED
  BY <1>1, <1>2 DEF TurnEnds

LEMMA JudgeEndsObeys == ASSUME Inv, JudgeEnds PROVE Inv' /\ Obeys
<1> DEFINE run == [goal EXCEPT !.dissent = @ + 1]
<1>1. run \in Runs /\ goal \in Runs /\ run.turns < MaxTurns
  <2>1. goal.dissent + 1 \in 0..MaxDissent
    BY Caps DEF Inv, Runs, HasRoom, JudgeEnds
  <2> QED
    BY <2>1 DEF Inv, Runs, HasRoom, JudgeEnds
<1>2. /\ {"failed", "completed", "stopped"} \subseteq Terminal
      /\ {"judge_error", "judge_satisfied", "executor_error", "judge_dissent_streak"}
             \subseteq Reasons
      /\ aborting \in BOOLEAN /\ aborting' = aborting
  BY DEF Terminal, Reasons, Inv, JudgeEnds
<1> HIDE DEF run
<1>3. \/ Terminate(goal, "failed", "judge_error", <<>>)
      \/ Terminate(goal, "completed", "judge_satisfied", <<"judge.verdict">>)
      \/ Terminate(goal, "failed", "executor_error", <<"judge.verdict">>)
      \/ Terminate(goal, "stopped", "judge_dissent_streak", <<"judge.verdict">>)
      \/ Terminate(run, "stopped", "judge_dissent_streak",
                   Append(<<"judge.verdict">>, "budget.tripped"))
      \/ run.dissent < MaxDissent /\ Iterate(run, <<"judge.verdict">>)
  BY DEF JudgeEnds, run
<1>4. CASE run.dissent < MaxDissent /\ Iterate(run, <<"judge.verdict">>)
  BY <1>1, <1>2, <1>4, IterateObeys DEF HasRoom
<1> QED
  BY <1>1, <1>2, <1>3, <1>4, TerminateEnds

LEMMA StepObeys == ASSUME Inv, [Next]_vars PROVE Inv' /\ Obeys
<1>1. CASE Start
  BY <1>1, StartObeys
<1>2. CASE AgentReady
  BY <1>2, AgentReadyObeys
<1>3. CASE TurnEnds
  BY <1>3, TurnEndsObeys
<1>4. CASE JudgeEnds
  BY <1>4, JudgeEndsObeys
<1>5. ASSUME NEW s \in Subgoals, InjectSubgoal(s) PROVE Inv' /\ Obeys
  BY <1>5 DEF InjectSubgoal, Inv, HasRoom, Obeys
<1>6. CASE Abort
  BY <1>6 DEF Abort, Inv, HasRoom, Obeys
<1>7. CASE Write
  BY <1>7 DEF Write, goalVars, Inv, HasRoom, Obeys
<1>8. CASE Dies
  BY <1>8 DEF Dies, goalVars, Inv, HasRoom, Obeys
<1>9. CASE UNCHANGED vars
  BY <1>9 DEF vars, goalVars, Inv, HasRoom, Obeys
<1> QED
  BY <1>1, <1>2, <1>3, <1>4, <1>5, <1>6, <1>7, <1>8, <1>9 DEF Next

(* "abort wins ties" (goal-loop.ts:144), for every budget and whatever the   *)
(* user injects: once abort() was called, wherever the loop was waiting, no  *)
(* further turn is asked for and none is sent.                               *)
THEOREM AbortIsObeyed == Spec => AbortTakesNoTurn
<1>1. Init => Inv
  BY InitInv
<1>2. Inv /\ [Next]_vars => Inv'
  BY StepObeys
<1>3. Inv /\ [Next]_vars
          => [aborting => (goal'.awaits \in {"agent", "chat"} => goal' = goal)]_vars
  BY StepObeys DEF Obeys
<1> QED
  BY <1>1, <1>2, <1>3, PTL DEF Spec, AbortTakesNoTurn

(* A run never takes a turn, nor waits for a verdict, beyond its budget      *)
(* (budget.ts): whatever ends it, its counters stay within their caps, and   *)
(* one that still waits is below them.                                       *)
THEOREM BudgetIsKept ==
    Spec => [](goal \in Runs /\ (goal.awaits # "nothing" => HasRoom(goal)))
<1>1. Init => Inv
  BY InitInv
<1>2. Inv /\ [Next]_vars => Inv'
  BY StepObeys
<1>3. Inv => goal \in Runs /\ (goal.awaits # "nothing" => HasRoom(goal))
  BY DEF Inv
<1> QED
  BY <1>1, <1>2, <1>3, PTL DEF Spec

-----------------------------------------------------------------------------
(* What FlattenSeq makes of a sequence of sequences: as its values are given  *)
(* by a recursive function, the least index at which a claim about them fails *)
(* is shown not to exist.                                                     *)

LEMMA LeastOf ==
    ASSUME NEW S, S \subseteq Nat, S # {}
    PROVE  \E m \in S : \A y \in S : m <= y
<1> DEFINE Less == {ss \in Nat \X Nat : ss[1] < ss[2]}
<1>1. IsWellFoundedOn(Less, Nat)
  BY NatLessThanWellFounded DEF OpToRel
<1>2. PICK x \in S : \A y \in S : <<y, x>> \notin Less
  BY <1>1, WFMin
<1>3. \A y \in S : x <= y
  <2>1. SUFFICES ASSUME NEW y \in S PROVE ~ (y < x)
    OBVIOUS
  <2>2. <<y, x>> \in Nat \X Nat
    BY <2>1
  <2> QED
    BY <1>2, <2>2
<1> QED
  BY <1>3

\* One sequence after another: the provers reason of Cat by these facts alone.
Cat(a, b) == a \o b

LEMMA CatIn ==
    ASSUME NEW S, NEW a \in Seq(S), NEW b \in Seq(S)
    PROVE  Cat(a, b) \in Seq(S)
BY ConcatProperties DEF Cat

LEMMA CatNothing ==
    ASSUME NEW S, NEW a \in Seq(S)
    PROVE  Cat(a, <<>>) = a /\ Cat(<<>>, a) = a
BY ConcatEmptySeq DEF Cat

LEMMA CatCat ==
    ASSUME NEW S, NEW a \in Seq(S), NEW b \in Seq(S), NEW c \in Seq(S)
    PROVE  Cat(Cat(a, b), c) = Cat(a, Cat(b, c))
BY ConcatAssociative DEF Cat

\* f[i] is what the first i of the sequences make.
Flattens(s, f, n) ==
    f = [i \in 1 .. n |-> IF i = 1 THEN s[i] ELSE Cat(f[i - 1], s[i])]

LEMMA FlattensExist == ASSUME NEW s, NEW n \in Nat PROVE \E f : Flattens(s, f, n)
<1> DEFINE Bad == {m \in Nat : ~ \E f : Flattens(s, f, m)}
<1>1. SUFFICES ASSUME Bad # {} PROVE FALSE
  OBVIOUS
<1>2. PICK m \in Bad : \A y \in Bad : m <= y
  BY <1>1, LeastOf
<1>3. CASE m = 0
  <2>1. Flattens(s, [i \in 1 .. 0 |-> s[i]], 0)
    BY DEF Flattens
  <2> QED BY <1>2, <1>3, <2>1
<1>4. CASE m # 0
  <2>1. m - 1 \in Nat /\ m - 1 \notin Bad
    BY <1>2, <1>4
  <2>2. PICK f : Flattens(s, f, m - 1)
    BY <2>1
  <2> DEFINE g == [i \in 1 .. m |-> IF i = m THEN (IF m = 1 THEN s[m] ELSE Cat(f[m - 1], s[m]))
                                    ELSE f[i]]
             h == [i \in 1 .. m |-> IF i = 1 THEN s[i] ELSE Cat(g[i - 1], s[i])]
  <2>3. ASSUME NEW i \in 1 .. m PROVE g[i] = h[i]
    <3>1. CASE i = m
      BY <1>4, <3>1
    <3>2. CASE i # m
      <4>1. i \in 1 .. m - 1 /\ g[i] = f[i] /\ (i # 1 => g[i - 1] = f[i - 1])
        BY <3>2
      <4>2. f[i] = IF i = 1 THEN s[i] ELSE Cat(f[i - 1], s[i])
        BY <2>2, <4>1 DEF Flattens
      <4> QED BY <4>1, <4>2
    <3> QED BY <3>1, <3>2
  <2>4. g = [i \in 1 .. m |-> g[i]] /\ h = [i \in 1 .. m |-> h[i]]
    OBVIOUS
  <2>5. Flattens(s, g, m)
    <3>1. g = h
      <4> HIDE DEF g, h
      <4> QED BY <2>3, <2>4
    <3> QED BY <3>1 DEF Flattens
  <2> QED BY <1>2, <2>5
<1> QED BY <1>3, <1>4

LEMMA FlattensTyped ==
    ASSUME NEW S, NEW s \in Seq(Seq(S)), NEW f, Flattens(s, f, Len(s)), NEW i \in 1 .. Len(s)
    PROVE  f[i] \in Seq(S)
<1> DEFINE Bad == {j \in 1 .. Len(s) : f[j] \notin Seq(S)}
<1>1. SUFFICES ASSUME Bad # {} PROVE FALSE
  OBVIOUS
<1>2. Bad \subseteq Nat
  OBVIOUS
<1>3. PICK m \in Bad : \A y \in Bad : m <= y
  BY <1>1, <1>2, LeastOf
<1>4. s[m] \in Seq(S)
  OBVIOUS
<1>5. f[m] = IF m = 1 THEN s[m] ELSE Cat(f[m - 1], s[m])
  BY DEF Flattens
<1>6. m # 1 => f[m - 1] \in Seq(S)
  BY <1>3
<1>7. m # 1 => Cat(f[m - 1], s[m]) \in Seq(S)
  BY <1>4, <1>6, CatIn
<1> QED BY <1>3, <1>4, <1>5, <1>7

LEMMA FlattenIs ==
    ASSUME NEW S, NEW s \in Seq(Seq(S)), s # <<>>
    PROVE  \E f : Flattens(s, f, Len(s)) /\ FlattenSeq(s) = f[Len(s)]
<1> DEFINE f == CHOOSE f : Flattens(s, f, Len(s))
<1>1. Len(s) \in Nat /\ Len(s) # 0
  BY EmptySeq
<1>2. Flattens(s, f, Len(s))
  BY <1>1, FlattensExist
<1>3. FlattenSeq(s) = f[Len(s)]
  BY <1>1 DEF FlattenSeq, Flattens, Cat
<1> HIDE DEF f
<1> QED BY <1>2, <1>3

LEMMA FlattensAt ==
    ASSUME NEW s, NEW n \in Nat, NEW f, Flattens(s, f, n), NEW i \in 1 .. n
    PROVE  /\ i = 1 => f[i] = s[i]
           /\ i # 1 => f[i] = Cat(f[i - 1], s[i])
BY DEF Flattens

\* s is t with one more sequence in front; g and f are their running results.
OneMore(S, n, s, t, g, f) ==
    /\ Flattens(s, g, n + 1) /\ Flattens(t, f, n)
    /\ \A i \in 1 .. n + 1 : s[i] \in Seq(S)
    /\ \A i \in 1 .. n : t[i] = s[i + 1]
    /\ \A i \in 1 .. n : f[i] \in Seq(S)

\* One more sequence in front is one more in front of every running result.
LEMMA FlattensShift ==
    ASSUME NEW S, NEW n \in Nat, NEW s, NEW t, NEW g, NEW f, OneMore(S, n, s, t, g, f)
    PROVE  g[n + 1] = IF n = 0 THEN s[1] ELSE Cat(s[1], f[n])
<1>8. \A i \in 1 .. n : g[i + 1] = Cat(s[1], f[i])
  <2> SUFFICES ASSUME Flattens(s, g, n + 1), Flattens(t, f, n),
                      \A i \in 1 .. n + 1 : s[i] \in Seq(S),
                      \A i \in 1 .. n : t[i] = s[i + 1],
                      \A i \in 1 .. n : f[i] \in Seq(S)
               PROVE  \A i \in 1 .. n : g[i + 1] = Cat(s[1], f[i])
    BY DEF OneMore
  <2> DEFINE Bad == {i \in 1 .. n : g[i + 1] # Cat(s[1], f[i])}
  <2>1. SUFFICES ASSUME Bad # {} PROVE FALSE
    OBVIOUS
  <2>2. PICK m \in Bad : \A y \in Bad : m <= y
    <3>1. Bad \subseteq 1 .. n
      OBVIOUS
    <3>2. 1 .. n \subseteq Nat
      OBVIOUS
    <3> HIDE DEF Bad
    <3>3. Bad \subseteq Nat
      BY <3>1, <3>2
    <3> QED BY <2>1, <3>3, LeastOf
  <2>3. m \in 1 .. n /\ g[m + 1] # Cat(s[1], f[m])
    OBVIOUS
  <2>0. ASSUME NEW j \in 1 .. n, j < m PROVE g[j + 1] = Cat(s[1], f[j])
    <3>1. j \notin Bad
      <4> HIDE DEF Bad
      <4> QED BY <2>0, <2>2, <2>3
    <3> QED BY <3>1
  <2> HIDE DEF Bad
  <2>4. /\ m + 1 \in 1 .. n + 1 /\ m + 1 # 1 /\ m + 1 - 1 = m /\ 1 \in 1 .. n + 1
        /\ m \in 1 .. n + 1 /\ t[m] = s[m + 1] /\ s[m + 1] \in Seq(S) /\ s[1] \in Seq(S)
    BY <2>3
  <2>5. g[m + 1] = Cat(g[m], s[m + 1])
    <3>1. n + 1 \in Nat
      OBVIOUS
    <3>2. m + 1 # 1 => g[m + 1] = Cat(g[m + 1 - 1], s[m + 1])
      BY <2>4, <3>1, FlattensAt
    <3> QED BY <2>4, <3>2
  <2>6. CASE m = 1
    <3>1. g[m] = s[1] /\ f[m] = t[m]
      BY <2>3, <2>4, <2>6 DEF Flattens
    <3> QED BY <2>3, <2>4, <2>5, <3>1
  <2>7. CASE m # 1
    <3>1. m - 1 \in 1 .. n /\ m - 1 + 1 = m /\ m - 1 < m
      BY <2>3, <2>7
    <3>2. f[m - 1] \in Seq(S)
      BY <3>1
    <3>3. g[m] = Cat(s[1], f[m - 1])
      BY <2>0, <3>1
    <3>4. f[m] = Cat(f[m - 1], t[m])
      BY <2>3, <2>7 DEF Flattens
    <3>5. Cat(Cat(s[1], f[m - 1]), s[m + 1]) = Cat(s[1], Cat(f[m - 1], s[m + 1]))
      BY <2>4, <3>2, CatCat
    <3> QED BY <2>3, <2>4, <2>5, <3>3, <3>4, <3>5
  <2> QED BY <2>6, <2>7
<1>9. n = 0 => g[n + 1] = s[1]
  BY DEF OneMore, Flattens
<1> QED BY <1>8, <1>9

\* The first of them comes first.
LEMMA FlattenHead ==
    ASSUME NEW S, NEW s \in Seq(Seq(S)), s # <<>>
    PROVE  /\ FlattenSeq(s) = Cat(Head(s), FlattenSeq(Tail(s)))
           /\ FlattenSeq(s) \in Seq(S)
<1>1. PICK n \in Nat : Len(s) = n + 1
  <2>1. Len(s) \in Nat /\ Len(s) # 0
    BY EmptySeq
  <2>2. Len(s) - 1 \in Nat /\ Len(s) = Len(s) - 1 + 1
    BY <2>1
  <2> QED BY <2>2
<1>2. /\ Head(s) = s[1] /\ Tail(s) \in Seq(Seq(S)) /\ Len(Tail(s)) = n
      /\ \A i \in 1 .. n : Tail(s)[i] = s[i + 1]
  BY <1>1, HeadTailProperties
<1>3. \A i \in 1 .. n + 1 : s[i] \in Seq(S)
  BY <1>1
<1>4. PICK g : Flattens(s, g, n + 1) /\ FlattenSeq(s) = g[n + 1]
  BY <1>1, FlattenIs
<1>5. g[n + 1] \in Seq(S)
  BY <1>1, <1>4, FlattensTyped, n + 1 \in 1 .. n + 1
<1>6. CASE n = 0
  <2>1. Tail(s) = <<>>
    BY <1>2, <1>6, EmptySeq
  <2>2. FlattenSeq(Tail(s)) = <<>>
    BY <2>1 DEF FlattenSeq
  <2>3. g[n + 1] = s[1]
    BY <1>4, <1>6 DEF Flattens
  <2>4. s[1] \in Seq(S)
    BY <1>3, <1>6
  <2>5. Cat(s[1], <<>>) = s[1]
    BY <2>4, CatNothing
  <2> QED BY <1>2, <1>4, <1>5, <2>2, <2>3, <2>5
<1>7. CASE n # 0
  <2>1. PICK t : t = Tail(s)
    OBVIOUS
  <2>2. t \in Seq(Seq(S)) /\ Len(t) = n /\ t # <<>>
    BY <1>2, <1>7, <2>1, EmptySeq
  <2>3. PICK f : Flattens(t, f, n) /\ FlattenSeq(t) = f[n]
    BY <2>2, FlattenIs
  <2>4. \A i \in 1 .. n : f[i] \in Seq(S)
    BY <2>2, <2>3, FlattensTyped
  <2>5. \A i \in 1 .. n : t[i] = s[i + 1]
    BY <1>2, <2>1
  <2>6. OneMore(S, n, s, t, g, f)
    BY <1>3, <1>4, <2>3, <2>4, <2>5 DEF OneMore
  <2>7. g[n + 1] = Cat(s[1], f[n])
    BY <1>7, <2>6, FlattensShift
  <2> QED BY <1>2, <1>4, <1>5, <2>1, <2>3, <2>7
<1> QED BY <1>6, <1>7

-----------------------------------------------------------------------------
(* What Emits makes of the kinds of some events: for each, in turn, its row,  *)
(* the run's row when the run begins, and its line of the ledger.             *)

Row(k) == [to |-> "row", kind |-> k]
Line(k) == [to |-> "ledger", kind |-> k]
Mark(status) == [to |-> "run", kind |-> status]
Shut == [to |-> "close", kind |-> "close"]

Block(k) == <<Row(k)>> \o (IF k = "run.started" THEN <<Mark("running")>> ELSE <<>>) \o <<Line(k)>>
Blocks(kinds) == [i \in DOMAIN kinds |-> Block(kinds[i])]

LEMMA BlockTyped == ASSUME NEW k \in Kinds PROVE Block(k) \in Seq(Writes)
<1>1. Row(k) \in Writes /\ Line(k) \in Writes /\ Mark("running") \in Writes
  BY DEF Row, Line, Mark, Writes, Stores
<1> QED BY <1>1 DEF Block

LEMMA BlocksTyped == ASSUME NEW ks \in Seq(Kinds) PROVE Blocks(ks) \in Seq(Seq(Writes))
<1>1. DOMAIN ks = 1 .. Len(ks) /\ Len(ks) \in Nat
  OBVIOUS
<1>2. \A i \in DOMAIN ks : ks[i] \in Kinds
  OBVIOUS
<1>3. \A i \in DOMAIN ks : Block(ks[i]) \in Seq(Writes)
  BY <1>2, BlockTyped
<1> QED BY <1>1, <1>3 DEF Blocks

LEMMA EmitsIs == ASSUME NEW ks PROVE Emits(ks) = FlattenSeq(Blocks(ks))
BY DEF Emits, Blocks, Block, Row, Line, Mark

LEMMA EmitsNone == Emits(<<>>) = <<>>
<1>1. Blocks(<<>>) = <<>>
  BY DEF Blocks
<1>2. FlattenSeq(<<>>) = <<>>
  BY DEF FlattenSeq
<1> QED BY <1>1, <1>2, EmitsIs

LEMMA EmitsHead ==
    ASSUME NEW ks \in Seq(Kinds), ks # <<>>
    PROVE  /\ Head(ks) \in Kinds /\ Tail(ks) \in Seq(Kinds)
           /\ Emits(ks) \in Seq(Writes)
           /\ Emits(ks) = Cat(Block(Head(ks)), Emits(Tail(ks)))
<1>1. /\ Head(ks) \in Kinds /\ Tail(ks) \in Seq(Kinds) /\ Len(Tail(ks)) = Len(ks) - 1
      /\ \A i \in 1 .. Len(Tail(ks)) : Tail(ks)[i] = ks[i + 1]
  BY HeadTailProperties
<1>2. Len(ks) \in Nat \ {0} /\ Head(ks) = ks[1] /\ DOMAIN ks = 1 .. Len(ks)
  BY EmptySeq
<1>3. PICK b \in Seq(Seq(Writes)) : b = Blocks(ks)
  BY BlocksTyped
<1>4. PICK d \in Seq(Seq(Writes)) : d = Blocks(Tail(ks))
  BY <1>1, BlocksTyped
<1>5. Len(b) = Len(ks) /\ \A i \in 1 .. Len(ks) : b[i] = Block(ks[i])
  <2>1. DOMAIN b = DOMAIN ks /\ \A i \in DOMAIN ks : b[i] = Block(ks[i])
    BY <1>3 DEF Blocks
  <2>2. DOMAIN b = 1 .. Len(b) /\ Len(b) \in Nat
    OBVIOUS
  <2>3. Len(b) = Len(ks)
    BY <1>2, <2>1, <2>2
  <2> QED BY <1>2, <2>1, <2>3
<1>6. Len(d) = Len(ks) - 1 /\ \A i \in 1 .. Len(ks) - 1 : d[i] = Block(ks[i + 1])
  <2>1. DOMAIN Tail(ks) = 1 .. Len(ks) - 1
    BY <1>1
  <2>2. DOMAIN d = 1 .. Len(ks) - 1 /\ Len(ks) - 1 \in Nat
    BY <1>2, <1>4, <2>1 DEF Blocks
  <2>3. \A i \in 1 .. Len(ks) - 1 : d[i] = Block(Tail(ks)[i])
    BY <1>4, <2>1 DEF Blocks
  <2>4. DOMAIN d = 1 .. Len(d) /\ Len(d) \in Nat
    OBVIOUS
  <2>5. Len(d) = Len(ks) - 1
    <3>1. PICK m \in Nat : m = Len(ks) - 1
      BY <2>2
    <3>2. DOMAIN d = 1 .. m
      BY <2>2, <3>1
    <3>3. Len(d) = m
      BY <3>2, LenProperties
    <3> QED BY <3>1, <3>3
  <2>6. \A i \in 1 .. Len(ks) - 1 : Tail(ks)[i] = ks[i + 1]
    BY <1>1
  <2>7. \A i \in 1 .. Len(ks) - 1 : d[i] = Block(ks[i + 1])
    BY <2>3, <2>6
  <2> QED BY <2>5, <2>7
<1>7. b # <<>> /\ Head(b) = Block(Head(ks))
  BY <1>2, <1>5, EmptySeq
<1>8. Tail(b) = d
  <2>1. /\ Tail(b) \in Seq(Seq(Writes)) /\ Len(Tail(b)) = Len(b) - 1
        /\ \A i \in 1 .. Len(Tail(b)) : Tail(b)[i] = b[i + 1]
    BY <1>7, HeadTailProperties
  <2>2. \A i \in 1 .. Len(d) : Tail(b)[i] = d[i]
    <3> SUFFICES ASSUME NEW i \in 1 .. Len(d) PROVE Tail(b)[i] = d[i]
      OBVIOUS
    <3>1. i \in 1 .. Len(ks) - 1 /\ i + 1 \in 1 .. Len(ks) /\ i \in 1 .. Len(Tail(b))
      BY <1>2, <1>5, <1>6, <2>1
    <3> QED BY <1>5, <1>6, <2>1, <3>1
  <2>3. Len(Tail(b)) = Len(d)
    BY <1>5, <1>6, <2>1
  <2> QED BY <2>1, <2>2, <2>3, SeqEqual
<1> QED BY <1>1, <1>3, <1>4, <1>7, <1>8, EmitsIs, FlattenHead

LEMMA EmitsTyped == ASSUME NEW ks \in Seq(Kinds) PROVE Emits(ks) \in Seq(Writes)
<1>1. CASE ks = <<>>
  BY <1>1, EmitsNone, EmptySeq
<1>2. CASE ks # <<>>
  BY <1>2, EmitsHead
<1> QED BY <1>1, <1>2

LEMMA FrontOff ==
    ASSUME NEW S, NEW e \in S, NEW w \in Seq(S)
    PROVE  /\ Cat(<<e>>, w) \in Seq(S) /\ Cat(<<e>>, w) # <<>>
           /\ Head(Cat(<<e>>, w)) = e /\ Tail(Cat(<<e>>, w)) = w
<1>0. <<e>> \in Seq(S) /\ Len(<<e>>) = 1 /\ <<e>>[1] = e
  OBVIOUS
<1>5. PICK d \in Seq(S) : d = <<e>>
  BY <1>0
<1>6. d \o w \in Seq(S)
  BY ConcatProperties
<1>1. PICK c \in Seq(S) : c = d \o w
  BY <1>6
<1>2. /\ Len(c) = Len(w) + 1 /\ c[1] = e /\ Len(w) \in Nat
      /\ \A i \in 1 .. Len(w) : c[i + 1] = w[i]
  <2>2. Len(d) = 1 /\ d[1] = e
    BY <1>0, <1>5
  <2>3. c = d \o w
    BY <1>1
  <2>4. /\ Len(d \o w) = Len(d) + Len(w)
        /\ \A i \in 1 .. Len(d) + Len(w) : (d \o w)[i] = IF i <= Len(d) THEN d[i] ELSE w[i - Len(d)]
    BY ConcatProperties
  <2>5. Len(w) \in Nat
    OBVIOUS
  <2>6. Len(c) = 1 + Len(w) /\ \A i \in 1 .. 1 + Len(w) : c[i] = IF i <= 1 THEN d[i] ELSE w[i - 1]
    BY <2>2, <2>3, <2>4
  <2>7. ASSUME NEW i \in 1 .. Len(w) PROVE c[i + 1] = w[i]
    <3>1. i + 1 \in 1 .. 1 + Len(w) /\ ~(i + 1 <= 1) /\ i + 1 - 1 = i
      BY <2>5
    <3> QED BY <2>6, <3>1
  <2>8. c[1] = e
    BY <2>2, <2>5, <2>6, 1 \in 1 .. 1 + Len(w)
  <2> QED BY <2>5, <2>6, <2>7, <2>8
<1>3. c # <<>> /\ Head(c) = e
  BY <1>2
<1>4. Tail(c) = w
  <2>1. Tail(c) \in Seq(S) /\ Len(Tail(c)) = Len(w)
    BY <1>2, <1>3, HeadTailProperties
  <2>2. \A i \in 1 .. Len(Tail(c)) : Tail(c)[i] = w[i]
    BY <1>2, <1>3, <2>1, HeadTailProperties
  <2> QED BY <2>1, <2>2, SeqEqual
<1> QED BY <1>1, <1>3, <1>4, <1>5 DEF Cat

\* What is left of an event's writes once its row is written, and more.
LineThen(k, w) == Cat(<<Line(k)>>, w)
RowThen(k, w) == IF k = "run.started" THEN Cat(<<Mark("running")>>, LineThen(k, w)) ELSE LineThen(k, w)

LEMMA WritesAre ==
    /\ \A k \in Kinds : Row(k) \in Writes /\ Line(k) \in Writes
    /\ \A s \in Terminal \cup {"running"} : Mark(s) \in Writes
    /\ Shut \in Writes
BY DEF Row, Line, Mark, Shut, Writes, Stores

LEMMA ThenTyped ==
    ASSUME NEW k \in Kinds, NEW w \in Seq(Writes)
    PROVE  LineThen(k, w) \in Seq(Writes) /\ RowThen(k, w) \in Seq(Writes)
<1>1. LineThen(k, w) \in Seq(Writes)
  BY WritesAre, FrontOff DEF LineThen
<1> QED BY <1>1, WritesAre, FrontOff DEF RowThen

LEMMA BlockThen ==
    ASSUME NEW k \in Kinds, NEW w \in Seq(Writes)
    PROVE  Cat(Block(k), w) = Cat(<<Row(k)>>, RowThen(k, w))
<1>1. PICK r \in Writes : r = Row(k)
  BY WritesAre
<1>2. PICK l \in Writes : l = Line(k)
  BY WritesAre
<1>3. PICK m \in Writes : m = Mark("running")
  BY WritesAre
<1>4. (<<r>> \o <<>> \o <<l>>) \o w = <<r>> \o (<<l>> \o w)
  OBVIOUS
<1>5. (<<r>> \o <<m>> \o <<l>>) \o w = <<r>> \o (<<m>> \o (<<l>> \o w))
  OBVIOUS
<1>6. CASE k = "run.started"
  BY <1>1, <1>2, <1>3, <1>5, <1>6 DEF Cat, Block, RowThen, LineThen
<1>7. CASE k # "run.started"
  BY <1>1, <1>2, <1>4, <1>7 DEF Cat, Block, RowThen, LineThen
<1> QED BY <1>6, <1>7

-----------------------------------------------------------------------------
(* The order of a run's writes.  What is still to be written is always the   *)
(* writes of some events, the first of them perhaps begun, and what follows  *)
(* the last event of a run that is over.                                     *)

Tails == {<<>>, <<Shut>>} \cup {<<Mark(s), Shut>> : s \in Terminal}

\* The rows and the ledger tell the same events, and ks are still to be told.
Level(ks, tail) ==
    /\ eventRows = chain /\ writes = Cat(Emits(ks), tail)
    /\ tail # <<>> => goal.awaits = "nothing" /\ (Ended(chain) \/ Ended(ks))
    /\ tail = <<Shut>> => ks = <<>>
    /\ runRow \in Terminal => tail = <<Shut>>

\* The row of k is written and its line is not; then ks are to be told.
Ahead(k, ks, tail) ==
    /\ eventRows = Append(chain, k)
    /\ \/ writes = LineThen(k, Cat(Emits(ks), tail))
       \/ writes = Cat(<<Mark("running")>>, LineThen(k, Cat(Emits(ks), tail)))
    /\ tail # <<>> => goal.awaits = "nothing" /\ (Ended(chain) \/ k \in Endings \/ Ended(ks))
    /\ tail # <<Shut>> /\ runRow \notin Terminal

InOrder ==
    \/ \E ks \in Seq(Kinds), tail \in Tails : Level(ks, tail)
    \/ \E k \in Kinds, ks \in Seq(Kinds), tail \in Tails : Ahead(k, ks, tail)

\* A closed ledger holds the end of its run; only rows came after it was closed.
WellClosed ==
    /\ goal.awaits = "nothing" /\ Ended(chain)
    /\ \E rows \in Seq(Kinds) : eventRows = Cat(chain, rows)

TrailInv ==
    /\ writes \in Seq(Writes) /\ eventRows \in Seq(Kinds) /\ chain \in Seq(Kinds)
    /\ tornEntry => ~serving /\ writes # <<>>
    /\ IF closed THEN WellClosed ELSE InOrder

LEMMA TailsTyped == Tails \subseteq Seq(Writes)
<1>1. PICK u \in Writes : u = Shut
  BY WritesAre
<1>2. <<>> \in Seq(Writes) /\ <<u>> \in Seq(Writes)
  OBVIOUS
<1>3. ASSUME NEW s \in Terminal PROVE <<Mark(s), Shut>> \in Seq(Writes)
  <2>1. PICK m \in Writes : m = Mark(s)
    BY WritesAre
  <2>2. <<m, u>> \in Seq(Writes)
    OBVIOUS
  <2> QED BY <1>1, <2>1, <2>2
<1> QED BY <1>1, <1>2, <1>3 DEF Tails

LEMMA EndedAppend ==
    ASSUME NEW c \in Seq(Kinds), NEW k \in Kinds
    PROVE  Ended(Append(c, k)) <=> Ended(c) \/ k \in Endings
<1>1. PICK d \in Seq(Kinds) : d = Append(c, k)
  BY AppendProperties
<1>2. /\ Len(d) = Len(c) + 1 /\ d[Len(c) + 1] = k /\ Len(c) \in Nat
      /\ \A i \in 1 .. Len(c) : d[i] = c[i]
  BY <1>1
<1>3. DOMAIN d = 1 .. Len(c) + 1 /\ DOMAIN c = 1 .. Len(c)
  BY <1>2
<1>4. Ended(c) => Ended(d)
  <2> SUFFICES ASSUME NEW i \in DOMAIN c, c[i] \in Endings PROVE Ended(d)
    BY DEF Ended, Range
  <2>1. i \in DOMAIN d /\ d[i] = c[i]
    BY <1>2, <1>3
  <2> QED BY <2>1 DEF Ended, Range
<1>5. k \in Endings => Ended(d)
  <2>1. Len(c) + 1 \in DOMAIN d
    BY <1>2, <1>3
  <2> QED BY <1>2, <2>1 DEF Ended, Range
<1>6. Ended(d) => Ended(c) \/ k \in Endings
  <2> SUFFICES ASSUME NEW i \in DOMAIN d, d[i] \in Endings PROVE Ended(c) \/ k \in Endings
    BY DEF Ended, Range
  <2>1. CASE i = Len(c) + 1
    BY <1>2, <2>1
  <2>2. CASE i # Len(c) + 1
    <3>1. i \in DOMAIN c /\ d[i] = c[i]
      BY <1>2, <1>3, <2>2
    <3> QED BY <3>1 DEF Ended, Range
  <2> QED BY <2>1, <2>2
<1> QED BY <1>1, <1>4, <1>5, <1>6

LEMMA EndedHead ==
    ASSUME NEW ks \in Seq(Kinds), ks # <<>>, Ended(ks)
    PROVE  Head(ks) \in Endings \/ Ended(Tail(ks))
<1>1. PICK i \in DOMAIN ks : ks[i] \in Endings
  BY DEF Ended, Range
<1>2. /\ i \in 1 .. Len(ks) /\ Len(ks) \in Nat /\ Head(ks) = ks[1]
      /\ Len(Tail(ks)) = Len(ks) - 1 /\ Tail(ks) \in Seq(Kinds)
      /\ \A j \in 1 .. Len(Tail(ks)) : Tail(ks)[j] = ks[j + 1]
  BY HeadTailProperties
<1>3. CASE i = 1
  BY <1>1, <1>2, <1>3
<1>4. CASE i # 1
  <2>1. i - 1 \in 1 .. Len(Tail(ks)) /\ i - 1 + 1 = i
    BY <1>2, <1>4
  <2>2. i - 1 \in DOMAIN Tail(ks)
    BY <1>2, <2>1
  <2>3. Tail(ks)[i - 1] = ks[i]
    BY <1>2, <2>1
  <2> QED BY <1>1, <2>2, <2>3 DEF Ended, Range
<1> QED BY <1>3, <1>4

LEMMA EndedNone == ~ Ended(<<>>)
BY DEF Ended, Range

LEMMA OwedHead ==
    ASSUME NEW ks \in Seq(Kinds), ks # <<>>, NEW tail \in Tails
    PROVE  /\ Head(ks) \in Kinds /\ Tail(ks) \in Seq(Kinds)
           /\ Cat(Emits(Tail(ks)), tail) \in Seq(Writes)
           /\ Cat(Emits(ks), tail)
              = Cat(<<Row(Head(ks))>>, RowThen(Head(ks), Cat(Emits(Tail(ks)), tail)))
<1>1. /\ Head(ks) \in Kinds /\ Tail(ks) \in Seq(Kinds)
      /\ Emits(ks) = Cat(Block(Head(ks)), Emits(Tail(ks)))
  BY EmitsHead
<1>2. Block(Head(ks)) \in Seq(Writes) /\ Emits(Tail(ks)) \in Seq(Writes) /\ tail \in Seq(Writes)
  BY <1>1, BlockTyped, EmitsTyped, TailsTyped
<1>3. Cat(Emits(ks), tail) = Cat(Block(Head(ks)), Cat(Emits(Tail(ks)), tail))
  BY <1>1, <1>2, CatCat
<1>4. Cat(Emits(Tail(ks)), tail) \in Seq(Writes)
  BY <1>2, CatIn
<1> QED BY <1>1, <1>3, <1>4, BlockThen

LEMMA TailsDiffer ==
    /\ <<>> \in Tails /\ <<Shut>> \in Tails /\ \A s \in Terminal : <<Mark(s), Shut>> \in Tails
    /\ <<>> # <<Shut>> /\ \A s \in Terminal : <<Mark(s), Shut>> # <<>> /\ <<Mark(s), Shut>> # <<Shut>>
<1>1. /\ <<>> \in Tails /\ <<Shut>> \in Tails
      /\ \A s \in Terminal : <<Mark(s), Shut>> \in Tails
  BY DEF Tails
<1>2. Len(<<>>) = 0 /\ Len(<<Shut>>) = 1 /\ \A s \in Terminal : Len(<<Mark(s), Shut>>) = 2
  OBVIOUS
<1> QED BY <1>1, <1>2

\* When nothing is left to write, rows and ledger agree and the run is not over.
LEMMA NothingOwed ==
    ASSUME TrailInv, writes = <<>>, ~closed
    PROVE  eventRows = chain /\ runRow \notin Terminal
<1>1. ASSUME NEW k \in Kinds, NEW ks \in Seq(Kinds), NEW tail \in Tails, Ahead(k, ks, tail)
      PROVE  FALSE
  <2>1. Cat(Emits(ks), tail) \in Seq(Writes)
    BY EmitsTyped, TailsTyped, CatIn
  <2>2. LineThen(k, Cat(Emits(ks), tail)) \in Seq(Writes)
    BY <2>1, ThenTyped
  <2>3. LineThen(k, Cat(Emits(ks), tail)) # <<>>
    BY <2>1, WritesAre, FrontOff DEF LineThen
  <2>4. Cat(<<Mark("running")>>, LineThen(k, Cat(Emits(ks), tail))) # <<>>
    BY <2>2, WritesAre, FrontOff
  <2> QED BY <1>1, <2>3, <2>4 DEF Ahead
<1>2. PICK ks \in Seq(Kinds), tail \in Tails : Level(ks, tail)
  BY <1>1 DEF TrailInv, InOrder
<1>3. ks = <<>>
  <2> SUFFICES ASSUME ks # <<>> PROVE FALSE
    OBVIOUS
  <2>1. RowThen(Head(ks), Cat(Emits(Tail(ks)), tail)) \in Seq(Writes) /\ Row(Head(ks)) \in Writes
    BY OwedHead, ThenTyped, WritesAre
  <2>3. Cat(<<Row(Head(ks))>>, RowThen(Head(ks), Cat(Emits(Tail(ks)), tail))) # <<>>
    BY <2>1, FrontOff
  <2>2. Cat(Emits(ks), tail) # <<>>
    BY <2>3, OwedHead
  <2> QED BY <1>2, <2>2 DEF Level
<1>4. tail = <<>>
  BY <1>2, <1>3, EmitsNone, TailsTyped, CatNothing DEF Level
<1> QED BY <1>2, <1>4, TailsDiffer DEF Level

\* A step of the loop, or the user's, that has events to tell.
LEMMA TellsInOrder ==
    ASSUME TrailInv, Ready, ~closed, NEW ks \in Seq(Kinds), writes' = Emits(ks),
           UNCHANGED <<diskVars, closed, serving>>
    PROVE  TrailInv'
<1>1. eventRows = chain /\ runRow \notin Terminal
  BY NothingOwed DEF Ready
<1>2. Emits(ks) \in Seq(Writes) /\ Cat(Emits(ks), <<>>) = Emits(ks)
  BY EmitsTyped, CatNothing
<1>3. Level(ks, <<>>)'
  BY <1>1, <1>2, TailsDiffer DEF Level, diskVars
<1>4. InOrder'
  BY <1>3, TailsDiffer DEF InOrder
<1> QED BY <1>2, <1>4 DEF TrailInv, Ready, diskVars

LEMMA EndOfEnds == ASSUME NEW status, NEW reason PROVE EndOf(status, reason) \in Endings
BY DEF EndOf, Endings

\* The end of the run.
LEMMA FarewellInOrder ==
    ASSUME TrailInv, Ready, ~closed, NEW kinds \in Seq(Kinds), NEW status \in Terminal,
           NEW reason, writes' = Farewell(kinds, status, reason), goal'.awaits = "nothing",
           UNCHANGED <<diskVars, closed, serving>>
    PROVE  TrailInv'
<1>1. eventRows = chain /\ runRow \notin Terminal
  BY NothingOwed DEF Ready
<1>2. EndOf(status, reason) \in Endings /\ EndOf(status, reason) \in Kinds
  BY EndOfEnds DEF Kinds
<1>3. PICK ks \in Seq(Kinds) : ks = Append(kinds, EndOf(status, reason))
  BY <1>2, AppendProperties
<1>4. Ended(ks)
  BY <1>2, <1>3, EndedAppend
<1>5. PICK tail \in Tails : tail = <<Mark(status), Shut>>
  BY TailsDiffer
<1>6. writes' = Cat(Emits(ks), tail)
  BY <1>3, <1>5 DEF Farewell, Cat, Mark, Shut
<1>7. writes' \in Seq(Writes)
  BY <1>6, EmitsTyped, TailsTyped, CatIn
<1>8. tail # <<Shut>>
  BY <1>5, TailsDiffer
<1>9. Level(ks, tail)'
  BY <1>1, <1>4, <1>6, <1>8 DEF Level, diskVars
<1>10. InOrder'
  BY <1>9 DEF InOrder
<1> QED BY <1>7, <1>10 DEF TrailInv, Ready, diskVars

LEMMA StoresDiffer ==
    /\ \A k \in Kinds : /\ Row(k).to = "row" /\ Row(k).kind = k
                        /\ Line(k).to = "ledger" /\ Line(k).kind = k
    /\ \A s \in Terminal \cup {"running"} : Mark(s).to = "run" /\ Mark(s).kind = s
    /\ Shut.to = "close" /\ "running" \notin Terminal
BY DEF Row, Line, Mark, Shut, Terminal

LEMMA WriteOne ==
    ASSUME Write, ~closed
    PROVE  /\ writes' = Tail(writes)
           /\ Head(writes).to = "row" =>
                  /\ eventRows' = Append(eventRows, Head(writes).kind)
                  /\ chain' = chain /\ runRow' = runRow /\ ~closed'
           /\ Head(writes).to = "ledger" =>
                  /\ chain' = Append(chain, Head(writes).kind)
                  /\ eventRows' = eventRows /\ runRow' = runRow /\ ~closed'
           /\ Head(writes).to = "run" =>
                  /\ runRow' = Head(writes).kind
                  /\ eventRows' = eventRows /\ chain' = chain /\ ~closed'
           /\ Head(writes).to = "close" =>
                  /\ eventRows' = eventRows /\ chain' = chain /\ runRow' = runRow /\ closed'
<1> PICK to : to = Head(writes).to
  OBVIOUS
<1>1. closed' <=> to = "close"
  BY DEF Write
<1>2. "row" # "ledger" /\ "row" # "run" /\ "row" # "close"
      /\ "ledger" # "run" /\ "ledger" # "close" /\ "run" # "close"
  OBVIOUS
<1> QED BY <1>1, <1>2 DEF Write

\* The row of the first event that is still to be told.
LEMMA WriteRow ==
    ASSUME TrailInv, Write, ~closed, NEW ks \in Seq(Kinds), ks # <<>>, NEW tail \in Tails,
           Level(ks, tail)
    PROVE  TrailInv'
<1>1. PICK k \in Kinds : k = Head(ks)
  BY OwedHead
<1>2. PICK more \in Seq(Kinds) : more = Tail(ks)
  BY OwedHead
<1>3. PICK w \in Seq(Writes) : w = Cat(Emits(more), tail)
  BY <1>2, OwedHead
<1>4. writes = Cat(<<Row(k)>>, RowThen(k, w))
  BY <1>1, <1>2, <1>3, OwedHead DEF Level
<1>5. RowThen(k, w) \in Seq(Writes) /\ Row(k) \in Writes
  BY ThenTyped, WritesAre
<1>6. Head(writes) = Row(k) /\ Tail(writes) = RowThen(k, w)
  BY <1>4, <1>5, FrontOff
<1>7. /\ writes' = RowThen(k, w) /\ eventRows' = Append(eventRows, k)
      /\ chain' = chain /\ runRow' = runRow /\ ~closed'
  <2>1. Head(writes).to = "row" /\ Head(writes).kind = k
    BY <1>6, StoresDiffer
  <2> QED BY <1>6, <2>1, WriteOne
<1>8. tail # <<Shut>> /\ runRow \notin Terminal
  BY DEF Level
<1>9. tail # <<>> => goal.awaits = "nothing" /\ (Ended(chain) \/ k \in Endings \/ Ended(more))
  BY <1>1, <1>2, EndedHead DEF Level
<1>10. writes' = LineThen(k, w) \/ writes' = Cat(<<Mark("running")>>, LineThen(k, w))
  BY <1>7 DEF RowThen
<1>11. goal' = goal /\ serving /\ serving' = serving /\ tornEntry' = tornEntry
  BY DEF Write, goalVars
<1>12. Ahead(k, more, tail)'
  BY <1>3, <1>7, <1>8, <1>9, <1>10, <1>11 DEF Ahead, Level
<1>13. InOrder'
  BY <1>12 DEF InOrder
<1>14. eventRows' \in Seq(Kinds)
  BY <1>7, AppendProperties DEF TrailInv
<1> QED BY <1>5, <1>7, <1>11, <1>13, <1>14 DEF TrailInv

\* The run's row at its end, and the ledger that is closed after it.
LEMMA WriteTail ==
    ASSUME TrailInv, Write, ~closed, NEW tail \in Tails, Level(<<>>, tail)
    PROVE  TrailInv'
<1>1. writes = tail /\ tail # <<>>
  BY EmitsNone, TailsTyped, CatNothing DEF Level, Write
<1>2. goal.awaits = "nothing" /\ Ended(chain) /\ eventRows = chain
  BY <1>1, EndedNone DEF Level
<1>3. goal' = goal /\ serving /\ serving' = serving /\ tornEntry' = tornEntry
  BY DEF Write, goalVars
<1>4. <<Shut>> \in Seq(Writes) /\ <<>> \in Seq(Writes) /\ <<>> \in Seq(Kinds)
  BY TailsTyped, TailsDiffer, EmptySeq
<1>5. CASE tail = <<Shut>>
  <2>1. Tail(writes) = <<>> /\ Head(writes).to = "close"
    <3>1. Head(writes) = Shut /\ Tail(writes) = <<>>
      BY <1>1, <1>5
    <3> QED BY <3>1, StoresDiffer
  <2>2. /\ writes' = <<>> /\ eventRows' = eventRows /\ chain' = chain /\ closed'
    BY <2>1, WriteOne
  <2>3. eventRows' = Cat(chain', <<>>)
    BY <1>2, <2>2, CatNothing DEF TrailInv
  <2>4. WellClosed'
    BY <1>2, <1>3, <1>4, <2>2, <2>3 DEF WellClosed, Ended
  <2> QED BY <1>3, <1>4, <2>2, <2>4 DEF TrailInv
<1>6. ASSUME NEW s \in Terminal, tail = <<Mark(s), Shut>> PROVE TrailInv'
  <2>1. Tail(writes) = <<Shut>> /\ Head(writes).to = "run" /\ Head(writes).kind = s
    <3>1. Head(writes) = Mark(s) /\ Tail(writes) = <<Shut>>
      BY <1>1, <1>6
    <3> QED BY <3>1, StoresDiffer
  <2>2. /\ writes' = <<Shut>> /\ eventRows' = eventRows /\ chain' = chain /\ ~closed'
    BY <2>1, WriteOne
  <2>3. writes' = Cat(Emits(<<>>), <<Shut>>)
    BY <1>4, <2>2, EmitsNone, CatNothing
  <2>4. Level(<<>>, <<Shut>>)'
    BY <1>2, <1>3, <2>2, <2>3 DEF Level, Ended
  <2>5. InOrder'
    BY <1>4, <2>4, TailsDiffer DEF InOrder
  <2> QED BY <1>3, <1>4, <2>2, <2>5 DEF TrailInv
<1> QED BY <1>1, <1>5, <1>6 DEF Tails

\* The line of an event whose row is written, or the run's row between the two.
LEMMA WriteLine ==
    ASSUME TrailInv, Write, ~closed, NEW k \in Kinds, NEW ks \in Seq(Kinds), NEW tail \in Tails,
           Ahead(k, ks, tail)
    PROVE  TrailInv'
<1>1. PICK w \in Seq(Writes) : w = Cat(Emits(ks), tail)
  BY EmitsTyped, TailsTyped, CatIn
<1>2. LineThen(k, w) \in Seq(Writes) /\ Line(k) \in Writes /\ Mark("running") \in Writes
  BY ThenTyped, WritesAre
<1>3. goal' = goal /\ serving /\ serving' = serving /\ tornEntry' = tornEntry
  BY DEF Write, goalVars
<1>4. CASE writes = LineThen(k, w)
  <2>1. Tail(writes) = w /\ Head(writes).to = "ledger" /\ Head(writes).kind = k
    <3>1. Head(writes) = Line(k) /\ Tail(writes) = w
      BY <1>2, <1>4, FrontOff DEF LineThen
    <3> QED BY <3>1, StoresDiffer
  <2>2. /\ writes' = w /\ eventRows' = eventRows /\ chain' = Append(chain, k)
        /\ runRow' = runRow /\ ~closed'
    BY <2>1, WriteOne
  <2>3. Ended(chain') <=> Ended(chain) \/ k \in Endings
    BY <2>2, EndedAppend DEF TrailInv
  <2>4. chain' \in Seq(Kinds)
    BY <2>2, AppendProperties DEF TrailInv
  <2>5. Level(ks, tail)'
    BY <1>1, <1>3, <2>2, <2>3 DEF Level, Ahead, Ended
  <2>6. InOrder'
    BY <2>5 DEF InOrder
  <2> QED BY <1>3, <2>2, <2>4, <2>6 DEF TrailInv
<1>5. CASE writes = Cat(<<Mark("running")>>, LineThen(k, w))
  <2>1. Tail(writes) = LineThen(k, w) /\ Head(writes).to = "run" /\ Head(writes).kind = "running"
    <3>1. Head(writes) = Mark("running") /\ Tail(writes) = LineThen(k, w)
      BY <1>2, <1>5, FrontOff
    <3> QED BY <3>1, StoresDiffer
  <2>2. /\ writes' = LineThen(k, w) /\ eventRows' = eventRows /\ chain' = chain
        /\ runRow' = "running" /\ ~closed'
    BY <2>1, WriteOne
  <2>3. Ahead(k, ks, tail)'
    BY <1>1, <1>3, <2>2, StoresDiffer DEF Ahead, Ended
  <2>4. InOrder'
    BY <2>3 DEF InOrder
  <2> QED BY <1>2, <1>3, <2>2, <2>4 DEF TrailInv
<1> QED BY <1>1, <1>4, <1>5 DEF Ahead

LEMMA CatAppend ==
    ASSUME NEW S, NEW a \in Seq(S), NEW b \in Seq(S), NEW e \in S
    PROVE  Append(Cat(a, b), e) = Cat(a, Append(b, e))
<1>1. PICK d \in Seq(S) : d = <<e>>
  <2>1. <<e>> \in Seq(S)
    OBVIOUS
  <2> QED BY <2>1
<1>2. Append(b, e) = b \o d /\ Append(a \o b, e) = (a \o b) \o d
  <2>1. a \o b \in Seq(S)
    BY ConcatProperties
  <2> QED BY <1>1, <2>1, AppendIsConcat
<1>3. Cat(Cat(a, b), d) = Cat(a, Cat(b, d))
  BY CatCat
<1> QED BY <1>2, <1>3 DEF Cat

\* What is told after the ledger was closed leaves a row and no line.
LEMMA WriteAfterClose ==
    ASSUME TrailInv, Write, closed
    PROVE  TrailInv'
<1>1. writes \in Seq(Writes) /\ writes # <<>> /\ WellClosed /\ chain \in Seq(Kinds)
  BY DEF TrailInv, Write
<1>2. writes' \in Seq(Writes) /\ Head(writes) \in Writes
  <2>1. writes' = Tail(writes)
    BY DEF Write
  <2> QED BY <1>1, <2>1, HeadTailProperties
<1>3. /\ goal' = goal /\ serving /\ serving' = serving /\ tornEntry' = tornEntry
      /\ chain' = chain /\ closed'
  BY DEF Write, goalVars
<1>4. PICK rows \in Seq(Kinds) : eventRows = Cat(chain, rows)
  BY <1>1 DEF WellClosed
<1>5. CASE Head(writes).to = "row"
  <2>1. PICK k \in Kinds : k = Head(writes).kind
    <3>1. Head(writes) \in [to : Stores, kind : Kinds]
      BY <1>2, <1>5 DEF Writes
    <3> QED BY <3>1
  <2>2. eventRows' = Append(eventRows, k)
    BY <1>5, <2>1 DEF Write
  <2>3. eventRows' = Cat(chain, Append(rows, k)) /\ Append(rows, k) \in Seq(Kinds)
    BY <1>1, <1>4, <2>2, CatAppend, AppendProperties
  <2>4. eventRows' \in Seq(Kinds)
    BY <2>2, AppendProperties DEF TrailInv
  <2>5. WellClosed'
    BY <1>1, <1>3, <2>3 DEF WellClosed, Ended
  <2> QED BY <1>1, <1>2, <1>3, <2>4, <2>5 DEF TrailInv
<1>6. CASE Head(writes).to # "row"
  <2>1. eventRows' = eventRows
    BY <1>6 DEF Write
  <2>2. WellClosed'
    BY <1>1, <1>3, <1>4, <2>1 DEF WellClosed, Ended
  <2> QED BY <1>1, <1>2, <1>3, <2>1, <2>2 DEF TrailInv
<1> QED BY <1>5, <1>6

LEMMA WriteInOrder == ASSUME TrailInv, Write PROVE TrailInv'
<1>1. CASE closed
  BY <1>1, WriteAfterClose
<1>2. CASE ~closed
  <2>1. InOrder
    BY <1>2 DEF TrailInv
  <2>2. ASSUME NEW ks \in Seq(Kinds), NEW tail \in Tails, Level(ks, tail) PROVE TrailInv'
    BY <1>2, <2>2, WriteRow, WriteTail
  <2>3. ASSUME NEW k \in Kinds, NEW ks \in Seq(Kinds), NEW tail \in Tails, Ahead(k, ks, tail)
        PROVE  TrailInv'
    BY <1>2, <2>3, WriteLine
  <2> QED BY <2>1, <2>2, <2>3 DEF InOrder
<1> QED BY <1>1, <1>2

-----------------------------------------------------------------------------
(* The loop and the user. *)

\* The loop only moves while it awaits something, so its ledger is open.
LEMMA TerminateInOrder ==
    ASSUME TrailInv, Ready, ~closed, NEW run \in Runs, NEW status \in Terminal,
           NEW reason \in Reasons, NEW kinds \in Seq(Kinds),
           Terminate(run, status, reason, kinds), UNCHANGED <<diskVars, closed, serving>>
    PROVE  TrailInv'
<1>1. goal'.awaits = "nothing" /\ writes' = Farewell(kinds, status, reason)
  BY DEF Terminate, Runs
<1> QED BY <1>1, FarewellInOrder

LEMMA Told ==
    /\ \A k \in Kinds : <<k>> \in Seq(Kinds)
    /\ \A kinds \in Seq(Kinds), k \in Kinds : Append(kinds, k) \in Seq(Kinds)
    /\ {"turn.requested", "budget.tripped", "run.started", "turn.completed", "judge.requested",
        "judge.verdict", "subgoal.injected"} \subseteq Kinds
    /\ <<>> \in Seq(Kinds)
    /\ \A j \in Kinds, k \in Kinds : <<j, k>> \in Seq(Kinds)
<1>1. \A k \in Kinds : <<k>> \in Seq(Kinds)
  OBVIOUS
<1>2. \A j \in Kinds, k \in Kinds : <<j, k>> \in Seq(Kinds)
  OBVIOUS
<1> QED BY <1>1, <1>2, EmptySeq, AppendProperties DEF Kinds

LEMMA IterateInOrder ==
    ASSUME TrailInv, Ready, ~closed, NEW run \in Runs, NEW kinds \in Seq(Kinds),
           Iterate(run, kinds), UNCHANGED <<diskVars, closed, serving>>
    PROVE  TrailInv'
<1>1. CASE Terminate(run, "stopped", "user_abort", kinds)
  BY <1>1, TerminateInOrder DEF Terminal, Reasons
<1>2. CASE Terminate(run, "stopped", "budget", Append(kinds, "budget.tripped"))
  BY <1>2, Told, TerminateInOrder DEF Terminal, Reasons
<1>3. CASE writes' = Emits(Append(kinds, "turn.requested"))
  BY <1>3, Told, TellsInOrder
<1> QED BY <1>1, <1>2, <1>3 DEF Iterate

LEMMA OpenWhileAwaited == ASSUME TrailInv, goal.awaits # "nothing" PROVE ~closed
BY DEF TrailInv, WellClosed

LEMMA StartInOrder == ASSUME TrailInv, Inv, Start PROVE TrailInv'
<1>1. /\ Ready /\ [goal EXCEPT !.status = "running"] \in Runs /\ goal.awaits # "nothing"
      /\ UNCHANGED <<diskVars, closed, serving>>
      /\ Iterate([goal EXCEPT !.status = "running"], <<"run.started">>)
  BY DEF Start, Inv, Runs
<1>2. ~closed
  BY <1>1, OpenWhileAwaited
<1>3. <<"run.started">> \in Seq(Kinds)
  BY Told
<1> QED BY <1>1, <1>2, <1>3, IterateInOrder

LEMMA AgentReadyInOrder == ASSUME TrailInv, Inv, AgentReady PROVE TrailInv'
<1>1. /\ Ready /\ goal \in Runs /\ goal.awaits # "nothing"
      /\ UNCHANGED <<diskVars, closed, serving>>
  BY DEF AgentReady, Inv
<1>2. ~closed
  BY <1>1, OpenWhileAwaited
<1>3. CASE Terminate(goal, "failed", "executor_error", <<>>)
  BY <1>1, <1>2, <1>3, Told, TerminateInOrder DEF Terminal, Reasons
<1>4. CASE UNCHANGED writes
  <2>1. Emits(<<>>) = writes' /\ <<>> \in Seq(Kinds)
    BY <1>1, <1>4, EmitsNone, Told DEF Ready
  <2> QED BY <1>1, <1>2, <2>1, TellsInOrder
<1> QED BY <1>3, <1>4 DEF AgentReady

LEMMA TurnEndsInOrder == ASSUME TrailInv, Inv, TurnEnds PROVE TrailInv'
<1>1. /\ Ready /\ goal \in Runs /\ goal.awaits # "nothing" /\ HasRoom(goal)
      /\ UNCHANGED <<diskVars, closed, serving>>
  BY DEF TurnEnds, Inv
<1>2. ~closed
  BY <1>1, OpenWhileAwaited
<1>3. CASE Terminate(goal, "failed", "executor_error", <<>>)
  BY <1>1, <1>2, <1>3, Told, TerminateInOrder DEF Terminal, Reasons
<1>4. ASSUME NEW done \in BOOLEAN, NEW run,
             run = [goal EXCEPT !.turns = @ + 1, !.worked = @ \/ done],
             Terminate(run, "stopped", "budget", <<"turn.completed", "budget.tripped">>)
      PROVE  TrailInv'
  <2>1. goal.turns + 1 \in 0..MaxTurns /\ (goal.worked \/ done) \in BOOLEAN
    <3>1. goal.turns \in 0..MaxTurns /\ goal.worked \in BOOLEAN /\ goal.turns < MaxTurns
      BY <1>1 DEF Runs, HasRoom
    <3> QED BY <3>1, Caps
  <2>2. run \in Runs
    BY <1>1, <1>4, <2>1 DEF Runs
  <2> QED BY <1>1, <1>2, <1>4, <2>2, Told, TerminateInOrder DEF Terminal, Reasons
<1>5. CASE writes' = Emits(<<"turn.completed", "judge.requested">>)
  BY <1>1, <1>2, <1>5, Told, TellsInOrder
<1> QED BY <1>3, <1>4, <1>5 DEF TurnEnds

LEMMA JudgeEndsInOrder == ASSUME TrailInv, Inv, JudgeEnds PROVE TrailInv'
<1> DEFINE run == [goal EXCEPT !.dissent = @ + 1]
<1>1. /\ Ready /\ goal \in Runs /\ goal.awaits # "nothing" /\ HasRoom(goal)
      /\ UNCHANGED <<diskVars, closed, serving>>
  BY DEF JudgeEnds, Inv
<1>2. ~closed
  BY <1>1, OpenWhileAwaited
<1>3. run \in Runs
  <2>1. goal.dissent + 1 \in 0..MaxDissent
    BY <1>1, Caps DEF Runs, HasRoom
  <2> QED BY <1>1, <2>1 DEF Runs
<1>4. \/ Terminate(goal, "failed", "judge_error", <<>>)
      \/ Terminate(goal, "completed", "judge_satisfied", <<"judge.verdict">>)
      \/ Terminate(goal, "failed", "executor_error", <<"judge.verdict">>)
      \/ Terminate(goal, "stopped", "judge_dissent_streak", <<"judge.verdict">>)
      \/ Terminate(run, "stopped", "judge_dissent_streak",
                   Append(<<"judge.verdict">>, "budget.tripped"))
      \/ Iterate(run, <<"judge.verdict">>)
  BY DEF JudgeEnds
<1> HIDE DEF run
<1>5. /\ {"failed", "completed", "stopped"} \subseteq Terminal
      /\ {"judge_error", "judge_satisfied", "executor_error", "judge_dissent_streak"}
             \subseteq Reasons
      /\ <<"judge.verdict">> \in Seq(Kinds) /\ <<>> \in Seq(Kinds)
      /\ Append(<<"judge.verdict">>, "budget.tripped") \in Seq(Kinds)
  BY Told DEF Terminal, Reasons
<1>6. CASE Iterate(run, <<"judge.verdict">>)
  BY <1>1, <1>2, <1>3, <1>5, <1>6, IterateInOrder
<1> QED BY <1>1, <1>2, <1>3, <1>4, <1>5, <1>6, TerminateInOrder

LEMMA InjectInOrder == ASSUME TrailInv, NEW s \in Subgoals, InjectSubgoal(s) PROVE TrailInv'
<1>1. /\ Ready /\ writes' = Emits(<<"subgoal.injected">>) /\ goal' = goal
      /\ UNCHANGED <<diskVars, closed, serving>> /\ <<"subgoal.injected">> \in Seq(Kinds)
  BY Told DEF InjectSubgoal
<1>2. CASE ~closed
  BY <1>1, <1>2, TellsInOrder
<1>3. CASE closed
  <2>1. writes' \in Seq(Writes)
    BY <1>1, EmitsTyped
  <2>2. WellClosed'
    BY <1>1, <1>3 DEF TrailInv, WellClosed, Ended, diskVars
  <2> QED BY <1>1, <1>3, <2>1, <2>2 DEF TrailInv, Ready, diskVars
<1> QED BY <1>2, <1>3

\* What a step leaves alone stays in order.
LEMMA RestInOrder ==
    ASSUME TrailInv, UNCHANGED <<goal, writes, eventRows, chain, runRow, closed>>,
           tornEntry' => ~serving' /\ writes # <<>>
    PROVE  TrailInv'
<1>1. WellClosed => WellClosed'
  BY DEF WellClosed, Ended
<1>2. InOrder => InOrder'
  BY DEF InOrder, Level, Ahead, Ended
<1> QED BY <1>1, <1>2 DEF TrailInv

LEMMA StepInOrder == ASSUME TrailInv, Inv, [Next]_vars PROVE TrailInv'
<1>1. CASE Start
  BY <1>1, StartInOrder
<1>2. CASE AgentReady
  BY <1>2, AgentReadyInOrder
<1>3. CASE TurnEnds
  BY <1>3, TurnEndsInOrder
<1>4. CASE JudgeEnds
  BY <1>4, JudgeEndsInOrder
<1>5. ASSUME NEW s \in Subgoals, InjectSubgoal(s) PROVE TrailInv'
  BY <1>5, InjectInOrder
<1>6. CASE Abort
  BY <1>6, RestInOrder DEF Abort, Ready, diskVars, TrailInv
<1>7. CASE Write
  BY <1>7, WriteInOrder
<1>8. CASE Dies
  BY <1>8, RestInOrder DEF Dies, goalVars
<1>9. CASE UNCHANGED vars
  BY <1>9, RestInOrder DEF vars, goalVars, diskVars, TrailInv
<1> QED
  BY <1>1, <1>2, <1>3, <1>4, <1>5, <1>6, <1>7, <1>8, <1>9 DEF Next

LEMMA InitInOrder == ASSUME Init PROVE TrailInv
<1>1. Level(<<>>, <<>>)
  <2>1. Cat(Emits(<<>>), <<>>) = <<>>
    BY EmitsNone, CatNothing, TailsTyped, TailsDiffer
  <2> QED BY <2>1, TailsDiffer DEF Level, Init, Terminal
<1>2. InOrder
  BY <1>1, TailsDiffer, Told DEF InOrder
<1>3. writes \in Seq(Writes) /\ eventRows \in Seq(Kinds) /\ chain \in Seq(Kinds)
  BY EmptySeq DEF Init
<1> QED BY <1>2, <1>3 DEF TrailInv, Init

LEMMA PrefixOfCat ==
    ASSUME NEW S, NEW a \in Seq(S), NEW b \in Seq(S)
    PROVE  /\ IsPrefix(a, Cat(a, b))
           /\ Len(Cat(a, b)) = Len(a) + Len(b)
           /\ \A i \in 1 .. Len(a) : Cat(a, b)[i] = a[i]
<1>1. PICK c \in Seq(S) : c = a \o b
  <2>1. a \o b \in Seq(S)
    BY ConcatProperties
  <2> QED BY <2>1
<1>2. /\ Len(c) = Len(a) + Len(b) /\ Len(a) \in Nat /\ Len(b) \in Nat
      /\ \A i \in 1 .. Len(a) : c[i] = a[i]
  BY <1>1
<1>3. IsPrefix(a, c)
  <2>1. \A i \in 1 .. Len(a) : i \in DOMAIN c
    BY <1>2
  <2> QED BY <1>2, <2>1 DEF IsPrefix
<1> QED BY <1>1, <1>2, <1>3 DEF Cat

LEMMA EndedCat ==
    ASSUME NEW a \in Seq(Kinds), NEW b \in Seq(Kinds), Ended(a)
    PROVE  \E i \in 1 .. Len(a) : i \in DOMAIN Cat(a, b) /\ Cat(a, b)[i] \in Endings
<1>1. PICK i \in DOMAIN a : a[i] \in Endings
  BY DEF Ended, Range
<1>2. PICK c \in Seq(Kinds) : c = Cat(a, b)
  BY CatIn
<1>3. i \in 1 .. Len(a) /\ Len(a) \in Nat /\ Len(b) \in Nat /\ c[i] = a[i]
  BY <1>2, PrefixOfCat
<1>4. i \in DOMAIN c
  BY <1>2, <1>3, PrefixOfCat
<1> QED BY <1>1, <1>2, <1>3, <1>4

LEMMA InOrderAgrees == ASSUME TrailInv, ~closed PROVE TrailsAgree
<1>1. ASSUME NEW k \in Kinds, NEW ks \in Seq(Kinds), NEW tail \in Tails, Ahead(k, ks, tail)
      PROVE  IsPrefix(chain, eventRows) /\ runRow \notin Terminal
  <2>1. PICK d \in Seq(Kinds) : d = <<k>>
    BY Told
  <2>2. eventRows = Cat(chain, d)
    BY <1>1, <2>1, AppendIsConcat DEF Ahead, TrailInv, Cat
  <2> QED BY <1>1, <2>2, PrefixOfCat DEF Ahead, TrailInv
<1>2. ASSUME NEW ks \in Seq(Kinds), NEW tail \in Tails, Level(ks, tail)
      PROVE  /\ IsPrefix(chain, eventRows)
             /\ runRow \in Terminal => Ended(chain) /\ Ended(eventRows)
  <2>1. IsPrefix(chain, Cat(chain, <<>>)) /\ Cat(chain, <<>>) = chain
    BY PrefixOfCat, CatNothing, Told DEF TrailInv
  <2> QED BY <1>2, <2>1, EndedNone, TailsDiffer DEF Level
<1>3. writes = <<>> => Resumable
  BY NothingOwed DEF Resumable, TrailInv
<1> QED BY <1>1, <1>2, <1>3 DEF TrailsAgree, TrailInv, InOrder

LEMMA ClosedAgrees == ASSUME TrailInv, closed PROVE TrailsAgree
<1>1. Ended(chain) /\ chain \in Seq(Kinds)
  BY DEF TrailInv, WellClosed
<1>2. PICK rows \in Seq(Kinds) : eventRows = Cat(chain, rows)
  BY DEF TrailInv, WellClosed
<1>3. IsPrefix(chain, eventRows) /\ Len(eventRows) = Len(chain) + Len(rows)
  BY <1>1, <1>2, PrefixOfCat
<1>4. PICK i \in 1 .. Len(chain) : i \in DOMAIN eventRows /\ eventRows[i] \in Endings
  BY <1>1, <1>2, EndedCat
<1>5. Ended(eventRows)
  BY <1>4 DEF Ended, Range
<1>6. ASSUME writes = <<>>, \A j \in 1 .. Len(eventRows) - 1 : eventRows[j] \notin Endings
      PROVE  Resumable
  <2>1. rows = <<>>
    <3> SUFFICES ASSUME rows # <<>> PROVE FALSE
      OBVIOUS
    <3>1. Len(rows) \in Nat \ {0} /\ Len(chain) \in Nat
      BY <1>1, EmptySeq
    <3>2. i \in 1 .. Len(eventRows) - 1
      BY <1>3, <1>4, <3>1
    <3> QED BY <1>4, <1>6, <3>2
  <2>2. eventRows = chain
    BY <1>1, <1>2, <2>1, CatNothing
  <2> QED BY <1>6, <2>2 DEF Resumable, TrailInv
<1> QED BY <1>1, <1>3, <1>5, <1>6 DEF TrailsAgree

(* Whatever events a run tells, and at whatever write its daemon dies: the    *)
(* ledger never tells more than the rows, the run's row is not that of a run  *)
(* that is over before both tell its end, and resume() accepts the run unless *)
(* the kill cut an event in two or something was injected into a run that was *)
(* over (goal-rpc.ts:361-367, 380-401).                                       *)
THEOREM TheTrailsAgree == Spec => []TrailsAgree
<1>1. Init => Inv /\ TrailInv
  BY InitInv, InitInOrder
<1>2. Inv /\ TrailInv /\ [Next]_vars => (Inv /\ TrailInv)'
  BY StepObeys, StepInOrder
<1>3. TrailInv => TrailsAgree
  BY InOrderAgrees, ClosedAgrees
<1> QED
  BY <1>1, <1>2, <1>3, PTL DEF Spec

-----------------------------------------------------------------------------
(* The variables of the run that neither abort nor the records depend on. *)

\* A subgoal a turn was asked to work on was injected before.
RestTyped ==
    /\ injected \subseteq Subgoals /\ given \subseteq injected
    /\ pendingGoal \in injected \cup {NoSubgoal}
    /\ closed \in BOOLEAN /\ serving \in BOOLEAN /\ tornEntry \in BOOLEAN
    /\ runRow \in {"pending", "running"} \cup Terminal /\ deaths \in 0..MaxDeaths

\* What an iteration hands over is the subgoal that was pending.
LEMMA LoopTyped ==
    ASSUME RestTyped, UNCHANGED <<injected, closed, serving, tornEntry, runRow, deaths>>,
           \/ UNCHANGED <<pendingGoal, given>>
           \/ given' = given \cup ({pendingGoal} \ {NoSubgoal}) /\ pendingGoal' = NoSubgoal
    PROVE  RestTyped'
  BY DEF RestTyped

LEMMA WriteTyped == ASSUME RestTyped, TrailInv, Write PROVE RestTyped'
<1>1. Head(writes) \in Writes
  BY DEF TrailInv, Write
<1>2. Head(writes).to = "run" => Head(writes).kind \in {"running"} \cup Terminal
  BY <1>1 DEF Writes, Stores
<1>3. runRow' \in {"pending", "running"} \cup Terminal
  BY <1>2 DEF RestTyped, Write
<1> QED BY <1>3 DEF RestTyped, Write, goalVars

LEMMA StepTyped == ASSUME RestTyped, TrailInv, [Next]_vars PROVE RestTyped'
<1>1. ASSUME Start \/ AgentReady \/ TurnEnds \/ JudgeEnds \/ Abort PROVE RestTyped'
  <2>1. UNCHANGED <<injected, closed, serving, tornEntry, runRow, deaths>>
    BY <1>1 DEF Start, AgentReady, TurnEnds, JudgeEnds, Abort, diskVars
  <2>2. \/ UNCHANGED <<pendingGoal, given>>
        \/ given' = given \cup ({pendingGoal} \ {NoSubgoal}) /\ pendingGoal' = NoSubgoal
    BY <1>1 DEF Start, AgentReady, TurnEnds, JudgeEnds, Abort, Iterate, Terminate
  <2> QED BY <2>1, <2>2, LoopTyped
<1>2. ASSUME NEW s \in Subgoals, InjectSubgoal(s) PROVE RestTyped'
  BY <1>2 DEF InjectSubgoal, RestTyped, diskVars
<1>3. CASE Dies
  <2>1. deaths' \in 0..MaxDeaths
    BY <1>3, GoalAssumption DEF Dies, RestTyped
  <2>2. tornEntry' \in BOOLEAN
    BY <1>3 DEF Dies
  <2> QED BY <1>3, <2>1, <2>2 DEF Dies, RestTyped, goalVars
<1>4. CASE UNCHANGED vars
  BY <1>4 DEF vars, goalVars, diskVars, RestTyped
<1> QED BY <1>1, <1>2, <1>3, <1>4, WriteTyped DEF Next

\* Every variable of a run keeps its type, whatever is written when; and what a
\* turn is asked to work on was injected before.
THEOREM TypeCorrect == Spec => []TypeOK
<1>1. Init => Inv /\ TrailInv /\ RestTyped
  <2>1. 0 \in 0..MaxDeaths
    BY GoalAssumption
  <2>2. Init => RestTyped
    BY <2>1 DEF Init, RestTyped
  <2> QED BY <2>2, InitInv, InitInOrder
<1>2. Inv /\ TrailInv /\ RestTyped /\ [Next]_vars => (Inv /\ TrailInv /\ RestTyped)'
  BY StepObeys, StepInOrder, StepTyped
<1>3. Inv /\ TrailInv /\ RestTyped => TypeOK
  <2> SUFFICES ASSUME Inv, TrailInv, RestTyped PROVE TypeOK
    OBVIOUS
  <2>1. /\ \A i \in DOMAIN writes : writes[i] \in Writes
        /\ \A i \in DOMAIN eventRows : eventRows[i] \in Kinds
        /\ \A i \in DOMAIN chain : chain[i] \in Kinds
    BY DEF TrailInv
  <2>2. Range(writes) \subseteq Writes /\ Range(eventRows) \cup Range(chain) \subseteq Kinds
    BY <2>1 DEF Range
  <2> QED BY <2>2 DEF Inv, RestTyped, TypeOK
<1> QED
  BY <1>1, <1>2, <1>3, PTL DEF Spec

-----------------------------------------------------------------------------
(* The board: where a task is. *)

\* The same variables with the types of the mail.
BoardTypes ==
    /\ table \in [Tasks -> Rows] /\ linked \in Seq(Vessels)
    /\ toVessel \in [Vessels -> Seq(Tasks)] /\ toPlane \in [Vessels -> Seq(Replies)]
    /\ work \in [Vessels -> [Tasks -> Nat]]
    /\ posted \subseteq Tasks /\ recovered \subseteq Tasks /\ troubles \in 0..MaxTroubles

\* Where task t is handled, given the mail, the work and the replies.
PlacesOf(t, mail, hands, back) ==
    {p \in Vessels \X {"sent", "working", "answered"} \X Nat :
        \/ p[2] = "sent" /\ p[3] \in DOMAIN mail[p[1]] /\ mail[p[1]][p[3]] = t
        \/ p[2] = "working" /\ p[3] \in 1..hands[p[1]][t]
        \/ p[2] = "answered" /\ p[3] \in DOMAIN back[p[1]] /\ back[p[1]][p[3]].task = t}

\* Every place is a vessel, a stage and a number.
LEMMA PlaceIs ==
    ASSUME NEW t, NEW mail, NEW hands, NEW back, NEW p \in PlacesOf(t, mail, hands, back)
    PROVE  /\ p = <<p[1], p[2], p[3]>> /\ p[1] \in Vessels /\ p[3] \in Nat
           /\ p[2] \in {"sent", "working", "answered"}
           /\ p \in Vessels \X {"sent", "working", "answered"} \X Nat
<1>1. p \in Vessels \X {"sent", "working", "answered"} \X Nat
  BY DEF PlacesOf
<1> QED BY <1>1

\* All that is in S is the same.
AtMostOne(S) == \A p, q \in S : p = q

\* What OneCopyOfATask says, of a table and mail that need not be the state's.
Single(tab, mail, hands, back, taken) ==
    \A t \in Tasks \ taken :
        /\ AtMostOne(PlacesOf(t, mail, hands, back))
        /\ tab[t].status # "assigned" => PlacesOf(t, mail, hands, back) = {}

BoardInv == BoardTypes /\ Single(table, toVessel, work, toPlane, recovered)

\* Handling names the same places.
LEMMA HandledAre ==
    ASSUME BoardTypes, NEW t \in Tasks
    PROVE  UNION {Handling(v, t) : v \in Vessels} = PlacesOf(t, toVessel, work, toPlane)
<1> DEFINE P == PlacesOf(t, toVessel, work, toPlane)
<1>0. \A v \in Vessels : /\ Len(toVessel[v]) \in Nat /\ DOMAIN toVessel[v] = 1..Len(toVessel[v])
                         /\ Len(toPlane[v]) \in Nat /\ DOMAIN toPlane[v] = 1..Len(toPlane[v])
                         /\ work[v][t] \in Nat
  BY DEF BoardTypes
<1>1. ASSUME NEW v \in Vessels, NEW p \in Handling(v, t) PROVE p \in P
  <2>1. CASE \E i \in DOMAIN toVessel[v] : toVessel[v][i] = t /\ p = <<v, "sent", i>>
    BY <1>0, <2>1 DEF PlacesOf
  <2>2. CASE \E n \in 1..work[v][t] : p = <<v, "working", n>>
    BY <1>0, <2>2 DEF PlacesOf
  <2>3. CASE \E i \in DOMAIN toPlane[v] : toPlane[v][i].task = t /\ p = <<v, "answered", i>>
    BY <1>0, <2>3 DEF PlacesOf
  <2> QED BY <1>1, <2>1, <2>2, <2>3 DEF Handling
<1>2. ASSUME NEW p \in P PROVE \E v \in Vessels : p \in Handling(v, t)
  <2>1. p = <<p[1], p[2], p[3]>> /\ p[1] \in Vessels
    BY <1>2 DEF PlacesOf
  <2>2. p \in Handling(p[1], t)
    BY <1>2, <2>1 DEF PlacesOf, Handling
  <2> QED BY <2>1, <2>2
<1> QED BY <1>1, <1>2

\* A set in which all are equal has one member at most.
LEMMA FewMeansOne == ASSUME NEW S, AtMostOne(S) PROVE Cardinality(S) <= 1 /\ (S = {} => Cardinality(S) = 0)
<1>1. CASE S = {}
  BY <1>1, FS_EmptySet
<1>2. CASE S # {}
  <2>1. PICK p \in S : S = {p}
    BY <1>2 DEF AtMostOne
  <2> QED BY <1>2, <2>1, FS_Singleton
<1> QED BY <1>1, <1>2

\* The invariant is what OneCopyOfATask counts.
LEMMA SingleIsOneCopy == ASSUME BoardInv PROVE OneCopyOfATask
<1> SUFFICES ASSUME NEW t \in Tasks \ recovered
             PROVE  Copies(t) <= IF table[t].status = "assigned" THEN 1 ELSE 0
  BY DEF OneCopyOfATask
<1>1. Copies(t) = Cardinality(PlacesOf(t, toVessel, work, toPlane))
  BY HandledAre DEF BoardInv, Copies
<1>2. /\ AtMostOne(PlacesOf(t, toVessel, work, toPlane))
      /\ table[t].status # "assigned" => PlacesOf(t, toVessel, work, toPlane) = {}
  BY DEF BoardInv, Single
<1> QED BY <1>1, <1>2, FewMeansOne

-----------------------------------------------------------------------------
(* What assignTask() does to it, once and for every vessel. *)

\* A table and mail of which Single holds.
IsSingle(p, hands, back, taken) ==
    \E tab \in [Tasks -> Rows], mail \in [Vessels -> Seq(Tasks)] :
        p = [table |-> tab, mail |-> mail] /\ Single(tab, mail, hands, back, taken)

\* assignTask() gives out a task nobody is at.
LEMMA AssignKeeps ==
    ASSUME BoardAssumption,
           NEW hands \in [Vessels -> [Tasks -> Nat]], NEW back \in [Vessels -> Seq(Replies)],
           NEW taken, NEW p, IsSingle(p, hands, back, taken), NEW v \in Vessels
    PROVE  IsSingle(Assign(p, v), hands, back, taken)
<1>0. PICK tab \in [Tasks -> Rows], mail \in [Vessels -> Seq(Tasks)] :
          p = [table |-> tab, mail |-> mail] /\ Single(tab, mail, hands, back, taken)
  BY DEF IsSingle
<1>1. CASE Waiting(tab) = {}
  <2>1. Assign(p, v) = p
    BY <1>0, <1>1 DEF Assign
  <2> QED BY <2>1
<1>2. CASE Waiting(tab) # {}
  <2> DEFINE t == CHOOSE t \in Waiting(tab) : \A m \in Waiting(tab) : t <= m
             tab2 == [tab EXCEPT ![t].status = "assigned", ![t].stale = FALSE]
             mail2 == [mail EXCEPT ![v] = Append(@, t)]
  <2>1. t \in Tasks /\ tab[t].status # "assigned"
    <3>1. Waiting(tab) \subseteq Nat
      BY DEF Waiting, Tasks, BoardAssumption
    <3>2. \E m \in Waiting(tab) : \A n \in Waiting(tab) : m <= n
      BY <1>2, <3>1, LeastOf
    <3>3. t \in Waiting(tab)
      BY <3>2
    <3> QED BY <3>3 DEF Waiting
  <2>2. Assign(p, v) = [table |-> tab2, mail |-> mail2]
    BY <1>0, <1>2 DEF Assign
  <2> HIDE DEF t
  <2>3. tab2 \in [Tasks -> Rows] /\ tab2[t].status = "assigned"
        /\ \A m \in Tasks \ {t} : tab2[m] = tab[m]
    BY ZenonT(60), <2>1 DEF Rows, Statuses
  <2>4. /\ mail2 \in [Vessels -> Seq(Tasks)]
        /\ \A w \in Vessels \ {v} : mail2[w] = mail[w]
        /\ Len(mail[v]) \in Nat /\ DOMAIN mail[v] = 1..Len(mail[v])
        /\ DOMAIN mail2[v] = 1..Len(mail[v]) + 1
        /\ \A i \in 1..Len(mail[v]) : mail2[v][i] = mail[v][i]
        /\ mail2[v][Len(mail[v]) + 1] = t
    BY <2>1
  <2> HIDE DEF tab2, mail2
  <2>5. ASSUME NEW m \in Tasks \ taken, m # t PROVE PlacesOf(m, mail2, hands, back) = PlacesOf(m, mail, hands, back)
    <3>1. ASSUME NEW w \in Vessels, NEW i \in Nat
          PROVE  i \in DOMAIN mail2[w] /\ mail2[w][i] = m <=> i \in DOMAIN mail[w] /\ mail[w][i] = m
      <4>1. CASE w # v
        BY <2>4, <4>1
      <4>2. CASE w = v
        BY <2>4, <2>5, <4>2, i \in 1..Len(mail[v]) + 1 <=> i \in 1..Len(mail[v]) \/ i = Len(mail[v]) + 1
      <4> QED BY <4>1, <4>2
    <3> QED BY <3>1 DEF PlacesOf
  <2>6. ASSUME t \notin taken PROVE AtMostOne(PlacesOf(t, mail2, hands, back))
    <3>1. PlacesOf(t, mail, hands, back) = {}
      BY <1>0, <2>1, <2>6 DEF Single
    <3>2. ASSUME NEW pl \in PlacesOf(t, mail2, hands, back)
          PROVE  pl = <<v, "sent", Len(mail[v]) + 1>>
      <4>1. pl \in Vessels \X {"sent", "working", "answered"} \X Nat /\ pl \notin PlacesOf(t, mail, hands, back)
        BY <3>1, <3>2 DEF PlacesOf
      <4>2. pl[2] = "sent" /\ pl[3] \in DOMAIN mail2[pl[1]] /\ mail2[pl[1]][pl[3]] = t
            /\ ~(pl[3] \in DOMAIN mail[pl[1]] /\ mail[pl[1]][pl[3]] = t)
        BY <3>2, <4>1 DEF PlacesOf
      <4>3. pl[1] = v /\ pl[1] \in Vessels
        BY <2>4, <4>1, <4>2
      <4>4. pl[3] = Len(mail[v]) + 1
        <5>1. pl[3] \in 1..Len(mail[v]) + 1 /\ pl[3] \notin 1..Len(mail[v])
          BY <2>4, <4>2, <4>3
        <5> QED BY <2>4, <5>1
      <4> QED BY <4>1, <4>2, <4>3, <4>4
    <3> QED BY <3>2 DEF AtMostOne
  <2>7. Single(tab2, mail2, hands, back, taken)
    BY <1>0, <2>3, <2>5, <2>6 DEF Single
  <2> QED BY <2>2, <2>3, <2>4, <2>7 DEF IsSingle
<1> QED BY <1>1, <1>2

\* What AssignAll has given out after the first n vessels, given what it had before.
GivenStep(g, first, n) == IF n = 0 THEN first ELSE Assign(g[n - 1], linked[n])

GivesTo(g, first, m) == g = [n \in 0..m |-> GivenStep(g, first, n)]

\* There is a function that says what is given out after each vessel.
LEMMA GivesAreMade == ASSUME NEW first, NEW o \in Nat PROVE \E g : GivesTo(g, first, o)
<1> DEFINE Bad == {m \in Nat : ~ \E g : GivesTo(g, first, m)}
<1>1. SUFFICES ASSUME Bad # {} PROVE FALSE
  OBVIOUS
<1>2. PICK m \in Bad : \A y \in Bad : m <= y
  BY <1>1, LeastOf
<1>3. CASE m = 0
  <2>1. GivesTo([n \in 0..0 |-> first], first, 0)
    BY DEF GivesTo, GivenStep
  <2> QED BY <1>2, <1>3, <2>1
<1>4. CASE m # 0
  <2>1. m - 1 \in Nat /\ m - 1 \notin Bad
    BY <1>2, <1>4
  <2>2. PICK f : GivesTo(f, first, m - 1)
    BY <2>1
  <2> DEFINE g == [n \in 0..m |-> GivenStep(f, first, n)]
             h == [n \in 0..m |-> GivenStep(g, first, n)]
  <2>3. \A n \in 0..m - 1 : g[n] = f[n]
    BY <2>1, <2>2 DEF GivesTo
  <2>4. ASSUME NEW n \in 0..m PROVE GivenStep(f, first, n) = GivenStep(g, first, n)
    <3>1. CASE n = 0
      BY <3>1 DEF GivenStep
    <3>2. CASE n # 0
      <4>1. n - 1 \in 0..m - 1
        BY <2>1, <3>2
      <4>2. g[n - 1] = f[n - 1]
        BY <2>3, <4>1
      <4> HIDE DEF g
      <4> QED BY <3>2, <4>2 DEF GivenStep
    <3> QED BY <3>1, <3>2
  <2>5. g = h
    BY <2>4
  <2> HIDE DEF g
  <2>6. GivesTo(g, first, m)
    BY <2>5 DEF GivesTo
  <2> QED BY <1>2, <2>6
<1> QED BY <1>3, <1>4

\* After every vessel there is one copy of a task still.
LEMMA GivesKeep ==
    ASSUME BoardAssumption, linked \in Seq(Vessels),
           NEW hands \in [Vessels -> [Tasks -> Nat]], NEW back \in [Vessels -> Seq(Replies)],
           NEW taken, NEW first, IsSingle(first, hands, back, taken),
           NEW g, GivesTo(g, first, Len(linked))
    PROVE  IsSingle(g[Len(linked)], hands, back, taken)
<1> DEFINE Bad == {m \in 0..Len(linked) : ~IsSingle(g[m], hands, back, taken)}
<1>0. Len(linked) \in Nat /\ \A n \in 1..Len(linked) : linked[n] \in Vessels
  OBVIOUS
<1>1. SUFFICES ASSUME Bad # {} PROVE FALSE
  BY <1>0
<1>2. PICK m \in Bad : \A y \in Bad : m <= y
  <2>1. Bad \subseteq Nat
    BY <1>0
  <2> QED BY <1>1, <2>1, LeastOf
<1>3. \A n \in 0..Len(linked) : g[n] = GivenStep(g, first, n)
  BY DEF GivesTo
<1>4. CASE m = 0
  <2>1. g[0] = first
    BY <1>0, <1>3 DEF GivenStep
  <2> QED BY <1>2, <1>4, <2>1
<1>5. CASE m # 0
  <2>1. m - 1 \in 0..Len(linked) /\ m \in 1..Len(linked) /\ m - 1 \notin Bad
    BY <1>0, <1>2, <1>5
  <2>2. IsSingle(g[m - 1], hands, back, taken)
    BY <2>1
  <2>3. g[m] = Assign(g[m - 1], linked[m])
    BY <1>2, <1>3, <1>5 DEF GivenStep
  <2>4. linked[m] \in Vessels
    BY <1>0, <2>1
  <2>5. IsSingle(Assign(g[m - 1], linked[m]), hands, back, taken)
    BY <2>2, <2>4, AssignKeeps
  <2>6. IsSingle(g[m], hands, back, taken)
    BY <2>3, <2>5
  <2> QED BY <1>2, <2>6
<1> QED BY <1>4, <1>5

\* AssignAll gives a task to one vessel at most.
LEMMA AssignAllKeeps ==
    ASSUME BoardAssumption, linked \in Seq(Vessels),
           NEW hands \in [Vessels -> [Tasks -> Nat]], NEW back \in [Vessels -> Seq(Replies)],
           NEW taken, NEW first, IsSingle(first, hands, back, taken)
    PROVE  IsSingle(AssignAll(first), hands, back, taken)
<1> DEFINE gives == CHOOSE g : GivesTo(g, first, Len(linked))
<1>1. Len(linked) \in Nat
  OBVIOUS
<1>2. GivesTo(gives, first, Len(linked))
  BY <1>1, GivesAreMade
<1>3. AssignAll(first) = gives[Len(linked)]
  BY Zenon DEF AssignAll, GivesTo, GivenStep
<1> HIDE DEF gives
<1> QED BY <1>2, <1>3, GivesKeep

-----------------------------------------------------------------------------
(* What the messages between the plane and the vessels do to it. *)

\* Reply(): the replies of a vessel move up, and the first of them is nowhere.
LEMMA FewerReplies ==
    ASSUME NEW mail \in [Vessels -> Seq(Tasks)], NEW hands \in [Vessels -> [Tasks -> Nat]],
           NEW back \in [Vessels -> Seq(Replies)], NEW v \in Vessels, back[v] # <<>>,
           NEW back2, back2 = [back EXCEPT ![v] = Tail(@)],
           NEW m \in Tasks, AtMostOne(PlacesOf(m, mail, hands, back))
    PROVE  /\ AtMostOne(PlacesOf(m, mail, hands, back2))
           /\ PlacesOf(m, mail, hands, back) = {} => PlacesOf(m, mail, hands, back2) = {}
           /\ Head(back[v]).task = m => PlacesOf(m, mail, hands, back2) = {}
<1> DEFINE P == PlacesOf(m, mail, hands, back)
           Q == PlacesOf(m, mail, hands, back2)
           f == [p \in Q |-> IF p[1] = v /\ p[2] = "answered" THEN <<v, "answered", p[3] + 1>>
                             ELSE p]
<1>1. /\ Len(back[v]) \in Nat /\ Len(back[v]) # 0 /\ DOMAIN back[v] = 1..Len(back[v])
      /\ back2[v] = Tail(back[v]) /\ back2[v] \in Seq(Replies)
      /\ DOMAIN back2[v] = 1..Len(back[v]) - 1
      /\ \A i \in 1..Len(back[v]) - 1 : back2[v][i] = back[v][i + 1]
      /\ Head(back[v]) = back[v][1]
      /\ \A w \in Vessels \ {v} : back2[w] = back[w]
  OBVIOUS
<1>2. ASSUME NEW p \in Q PROVE f[p] \in P /\ f[p] # <<v, "answered", 1>>
  <2>1. p \in Vessels \X {"sent", "working", "answered"} \X Nat
    BY <1>2 DEF PlacesOf
  <2>2. CASE p[1] = v /\ p[2] = "answered"
    <3>1. p[3] \in 1..Len(back[v]) - 1 /\ back2[v][p[3]].task = m
      BY <1>1, <1>2, <2>2 DEF PlacesOf
    <3>2. p[3] + 1 \in DOMAIN back[v] /\ back[v][p[3] + 1].task = m /\ p[3] + 1 # 1
      BY <1>1, <3>1
    <3>3. f[p] = <<v, "answered", p[3] + 1>>
      BY <1>2, <2>2
    <3>4. <<v, "answered", p[3] + 1>> \in P
      <4>1. p[3] + 1 \in Nat
        BY <2>1
      <4> QED BY <3>2, <4>1 DEF PlacesOf
    <3> QED BY <3>2, <3>3, <3>4
  <2>3. CASE ~(p[1] = v /\ p[2] = "answered")
    <3>1. f[p] = p
      BY <1>2, <2>3
    <3>2. p[2] = "answered" => back2[p[1]] = back[p[1]]
      BY <1>1, <2>1, <2>3
    <3>3. p \in P
      BY <1>2, <2>1, <3>2 DEF PlacesOf
    <3>4. p # <<v, "answered", 1>>
      BY <2>3
    <3> QED BY <3>1, <3>3, <3>4
  <2> QED BY <2>2, <2>3
<1>3. ASSUME NEW p \in Q, NEW q \in Q, f[p] = f[q] PROVE p = q
  <2>1. /\ p = <<p[1], p[2], p[3]>> /\ q = <<q[1], q[2], q[3]>>
        /\ p[3] \in Nat /\ q[3] \in Nat
    BY PlaceIs
  <2>2. /\ f[p] = IF p[1] = v /\ p[2] = "answered" THEN <<v, "answered", p[3] + 1>> ELSE p
        /\ f[q] = IF q[1] = v /\ q[2] = "answered" THEN <<v, "answered", q[3] + 1>> ELSE q
    OBVIOUS
  <2> HIDE DEF f, P, Q
  <2>3. CASE p[1] = v /\ p[2] = "answered"
    <3>1. f[p] = <<v, "answered", p[3] + 1>>
      BY <2>2, <2>3
    <3>2. CASE ~(q[1] = v /\ q[2] = "answered")
      <4>1. q = <<v, "answered", p[3] + 1>>
        BY <1>3, <2>2, <3>1, <3>2
      <4> QED BY <3>2, <4>1
    <3>3. CASE q[1] = v /\ q[2] = "answered"
      <4>1. <<v, "answered", q[3] + 1>> = <<v, "answered", p[3] + 1>>
        BY <1>3, <2>2, <3>1, <3>3
      <4>2. q[3] + 1 = p[3] + 1
        BY <4>1
      <4>3. q[3] = p[3]
        BY <2>1, <4>2
      <4> QED BY <2>1, <2>3, <3>3, <4>3
    <3> QED BY <3>2, <3>3
  <2>4. CASE ~(p[1] = v /\ p[2] = "answered")
    <3>1. f[p] = p
      BY <2>2, <2>4
    <3>2. CASE q[1] = v /\ q[2] = "answered"
      <4>1. p = <<v, "answered", q[3] + 1>>
        BY <1>3, <2>2, <3>1, <3>2
      <4> QED BY <2>4, <4>1
    <3>3. CASE ~(q[1] = v /\ q[2] = "answered")
      BY <1>3, <2>2, <3>1, <3>3
    <3> QED BY <3>2, <3>3
  <2> QED BY <2>3, <2>4
<1>4. ASSUME Head(back[v]).task = m PROVE Q = {}
  <2>1. <<v, "answered", 1>> \in P
    BY <1>1, <1>4 DEF PlacesOf
  <2> QED BY <1>2, <2>1 DEF AtMostOne
<1>5. AtMostOne(P)
  OBVIOUS
<1> HIDE DEF f, P, Q
<1>6. AtMostOne(Q) /\ (P = {} => Q = {})
  BY <1>2, <1>3, <1>5 DEF AtMostOne
<1> QED BY <1>4, <1>6 DEF P, Q

\* Receive(): a task on its way to a vessel comes into its hands.
LEMMA SentIsWorked ==
    ASSUME BoardTypes, NEW v \in Vessels, Receive(v),
           NEW m \in Tasks, AtMostOne(PlacesOf(m, toVessel, work, toPlane))
    PROVE  /\ AtMostOne(PlacesOf(m, toVessel', work', toPlane))
           /\ PlacesOf(m, toVessel, work, toPlane) = {} => PlacesOf(m, toVessel', work', toPlane) = {}
<1> DEFINE P == PlacesOf(m, toVessel, work, toPlane)
           Q == PlacesOf(m, toVessel', work', toPlane)
           new == <<v, "working", work[v][m] + 1>>
           f == [p \in Q |-> IF p[1] = v /\ p[2] = "sent" THEN <<v, "sent", p[3] + 1>>
                             ELSE IF p = new THEN <<v, "sent", 1>> ELSE p]
<1>0. /\ toVessel \in [Vessels -> Seq(Tasks)] /\ work \in [Vessels -> [Tasks -> Nat]]
      /\ toVessel[v] # <<>> /\ work' = [work EXCEPT ![v][Head(toVessel[v])] = @ + 1]
      /\ toVessel' = [toVessel EXCEPT ![v] = Tail(@)]
  BY DEF BoardTypes, Receive
<1>1. /\ Len(toVessel[v]) \in Nat /\ Len(toVessel[v]) # 0 /\ DOMAIN toVessel[v] = 1..Len(toVessel[v])
      /\ toVessel'[v] = Tail(toVessel[v]) /\ toVessel'[v] \in Seq(Tasks)
      /\ DOMAIN toVessel'[v] = 1..Len(toVessel[v]) - 1
      /\ \A i \in 1..Len(toVessel[v]) - 1 : toVessel'[v][i] = toVessel[v][i + 1]
      /\ Head(toVessel[v]) = toVessel[v][1] /\ Head(toVessel[v]) \in Tasks
      /\ \A w \in Vessels \ {v} : toVessel'[w] = toVessel[w]
  BY <1>0
<1>2. /\ \A w \in Vessels \ {v} : work'[w] = work[w]
      /\ work'[v] = [work[v] EXCEPT ![Head(toVessel[v])] = @ + 1]
      /\ work[v] \in [Tasks -> Nat]
  BY <1>0, <1>1
<1>3. /\ work[v][m] \in Nat
      /\ work'[v][m] = IF m = Head(toVessel[v]) THEN work[v][m] + 1 ELSE work[v][m]
  BY <1>1, <1>2
<1>4. ASSUME NEW p \in Q
      PROVE  /\ p = <<p[1], p[2], p[3]>> /\ p[1] \in Vessels /\ p[3] \in Nat
             /\ p[2] \in {"sent", "working", "answered"}
             /\ f[p] = IF p[1] = v /\ p[2] = "sent" THEN <<v, "sent", p[3] + 1>>
                       ELSE IF p = new THEN <<v, "sent", 1>> ELSE p
  <2>1. f[p] = IF p[1] = v /\ p[2] = "sent" THEN <<v, "sent", p[3] + 1>>
               ELSE IF p = new THEN <<v, "sent", 1>> ELSE p
    OBVIOUS
  <2> QED BY <2>1, PlaceIs
<1>5. ASSUME NEW p \in Q PROVE f[p] \in P
  <2>0. p[1] \in Vessels /\ p[3] \in Nat /\ p \in Vessels \X {"sent", "working", "answered"} \X Nat
    BY <1>5 DEF PlacesOf
  <2>1. CASE p[1] = v /\ p[2] = "sent"
    <3>1. p[3] \in 1..Len(toVessel[v]) - 1 /\ toVessel'[v][p[3]] = m
      BY <1>1, <1>5, <2>1 DEF PlacesOf
    <3>2. p[3] + 1 \in DOMAIN toVessel[v] /\ toVessel[v][p[3] + 1] = m
      BY <1>1, <3>1
    <3>3. <<v, "sent", p[3] + 1>> \in P
      BY <2>0, <3>2 DEF PlacesOf
    <3> QED BY <1>4, <2>1, <3>3
  <2>2. CASE p = new
    <3>1. work[v][m] + 1 \in 1..work'[v][m]
      BY <1>5, <2>2 DEF PlacesOf
    <3>2. m = Head(toVessel[v])
      BY <1>3, <3>1
    <3>3. <<v, "sent", 1>> \in P
      <4>1. 1 \in DOMAIN toVessel[v] /\ toVessel[v][1] = m
        BY <1>1, <3>2
      <4> QED BY <4>1 DEF PlacesOf
    <3>4. ~(p[1] = v /\ p[2] = "sent")
      BY <2>2
    <3> QED BY <1>4, <2>2, <3>3, <3>4
  <2>3. CASE p[2] = "sent" /\ p[1] # v
    <3>1. p \in P
      BY <1>1, <1>5, <2>0, <2>3 DEF PlacesOf
    <3>2. p # new
      BY <2>3
    <3> QED BY <1>4, <2>3, <3>1, <3>2
  <2>4. CASE p[2] = "answered"
    <3>1. p \in P
      BY <1>5, <2>0, <2>4 DEF PlacesOf
    <3>2. p # new
      BY <2>4
    <3> QED BY <1>4, <2>4, <3>1, <3>2
  <2>5. CASE p[2] = "working" /\ p # new
    <3>1. p[3] \in 1..work'[p[1]][m]
      BY <1>5, <2>5 DEF PlacesOf
    <3>2. p[3] \in 1..work[p[1]][m]
      <4>1. CASE p[1] # v
        BY <1>2, <2>0, <3>1, <4>1
      <4>2. CASE p[1] = v
        <5>1. p[3] # work[v][m] + 1
          BY <1>4, <1>5, <2>5, <4>2
        <5>2. p[3] \in 1..work'[v][m]
          BY <3>1, <4>2
        <5>3. p[3] \in 1..work[v][m]
          BY <1>3, <2>0, <5>1, <5>2
        <5> QED BY <4>2, <5>3
      <4> QED BY <4>1, <4>2
    <3>3. p \in P
      BY <2>0, <2>5, <3>2 DEF PlacesOf
    <3>4. f[p] = p
      BY <1>4, <1>5, <2>5
    <3> QED BY <3>3, <3>4
  <2>6. p[2] \in {"sent", "working", "answered"}
    BY <1>4, <1>5
  <2> QED BY <2>1, <2>2, <2>3, <2>4, <2>5, <2>6
<1>6. ASSUME NEW p \in Q, NEW q \in Q, f[p] = f[q] PROVE p = q
  <2>1. /\ p = <<p[1], p[2], p[3]>> /\ p[3] \in Nat
        /\ f[p] = IF p[1] = v /\ p[2] = "sent" THEN <<v, "sent", p[3] + 1>>
                  ELSE IF p = new THEN <<v, "sent", 1>> ELSE p
    BY <1>4
  <2>2. /\ q = <<q[1], q[2], q[3]>> /\ q[3] \in Nat
        /\ f[q] = IF q[1] = v /\ q[2] = "sent" THEN <<v, "sent", q[3] + 1>>
                  ELSE IF q = new THEN <<v, "sent", 1>> ELSE q
    BY <1>4
  <2>3. ASSUME NEW pl \in Q, pl[1] = v, pl[2] = "sent" PROVE pl[3] # 0
    <3>1. pl[3] \in DOMAIN toVessel'[v]
      BY <2>3 DEF PlacesOf
    <3> QED BY <1>1, <3>1
  <2>4. (p[1] = v /\ p[2] = "sent" => p[3] # 0) /\ (q[1] = v /\ q[2] = "sent" => q[3] # 0)
    BY <2>3
  <2> HIDE DEF f, P, Q, new
  <2>5. ASSUME p[1] = v, p[2] = "sent" PROVE p = q
    <3>1. f[p] = <<v, "sent", p[3] + 1>> /\ p[3] + 1 # 1
      BY <2>1, <2>4, <2>5
    <3>2. CASE q[1] = v /\ q[2] = "sent"
      <4>1. <<v, "sent", q[3] + 1>> = <<v, "sent", p[3] + 1>>
        BY <1>6, <2>2, <3>1, <3>2
      <4>2. q[3] + 1 = p[3] + 1
        BY <4>1
      <4>3. q[3] = p[3]
        BY <2>1, <2>2, <4>2
      <4> QED BY <2>1, <2>2, <2>5, <3>2, <4>3
    <3>3. CASE ~(q[1] = v /\ q[2] = "sent") /\ q = new
      <4>1. <<v, "sent", 1>> = <<v, "sent", p[3] + 1>>
        BY <1>6, <2>2, <3>1, <3>3
      <4> QED BY <3>1, <4>1
    <3>4. CASE ~(q[1] = v /\ q[2] = "sent") /\ q # new
      <4>1. q = <<v, "sent", p[3] + 1>>
        BY <1>6, <2>2, <3>1, <3>4
      <4> QED BY <3>4, <4>1
    <3> QED BY <3>2, <3>3, <3>4
  <2>6. ASSUME q[1] = v, q[2] = "sent", ~(p[1] = v /\ p[2] = "sent") PROVE FALSE
    <3>1. f[q] = <<v, "sent", q[3] + 1>> /\ q[3] + 1 # 1
      BY <2>2, <2>4, <2>6
    <3>2. CASE p = new
      <4>1. <<v, "sent", 1>> = <<v, "sent", q[3] + 1>>
        BY <1>6, <2>1, <2>6, <3>1, <3>2
      <4> QED BY <3>1, <4>1
    <3>3. CASE p # new
      <4>1. p = <<v, "sent", q[3] + 1>>
        BY <1>6, <2>1, <2>6, <3>1, <3>3
      <4> QED BY <2>6, <4>1
    <3> QED BY <3>2, <3>3
  <2>7. CASE ~(p[1] = v /\ p[2] = "sent") /\ ~(q[1] = v /\ q[2] = "sent")
    <3>1. f[p] = IF p = new THEN <<v, "sent", 1>> ELSE p
      BY <2>1, <2>7
    <3>2. f[q] = IF q = new THEN <<v, "sent", 1>> ELSE q
      BY <2>2, <2>7
    <3>3. p # <<v, "sent", 1>> /\ q # <<v, "sent", 1>>
      BY <2>7
    <3> QED BY <1>6, <3>1, <3>2, <3>3
  <2> QED BY <2>5, <2>6, <2>7
<1>7. AtMostOne(P)
  OBVIOUS
<1> HIDE DEF f, P, Q, new
<1>8. AtMostOne(Q) /\ (P = {} => Q = {})
  BY <1>5, <1>6, <1>7 DEF AtMostOne
<1> QED BY <1>8 DEF P, Q

\* Finish(): a call that ends leaves a reply, if there is a link for it.
LEMMA WorkedIsAnswered ==
    ASSUME BoardTypes, NEW v \in Vessels, NEW t \in Tasks, NEW good \in BOOLEAN, Finish(v, t, good),
           NEW m \in Tasks, AtMostOne(PlacesOf(m, toVessel, work, toPlane))
    PROVE  /\ AtMostOne(PlacesOf(m, toVessel, work', toPlane'))
           /\ PlacesOf(m, toVessel, work, toPlane) = {} => PlacesOf(m, toVessel, work', toPlane') = {}
<1> DEFINE r == [task |-> t, ok |-> good]
           P == PlacesOf(m, toVessel, work, toPlane)
           Q == PlacesOf(m, toVessel, work', toPlane')
           new == <<v, "answered", Len(toPlane[v]) + 1>>
           old == <<v, "working", work[v][t]>>
           f == [p \in Q |-> IF p = new THEN old ELSE p]
<1>0. /\ toPlane \in [Vessels -> Seq(Replies)] /\ work \in [Vessels -> [Tasks -> Nat]]
      /\ work[v][t] > 0 /\ work' = [work EXCEPT ![v][t] = @ - 1]
      /\ toPlane' = toPlane \/ toPlane' = [toPlane EXCEPT ![v] = Append(@, r)]
      /\ r \in Replies /\ r.task = t
  BY DEF BoardTypes, Finish, Replies
<1> HIDE DEF r
<1>1. /\ Len(toPlane[v]) \in Nat /\ DOMAIN toPlane[v] = 1..Len(toPlane[v])
      /\ \A w \in Vessels \ {v} : toPlane'[w] = toPlane[w]
      /\ DOMAIN toPlane'[v] \subseteq 1..Len(toPlane[v]) + 1
      /\ \A i \in 1..Len(toPlane[v]) : toPlane'[v][i] = toPlane[v][i]
      /\ Len(toPlane[v]) + 1 \in DOMAIN toPlane'[v] => toPlane'[v][Len(toPlane[v]) + 1] = r
  <2>1. CASE toPlane' = toPlane
    BY <1>0, <2>1
  <2>2. CASE toPlane' = [toPlane EXCEPT ![v] = Append(@, r)]
    BY <1>0, <2>2
  <2> QED BY <1>0, <2>1, <2>2
<1>2. /\ \A w \in Vessels \ {v} : work'[w] = work[w]
      /\ work'[v] = [work[v] EXCEPT ![t] = @ - 1]
      /\ work[v] \in [Tasks -> Nat]
  BY <1>0
<1>3. /\ work[v][m] \in Nat /\ work[v][t] \in Nat
      /\ work'[v][m] = IF m = t THEN work[v][m] - 1 ELSE work[v][m]
  BY <1>2
<1>4. ASSUME NEW p \in Q
      PROVE  /\ p[1] \in Vessels /\ p[2] \in {"sent", "working", "answered"} /\ p[3] \in Nat
             /\ p = <<p[1], p[2], p[3]>>
             /\ p \in Vessels \X {"sent", "working", "answered"} \X Nat
             /\ f[p] = IF p = new THEN old ELSE p
  <2>1. f[p] = IF p = new THEN old ELSE p
    OBVIOUS
  <2> QED BY <2>1, PlaceIs
<1>5. ASSUME NEW p \in Q PROVE f[p] \in P /\ (p = new => m = t) /\ (p # new /\ m = t => p # old)
  <2>1. CASE p[2] = "sent"
    <3>1. p \in P
      BY <1>4, <1>5, <2>1 DEF PlacesOf
    <3>2. p # new /\ p # old
      BY <2>1
    <3> QED BY <1>4, <3>1, <3>2
  <2>2. CASE p[2] = "working"
    <3>1. p[3] \in 1..work'[p[1]][m]
      BY <1>5, <2>2 DEF PlacesOf
    <3>2. p[3] \in 1..work[p[1]][m] /\ (m = t => p # old)
      <4>1. CASE p[1] # v
        BY <1>2, <1>4, <1>5, <3>1, <4>1
      <4>2. CASE p[1] = v
        <5>1. p[3] \in 1..work'[v][m]
          BY <3>1, <4>2
        <5>2. p[3] \in 1..work[v][m] /\ (m = t => p[3] # work[v][t])
          BY <1>3, <5>1
        <5> QED BY <4>2, <5>2
      <4> QED BY <4>1, <4>2
    <3>3. p \in P
      BY <1>4, <1>5, <2>2, <3>2 DEF PlacesOf
    <3>4. p # new
      BY <2>2
    <3> QED BY <1>4, <3>2, <3>3, <3>4
  <2>3. CASE p[2] = "answered"
    <3>1. p[3] \in DOMAIN toPlane'[p[1]] /\ toPlane'[p[1]][p[3]].task = m
      BY <1>5, <2>3 DEF PlacesOf
    <3>2. CASE p = new
      <4>1. m = t
        BY <1>0, <1>1, <3>1, <3>2
      <4>2. work[v][t] \in 1..work[v][m]
        BY <1>0, <1>3, <4>1
      <4>3. old \in P
        BY <1>3, <4>2 DEF PlacesOf
      <4> QED BY <1>4, <3>2, <4>1, <4>3
    <3>3. CASE p # new
      <4>1. p[3] \in DOMAIN toPlane[p[1]] /\ toPlane[p[1]][p[3]].task = m
        <5>1. CASE p[1] # v
          BY <1>1, <1>4, <1>5, <3>1, <5>1
        <5>2. CASE p[1] = v
          <6>1. p[3] # Len(toPlane[v]) + 1
            BY <1>4, <1>5, <2>3, <3>3, <5>2
          <6>2. p[3] \in 1..Len(toPlane[v]) + 1
            BY <1>1, <3>1, <5>2
          <6>3. p[3] \in 1..Len(toPlane[v])
            BY <1>1, <6>1, <6>2
          <6> QED BY <1>1, <3>1, <5>2, <6>3
        <5> QED BY <5>1, <5>2
      <4>2. p \in P
        BY <1>4, <1>5, <2>3, <4>1 DEF PlacesOf
      <4>3. p # old
        BY <2>3
      <4> QED BY <1>4, <3>3, <4>2, <4>3
    <3> QED BY <3>2, <3>3
  <2> QED BY <1>4, <2>1, <2>2, <2>3
<1>6. ASSUME NEW p \in Q, NEW q \in Q, f[p] = f[q] PROVE p = q
  <2>1. /\ f[p] = IF p = new THEN old ELSE p
        /\ f[q] = IF q = new THEN old ELSE q
    BY <1>4
  <2>2. /\ p = new \/ q = new => m = t
        /\ (p # new /\ m = t => p # old) /\ (q # new /\ m = t => q # old)
    BY <1>5
  <2> HIDE DEF f, P, Q, new, old
  <2> QED BY <1>6, <2>1, <2>2
<1>7. AtMostOne(P) /\ \A p \in Q : f[p] \in P
  BY <1>5
<1> HIDE DEF f, P, Q, new, old
<1>8. AtMostOne(Q) /\ (P = {} => Q = {})
  BY <1>6, <1>7 DEF AtMostOne
<1> QED BY <1>8 DEF P, Q

\* Links that drop take places away.
LEMMA FewerPlaces ==
    ASSUME NEW m, NEW mail, NEW mail2, NEW hands, NEW back, NEW back2,
           AtMostOne(PlacesOf(m, mail, hands, back)),
           \A w \in Vessels : mail2[w] = mail[w] \/ mail2[w] = <<>>,
           \A w \in Vessels : back2[w] = back[w] \/ back2[w] = <<>>
    PROVE  /\ AtMostOne(PlacesOf(m, mail2, hands, back2))
           /\ PlacesOf(m, mail, hands, back) = {} => PlacesOf(m, mail2, hands, back2) = {}
<1> DEFINE P == PlacesOf(m, mail, hands, back)
           Q == PlacesOf(m, mail2, hands, back2)
<1>1. ASSUME NEW p \in Q PROVE p \in P
  <2>1. p \in Vessels \X {"sent", "working", "answered"} \X Nat /\ p[1] \in Vessels
    BY <1>1 DEF PlacesOf
  <2>2. DOMAIN mail2[p[1]] = {} \/ mail2[p[1]] = mail[p[1]]
    BY <2>1
  <2>3. DOMAIN back2[p[1]] = {} \/ back2[p[1]] = back[p[1]]
    BY <2>1
  <2> QED BY <1>1, <2>1, <2>2, <2>3 DEF PlacesOf
<1>2. AtMostOne(P)
  OBVIOUS
<1> HIDE DEF P, Q
<1>3. AtMostOne(Q) /\ (P = {} => Q = {})
  BY <1>1, <1>2 DEF AtMostOne
<1> QED BY <1>3 DEF P, Q

-----------------------------------------------------------------------------
(* The steps of the board. *)

\* No task is anywhere.
LEMMA InitBoard == ASSUME BoardAssumption, BoardInit PROVE BoardInv
<1>1. BoardTypes
  <2>1. 0 \in 0..RetryMax /\ 0 \in 0..MaxTroubles
    BY DEF BoardAssumption
  <2>2. [status |-> "none", channel |-> "", retries |-> 0, stale |-> FALSE] \in Rows
    BY <2>1 DEF Rows, Statuses
  <2>3. table \in [Tasks -> Rows]
    BY <2>2 DEF BoardInit
  <2>4. /\ linked \in Seq(Vessels) /\ toVessel \in [Vessels -> Seq(Tasks)]
        /\ toPlane \in [Vessels -> Seq(Replies)]
    <3>1. linked = <<>> /\ toVessel = [v \in Vessels |-> <<>>] /\ toPlane = [v \in Vessels |-> <<>>]
      BY DEF BoardInit, NoMail
    <3>2. [v \in Vessels |-> <<>>] \in [Vessels -> Seq(Tasks)]
          /\ [v \in Vessels |-> <<>>] \in [Vessels -> Seq(Replies)]
      OBVIOUS
    <3> QED BY <3>1, <3>2
  <2>5. work \in [Vessels -> [Tasks -> Nat]]
    BY DEF BoardInit
  <2>6. posted \subseteq Tasks /\ recovered \subseteq Tasks /\ troubles \in 0..MaxTroubles
    BY <2>1 DEF BoardInit
  <2> QED BY <2>3, <2>4, <2>5, <2>6 DEF BoardTypes
<1>2. ASSUME NEW t \in Tasks PROVE PlacesOf(t, toVessel, work, toPlane) = {}
  <2>1. SUFFICES ASSUME NEW p \in PlacesOf(t, toVessel, work, toPlane) PROVE FALSE
    OBVIOUS
  <2>2. p[1] \in Vessels
    BY <2>1 DEF PlacesOf
  <2>3. toVessel[p[1]] = <<>> /\ toPlane[p[1]] = <<>> /\ work[p[1]][t] = 0
    BY <2>2 DEF BoardInit, NoMail
  <2>4. DOMAIN toVessel[p[1]] = {} /\ DOMAIN toPlane[p[1]] = {} /\ 1..work[p[1]][t] = {}
    BY <2>3
  <2> QED BY <2>1, <2>4 DEF PlacesOf
<1>3. Single(table, toVessel, work, toPlane, recovered)
  BY <1>2 DEF Single, AtMostOne
<1> QED BY <1>1, <1>3 DEF BoardInv

\* What gives tasks out leaves the mail and the table it gives.
LEMMA Delivered ==
    ASSUME NEW p, IsSingle(p, work', toPlane', recovered'), Deliver(p),
           linked' \in Seq(Vessels), toPlane' \in [Vessels -> Seq(Replies)],
           work' \in [Vessels -> [Tasks -> Nat]],
           posted' \subseteq Tasks, recovered' \subseteq Tasks, troubles' \in 0..MaxTroubles
    PROVE  BoardInv'
<1>1. PICK tab \in [Tasks -> Rows], mail \in [Vessels -> Seq(Tasks)] :
          p = [table |-> tab, mail |-> mail] /\ Single(tab, mail, work', toPlane', recovered')
  BY DEF IsSingle
<1>2. table' = tab /\ toVessel' = mail
  BY <1>1 DEF Deliver
<1> QED BY <1>1, <1>2 DEF BoardInv, BoardTypes

\* Recovered changes the stale rows only.
LEMMA RecoveredTypes ==
    ASSUME table \in [Tasks -> Rows]
    PROVE  /\ Recovered \in [Tasks -> Rows] /\ Stale \subseteq Tasks
           /\ \A t \in Tasks \ Stale : Recovered[t] = table[t]
           /\ {t \in Stale : table[t].stale} = Stale
<1>1. ASSUME NEW t \in Tasks
      PROVE  [table[t] EXCEPT !.status = "pending", !.stale = FALSE] \in Rows
  BY DEF Rows, Statuses
<1> QED BY <1>1 DEF Recovered, Stale

\* recoverStaleTasks(): what is taken back is in the history.
LEMMA RecoveredIsSingle ==
    ASSUME BoardInv
    PROVE  Single(Recovered, toVessel, work, toPlane, recovered \cup {t \in Stale : table[t].stale})
<1>1. /\ \A t \in Tasks \ Stale : Recovered[t] = table[t]
      /\ {t \in Stale : table[t].stale} = Stale
  BY RecoveredTypes DEF BoardInv, BoardTypes
<1> QED BY <1>1 DEF BoardInv, Single

LEMMA CreateKeeps == ASSUME BoardInv, NEW t \in Tasks, Create(t) PROVE BoardInv'
<1>1. table' \in [Tasks -> Rows] /\ table'[t].status # "assigned"
      /\ \A m \in Tasks \ {t} : table'[m] = table[m]
  BY ZenonT(60) DEF BoardInv, BoardTypes, Create, Rows, Statuses
<1>2. table[t].status # "assigned"
  BY DEF Create
<1>3. UNCHANGED <<linked, toVessel, work, toPlane, posted, recovered, troubles>>
  BY DEF Create
<1>4. BoardTypes'
  BY <1>1, <1>3 DEF BoardInv, BoardTypes
<1>5. Single(table', toVessel, work, toPlane, recovered)
  BY <1>1, <1>2 DEF BoardInv, Single
<1> QED BY <1>3, <1>4, <1>5 DEF BoardInv

LEMMA AgesKeeps == ASSUME BoardInv, NEW t \in Tasks, Ages(t) PROVE BoardInv'
<1>1. table' \in [Tasks -> Rows] /\ \A m \in Tasks : table'[m].status = table[m].status
  BY DEF BoardInv, BoardTypes, Ages, Rows, Statuses
<1>3. UNCHANGED <<linked, toVessel, work, toPlane, posted, recovered, troubles>>
  BY DEF Ages
<1>4. BoardTypes'
  BY <1>1, <1>3 DEF BoardInv, BoardTypes
<1>5. Single(table', toVessel, work, toPlane, recovered)
  BY <1>1 DEF BoardInv, Single
<1> QED BY <1>3, <1>4, <1>5 DEF BoardInv

LEMMA ConnectKeeps == ASSUME BoardAssumption, BoardInv, NEW v \in Vessels, Connect(v) PROVE BoardInv'
<1> DEFINE p == [table |-> table, mail |-> toVessel]
<1>1. IsSingle(p, work, toPlane, recovered)
  BY DEF BoardInv, BoardTypes, IsSingle
<1>2. work \in [Vessels -> [Tasks -> Nat]] /\ toPlane \in [Vessels -> Seq(Replies)]
  BY DEF BoardInv, BoardTypes
<1> HIDE DEF p
<1>3. IsSingle(Assign(p, v), work, toPlane, recovered)
  BY <1>1, <1>2, AssignKeeps
<1>4. UNCHANGED <<work, toPlane, posted, recovered, troubles>> /\ Deliver(Assign(p, v))
      /\ linked' = Append(linked, v)
  BY DEF Connect, p
<1>5. linked' \in Seq(Vessels)
  BY <1>4 DEF BoardInv, BoardTypes
<1>6. IsSingle(Assign(p, v), work', toPlane', recovered')
  BY <1>3, <1>4
<1> QED BY <1>4, <1>5, <1>6, Delivered DEF BoardInv, BoardTypes

LEMMA HealthTickKeeps == ASSUME BoardAssumption, BoardInv, HealthTick PROVE BoardInv'
<1> DEFINE p == [table |-> Recovered, mail |-> toVessel]
           more == recovered \cup {t \in Stale : table[t].stale}
<1>1. work \in [Vessels -> [Tasks -> Nat]] /\ toPlane \in [Vessels -> Seq(Replies)]
      /\ linked \in Seq(Vessels) /\ toVessel \in [Vessels -> Seq(Tasks)]
      /\ table \in [Tasks -> Rows]
  BY DEF BoardInv, BoardTypes
<1>2. IsSingle(p, work, toPlane, more)
  BY <1>1, RecoveredTypes, RecoveredIsSingle DEF IsSingle
<1>3. UNCHANGED <<linked, work, toPlane, posted, troubles>> /\ Deliver(AssignAll(p))
      /\ recovered' = more
  BY DEF HealthTick
<1>4. more \subseteq Tasks
  BY <1>1, RecoveredTypes DEF BoardInv, BoardTypes
<1> HIDE DEF p, more
<1>5. IsSingle(AssignAll(p), work, toPlane, more)
  BY <1>1, <1>2, AssignAllKeeps
<1>6. IsSingle(AssignAll(p), work', toPlane', recovered')
  BY <1>3, <1>5
<1> QED BY <1>3, <1>4, <1>6, Delivered DEF BoardInv, BoardTypes

LEMMA ReplyKeeps == ASSUME BoardAssumption, BoardInv, NEW v \in Vessels, Reply(v) PROVE BoardInv'
<1> DEFINE t == Head(toPlane[v]).task
           good == Head(toPlane[v]).ok
           tab == IF good THEN Completed(table, t) ELSE Failed(table, t)
           back == [toPlane EXCEPT ![v] = Tail(@)]
           p == [table |-> tab, mail |-> toVessel]
<1>1. /\ work \in [Vessels -> [Tasks -> Nat]] /\ toPlane \in [Vessels -> Seq(Replies)]
      /\ linked \in Seq(Vessels) /\ toVessel \in [Vessels -> Seq(Tasks)]
      /\ table \in [Tasks -> Rows] /\ posted \subseteq Tasks
      /\ recovered \subseteq Tasks /\ troubles \in 0..MaxTroubles
  BY DEF BoardInv, BoardTypes
<1>2. /\ toPlane[v] # <<>> /\ toPlane' = back /\ Deliver(Assign(p, v))
      /\ posted' \subseteq posted \cup {t}
      /\ UNCHANGED <<linked, work, recovered, troubles>>
  BY DEF Reply
<1>3. Head(toPlane[v]) \in Replies
  BY <1>1, <1>2
<1>4. t \in Tasks
  BY <1>3 DEF Replies
<1>5. back \in [Vessels -> Seq(Replies)]
  <2>1. Tail(toPlane[v]) \in Seq(Replies)
    BY <1>1, <1>2
  <2> QED BY <1>1, <2>1
<1>6. /\ tab \in [Tasks -> Rows]
      /\ \A m \in Tasks \ {t} : tab[m] = table[m]
  <2> HIDE DEF t, good
  <2>1. Completed(table, t) \in [Tasks -> Rows]
        /\ \A m \in Tasks \ {t} : Completed(table, t)[m] = table[m]
    BY <1>1, <1>4 DEF Completed, Rows, Statuses
  <2>2. Failed(table, t) \in [Tasks -> Rows]
        /\ \A m \in Tasks \ {t} : Failed(table, t)[m] = table[m]
    <3> DEFINE n == table[t].retries + 1
               row == [table[t] EXCEPT !.status = IF n < RetryMax THEN "retry" ELSE "failed",
                                       !.retries = IF n < RetryMax THEN n ELSE RetryMax,
                                       !.stale = FALSE]
    <3>1. table[t] \in Rows /\ table[t].retries \in 0..RetryMax
      BY <1>1, <1>4 DEF Rows
    <3>2. (IF n < RetryMax THEN n ELSE RetryMax) \in 0..RetryMax
      BY <3>1 DEF BoardAssumption
    <3>3. (IF n < RetryMax THEN "retry" ELSE "failed") \in Statuses
      BY DEF Statuses
    <3> HIDE DEF n
    <3>4. row \in Rows
      BY <3>1, <3>2, <3>3 DEF Rows
    <3>5. Failed(table, t) = [table EXCEPT ![t] = row]
      BY <1>1, <1>4 DEF Failed, n
    <3> HIDE DEF row
    <3> QED BY <1>1, <1>4, <3>4, <3>5
  <2> QED BY <2>1, <2>2
<1> HIDE DEF good, tab, back, p
<1>7. ASSUME NEW m \in Tasks \ recovered
      PROVE  /\ AtMostOne(PlacesOf(m, toVessel, work, back))
             /\ PlacesOf(m, toVessel, work, toPlane) = {} => PlacesOf(m, toVessel, work, back) = {}
             /\ t = m => PlacesOf(m, toVessel, work, back) = {}
  <2>1. AtMostOne(PlacesOf(m, toVessel, work, toPlane))
    BY DEF BoardInv, Single
  <2> QED BY <1>1, <1>2, <2>1, FewerReplies DEF back
<1> HIDE DEF t
<1>8. Single(tab, toVessel, work, back, recovered)
  <2> SUFFICES ASSUME NEW m \in Tasks \ recovered
               PROVE  /\ AtMostOne(PlacesOf(m, toVessel, work, back))
                      /\ tab[m].status # "assigned" => PlacesOf(m, toVessel, work, back) = {}
    BY DEF Single
  <2>1. table[m].status # "assigned" => PlacesOf(m, toVessel, work, toPlane) = {}
    BY DEF BoardInv, Single
  <2> QED BY <1>6, <1>7, <2>1
<1>9. IsSingle(p, work, back, recovered)
  BY <1>1, <1>6, <1>8 DEF IsSingle, p
<1>10. IsSingle(Assign(p, v), work, back, recovered)
  BY <1>1, <1>5, <1>9, AssignKeeps
<1>11. IsSingle(Assign(p, v), work', toPlane', recovered')
  BY <1>2, <1>10
<1>12. /\ linked' \in Seq(Vessels) /\ toPlane' \in [Vessels -> Seq(Replies)]
       /\ work' \in [Vessels -> [Tasks -> Nat]]
       /\ posted' \subseteq Tasks /\ recovered' \subseteq Tasks /\ troubles' \in 0..MaxTroubles
  BY <1>1, <1>2, <1>4, <1>5
<1> QED BY <1>2, <1>11, <1>12, Delivered

LEMMA ReceiveKeeps == ASSUME BoardInv, NEW v \in Vessels, Receive(v) PROVE BoardInv'
<1> DEFINE t == Head(toVessel[v])
<1>1. /\ work \in [Vessels -> [Tasks -> Nat]] /\ toPlane \in [Vessels -> Seq(Replies)]
      /\ toVessel \in [Vessels -> Seq(Tasks)]
  BY DEF BoardInv, BoardTypes
<1>2. /\ toVessel[v] # <<>> /\ work' = [work EXCEPT ![v][t] = @ + 1]
      /\ toVessel' = [toVessel EXCEPT ![v] = Tail(@)]
      /\ UNCHANGED <<table, linked, toPlane, posted, recovered, troubles>>
  BY DEF Receive
<1>3. t \in Tasks /\ Tail(toVessel[v]) \in Seq(Tasks)
  BY <1>1, <1>2
<1>4. toVessel' \in [Vessels -> Seq(Tasks)]
  BY <1>1, <1>2, <1>3
<1> HIDE DEF t
<1>5. work' \in [Vessels -> [Tasks -> Nat]]
  BY <1>1, <1>2, <1>3
<1>6. BoardTypes'
  BY <1>2, <1>4, <1>5 DEF BoardInv, BoardTypes
<1>7. ASSUME NEW m \in Tasks \ recovered
      PROVE  /\ AtMostOne(PlacesOf(m, toVessel', work', toPlane))
             /\ PlacesOf(m, toVessel, work, toPlane) = {} => PlacesOf(m, toVessel', work', toPlane) = {}
  <2>1. AtMostOne(PlacesOf(m, toVessel, work, toPlane))
    BY DEF BoardInv, Single
  <2> QED BY <2>1, SentIsWorked DEF BoardInv
<1>8. Single(table, toVessel', work', toPlane, recovered)
  BY <1>7 DEF BoardInv, Single
<1> QED BY <1>2, <1>6, <1>8 DEF BoardInv

LEMMA FinishKeeps ==
    ASSUME BoardAssumption, BoardInv, NEW v \in Vessels, NEW t \in Tasks, NEW good \in BOOLEAN,
           Finish(v, t, good)
    PROVE  BoardInv'
<1> DEFINE r == [task |-> t, ok |-> good]
<1>1. /\ work \in [Vessels -> [Tasks -> Nat]] /\ toPlane \in [Vessels -> Seq(Replies)]
      /\ toVessel \in [Vessels -> Seq(Tasks)] /\ troubles \in 0..MaxTroubles
  BY DEF BoardInv, BoardTypes
<1>2. /\ work[v][t] > 0 /\ work' = [work EXCEPT ![v][t] = @ - 1]
      /\ toPlane' = toPlane \/ toPlane' = [toPlane EXCEPT ![v] = Append(@, r)]
      /\ UNCHANGED <<table, linked, toVessel, posted, recovered>>
      /\ good \/ troubles < MaxTroubles
      /\ troubles' = IF good THEN troubles ELSE troubles + 1
  BY DEF Finish
<1>3. r \in Replies /\ r.task = t
  BY DEF Replies
<1> HIDE DEF r
<1>4. toPlane' \in [Vessels -> Seq(Replies)]
  <2>1. Append(toPlane[v], r) \in Seq(Replies)
    BY <1>1, <1>3
  <2> QED BY <1>1, <1>2, <2>1
<1>5. work' \in [Vessels -> [Tasks -> Nat]]
  <2>1. work[v][t] - 1 \in Nat
    BY <1>1, <1>2
  <2> QED BY <1>1, <1>2, <2>1
<1>6. troubles' \in 0..MaxTroubles
  BY <1>1, <1>2 DEF BoardAssumption
<1>7. BoardTypes'
  BY <1>2, <1>4, <1>5, <1>6 DEF BoardInv, BoardTypes
<1>8. ASSUME NEW m \in Tasks \ recovered
      PROVE  /\ AtMostOne(PlacesOf(m, toVessel, work', toPlane'))
             /\ PlacesOf(m, toVessel, work, toPlane) = {} => PlacesOf(m, toVessel, work', toPlane') = {}
  <2>1. AtMostOne(PlacesOf(m, toVessel, work, toPlane))
    BY DEF BoardInv, Single
  <2> QED BY <2>1, WorkedIsAnswered DEF BoardInv
<1>9. Single(table, toVessel, work', toPlane', recovered)
  BY <1>8 DEF BoardInv, Single
<1> QED BY <1>2, <1>7, <1>9 DEF BoardInv

LEMMA DropKeeps == ASSUME BoardAssumption, BoardInv, NEW v \in Vessels, Drop(v) PROVE BoardInv'
<1>1. /\ toPlane \in [Vessels -> Seq(Replies)] /\ toVessel \in [Vessels -> Seq(Tasks)]
      /\ troubles \in 0..MaxTroubles /\ linked \in Seq(Vessels)
  BY DEF BoardInv, BoardTypes
<1>2. PICK i \in DOMAIN linked : linked' = RemoveAt(linked, i)
  BY DEF Drop
<1>3. /\ toVessel' = [toVessel EXCEPT ![v] = <<>>] /\ toPlane' = [toPlane EXCEPT ![v] = <<>>]
      /\ UNCHANGED <<table, work, posted, recovered>>
      /\ troubles < MaxTroubles /\ troubles' = troubles + 1
  BY DEF Drop
<1>4. linked' \in Seq(Vessels)
  <2>1. /\ Len(linked) \in Nat /\ i \in 1..Len(linked)
        /\ \A n \in 1..Len(linked) : linked[n] \in Vessels
    BY <1>1
  <2>2. /\ \A n \in 1..i - 1 : linked[n] \in Vessels
        /\ \A n \in i + 1..Len(linked) : linked[n] \in Vessels
    BY <2>1
  <2>3. SubSeq(linked, 1, i - 1) \in Seq(Vessels) /\ SubSeq(linked, i + 1, Len(linked)) \in Seq(Vessels)
    BY <2>1, <2>2, SubSeqProperties
  <2>4. RemoveAt(linked, i) = Cat(SubSeq(linked, 1, i - 1), SubSeq(linked, i + 1, Len(linked)))
    BY DEF RemoveAt, Cat
  <2> QED BY <1>2, <2>3, <2>4, CatIn
<1>5. toVessel' \in [Vessels -> Seq(Tasks)] /\ toPlane' \in [Vessels -> Seq(Replies)]
  <2>1. <<>> \in Seq(Tasks) /\ <<>> \in Seq(Replies)
    OBVIOUS
  <2> QED BY <1>1, <1>3, <2>1
<1>6. troubles' \in 0..MaxTroubles
  BY <1>1, <1>3 DEF BoardAssumption
<1>7. BoardTypes'
  BY <1>3, <1>4, <1>5, <1>6 DEF BoardInv, BoardTypes
<1>8. /\ \A w \in Vessels : toVessel'[w] = toVessel[w] \/ toVessel'[w] = <<>>
      /\ \A w \in Vessels : toPlane'[w] = toPlane[w] \/ toPlane'[w] = <<>>
  BY <1>1, <1>3
<1>9. ASSUME NEW m \in Tasks \ recovered
      PROVE  /\ AtMostOne(PlacesOf(m, toVessel', work, toPlane'))
             /\ PlacesOf(m, toVessel, work, toPlane) = {} => PlacesOf(m, toVessel', work, toPlane') = {}
  <2>1. AtMostOne(PlacesOf(m, toVessel, work, toPlane))
    BY DEF BoardInv, Single
  <2> QED BY <1>8, <2>1, FewerPlaces
<1>10. Single(table, toVessel', work, toPlane', recovered)
  BY <1>9 DEF BoardInv, Single
<1> QED BY <1>3, <1>7, <1>10 DEF BoardInv

LEMMA RestartKeeps == ASSUME BoardAssumption, BoardInv, PlaneRestarts PROVE BoardInv'
<1> DEFINE more == recovered \cup {t \in Stale : table[t].stale}
<1>1. /\ toPlane \in [Vessels -> Seq(Replies)] /\ toVessel \in [Vessels -> Seq(Tasks)]
      /\ troubles \in 0..MaxTroubles /\ table \in [Tasks -> Rows] /\ recovered \subseteq Tasks
  BY DEF BoardInv, BoardTypes
<1>2. /\ linked' = <<>> /\ toVessel' = NoMail /\ toPlane' = NoMail
      /\ UNCHANGED <<work, posted>> /\ table' = Recovered /\ recovered' = more
      /\ troubles < MaxTroubles /\ troubles' = troubles + 1
  BY DEF PlaneRestarts
<1>3. toVessel' \in [Vessels -> Seq(Tasks)] /\ toPlane' \in [Vessels -> Seq(Replies)]
  BY <1>2 DEF NoMail
<1>4. troubles' \in 0..MaxTroubles
  BY <1>1, <1>2 DEF BoardAssumption
<1>5. Recovered \in [Tasks -> Rows] /\ more \subseteq Tasks
  BY <1>1, RecoveredTypes
<1>6. linked' \in Seq(Vessels)
  BY <1>2
<1> HIDE DEF more
<1>7. BoardTypes'
  BY <1>2, <1>3, <1>4, <1>5, <1>6 DEF BoardInv, BoardTypes
<1>8. /\ \A w \in Vessels : toVessel'[w] = toVessel[w] \/ toVessel'[w] = <<>>
      /\ \A w \in Vessels : toPlane'[w] = toPlane[w] \/ toPlane'[w] = <<>>
  BY <1>2 DEF NoMail
<1>9. Single(Recovered, toVessel, work, toPlane, more)
  BY RecoveredIsSingle DEF more
<1>10. ASSUME NEW m \in Tasks \ more
       PROVE  /\ AtMostOne(PlacesOf(m, toVessel', work, toPlane'))
              /\ PlacesOf(m, toVessel, work, toPlane) = {} => PlacesOf(m, toVessel', work, toPlane') = {}
  <2>1. AtMostOne(PlacesOf(m, toVessel, work, toPlane))
    BY <1>9 DEF Single
  <2> QED BY <1>8, <2>1, FewerPlaces
<1>11. Single(Recovered, toVessel', work, toPlane', more)
  BY <1>9, <1>10 DEF Single
<1> QED BY <1>2, <1>7, <1>11 DEF BoardInv

\* No step of the board puts a task in two places.
LEMMA NextBoard == ASSUME BoardAssumption, BoardInv, [BoardNext]_boardVars PROVE BoardInv'
<1>1. CASE UNCHANGED boardVars
  BY ZenonT(60), <1>1 DEF boardVars, BoardInv, BoardTypes, Single, PlacesOf
<1>2. CASE \E t \in Tasks : Create(t) \/ Ages(t)
  BY <1>2, CreateKeeps, AgesKeeps
<1>3. CASE \E v \in Vessels : Connect(v) \/ Reply(v) \/ Receive(v) \/ Drop(v)
  BY <1>3, ConnectKeeps, ReplyKeeps, ReceiveKeeps, DropKeeps
<1>4. CASE \E v \in Vessels, t \in Tasks, good \in BOOLEAN : Finish(v, t, good)
  BY <1>4, FinishKeeps
<1>5. CASE HealthTick
  BY <1>5, HealthTickKeeps
<1>6. CASE PlaneRestarts
  BY <1>6, RestartKeeps
<1> QED BY <1>1, <1>2, <1>3, <1>4, <1>5, <1>6 DEF BoardNext

\* The invariant of the board.
LEMMA BoardHolds == ASSUME BoardAssumption PROVE BoardSpec => []BoardInv
<1>1. BoardInit => BoardInv
  BY InitBoard
<1>2. BoardInv /\ [BoardNext]_boardVars => BoardInv'
  BY NextBoard
<1> QED BY <1>1, <1>2, PTL DEF BoardSpec

\* BoardTypes says more than BoardTypeOK.
LEMMA BoardTypesAre == ASSUME BoardInv PROVE BoardTypeOK
<1>1. BoardTypes
  BY DEF BoardInv
<1>2. Range(linked) \subseteq Vessels
  BY <1>1 DEF BoardTypes, Range
<1>3. ASSUME NEW v \in Vessels
      PROVE  Range(toVessel[v]) \subseteq Tasks /\ Range(toPlane[v]) \subseteq Replies
  <2>1. toVessel[v] \in Seq(Tasks) /\ toPlane[v] \in Seq(Replies)
    BY <1>1 DEF BoardTypes
  <2> QED BY <2>1 DEF Range
<1> QED BY <1>1, <1>2, <1>3 DEF BoardTypes, BoardTypeOK

\* A task that was never taken back as stale is with one vessel at most, and then
\* it is assigned, whatever links drop, replies fail and planes restart
\* (task-queue.ts:77-131, control-plane.ts:146-181, vessel-client.ts).
THEOREM OneCopy == ASSUME BoardAssumption PROVE BoardSpec => []OneCopyOfATask
<1>1. BoardInv => OneCopyOfATask
  BY SingleIsOneCopy
<1> QED BY <1>1, BoardHolds, PTL

\* The table, the mail and the vessels' work keep their types (task-queue.ts).
THEOREM BoardTypeCorrect == ASSUME BoardAssumption PROVE BoardSpec => []BoardTypeOK
<1>1. BoardInv => BoardTypeOK
  BY BoardTypesAre
<1> QED BY <1>1, BoardHolds, PTL
=============================================================================
