---------------------------- MODULE PartsProofs ----------------------------
(* What the proofs of each part show is true of the six parts together        *)
(* (MCParts), for every value of the constants: a behaviour of MCParts is one *)
(* of each part's specification.                                               *)
EXTENDS MCParts, GoalBoardProofs

\* What each part does, and that the others leave it alone.
LEMMA IsAPool == PartsFairSpec => Pool!Spec
<1>1. PartsInit => Pool!Init
  BY DEF PartsInit
<1>2. [PartsNext]_partsVars => [Pool!Next]_(Pool!vars)
  BY DEF PartsNext, partsVars, poolVars, Pool!vars, Pool!pool, Pool!entries, Pool!drain
<1> QED BY <1>1, <1>2, PTL DEF PartsFairSpec, Pool!Spec

LEMMA IsAQueue == PartsFairSpec => Queue!Spec
<1>1. PartsInit => Queue!Init
  BY DEF PartsInit
<1>2. [PartsNext]_partsVars => [Queue!Next]_(Queue!vars)
  BY DEF PartsNext, partsVars, queueVars, Queue!vars, Queue!file, Queue!memory, Queue!history,
         Queue!faults
<1> QED BY <1>1, <1>2, PTL DEF PartsFairSpec, Queue!Spec

LEMMA IsARouter == PartsFairSpec => Wake!Spec
<1>1. PartsInit => Wake!Init
  BY DEF PartsInit
<1>2. [PartsNext]_partsVars => [Wake!Next]_(Wake!vars)
  BY DEF PartsNext, partsVars, wakeVars, Wake!vars, Wake!memory, Wake!bounds
<1> QED BY <1>1, <1>2, PTL DEF PartsFairSpec, Wake!Spec

LEMMA IsAGoalRun == PartsFairSpec => Spec
<1>1. PartsInit => Init
  BY DEF PartsInit
<1>2. [PartsNext]_partsVars => [Next]_vars
  BY DEF PartsNext, partsVars, runVars
<1> QED BY <1>1, <1>2, PTL DEF PartsFairSpec, Spec

LEMMA IsABoard == PartsFairSpec => BoardSpec
<1>1. PartsInit => BoardInit
  BY DEF PartsInit
<1>2. [PartsNext]_partsVars => [BoardNext]_boardVars
  BY DEF PartsNext, partsVars
<1> QED BY <1>1, <1>2, PTL DEF PartsFairSpec, BoardSpec

LEMMA IsAnApproval == PartsFairSpec => Cards!Spec
<1>1. PartsInit => Cards!Init
  BY DEF PartsInit
<1>2. [PartsNext]_partsVars => [Cards!Next]_(Cards!vars)
  BY DEF PartsNext, partsVars, cardVars, Cards!vars
<1> QED BY <1>1, <1>2, PTL DEF PartsFairSpec, Cards!Spec

\* Every variable of every part keeps its type.
THEOREM PartsTypeCorrect == PartsFairSpec => []PartsTypeOK
<1>1. Pool!Spec => []Pool!TypeOK
  BY PartsAssumption, Pool!TypeCorrect
<1>2. Queue!Spec => []Queue!TypeOK
  BY PartsAssumption, Queue!TypeCorrect
<1>3. Wake!Spec => []Wake!TypeOK
  BY PartsAssumption, Wake!TypeCorrect
<1>4. Spec => []TypeOK
  BY TypeCorrect
<1>5. BoardSpec => []BoardTypeOK
  BY PartsAssumption, BoardTypeCorrect
<1>6. Cards!Spec => []Cards!TypeOK
  BY PartsAssumption, Cards!TypeCorrect
<1> QED
  BY <1>1, <1>2, <1>3, <1>4, <1>5, <1>6, IsAPool, IsAQueue, IsARouter, IsAGoalRun, IsABoard,
     IsAnApproval, PTL DEF PartsTypeOK

\* A redelivered message id has one turn (agent-pool.ts:663-679), as long as no
\* entry forgets an id it still knows of, and a task that was not taken back is
\* with one vessel at most (task-queue.ts:77-131).
THEOREM DoneOnce ==
    ASSUME IsFiniteSet(MessageIds), Cardinality(MessageIds) <= SeenMax
    PROVE  PartsFairSpec => []NothingIsDoneTwice
<1>1. Pool!Spec => []Pool!RedeliveryNeverRuns
  BY PartsAssumption, Pool!OneTurnPerMessageId
     DEF IsFiniteSet, Cardinality, Pool!IsFiniteSet, Pool!Cardinality
<1>2. BoardSpec => []OneCopyOfATask
  BY PartsAssumption, OneCopy
<1> QED
  BY <1>1, <1>2, IsAPool, IsABoard, PTL DEF NothingIsDoneTwice

\* Urgent events are counted until they are announced, and the file a waiting event
\* points at is kept (wake-router.ts:16-18, 210-217), when no urgent event is a
\* report with a file of its own.
THEOREM EventsAreKept ==
    ASSUME Urgent \cap Reports = {} PROVE PartsFairSpec => []NothingIsLost
<1>1. Wake!Spec => []Wake!UrgentIsNeverDropped
  BY PartsAssumption, Wake!UrgentSurvives
<1>2. Wake!Spec => []Wake!PayloadsAreKept
  BY PartsAssumption, Wake!PayloadsSurvive
<1> QED
  BY <1>1, <1>2, IsARouter, PTL DEF NothingIsLost

\* No more items are in flight than the throttle allows (queue.ts:290-312), and what
\* runs was approved (channel-approvals.ts:139-193).
THEOREM GatesHold == PartsFairSpec => []NothingSlipsThrough
<1>1. Queue!Spec => []Queue!ThrottleNeverOverAdmits
  BY PartsAssumption, Queue!ThrottleHolds
<1>2. Cards!Spec => []Cards!ApprovalsWereGiven
  BY PartsAssumption, Cards!NothingRunsUnapproved
<1> QED
  BY <1>1, <1>2, IsAQueue, IsAnApproval, PTL DEF NothingSlipsThrough
=============================================================================
