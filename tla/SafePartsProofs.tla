-------------------------- MODULE SafePartsProofs --------------------------
(***************************************************************************)
(* Proofs about the three parts that MCSafeParts composes: the lock of the  *)
(* queue's file (QueueLock), what boots and crashes keep (DaemonBoot), and  *)
(* the floor of a huddle (Floor).  They share no state and no lemma; what   *)
(* each argument rests on is said at the head of its section.               *)
(***************************************************************************)
EXTENDS QueueLock, DaemonBoot, Floor, WellFoundedInduction, FiniteSetTheorems,
        SequenceTheorems, TLAPS

-----------------------------------------------------------------------------
(***************************************************************************)
(* One writer per queue file, for any number of daemons and of attempts.    *)
(*                                                                         *)
(* A writer's lock is at its path or with the one taker that moved it by    *)
(* mistake, and while a taker has it there is nothing at the path: that is  *)
(* what a second writer would have to break.  It holds until the history    *)
(* says that the documented limit was met (`exposed').                      *)
(***************************************************************************)

\* A pid that some file holds, or held, is that of a daemon that was started.
LockStarted(p) == p = Ghost \/ at[p] # "off"

PidsStarted ==
    /\ lock = NoLock \/ LockStarted(lock)
    /\ \A d \in Daemons : LockStarted(judged[d]) /\ LockStarted(moved[d])

AttemptsLeft ==
    \A d \in Daemons : at[d] \in Taking \cup {"off"} => attempt[d] < Attempts

\* A lock that is to be taken over was a dead daemon's.
JudgedIsDead ==
    \A d \in Daemons : at[d] = "moving" => judged[d] = Ghost \/ at[judged[d]] = "dead"

RestoresARivals == \A d \in Daemons : at[d] = "restoring" => moved[d] # judged[d]

\* A daemon whose lock it is, until it has unlinked it.
Owners == {d \in Daemons : at[d] \in {"holding", "releasing"}}

OwnersLockIsSafe ==
    \A d \in Owners :
        lock = d \/ \E x \in Daemons : Restoring(x) /\ moved[x] = d

PathIsFree == \A x \in Daemons : Restoring(x) => lock = NoLock

OneRestores == \A x, y \in Daemons : Restoring(x) /\ Restoring(y) => x = y

LockTypeInv == TypeOK /\ PidsStarted /\ AttemptsLeft /\ JudgedIsDead /\ RestoresARivals

Kept == OwnersLockIsSafe /\ PathIsFree /\ OneRestores

LockInv == LockTypeInv /\ (exposed \/ Kept)

-----------------------------------------------------------------------------
LEMMA LockInitInv == Init => LockInv
<1> SUFFICES ASSUME Init PROVE LockInv
  OBVIOUS
<1>1. TypeOK
  <2>1. lock \in Pids \cup {NoLock} /\ exposed \in BOOLEAN
    BY DEF Init, Pids
  <2>2. at \in [Daemons -> Places]
    BY DEF Init, Places
  <2>3. judged \in [Daemons -> Pids] /\ moved \in [Daemons -> Pids]
    BY DEF Init, Pids
  <2>4. attempt \in [Daemons -> 0..Attempts]
    BY LockAssumption DEF Init
  <2> QED
    BY <2>1, <2>2, <2>3, <2>4 DEF TypeOK
<1>2. PidsStarted /\ AttemptsLeft /\ JudgedIsDead /\ RestoresARivals
  <2>1. /\ lock = NoLock \/ lock = Ghost
        /\ \A d \in Daemons : /\ at[d] = "off" /\ judged[d] = Ghost /\ moved[d] = Ghost
    BY DEF Init
  <2>2. PidsStarted /\ JudgedIsDead /\ RestoresARivals
    BY <2>1 DEF PidsStarted, JudgedIsDead, RestoresARivals, LockStarted
  <2>3. AttemptsLeft
    BY LockAssumption DEF Init, AttemptsLeft
  <2> QED
    BY <2>2, <2>3
<1>3. Kept
  BY DEF Init, Kept, OwnersLockIsSafe, PathIsFree, OneRestores, Owners, Restoring
<1> QED
  BY <1>1, <1>2, <1>3 DEF LockInv, LockTypeInv

(* A step moves one daemon, and none goes back to not having started or, dead,
   comes back. *)
LEMMA OneMoves ==
    ASSUME LockTypeInv, NEW d \in Daemons, NEW place \in Places, Go(d, place)
    PROVE  /\ at' \in [Daemons -> Places] /\ at'[d] = place
           /\ \A x \in Daemons : x # d => at'[x] = at[x]
  BY DEF LockTypeInv, TypeOK, Go

LEMMA AgainGoes ==
    ASSUME LockTypeInv, NEW d \in Daemons, at[d] \in Taking, Again(d)
    PROVE  /\ \E place \in {"creating", "refused"} : Go(d, place)
           /\ attempt' \in [Daemons -> 0..Attempts]
           /\ at'[d] \in Taking => attempt'[d] < Attempts
           /\ \A x \in Daemons : x # d => attempt'[x] = attempt[x]
<1>1. Attempts \in Nat /\ attempt[d] \in 0..Attempts /\ attempt[d] < Attempts
  BY LockAssumption DEF LockTypeInv, TypeOK, AttemptsLeft
<1>2. attempt[d] + 1 \in 0..Attempts
  BY <1>1
<1>3. CASE attempt[d] + 1 < Attempts
  BY <1>2, <1>3 DEF Again, Go, LockTypeInv, TypeOK
<1>4. CASE ~(attempt[d] + 1 < Attempts)
  <2>1. Go(d, "refused") /\ at'[d] = "refused"
    BY <1>4 DEF Again, Go, LockTypeInv, TypeOK
  <2> QED
    BY <1>2, <2>1 DEF Again, LockTypeInv, TypeOK, Taking
<1> QED
  BY <1>3, <1>4

(* Every step keeps the types and what is known of pids and attempts. *)
LEMMA NextTypeInv ==
    ASSUME LockTypeInv, NEW d \in Daemons, NEW place \in Places, Go(d, place),
           at[d] \notin {"dead"}, place # "off",
           lock' \in Pids \cup {NoLock}, judged' \in [Daemons -> Pids],
           moved' \in [Daemons -> Pids], attempt' \in [Daemons -> 0..Attempts],
           exposed' \in BOOLEAN,
           lock' = NoLock \/ LockStarted(lock') \/ lock' = d,
           \A x \in Daemons : x # d => /\ judged'[x] = judged[x] /\ moved'[x] = moved[x]
                                       /\ attempt'[x] = attempt[x],
           LockStarted(judged'[d]), LockStarted(moved'[d]),
           place \in Taking => attempt'[d] < Attempts,
           place = "moving" => judged'[d] = Ghost \/ at[judged'[d]] = "dead",
           place = "restoring" => moved'[d] # judged'[d]
    PROVE  LockTypeInv'
<1>0. /\ at' \in [Daemons -> Places] /\ at'[d] = place
      /\ \A x \in Daemons : x # d => at'[x] = at[x]
  BY OneMoves
<1>1. TypeOK'
  BY <1>0 DEF TypeOK
<1>2. \A p \in Pids : LockStarted(p) => LockStarted(p)'
  BY <1>0 DEF LockStarted, Pids
<1>3. \A p \in Pids : p = Ghost \/ at[p] = "dead" => p = Ghost \/ at'[p] = "dead"
  BY <1>0 DEF Pids
<1>4. PidsStarted'
  <2>1. lock' = NoLock \/ LockStarted(lock)'
    <3>1. CASE lock' = d
      BY <1>0, <3>1 DEF LockStarted
    <3>2. CASE LockStarted(lock') /\ lock' # NoLock
      BY <1>2, <3>2 DEF LockStarted
    <3> QED
      BY <3>1, <3>2
  <2>2. ASSUME NEW x \in Daemons PROVE LockStarted(judged[x])' /\ LockStarted(moved[x])'
    <3>1. judged'[x] \in Pids /\ moved'[x] \in Pids
      OBVIOUS
    <3>2. LockStarted(judged'[x]) /\ LockStarted(moved'[x])
      BY DEF LockTypeInv, PidsStarted
    <3> QED
      BY <1>2, <3>1, <3>2 DEF LockStarted
  <2> QED
    BY <2>1, <2>2 DEF PidsStarted
<1>5. AttemptsLeft'
  BY <1>0 DEF LockTypeInv, AttemptsLeft
<1>6. JudgedIsDead'
  <2>1. SUFFICES ASSUME NEW x \in Daemons, at'[x] = "moving"
                 PROVE  judged'[x] = Ghost \/ at'[judged'[x]] = "dead"
    BY DEF JudgedIsDead
  <2>2. judged'[x] \in Pids /\ (judged'[x] = Ghost \/ at[judged'[x]] = "dead")
    BY <1>0, <2>1 DEF LockTypeInv, JudgedIsDead
  <2> QED
    BY <1>3, <2>2
<1>7. RestoresARivals'
  BY <1>0 DEF LockTypeInv, RestoresARivals
<1> QED
  BY <1>1, <1>4, <1>5, <1>6, <1>7 DEF LockTypeInv

(* A step that leaves the path and the owners as they are, and neither begins
   nor ends a restore. *)
LEMMA QuietKept ==
    ASSUME Kept, UNCHANGED lock,
           \A x \in Daemons : at'[x] \in {"holding", "releasing"}
                                => at[x] \in {"holding", "releasing"},
           \A x \in Daemons : /\ Restoring(x)' <=> Restoring(x)
                              /\ Restoring(x) => moved'[x] = moved[x]
    PROVE  Kept'
<1>1. Owners' \subseteq Owners
  BY DEF Owners
<1>2. OwnersLockIsSafe'
  BY <1>1 DEF Kept, OwnersLockIsSafe
<1>3. PathIsFree' /\ OneRestores'
  BY DEF Kept, PathIsFree, OneRestores
<1> QED
  BY <1>2, <1>3 DEF Kept

-----------------------------------------------------------------------------
(* The steps, one by one. *)

LEMMA StartInv == ASSUME LockInv, NEW d \in Daemons, Start(d) PROVE LockInv'
<1>0. /\ LockTypeInv /\ at[d] = "off" /\ Go(d, "creating") /\ exposed' = exposed
      /\ UNCHANGED <<lock, judged, moved, attempt>>
  BY DEF LockInv, Start
<1>1. /\ at' \in [Daemons -> Places] /\ at'[d] = "creating"
      /\ \A x \in Daemons : x # d => at'[x] = at[x]
  BY <1>0, OneMoves DEF Places, Taking
<1>2. LockTypeInv'
  <2>1. attempt[d] < Attempts
    BY <1>0 DEF LockTypeInv, AttemptsLeft
  <2>2. "creating" \in Places
    BY DEF Places, Taking
  <2> QED
    BY <1>0, <2>1, <2>2, NextTypeInv DEF LockTypeInv, TypeOK, PidsStarted
<1>3. Kept => Kept'
  BY <1>0, <1>1, QuietKept DEF Restoring
<1> QED
  BY <1>0, <1>2, <1>3 DEF LockInv

LEMMA CreateInv == ASSUME LockInv, NEW d \in Daemons, Create(d) PROVE LockInv'
<1>0. LockTypeInv /\ at[d] = "creating" /\ UNCHANGED <<judged, moved, attempt>>
  BY DEF LockInv, Create
<1>1. attempt[d] < Attempts
  BY <1>0 DEF LockTypeInv, AttemptsLeft, Taking
<1>2. CASE /\ lock = NoLock /\ lock' = d /\ Go(d, "holding")
           /\ exposed' = (exposed \/ \E x \in Daemons : Restoring(x))
  <2>1. /\ at' \in [Daemons -> Places] /\ at'[d] = "holding"
        /\ \A x \in Daemons : x # d => at'[x] = at[x]
    BY <1>0, <1>2, OneMoves DEF Places
  <2>2. LockTypeInv'
    <3>1. exposed' \in BOOLEAN
      BY <1>2
    <3>2. "holding" \in Places \ Taking
      BY DEF Places, Taking
    <3> QED
      BY <1>0, <1>2, <3>1, <3>2, NextTypeInv DEF LockTypeInv, TypeOK, PidsStarted, Pids
  <2>3. Kept /\ ~exposed' => Kept'
    <3>1. SUFFICES ASSUME Kept, ~exposed' PROVE Kept'
      OBVIOUS
    <3>2. \A x \in Daemons : ~Restoring(x)
      BY <1>2, <3>1
    <3>3. \A x \in Daemons : ~Restoring(x)'
      BY <1>0, <2>1, <3>2 DEF Restoring
    <3>4. Owners = {}
      <4>1. d \in Pids /\ NoLock \notin Daemons
        BY LockAssumption DEF Pids
      <4> QED
        BY <1>2, <3>1, <3>2, <4>1 DEF Kept, OwnersLockIsSafe, Owners
    <3>5. Owners' \subseteq {d}
      BY <2>1, <3>4 DEF Owners
    <3> QED
      BY <1>2, <3>3, <3>5 DEF Kept, OwnersLockIsSafe, PathIsFree, OneRestores
  <2> QED
    BY <1>2, <2>2, <2>3 DEF LockInv
<1>3. CASE Go(d, "reading") /\ UNCHANGED <<lock, exposed>>
  <2>1. /\ at' \in [Daemons -> Places] /\ at'[d] = "reading"
        /\ \A x \in Daemons : x # d => at'[x] = at[x]
    BY <1>0, <1>3, OneMoves DEF Places, Taking
  <2>2. LockTypeInv'
    <3>1. "reading" \in Places
      BY DEF Places, Taking
    <3> QED
      BY <1>0, <1>1, <1>3, <3>1, NextTypeInv DEF LockTypeInv, TypeOK, PidsStarted
  <2>3. Kept => Kept'
    BY <1>0, <1>3, <2>1, QuietKept DEF Restoring
  <2> QED
    BY <1>3, <2>2, <2>3 DEF LockInv
<1> QED
  BY <1>2, <1>3 DEF Create, Links

(* A step of a daemon that has no lock, from one place without a moved lock to
   another. *)
LEMMA TakersQuietInv ==
    ASSUME LockInv, NEW d \in Daemons, at[d] \in Taking \ {"looking", "restoring"},
           NEW place \in {"creating", "judging", "moving", "refused"}, Go(d, place),
           UNCHANGED <<lock, moved, exposed>>, judged' \in [Daemons -> Pids],
           attempt' \in [Daemons -> 0..Attempts], LockStarted(judged'[d]),
           \A x \in Daemons : x # d => judged'[x] = judged[x] /\ attempt'[x] = attempt[x],
           place # "refused" => attempt'[d] < Attempts,
           place = "moving" => judged'[d] = Ghost \/ at[judged'[d]] = "dead"
    PROVE  LockInv'
<1>0. LockTypeInv /\ place \in Places /\ at[d] # "dead"
  BY DEF LockInv, Places, Taking
<1>1. /\ at' \in [Daemons -> Places] /\ at'[d] = place
      /\ \A x \in Daemons : x # d => at'[x] = at[x]
  BY <1>0, OneMoves
<1>2. LockTypeInv'
  <2>1. /\ lock' \in Pids \cup {NoLock} /\ moved' \in [Daemons -> Pids]
        /\ exposed' \in BOOLEAN /\ (lock' = NoLock \/ LockStarted(lock')) /\ LockStarted(moved'[d])
    BY <1>0 DEF LockTypeInv, TypeOK, PidsStarted
  <2>2. place \in Taking => attempt'[d] < Attempts
    BY DEF Taking
  <2> QED
    BY <1>0, <2>1, <2>2, NextTypeInv
<1>3. Kept => Kept'
  <2>1. \A x \in Daemons : Restoring(x)' <=> Restoring(x)
    BY <1>1 DEF Restoring, Taking
  <2> QED
    BY <1>1, <2>1, QuietKept
<1> QED
  BY <1>2, <1>3 DEF LockInv

LEMMA ReadInv == ASSUME LockInv, NEW d \in Daemons, Read(d) PROVE LockInv'
<1>0. /\ LockTypeInv /\ at[d] = "reading" /\ UNCHANGED <<lock, moved, exposed>>
      /\ at[d] \in Taking \ {"looking", "restoring"} /\ attempt[d] < Attempts
  BY DEF LockInv, Read, Taking, LockTypeInv, AttemptsLeft
<1>1. CASE Again(d) /\ UNCHANGED judged
  <2>1. PICK place \in {"creating", "refused"} : Go(d, place)
    BY <1>0, <1>1, AgainGoes
  <2>2. place \in Places
    BY DEF Places, Taking
  <2>3. at'[d] = place
    BY <1>0, <2>1, <2>2, OneMoves
  <2>4. place # "refused" => attempt'[d] < Attempts
    BY <1>0, <1>1, <2>3, AgainGoes DEF Taking
  <2> QED
    BY <1>0, <1>1, <2>1, <2>4, AgainGoes, TakersQuietInv DEF LockTypeInv, TypeOK, PidsStarted
<1>2. CASE /\ lock # NoLock /\ judged' = [judged EXCEPT ![d] = lock]
           /\ Go(d, "judging") /\ UNCHANGED attempt
  <2>1. lock \in Pids /\ LockStarted(lock)
    BY <1>0, <1>2 DEF LockTypeInv, TypeOK, PidsStarted
  <2>2. /\ judged' \in [Daemons -> Pids] /\ judged'[d] = lock
        /\ \A x \in Daemons : x # d => judged'[x] = judged[x]
    BY <1>0, <1>2, <2>1 DEF LockTypeInv, TypeOK
  <2> QED
    BY <1>0, <1>2, <2>1, <2>2, TakersQuietInv DEF LockTypeInv, TypeOK
<1> QED
  BY <1>1, <1>2 DEF Read

LEMMA JudgeInv == ASSUME LockInv, NEW d \in Daemons, Judge(d) PROVE LockInv'
<1>0. /\ LockTypeInv /\ UNCHANGED <<lock, judged, moved, attempt, exposed>>
      /\ at[d] \in Taking \ {"looking", "restoring"} /\ attempt[d] < Attempts
  BY DEF LockInv, Judge, Taking, LockTypeInv, AttemptsLeft
<1>1. /\ judged' \in [Daemons -> Pids] /\ attempt' \in [Daemons -> 0..Attempts]
      /\ judged[d] \in Pids /\ LockStarted(judged[d])
  BY <1>0 DEF LockTypeInv, TypeOK, PidsStarted
<1>2. CASE Go(d, "refused")
  BY <1>0, <1>1, <1>2, TakersQuietInv
<1>3. CASE ~Alive(judged[d]) /\ Go(d, "moving")
  <2>1. judged[d] = Ghost \/ at[judged[d]] = "dead"
    BY <1>1, <1>3 DEF Alive, LockStarted, Pids
  <2> QED
    BY <1>0, <1>1, <1>3, <2>1, TakersQuietInv
<1> QED
  BY <1>2, <1>3 DEF Judge

(* What is moved by mistake is the lock at the path: no other was moved then. *)
LEMMA MoveInv == ASSUME LockInv, NEW d \in Daemons, Move(d) PROVE LockInv'
<1>0. /\ LockTypeInv /\ at[d] = "moving" /\ UNCHANGED <<judged, exposed>>
      /\ at[d] \in Taking \ {"looking", "restoring"} /\ attempt[d] < Attempts
  BY DEF LockInv, Move, Taking, LockTypeInv, AttemptsLeft
<1>1. CASE Again(d) /\ UNCHANGED <<lock, moved>>
  <2>1. PICK place \in {"creating", "refused"} : Go(d, place)
    BY <1>0, <1>1, AgainGoes
  <2>2. place \in Places
    BY DEF Places, Taking
  <2>3. at'[d] = place
    BY <1>0, <2>1, <2>2, OneMoves
  <2>4. place # "refused" => attempt'[d] < Attempts
    BY <1>0, <1>1, <2>3, AgainGoes DEF Taking
  <2> QED
    BY <1>0, <1>1, <2>1, <2>4, AgainGoes, TakersQuietInv DEF LockTypeInv, TypeOK, PidsStarted
<1>2. CASE /\ lock # NoLock /\ moved' = [moved EXCEPT ![d] = lock] /\ lock' = NoLock
           /\ Go(d, "looking") /\ UNCHANGED attempt
  <2>0. lock \in Pids /\ LockStarted(lock)
    BY <1>0, <1>2 DEF LockTypeInv, TypeOK, PidsStarted
  <2>1. /\ at' \in [Daemons -> Places] /\ at'[d] = "looking"
        /\ \A x \in Daemons : x # d => at'[x] = at[x]
    BY <1>0, <1>2, OneMoves DEF Places, Taking
  <2>2. /\ moved' \in [Daemons -> Pids] /\ moved'[d] = lock
        /\ \A x \in Daemons : x # d => moved'[x] = moved[x]
    BY <1>0, <1>2, <2>0 DEF LockTypeInv, TypeOK
  <2>3. LockTypeInv'
    <3>1. "looking" \in Places
      BY DEF Places, Taking
    <3> QED
      BY <1>0, <1>2, <2>0, <2>2, <3>1, NextTypeInv DEF LockTypeInv, TypeOK, PidsStarted
  <2>4. Kept => Kept'
    <3>1. SUFFICES ASSUME Kept PROVE Kept'
      OBVIOUS
    <3>2. \A x \in Daemons : ~Restoring(x)
      BY <1>2, <3>1 DEF Kept, PathIsFree
    <3>3. \A x \in Daemons : x # d => ~Restoring(x)'
      BY <1>0, <2>1, <2>2, <3>2 DEF Restoring
    <3>4. OneRestores' /\ PathIsFree'
      BY <1>2, <3>3 DEF OneRestores, PathIsFree
    <3>5. OwnersLockIsSafe'
      <4>1. SUFFICES ASSUME NEW o \in Owners' PROVE Restoring(d)' /\ moved'[d] = o
        BY DEF OwnersLockIsSafe
      <4>2. o \in Owners
        BY <1>0, <2>1 DEF Owners
      <4>3. lock = o
        BY <3>1, <3>2, <4>2 DEF Kept, OwnersLockIsSafe
      <4>4. o # judged[d]
        BY <1>0, <4>2, LockAssumption DEF Owners, LockTypeInv, JudgedIsDead
      <4> QED
        BY <1>0, <2>1, <2>2, <4>3, <4>4 DEF Restoring
    <3> QED
      BY <3>4, <3>5 DEF Kept
  <2> QED
    BY <1>0, <2>3, <2>4 DEF LockInv
<1> QED
  BY <1>1, <1>2 DEF Move

LEMMA LookInv == ASSUME LockInv, NEW d \in Daemons, Look(d) PROVE LockInv'
<1>0. /\ LockTypeInv /\ at[d] = "looking" /\ at[d] \in Taking
      /\ UNCHANGED <<lock, judged, moved, exposed>>
  BY DEF LockInv, Look, Taking
<1>1. CASE Judged(d) /\ Again(d)
  <2>1. PICK place \in {"creating", "refused"} : Go(d, place)
    BY <1>0, <1>1, AgainGoes
  <2>2. place \in Places
    BY DEF Places, Taking
  <2>3. /\ at' \in [Daemons -> Places] /\ at'[d] = place
        /\ \A x \in Daemons : x # d => at'[x] = at[x]
    BY <1>0, <2>1, <2>2, OneMoves
  <2>4. LockTypeInv'
    BY <1>0, <1>1, <2>1, <2>2, <2>3, AgainGoes, NextTypeInv DEF LockTypeInv, TypeOK, PidsStarted
  <2>5. Kept => Kept'
    <3>1. \A x \in Daemons : Restoring(x)' <=> Restoring(x)
      BY <1>0, <1>1, <2>3 DEF Restoring, Judged
    <3> QED
      BY <1>0, <2>3, <3>1, QuietKept
  <2> QED
    BY <1>0, <2>4, <2>5 DEF LockInv
<1>2. CASE ~Judged(d) /\ Go(d, "restoring") /\ UNCHANGED attempt
  <2>1. /\ at' \in [Daemons -> Places] /\ at'[d] = "restoring"
        /\ \A x \in Daemons : x # d => at'[x] = at[x]
    BY <1>0, <1>2, OneMoves DEF Places, Taking
  <2>2. LockTypeInv'
    <3>1. "restoring" \in Places /\ attempt[d] < Attempts
      BY <1>0 DEF Places, Taking, LockTypeInv, AttemptsLeft
    <3> QED
      BY <1>0, <1>2, <3>1, NextTypeInv DEF LockTypeInv, TypeOK, PidsStarted, Judged
  <2>3. Kept => Kept'
    <3>1. \A x \in Daemons : Restoring(x)' <=> Restoring(x)
      BY <1>0, <2>1 DEF Restoring
    <3> QED
      BY <1>0, <2>1, <3>1, QuietKept
  <2> QED
    BY <1>0, <2>2, <2>3 DEF LockInv
<1> QED
  BY <1>1, <1>2 DEF Look

(* Nothing is at the path when a rival's lock is put back, so it lands. *)
LEMMA RestoreInv == ASSUME LockInv, NEW d \in Daemons, Restore(d) PROVE LockInv'
<1>0. /\ LockTypeInv /\ at[d] = "restoring" /\ Go(d, "refused")
      /\ lock' = IF lock = NoLock THEN moved[d] ELSE lock
      /\ UNCHANGED <<judged, moved, attempt, exposed>>
  BY DEF LockInv, Restore
<1>1. /\ at' \in [Daemons -> Places] /\ at'[d] = "refused"
      /\ \A x \in Daemons : x # d => at'[x] = at[x]
  BY <1>0, OneMoves DEF Places
<1>2. LockTypeInv'
  <2>1. "refused" \in Places \ Taking
    BY DEF Places, Taking
  <2>2. lock' \in Pids \cup {NoLock} /\ (lock' = NoLock \/ LockStarted(lock'))
    BY <1>0 DEF LockTypeInv, TypeOK, PidsStarted
  <2> QED
    BY <1>0, <2>1, <2>2, NextTypeInv DEF LockTypeInv, TypeOK, PidsStarted
<1>3. Kept => Kept'
  <2>1. SUFFICES ASSUME Kept PROVE Kept'
    OBVIOUS
  <2>2. Restoring(d)
    BY <1>0 DEF Restoring, LockTypeInv, RestoresARivals
  <2>3. lock' = moved[d] /\ \A x \in Daemons : Restoring(x) => x = d
    BY <1>0, <2>1, <2>2 DEF Kept, PathIsFree, OneRestores
  <2>4. \A x \in Daemons : ~Restoring(x)'
    BY <1>0, <1>1, <2>3 DEF Restoring
  <2>5. OwnersLockIsSafe'
    <3>1. SUFFICES ASSUME NEW o \in Owners' PROVE lock' = o
      BY DEF OwnersLockIsSafe
    <3>2. o \in Owners /\ o # NoLock
      BY <1>0, <1>1, LockAssumption DEF Owners
    <3>3. lock = NoLock
      BY <2>1, <2>2 DEF Kept, PathIsFree
    <3> QED
      BY <2>1, <2>3, <3>2, <3>3 DEF Kept, OwnersLockIsSafe
  <2> QED
    BY <2>4, <2>5 DEF Kept, PathIsFree, OneRestores
<1> QED
  BY <1>0, <1>2, <1>3 DEF LockInv

LEMMA LockCloseInv == ASSUME LockInv, NEW d \in Daemons, Close(d) PROVE LockInv'
<1>0. /\ LockTypeInv /\ at[d] = "holding"
      /\ UNCHANGED <<lock, judged, moved, attempt, exposed>>
  BY DEF LockInv, Close
<1>1. PICK place \in {"releasing", "closed"} : Go(d, place)
  BY DEF Close
<1>2. place \in Places /\ place \notin Taking
  BY DEF Places, Taking
<1>3. /\ at' \in [Daemons -> Places] /\ at'[d] = place
      /\ \A x \in Daemons : x # d => at'[x] = at[x]
  BY <1>0, <1>1, <1>2, OneMoves
<1>4. LockTypeInv'
  BY <1>0, <1>1, <1>2, NextTypeInv DEF LockTypeInv, TypeOK, PidsStarted
<1>5. Kept => Kept'
  <2>1. \A x \in Daemons : Restoring(x)' <=> Restoring(x)
    BY <1>0, <1>3 DEF Restoring
  <2> QED
    BY <1>0, <1>3, <2>1, QuietKept
<1> QED
  BY <1>0, <1>4, <1>5 DEF LockInv

(* What is unlinked is the daemon's own lock, or nothing. *)
LEMMA UnlinkInv == ASSUME LockInv, NEW d \in Daemons, Unlink(d) PROVE LockInv'
<1>0. /\ LockTypeInv /\ at[d] = "releasing" /\ lock' = NoLock /\ Go(d, "closed")
      /\ UNCHANGED <<judged, moved, attempt, exposed>>
  BY DEF LockInv, Unlink
<1>1. /\ at' \in [Daemons -> Places] /\ at'[d] = "closed"
      /\ \A x \in Daemons : x # d => at'[x] = at[x]
  BY <1>0, OneMoves DEF Places
<1>2. LockTypeInv'
  <2>1. "closed" \in Places \ Taking
    BY DEF Places, Taking
  <2> QED
    BY <1>0, <2>1, NextTypeInv DEF LockTypeInv, TypeOK, PidsStarted
<1>3. Kept => Kept'
  <2>1. SUFFICES ASSUME Kept PROVE Kept'
    OBVIOUS
  <2>2. \A x \in Daemons : Restoring(x)' <=> Restoring(x)
    BY <1>0, <1>1 DEF Restoring
  <2>3. d \in Owners
    BY <1>0 DEF Owners
  <2>4. lock = NoLock \/ lock = d
    BY <2>1, <2>3 DEF Kept, OwnersLockIsSafe, PathIsFree
  <2>5. OwnersLockIsSafe'
    <3>1. SUFFICES ASSUME NEW o \in Owners'
                   PROVE  \E x \in Daemons : Restoring(x)' /\ moved'[x] = o
      BY DEF OwnersLockIsSafe
    <3>2. o \in Owners /\ o # d /\ o # NoLock
      BY <1>0, <1>1, LockAssumption DEF Owners
    <3>3. PICK x \in Daemons : Restoring(x) /\ moved[x] = o
      BY <2>1, <2>4, <3>2 DEF Kept, OwnersLockIsSafe
    <3> QED
      BY <1>0, <2>2, <3>3
  <2>6. PathIsFree' /\ OneRestores'
    BY <1>0, <2>1, <2>2 DEF Kept, PathIsFree, OneRestores
  <2> QED
    BY <2>5, <2>6 DEF Kept
<1> QED
  BY <1>0, <1>2, <1>3 DEF LockInv

LEMMA DiesInv == ASSUME LockInv, NEW d \in Daemons, Dies(d) PROVE LockInv'
<1>0. /\ LockTypeInv /\ at[d] # "dead" /\ Go(d, "dead")
      /\ exposed' = (exposed \/ Restoring(d))
      /\ UNCHANGED <<lock, judged, moved, attempt>>
  BY DEF LockInv, Dies, Alive
<1>1. /\ at' \in [Daemons -> Places] /\ at'[d] = "dead"
      /\ \A x \in Daemons : x # d => at'[x] = at[x]
  BY <1>0, OneMoves DEF Places
<1>2. LockTypeInv'
  <2>1. "dead" \in Places \ Taking
    BY DEF Places, Taking
  <2>2. exposed' \in BOOLEAN
    BY <1>0
  <2> QED
    BY <1>0, <2>1, <2>2, NextTypeInv DEF LockTypeInv, TypeOK, PidsStarted
<1>3. Kept /\ ~exposed' => Kept'
  <2>1. SUFFICES ASSUME Kept, ~exposed' PROVE Kept'
    OBVIOUS
  <2>2. \A x \in Daemons : Restoring(x)' <=> Restoring(x)
    BY <1>0, <1>1, <2>1 DEF Restoring
  <2> QED
    BY <1>0, <1>1, <2>1, <2>2, QuietKept
<1> QED
  BY <1>0, <1>2, <1>3 DEF LockInv

-----------------------------------------------------------------------------
LEMMA LockNextInv == LockInv /\ [Next]_vars => LockInv'
<1> SUFFICES ASSUME LockInv, [Next]_vars PROVE LockInv'
  OBVIOUS
<1>1. CASE UNCHANGED vars
  BY <1>1 DEF vars, LockInv, LockTypeInv, TypeOK, PidsStarted, AttemptsLeft, JudgedIsDead,
     RestoresARivals, LockStarted, Kept, OwnersLockIsSafe, PathIsFree, OneRestores, Owners,
     Restoring
<1>2. CASE Next
  BY <1>2, StartInv, CreateInv, ReadInv, JudgeInv, MoveInv, LookInv, RestoreInv, LockCloseInv,
     UnlinkInv, DiesInv DEF Next
<1> QED
  BY <1>1, <1>2

LEMMA SpecInv == Spec => []LockInv
  BY LockInitInv, LockNextInv, PTL DEF Spec

(* Every variable keeps to its type; the takeover loop ends in its bound. *)
THEOREM LockTypeCorrect == Spec => []TypeOK
<1>1. LockInv => TypeOK
  BY DEF LockInv, LockTypeInv
<1> QED
  BY <1>1, SpecInv, PTL

(* However many daemons start on a data dir, and wherever they are killed, at
   most one writes its queue file, but for the limit of queue.ts:131-134. *)
THEOREM AtMostOneWriter == Spec => []OneWriter
<1>1. LockInv => OneWriter
  <2>1. SUFFICES ASSUME LockInv, Kept PROVE Cardinality(Writers) <= 1
    BY DEF LockInv, OneWriter
  <2>2. \A d, e \in Writers : d = e
    <3>1. SUFFICES ASSUME NEW d \in Writers, NEW e \in Writers PROVE d = e
      OBVIOUS
    <3>2. d \in Owners /\ e \in Owners /\ d # NoLock /\ e # NoLock
      BY LockAssumption DEF Writers, Owners
    <3> QED
      BY <2>1, <3>2 DEF Kept, OwnersLockIsSafe, PathIsFree, OneRestores
  <2>3. CASE Writers = {}
    BY <2>3, FS_EmptySet
  <2>4. CASE Writers # {}
    <3>1. PICK d \in Writers : TRUE
      BY <2>4
    <3>2. Writers = {d}
      BY <2>2, <3>1
    <3> QED
      BY <3>2, FS_Singleton
  <2> QED
    BY <2>3, <2>4
<1> QED
  BY <1>1, SpecInv, PTL

(* A writer's lock is never out of reach: it is at its path, or its taker is
   about to put it back. *)
THEOREM LocksAreNotLost == Spec => []WriterHasALock
<1>1. LockInv => WriterHasALock
  BY DEF LockInv, Kept, OwnersLockIsSafe, WriterHasALock, Writers, Owners
<1> QED
  BY <1>1, SpecInv, PTL

-----------------------------------------------------------------------------
(* The queue is not left to nobody.  As long as no daemon has had the lock, none
   was refused: who comes round the loop again found the path free, and free it
   stays until somebody creates the lock. *)

NobodyEver ==
    /\ lock \in {NoLock, Ghost}
    /\ \A d \in Daemons :
        /\ judged[d] = Ghost /\ moved[d] = Ghost
        /\ at[d] \in {"off", "creating", "reading", "judging", "moving", "looking"}
        /\ at[d] = "looking" => lock = NoLock
        /\ attempt[d] = 0 \/ (attempt[d] = 1 /\ at[d] = "creating" /\ lock = NoLock)

\* No daemon has closed or died; where the queue's loop ends, one is writing.
AllPresent == \A d \in Daemons : at[d] \notin {"releasing", "closed", "dead"}

SomeoneInv == AllPresent /\ Writers = {} => NobodyEver

LEMMA SomeoneInit == Init => SomeoneInv
  BY DEF Init, SomeoneInv, NobodyEver

\* A step to a state in which all are there and none writes comes from such a state.
LEMMA StillNobody ==
    ASSUME LockTypeInv, [Next]_vars, AllPresent', Writers' = {}
    PROVE  AllPresent /\ Writers = {}
<1>1. CASE UNCHANGED vars
  BY <1>1 DEF vars, AllPresent, Writers
<1>2. ASSUME NEW d \in Daemons, NEW place \in Places, Go(d, place),
             at[d] # "dead", at[d] = "closed" => place \in {"closed", "dead"},
             at[d] = "releasing" => place \in {"closed", "dead"},
             at[d] = "holding" => place \in {"releasing", "closed", "dead"}
      PROVE  AllPresent /\ Writers = {}
  <2>1. at'[d] = place /\ \A x \in Daemons : x # d => at'[x] = at[x]
    BY <1>2, OneMoves
  <2> QED
    BY <1>2, <2>1 DEF AllPresent, Writers
<1>3. ASSUME NEW d \in Daemons,
             \/ Start(d) \/ Create(d) \/ Read(d) \/ Judge(d) \/ Move(d) \/ Look(d)
             \/ Restore(d) \/ Close(d) \/ Unlink(d) \/ Dies(d)
      PROVE  AllPresent /\ Writers = {}
  <2>1. \E place \in Places :
           /\ Go(d, place) /\ at[d] # "dead"
           /\ at[d] = "closed" => place \in {"closed", "dead"}
           /\ at[d] = "releasing" => place \in {"closed", "dead"}
           /\ at[d] = "holding" => place \in {"releasing", "closed", "dead"}
    BY <1>3 DEF Start, Create, Read, Judge, Move, Look, Restore, Close, Unlink, Dies,
       Again, Alive, Places, Taking
  <2> QED
    BY <1>2, <2>1
<1> QED
  BY <1>1, <1>3 DEF Next

LEMMA SomeoneNext ==
    ASSUME Attempts > 1, LockTypeInv, SomeoneInv, [Next]_vars
    PROVE  SomeoneInv'
<1> SUFFICES ASSUME AllPresent', Writers' = {} PROVE NobodyEver'
  BY DEF SomeoneInv
<1>0. NobodyEver /\ AllPresent /\ Writers = {}
  BY StillNobody DEF SomeoneInv
<1>1. CASE UNCHANGED vars
  BY <1>0, <1>1 DEF vars, NobodyEver
<1>2. ASSUME NEW d \in Daemons, Start(d) \/ Create(d) \/ Read(d) \/ Judge(d)
      PROVE  NobodyEver'
  BY <1>0, <1>2, LockAssumption
     DEF Start, Create, Read, Judge, Go, Again, Links, Alive, NobodyEver, Writers, LockTypeInv,
         TypeOK
<1>3. ASSUME NEW d \in Daemons, Move(d) \/ Look(d) PROVE NobodyEver'
  BY <1>0, <1>3, LockAssumption
     DEF Move, Look, Go, Again, Judged, NobodyEver, LockTypeInv, TypeOK
<1>4. ASSUME NEW d \in Daemons, Restore(d) \/ Close(d) \/ Unlink(d) \/ Dies(d)
      PROVE  NobodyEver'
  BY <1>0, <1>4 DEF Restore, Close, Unlink, Dies, Go, NobodyEver, AllPresent, LockTypeInv, TypeOK
<1> QED
  BY <1>1, <1>2, <1>3, <1>4 DEF Next

(* If the loop has more than one attempt (the code has three), the queue is not left
   to nobody by daemons that refuse each other, however many race for it. *)
THEOREM QueueIsTaken == ASSUME Attempts > 1 PROVE Spec => []SomeoneHasTheQueue
<1>1. LockInv => LockTypeInv
  BY DEF LockInv
<1>2. SomeoneInv /\ LockTypeInv /\ [Next]_vars => SomeoneInv'
  BY SomeoneNext
<1>3. SomeoneInv => SomeoneHasTheQueue
  BY DEF SomeoneInv, AllPresent, NobodyEver, SomeoneHasTheQueue
<1> QED
  BY <1>1, <1>2, <1>3, SomeoneInit, SpecInv, PTL DEF Spec

-----------------------------------------------------------------------------
(***************************************************************************)
(* What a crash and a boot keep of the sessions, their turns and their     *)
(* checkpoints, for any sets of sessions and turns and any number of       *)
(* crashes.                                                                *)
(***************************************************************************)

\* The one way to wait: a continuation behind what the drain started.
Waiting(t) == Run(t, TRUE, "waiting", FALSE)

OneWayToWait == \A r \in running : r.phase = "waiting" => r = Waiting(r.turn)

NobodyWaitsYet ==
    stage \in {"down", "constructed", "settling"} =>
        \A r \in running : r.phase # "waiting"

LiveOnesAreInThePool ==
    \A r \in running :
        r.at = "live" /\ r.phase # "ended" => Target[r.turn] \in DOMAIN pool

BootTypeInv ==
    /\ BootTypeOK
    /\ OneWayToWait /\ NobodyWaitsYet /\ LiveOnesAreInThePool
    /\ \A i \in DOMAIN line : line[i] \in sent

-----------------------------------------------------------------------------
(* The operators. *)

LEMMA UpsertIs ==
    ASSUME NEW f, NEW s, NEW e
    PROVE  /\ DOMAIN Upsert(f, s, e) = DOMAIN f \cup {s}
           /\ Upsert(f, s, e)[s] = e
           /\ \A x \in DOMAIN f \ {s} : Upsert(f, s, e)[x] = f[x]
  BY DEF Upsert

LEMMA WithoutIs ==
    ASSUME NEW f, NEW s
    PROVE  /\ DOMAIN Without(f, s) = DOMAIN f \ {s}
           /\ \A x \in DOMAIN f \ {s} : Without(f, s)[x] = f[x]
  BY DEF Without

LEMMA UpdateIs ==
    ASSUME NEW f, NEW s, NEW e
    PROVE  /\ DOMAIN Update(f, s, e) = DOMAIN f
           /\ s \in DOMAIN f => Update(f, s, e)[s] = e
           /\ \A x \in DOMAIN f \ {s} : Update(f, s, e)[x] = f[x]
  BY DEF Update, Upsert

(* The journal's writes, on an entry and around it. *)

IsJournal(j) == DOMAIN j \subseteq Sessions /\ \A s \in DOMAIN j : j[s] \in Entries

Elsewhere(j, k, s) == DOMAIN k = DOMAIN j /\ \A x \in DOMAIN j \ {s} : k[x] = j[x]

LEMMA FreshIs ==
    FreshEntry \in Entries /\ FreshEntry.turn = NoTurn /\ FreshEntry.attempts = 0
    /\ FreshEntry.calls = {} /\ FreshEntry.ckpt = {}
  BY DEF FreshEntry, Entries

LEMMA UpsertJournal ==
    ASSUME NEW j, IsJournal(j), NEW s \in Sessions, NEW e \in Entries
    PROVE  IsJournal(Upsert(j, s, e))
  BY DEF IsJournal, Upsert

LEMMA WithoutJournal ==
    ASSUME NEW j, IsJournal(j), NEW s
    PROVE  IsJournal(Without(j, s))
  BY DEF IsJournal, Without

LEMMA UpdateJournal ==
    ASSUME NEW j, IsJournal(j), NEW s, NEW e, s \in DOMAIN j => e \in Entries
    PROVE  IsJournal(Update(j, s, e)) /\ Elsewhere(j, Update(j, s, e), s)
  BY UpdateIs DEF IsJournal, Elsewhere

LEMMA MarkToolStartIs ==
    ASSUME NEW j, IsJournal(j), NEW s, NEW c \in ToolCalls
    PROVE  LET k == MarkToolStart(j, s, c)
           IN  /\ IsJournal(k) /\ Elsewhere(j, k, s)
               /\ s \in DOMAIN j => /\ k[s].turn = j[s].turn
                                    /\ k[s].attempts = j[s].attempts
                                    /\ k[s].calls = j[s].calls \cup {c}
                                    /\ k[s].ckpt = j[s].ckpt
<1> DEFINE e == [j[s] EXCEPT !.calls = @ \cup {c}]
<1>1. s \in DOMAIN j => /\ e \in Entries /\ e.turn = j[s].turn /\ e.attempts = j[s].attempts
                        /\ e.calls = j[s].calls \cup {c} /\ e.ckpt = j[s].ckpt
  BY DEF IsJournal, Entries
<1> HIDE DEF e
<1>2. MarkToolStart(j, s, c) = Update(j, s, e)
  BY DEF MarkToolStart, e
<1> QED
  BY <1>1, <1>2, UpdateJournal, UpdateIs

LEMMA MarkToolEndIs ==
    ASSUME NEW j, IsJournal(j), NEW s, NEW c
    PROVE  LET k == MarkToolEnd(j, s, c)
           IN  /\ IsJournal(k) /\ Elsewhere(j, k, s)
               /\ s \in DOMAIN j => /\ k[s].turn = j[s].turn
                                    /\ k[s].attempts = j[s].attempts
                                    /\ k[s].calls = j[s].calls \ {c}
                                    /\ k[s].ckpt = j[s].ckpt
<1> DEFINE e == [j[s] EXCEPT !.calls = @ \ {c}]
<1>1. s \in DOMAIN j => /\ e \in Entries /\ e.turn = j[s].turn /\ e.attempts = j[s].attempts
                        /\ e.calls = j[s].calls \ {c} /\ e.ckpt = j[s].ckpt
  BY DEF IsJournal, Entries
<1> HIDE DEF e
<1>2. MarkToolEnd(j, s, c) = Update(j, s, e)
  BY DEF MarkToolEnd, e
<1> QED
  BY <1>1, <1>2, UpdateJournal, UpdateIs

LEMMA ClearInFlightIs ==
    ASSUME NEW j, IsJournal(j), NEW s
    PROVE  LET k == ClearInFlight(j, s)
           IN  /\ IsJournal(k) /\ Elsewhere(j, k, s)
               /\ s \in DOMAIN j => /\ k[s].turn = j[s].turn
                                    /\ k[s].attempts = j[s].attempts
                                    /\ k[s].calls = {} /\ k[s].ckpt = j[s].ckpt
<1> DEFINE e == [j[s] EXCEPT !.calls = {}]
<1>1. s \in DOMAIN j => /\ e \in Entries /\ e.turn = j[s].turn /\ e.attempts = j[s].attempts
                        /\ e.calls = {} /\ e.ckpt = j[s].ckpt
  BY DEF IsJournal, Entries
<1> HIDE DEF e
<1>2. ClearInFlight(j, s) = Update(j, s, e)
  BY DEF ClearInFlight, e
<1> QED
  BY <1>1, <1>2, UpdateJournal, UpdateIs

LEMMA MarkTurnStartIs ==
    ASSUME NEW j, IsJournal(j), NEW s, NEW t \in Turns
    PROVE  LET k == MarkTurnStart(j, s, t)
           IN  /\ IsJournal(k) /\ Elsewhere(j, k, s)
               /\ s \in DOMAIN j => /\ k[s].turn = t /\ k[s].attempts = 0
                                    /\ k[s].calls = j[s].calls /\ k[s].ckpt = j[s].ckpt
<1> DEFINE e == [j[s] EXCEPT !.turn = t, !.attempts = 0]
<1>1. s \in DOMAIN j => /\ e \in Entries /\ e.turn = t /\ e.attempts = 0
                        /\ e.calls = j[s].calls /\ e.ckpt = j[s].ckpt
  BY DEF IsJournal, Entries
<1> HIDE DEF e
<1>2. MarkTurnStart(j, s, t) = Update(j, s, e)
  BY DEF MarkTurnStart, e
<1> QED
  BY <1>1, <1>2, UpdateJournal, UpdateIs

LEMMA MarkTurnEndIs ==
    ASSUME NEW j, IsJournal(j), NEW s
    PROVE  LET k == MarkTurnEnd(j, s)
           IN  /\ IsJournal(k) /\ Elsewhere(j, k, s)
               /\ s \in DOMAIN j => /\ k[s].turn = NoTurn /\ k[s].attempts = 0
                                    /\ k[s].calls = j[s].calls /\ k[s].ckpt = j[s].ckpt
<1> DEFINE e == [j[s] EXCEPT !.turn = NoTurn, !.attempts = 0]
<1>1. s \in DOMAIN j => /\ e \in Entries /\ e.turn = NoTurn /\ e.attempts = 0
                        /\ e.calls = j[s].calls /\ e.ckpt = j[s].ckpt
  BY DEF IsJournal, Entries
<1> HIDE DEF e
<1>2. MarkTurnEnd(j, s) = Update(j, s, e)
  BY DEF MarkTurnEnd, e
<1> QED
  BY <1>1, <1>2, UpdateJournal, UpdateIs

(* Agents and runs. *)

IsPool(p) == DOMAIN p \subseteq Sessions /\ \A s \in DOMAIN p : p[s] \in Agents

FreshAgent == [history |-> {}, named |-> TRUE]

LEMMA UpsertPool ==
    ASSUME NEW p, IsPool(p), NEW s \in Sessions
    PROVE  IsPool(Upsert(p, s, FreshAgent))
  BY DEF IsPool, Upsert, FreshAgent, Agents

LEMMA WithoutPool ==
    ASSUME NEW p, IsPool(p), NEW s
    PROVE  IsPool(Without(p, s))
  BY DEF IsPool, Without

\* A conversation that grows.
LEMMA HistoryGrows ==
    ASSUME NEW p, IsPool(p), NEW s \in DOMAIN p, NEW F \in SUBSET Facts
    PROVE  LET q == [p EXCEPT ![s].history = @ \cup F]
           IN  /\ IsPool(q) /\ DOMAIN q = DOMAIN p
               /\ q[s].history = p[s].history \cup F
               /\ q[s].named = p[s].named
               /\ \A x \in DOMAIN p \ {s} : q[x] = p[x]
<1> DEFINE e == [p[s] EXCEPT !.history = @ \cup F]
           q == [p EXCEPT ![s].history = @ \cup F]
<1>1. e \in Agents /\ e.history = p[s].history \cup F /\ e.named = p[s].named
  BY DEF IsPool, Agents
<1>2. q = [x \in DOMAIN p |-> IF x = s THEN e ELSE p[x]]
  OBVIOUS
<1> HIDE DEF e, q
<1> QED
  BY <1>1, <1>2 DEF IsPool, q

LEMMA SaysIs ==
    ASSUME NEW p, IsPool(p), NEW s, NEW F \in SUBSET Facts
    PROVE  LET q == Says(p, s, F)
           IN  /\ IsPool(q) /\ DOMAIN q = DOMAIN p
               /\ \A x \in DOMAIN p : p[x].history \subseteq q[x].history
<1> DEFINE e == [p[s] EXCEPT !.history = @ \cup F]
           q == Says(p, s, F)
<1>1. q = [x \in DOMAIN p |-> IF x = s THEN e ELSE p[x]]
  BY DEF Says
<1>2. s \in DOMAIN p => e \in Agents /\ p[s].history \subseteq e.history
  BY DEF IsPool, Agents
<1> HIDE DEF e, q
<1>3. IsPool(q) /\ DOMAIN q = DOMAIN p /\ \A x \in DOMAIN p : p[x].history \subseteq q[x].history
  BY <1>1, <1>2 DEF IsPool
<1> QED
  BY <1>3 DEF q

LEMMA FactsAre == \A t \in Turns : Said(t) \in Facts /\ Note(t) \in Facts
  BY DEF Said, Note, Facts

LEMMA CallsAre ==
    ASSUME NEW r \in Runs, r.call # "none"
    PROVE  CallOf(r) \in ToolCalls
  BY DEF CallOf, ToolCalls, Runs

LEMMA TypesSplit ==
    BootTypeOK <=>
        /\ IsJournal(journal) /\ IsPool(pool)
        /\ line \in Seq(Items) /\ IsInjective(line)
        /\ stage \in Stages /\ running \subseteq Runs
        /\ DOMAIN toSettle \subseteq Sessions
        /\ \A s \in DOMAIN toSettle : toSettle[s] \subseteq ToolCalls
        /\ toResume \subseteq Sessions
        /\ drainDue \in BOOLEAN /\ crashes \in 0..MaxCrashes
        /\ sent \subseteq Turns /\ cut \subseteq Turns /\ runs \in [Turns -> Nat]
        /\ spent \in BOOLEAN /\ refused \subseteq Turns
  BY DEF BootTypeOK, IsJournal, IsPool

LEMMA TypesJoin ==
    ASSUME IsJournal(journal'), IsPool(pool'),
           line' \in Seq(Items), IsInjective(line'),
           stage' \in Stages, running' \subseteq Runs,
           DOMAIN toSettle' \subseteq Sessions,
           \A s \in DOMAIN toSettle' : toSettle'[s] \subseteq ToolCalls,
           toResume' \subseteq Sessions,
           drainDue' \in BOOLEAN, crashes' \in 0..MaxCrashes,
           sent' \subseteq Turns, cut' \subseteq Turns, runs' \in [Turns -> Nat],
           spent' \in BOOLEAN, refused' \subseteq Turns,
           OneWayToWait', NobodyWaitsYet', LiveOnesAreInThePool',
           \A i \in DOMAIN line' : line'[i] \in sent'
    PROVE  BootTypeInv'
  BY DEF BootTypeInv, BootTypeOK, IsJournal, IsPool

\* What an action leaves alone keeps its type.
LEMMA Unmoved ==
    ASSUME BootTypeInv
    PROVE  /\ UNCHANGED line /\ sent \subseteq sent' =>
                /\ line' \in Seq(Items) /\ IsInjective(line')
                /\ \A i \in DOMAIN line' : line'[i] \in sent'
           /\ UNCHANGED journal => IsJournal(journal')
           /\ UNCHANGED pool => IsPool(pool')
           /\ UNCHANGED running => running' \subseteq Runs /\ OneWayToWait'
           /\ UNCHANGED toSettle =>
                /\ DOMAIN toSettle' \subseteq Sessions
                /\ \A s \in DOMAIN toSettle' : toSettle'[s] \subseteq ToolCalls
           /\ UNCHANGED stage => stage' \in Stages
           /\ UNCHANGED toResume => toResume' \subseteq Sessions
           /\ UNCHANGED drainDue => drainDue' \in BOOLEAN
           /\ UNCHANGED crashes => crashes' \in 0..MaxCrashes
           /\ UNCHANGED sent => sent' \subseteq Turns
           /\ UNCHANGED cut => cut' \subseteq Turns
           /\ UNCHANGED runs => runs' \in [Turns -> Nat]
           /\ UNCHANGED spent => spent' \in BOOLEAN
           /\ UNCHANGED refused => refused' \subseteq Turns
<1>1. UNCHANGED line /\ sent \subseteq sent' =>
                /\ line' \in Seq(Items) /\ IsInjective(line')
                /\ \A i \in DOMAIN line' : line'[i] \in sent'
  BY DEF BootTypeInv, BootTypeOK, IsInjective
<1>2. UNCHANGED running => running' \subseteq Runs /\ OneWayToWait'
  BY DEF BootTypeInv, BootTypeOK, OneWayToWait
<1>3. UNCHANGED journal => IsJournal(journal')
  BY DEF BootTypeInv, BootTypeOK, IsJournal
<1>4. UNCHANGED pool => IsPool(pool')
  BY DEF BootTypeInv, BootTypeOK, IsPool
<1>5. UNCHANGED toSettle =>
                /\ DOMAIN toSettle' \subseteq Sessions
                /\ \A s \in DOMAIN toSettle' : toSettle'[s] \subseteq ToolCalls
  BY DEF BootTypeInv, BootTypeOK
<1>6. /\ UNCHANGED stage => stage' \in Stages
      /\ UNCHANGED toResume => toResume' \subseteq Sessions
      /\ UNCHANGED drainDue => drainDue' \in BOOLEAN
      /\ UNCHANGED crashes => crashes' \in 0..MaxCrashes
      /\ UNCHANGED sent => sent' \subseteq Turns
      /\ UNCHANGED cut => cut' \subseteq Turns
      /\ UNCHANGED runs => runs' \in [Turns -> Nat]
      /\ UNCHANGED spent => spent' \in BOOLEAN
      /\ UNCHANGED refused => refused' \subseteq Turns
  BY DEF BootTypeInv, BootTypeOK
<1> QED
  BY <1>1, <1>2, <1>3, <1>4, <1>5, <1>6

LEMMA HandOverCounts ==
    ASSUME OneWayToWait, NEW S \in SUBSET running,
           \A w \in S : w.phase = "waiting", NEW t
    PROVE  LET c == {w \in S : w.turn = t}
           IN  /\ Cardinality(c) = IF Waiting(t) \in S /\ Waiting(t).turn = t THEN 1 ELSE 0
               /\ Cardinality(c) \in {0, 1}
<1> DEFINE c == {w \in S : w.turn = t}
<1>1. c \subseteq {Waiting(t)}
  BY DEF OneWayToWait
<1>2. CASE c = {}
  BY <1>2, FS_EmptySet
<1>3. CASE c = {Waiting(t)}
  BY <1>3, FS_Singleton
<1> QED
  BY <1>1, <1>2, <1>3

-----------------------------------------------------------------------------
(* Types, and who waits. *)

LEMMA InitTypes == BootInit => BootTypeInv
<1> SUFFICES ASSUME BootInit PROVE BootTypeInv
  OBVIOUS
<1>1. IsJournal(journal) /\ IsPool(pool) /\ DOMAIN toSettle = {}
  BY DEF BootInit, IsJournal, IsPool
<1>2. line \in Seq(Items) /\ IsInjective(line) /\ DOMAIN line = {}
  BY DEF BootInit, IsInjective
<1>3. crashes \in 0..MaxCrashes /\ runs \in [Turns -> Nat]
  BY BootAssumption DEF BootInit
<1>4. BootTypeOK
  BY <1>1, <1>2, <1>3, TypesSplit DEF BootInit, Stages
<1> QED
  BY <1>2, <1>4 DEF BootInit, BootTypeInv, OneWayToWait, NobodyWaitsYet, LiveOnesAreInThePool

\* A turn begins with the run q: on a session of the journal and the pool as they are left.
Begins(t, j, p, q) ==
    /\ journal' = MarkTurnStart(j, Target[t], t)
    /\ pool' = [p EXCEPT ![Target[t]].history = @ \cup {Said(t)}]
    /\ running' = running \cup {q}
    /\ runs' = [runs EXCEPT ![t] = @ + 1]
    /\ q \in Runs /\ q.turn = t /\ q.phase = "running" /\ q.at = "live"
    /\ q.call = "none" /\ ~q.again

LEMMA BeginTypes ==
    ASSUME BootTypeInv, NEW t \in Turns, NEW j, NEW p, NEW q,
           IsJournal(j), IsPool(p), Target[t] \in DOMAIN p, Begins(t, j, p, q)
    PROVE  /\ IsJournal(journal') /\ IsPool(pool') /\ running' \subseteq Runs
           /\ runs' \in [Turns -> Nat]
           /\ OneWayToWait'
           /\ DOMAIN p = DOMAIN pool' /\ (DOMAIN pool \subseteq DOMAIN p => LiveOnesAreInThePool')
           /\ (\A r \in running : r.phase # "waiting") => \A r \in running' : r.phase # "waiting"
<1>1. IsJournal(journal')
  BY MarkTurnStartIs DEF Begins
<1>2. IsPool(pool') /\ DOMAIN p = DOMAIN pool'
<2>1. {Said(t)} \in SUBSET Facts /\ pool' = [p EXCEPT ![Target[t]].history = @ \cup {Said(t)}]
  BY FactsAre DEF Begins
<2> QED
  BY <2>1, HistoryGrows
<1>3. runs' \in [Turns -> Nat]
  BY DEF Begins, BootTypeInv, BootTypeOK
<1>4. /\ running' = running \cup {q} /\ q \in Runs /\ q.phase = "running"
      /\ q.turn = t
  BY DEF Begins
<1> QED
  BY <1>1, <1>2, <1>3, <1>4 DEF BootTypeInv, BootTypeOK, OneWayToWait, LiveOnesAreInThePool

\* A new session, with a new entry.
CreateIs(s) ==
    /\ stage = "serving" /\ ~drainDue /\ s \notin DOMAIN pool
    /\ Recreate \/ On(s) = {}
    /\ pool' = Upsert(pool, s, FreshAgent) /\ journal' = Upsert(journal, s, FreshEntry)
    /\ UNCHANGED <<line, spent, stage, running, drainDue, toSettle, toResume, crashes, sent, runs,
                   cut, refused>>

LEMMA CreateDoes == ASSUME NEW s \in Sessions, CreateSession(s) PROVE CreateIs(s)
  BY DEF CreateSession, CreateIs, Created, Free, FreshAgent, boot, history

LEMMA CreateTypes == ASSUME BootTypeInv, NEW s \in Sessions, CreateIs(s) PROVE BootTypeInv'
<1>0. /\ pool' = Upsert(pool, s, FreshAgent) /\ journal' = Upsert(journal, s, FreshEntry)
      /\ UNCHANGED <<line, spent, stage, running, drainDue, toSettle, toResume, crashes, sent, runs,
                     cut, refused>>
  BY DEF CreateIs
<1>1. IsJournal(journal') /\ IsPool(pool')
  BY <1>0, UpsertJournal, UpsertPool, FreshIs, TypesSplit DEF BootTypeInv
<1>2. OneWayToWait' /\ NobodyWaitsYet' /\ LiveOnesAreInThePool'
<2>1. DOMAIN pool \subseteq DOMAIN pool'
  BY <1>0 DEF Upsert
<2> QED
  BY <1>0, <2>1 DEF BootTypeInv, OneWayToWait, NobodyWaitsYet, LiveOnesAreInThePool
<1> QED
  BY <1>0, <1>1, <1>2, Unmoved, TypesJoin

\* A new turn of a client, on its session.
SendIs(t) ==
    /\ Target[t] \in DOMAIN pool /\ ~Busy(Target[t]) /\ t \notin Items /\ t \notin sent
    /\ stage = "serving" /\ ~drainDue
    /\ Begins(t, journal, pool, Run(t, FALSE, "running", FALSE))
    /\ sent' = sent \cup {t}
    /\ UNCHANGED <<line, spent, stage, drainDue, toSettle, toResume, crashes, cut, refused>>

LEMMA SendDoes == ASSUME NEW t \in Turns, Send(t) PROVE SendIs(t)
  BY DEF Send, ClientSends, SendIs, Begin, Begins, Run, Runs, boot, Free

LEMMA SendTypes == ASSUME BootTypeInv, NEW t \in Turns, SendIs(t) PROVE BootTypeInv'
<1>1. IsJournal(journal) /\ IsPool(pool)
  BY TypesSplit DEF BootTypeInv
<1>2. /\ IsJournal(journal') /\ IsPool(pool') /\ running' \subseteq Runs
      /\ runs' \in [Turns -> Nat] /\ OneWayToWait' /\ LiveOnesAreInThePool'
  BY <1>1, BeginTypes DEF SendIs
<1>3. NobodyWaitsYet'
  BY DEF NobodyWaitsYet, SendIs
<1>4. sent' \subseteq Turns /\ sent \subseteq sent'
  BY DEF SendIs, BootTypeInv, BootTypeOK
<1> QED
  BY <1>2, <1>3, <1>4, Unmoved, TypesJoin DEF SendIs

\* The limits: a client is refused at one, or they are reset.
LimitIs ==
    /\ drainDue' = drainDue \/ (stage = "serving" /\ drainDue' = (Items # {}))
    /\ spent' \in BOOLEAN /\ sent \subseteq sent' /\ sent' \subseteq Turns
    /\ UNCHANGED <<journal, line, stage, pool, running, toSettle, toResume, crashes, runs, cut,
                   refused>>

LEMMA LimitDoes ==
    ASSUME BootTypeInv, LimitsReset \/ \E t \in Turns : SendRefused(t)
    PROVE  LimitIs
<1>1. spent \in BOOLEAN /\ sent \subseteq Turns
  BY DEF BootTypeInv, BootTypeOK
<1> QED
  BY <1>1 DEF LimitsReset, SendRefused, ClientSends, LimitIs, boot, history

LEMMA LimitTypes == ASSUME BootTypeInv, LimitIs PROVE BootTypeInv'
<1>1. NobodyWaitsYet' /\ LiveOnesAreInThePool' /\ drainDue' \in BOOLEAN
  BY DEF LimitIs, BootTypeInv, BootTypeOK, NobodyWaitsYet, LiveOnesAreInThePool
<1> QED
  BY <1>1, Unmoved, TypesJoin DEF LimitIs

\* What TurnEnds hands the session to, and what the queue keeps of the run.
NextOf(r) == {w \in OnEntry(Target[r.turn]) : w.phase = "waiting" /\ r.at = "live"}
LeftOf(r) == IF r.turn \in Items /\ ~r.again
             THEN {[r EXCEPT !.phase = "ended", !.call = "none"]} ELSE {}
BootStarted(W) == {[w EXCEPT !.phase = "running"] : w \in W}

LEMMA NextIs ==
    ASSUME BootTypeInv, NEW r \in running, NEW w \in NextOf(r)
    PROVE  /\ w \in running /\ w \in Runs /\ w = Waiting(w.turn) /\ w.phase = "waiting"
           /\ Target[w.turn] = Target[r.turn] /\ w.at = "live" /\ r.at = "live"
           /\ w.turn \in Turns /\ w.call = "none" /\ w.again /\ ~w.oneShot
           /\ LET q == [w EXCEPT !.phase = "running"]
              IN  /\ q \in Runs /\ q.turn = w.turn /\ q.at = "live" /\ q.phase = "running"
                  /\ q.call = "none" /\ q.again /\ ~q.oneShot
<1>1. /\ w \in running /\ w \in Runs /\ w.phase = "waiting" /\ Target[w.turn] = Target[r.turn]
      /\ w.at = "live" /\ r.at = "live"
  BY DEF NextOf, OnEntry, On, BootTypeInv, BootTypeOK
<1>2. w = Waiting(w.turn)
  BY <1>1 DEF BootTypeInv, OneWayToWait
<1>3. w.turn \in Turns
  BY <1>1 DEF Runs
<1>4. w.call = "none" /\ w.again /\ ~w.oneShot
  BY <1>2 DEF Waiting, Run
<1>5. LET q == [w EXCEPT !.phase = "running"]
      IN  /\ q \in Runs /\ q.turn = w.turn /\ q.at = w.at /\ q.phase = "running"
          /\ q.call = w.call /\ q.again = w.again /\ q.oneShot = w.oneShot
  BY <1>1 DEF Runs
<1> QED
  BY <1>1, <1>2, <1>3, <1>4, <1>5

\* The conversations may grow, and nothing else happens to the sessions.
Grows ==
    /\ IsPool(pool') /\ DOMAIN pool' = DOMAIN pool
    /\ \A x \in DOMAIN pool : pool[x].history \subseteq pool'[x].history

\* The end of r as W starts: those that waited, or none at a usage limit.
HandsOver(r, W) ==
    /\ running' = (running \ ({r} \cup NextOf(r))) \cup LeftOf(r) \cup BootStarted(W)
    /\ \A t \in Turns : runs'[t] = runs[t] + IF Waiting(t) \in W THEN 1 ELSE 0

\* The end of a turn, by what it does to the runs and to the entry.
TurnEndIs(r) ==
    /\ ~drainDue /\ stage \in {"constructed", "settling", "serving"}
    /\ r \in running /\ r \in Runs /\ r.phase = "running"
    /\ IsJournal(journal') /\ Elsewhere(journal, journal', Target[r.turn])
    /\ Target[r.turn] \in DOMAIN journal =>
            LET e == journal'[Target[r.turn]]
            IN  /\ e.turn = NoTurn /\ e.attempts = 0 /\ e.calls = {}
                /\ e.ckpt = journal[Target[r.turn]].ckpt
    /\ \E W \in {{}, NextOf(r)} : HandsOver(r, W)
    /\ runs' \in [Turns -> Nat]
    /\ Grows
    /\ drainDue' = (Items # {}) /\ spent' \in BOOLEAN /\ refused' \subseteq Turns
    /\ UNCHANGED <<line, stage, toSettle, toResume, crashes, sent, cut>>

LEMMA TurnEndDoes == ASSUME BootTypeInv, NEW r \in running, TurnEnds(r) PROVE TurnEndIs(r)
<1> DEFINE s == Target[r.turn]
           k == ClearInFlight(journal, s)
           W == IF spent' THEN {} ELSE NextOf(r)
           Count(t) == Cardinality({w \in W : w.turn = t})
<1>1. /\ ~drainDue /\ stage \in {"constructed", "settling", "serving"}
      /\ r \in running /\ r \in Runs /\ r.phase = "running" /\ IsJournal(journal)
      /\ spent' \in {spent, spent \/ Budgeted}
      /\ journal' = MarkTurnEnd(k, s)
      /\ running' = (running \ ({r} \cup NextOf(r))) \cup LeftOf(r) \cup BootStarted(W)
      /\ runs' = [t \in Turns |-> runs[t] + Count(t)]
      /\ pool' = Says(pool, s, {Said(w.turn) : w \in W})
      /\ refused' = refused \cup {w.turn : w \in NextOf(r) \ W}
      /\ drainDue' = (Items # {})
      /\ UNCHANGED <<line, stage, toSettle, toResume, crashes, sent, cut>>
  BY TypesSplit DEF TurnEnds, Free, NextOf, LeftOf, BootStarted, BootTypeInv, boot
<1>2. /\ IsJournal(k) /\ Elsewhere(journal, k, s)
      /\ s \in DOMAIN journal => k[s].calls = {} /\ k[s].ckpt = journal[s].ckpt
  BY <1>1, ClearInFlightIs
<1>3. W \in {{}, NextOf(r)}
  OBVIOUS
<1> HIDE DEF k, W
<1>4. /\ IsJournal(journal') /\ Elsewhere(k, journal', s)
      /\ s \in DOMAIN k => /\ journal'[s].turn = NoTurn /\ journal'[s].attempts = 0
                           /\ journal'[s].calls = k[s].calls /\ journal'[s].ckpt = k[s].ckpt
  BY <1>1, <1>2, MarkTurnEndIs
<1>5. \A w \in NextOf(r) : w \in running /\ w.phase = "waiting" /\ w.turn \in Turns
  BY NextIs
<1>6. ASSUME NEW t \in Turns
      PROVE  Count(t) = (IF Waiting(t) \in W THEN 1 ELSE 0) /\ Count(t) \in Nat
<2>1. W \in SUBSET running /\ \A w \in W : w.phase = "waiting"
  BY <1>3, <1>5
<2>2. Waiting(t).turn = t
  BY DEF Waiting, Run
<2> QED
  BY <2>1, <2>2, HandOverCounts DEF BootTypeInv
<1> HIDE DEF Count
<1>7. runs \in [Turns -> Nat] /\ spent \in BOOLEAN /\ refused \subseteq Turns
  BY DEF BootTypeInv, BootTypeOK
<1>8. /\ runs' \in [Turns -> Nat]
      /\ \A t \in Turns : runs'[t] = runs[t] + IF Waiting(t) \in W THEN 1 ELSE 0
  BY <1>1, <1>6, <1>7
<1>9. Grows
<2>1. {Said(w.turn) : w \in W} \in SUBSET Facts /\ IsPool(pool)
  BY <1>3, <1>5, FactsAre, TypesSplit DEF BootTypeInv
<2> QED
  BY <1>1, <2>1, SaysIs DEF Grows
<1>10. spent' \in BOOLEAN /\ refused' \subseteq Turns
  BY <1>1, <1>3, <1>5, <1>7, BootAssumption
<1>11. HandsOver(r, W)
  BY <1>1, <1>8 DEF HandsOver
<1> QED
  BY <1>1, <1>2, <1>3, <1>4, <1>8, <1>9, <1>10, <1>11 DEF TurnEndIs, Elsewhere

LEMMA TurnEndTypes == ASSUME BootTypeInv, NEW r \in running, TurnEndIs(r) PROVE BootTypeInv'
<1>1. \A x \in LeftOf(r) : x \in Runs /\ x.phase = "ended"
  BY DEF LeftOf, Runs, TurnEndIs
<1>2. \A x \in BootStarted(NextOf(r)) :
         x \in Runs /\ x.phase = "running" /\ Target[x.turn] \in DOMAIN pool
<2>1. ASSUME NEW w \in NextOf(r)
      PROVE  LET x == [w EXCEPT !.phase = "running"]
             IN  x \in Runs /\ x.phase = "running" /\ Target[x.turn] \in DOMAIN pool
  BY NextIs DEF BootTypeInv, LiveOnesAreInThePool
<2> QED
  BY <2>1 DEF BootStarted
<1>3. PICK W \in {{}, NextOf(r)} : HandsOver(r, W)
  BY DEF TurnEndIs
<1>4. \A x \in BootStarted(W) : x \in BootStarted(NextOf(r))
  BY <1>3 DEF BootStarted
<1>5. \A x \in running' : x \in running \/ x \in LeftOf(r) \/ x \in BootStarted(NextOf(r))
  BY <1>3, <1>4 DEF HandsOver
<1>6. running' \subseteq Runs /\ OneWayToWait' /\ NobodyWaitsYet' /\ LiveOnesAreInThePool'
  BY <1>1, <1>2, <1>5 DEF TurnEndIs, Grows, BootTypeInv, BootTypeOK, OneWayToWait, NobodyWaitsYet, LiveOnesAreInThePool
<1>7. IsJournal(journal') /\ IsPool(pool') /\ runs' \in [Turns -> Nat] /\ drainDue' \in BOOLEAN
  BY DEF TurnEndIs, Grows
<1> QED
  BY <1>6, <1>7, Unmoved, TypesJoin DEF TurnEndIs

\* A session ends: what stays of its runs is aborted.
DestroyIs(s) ==
    /\ stage = "serving" /\ ~drainDue
    /\ pool' = Without(pool, s) /\ journal' = Without(journal, s)
    /\ \A x \in running' :
          \E r \in running :
             /\ x \in Runs /\ x.turn = r.turn /\ x.phase = r.phase /\ x.call = r.call
             /\ x.again = r.again /\ x.oneShot = r.oneShot
             /\ Target[r.turn] = s /\ r.at = "live" => x.at = "destroyed" /\ r.phase # "waiting"
             /\ ~(Target[r.turn] = s /\ r.at = "live") => x = r
    /\ drainDue' = (Items # {})
    /\ UNCHANGED <<line, spent, stage, toSettle, toResume, crashes, sent, runs, cut, refused>>

LEMMA DestroyDoes == ASSUME BootTypeInv, NEW s \in Sessions, Destroy(s) PROVE DestroyIs(s)
<1>1. running' = {r \in Cast(s, "destroyed") : ~(r.at = "destroyed" /\ r.phase = "waiting")}
  BY DEF Destroy
<1>2. ASSUME NEW x \in running'
      PROVE  \E r \in running :
               /\ x \in Runs /\ x.turn = r.turn /\ x.phase = r.phase /\ x.call = r.call
               /\ x.again = r.again /\ x.oneShot = r.oneShot
               /\ Target[r.turn] = s /\ r.at = "live" => x.at = "destroyed" /\ r.phase # "waiting"
               /\ ~(Target[r.turn] = s /\ r.at = "live") => x = r
<2>1. PICK r \in running :
         x = IF Target[r.turn] = s /\ r.at = "live" THEN [r EXCEPT !.at = "destroyed"] ELSE r
  BY <1>1 DEF Cast
<2>2. r \in Runs /\ ~(x.at = "destroyed" /\ x.phase = "waiting")
  BY <1>1 DEF BootTypeInv, BootTypeOK
<2>3. LET q == [r EXCEPT !.at = "destroyed"]
      IN  /\ q \in Runs /\ q.at = "destroyed" /\ q.turn = r.turn /\ q.phase = r.phase
          /\ q.call = r.call /\ q.again = r.again /\ q.oneShot = r.oneShot
  BY <2>2 DEF Runs
<2> QED
  BY <2>1, <2>2, <2>3
<1> QED
  BY <1>2 DEF Destroy, DestroyIs, Destroyed, Free, boot, history

LEMMA DestroyTypes == ASSUME BootTypeInv, NEW s \in Sessions, DestroyIs(s) PROVE BootTypeInv'
<1>1. IsJournal(journal') /\ IsPool(pool')
  BY WithoutJournal, WithoutPool, TypesSplit DEF BootTypeInv, DestroyIs
<1>2. DOMAIN pool' = DOMAIN pool \ {s}
  BY WithoutIs DEF DestroyIs
<1>3. running' \subseteq Runs /\ OneWayToWait' /\ NobodyWaitsYet' /\ LiveOnesAreInThePool'
  BY <1>2 DEF DestroyIs, BootTypeInv, BootTypeOK, OneWayToWait, NobodyWaitsYet, LiveOnesAreInThePool
<1>4. drainDue' \in BOOLEAN
  BY DEF DestroyIs
<1> QED
  BY <1>1, <1>3, <1>4, Unmoved, TypesJoin DEF DestroyIs

(* The queue. *)

LEMMA LineIs ==
    ASSUME NEW q \in Seq(Items), IsInjective(q)
    PROVE  /\ \A t \in Items : (\A i \in DOMAIN q : q[i] # t) =>
                /\ Append(q, t) \in Seq(Items) /\ IsInjective(Append(q, t))
                /\ \A i \in DOMAIN Append(q, t) :
                      Append(q, t)[i] = t \/ \E k \in DOMAIN q : Append(q, t)[i] = q[k]
           /\ q # << >> =>
                /\ Head(q) \in Items /\ (\E k \in DOMAIN q : Head(q) = q[k])
                /\ Tail(q) \in Seq(Items) /\ IsInjective(Tail(q))
                /\ \A i \in DOMAIN Tail(q) :
                      Tail(q)[i] # Head(q) /\ \E k \in DOMAIN q : Tail(q)[i] = q[k]
<1>1. ASSUME NEW t \in Items, \A i \in DOMAIN q : q[i] # t
      PROVE  /\ Append(q, t) \in Seq(Items) /\ IsInjective(Append(q, t))
             /\ \A i \in DOMAIN Append(q, t) :
                   Append(q, t)[i] = t \/ \E k \in DOMAIN q : Append(q, t)[i] = q[k]
  BY <1>1 DEF IsInjective
<1>2. ASSUME q # << >>
      PROVE  /\ Head(q) \in Items /\ (\E k \in DOMAIN q : Head(q) = q[k])
             /\ Tail(q) \in Seq(Items) /\ IsInjective(Tail(q))
             /\ \A i \in DOMAIN Tail(q) :
                   Tail(q)[i] # Head(q) /\ \E k \in DOMAIN q : Tail(q)[i] = q[k]
<2>1. Len(q) \in Nat \ {0} /\ Head(q) = q[1] /\ 1 \in DOMAIN q /\ q[1] \in Items
  BY <1>2, EmptySeq
<2>2. /\ Tail(q) \in Seq(Items) /\ DOMAIN Tail(q) = 1..(Len(q) - 1)
      /\ \A i \in 1..(Len(q) - 1) : i + 1 \in DOMAIN q /\ i + 1 # 1 /\ Tail(q)[i] = q[i + 1]
  BY <1>2, HeadTailProperties
<2> QED
  BY <2>1, <2>2 DEF IsInjective
<1> QED
  BY <1>1, <1>2

LEMMA SubmitTypes == ASSUME BootTypeInv, NEW t \in Turns, Submit(t) PROVE BootTypeInv'
<1>1. /\ line \in Seq(Items) /\ IsInjective(line) /\ \A i \in DOMAIN line : line[i] \in sent
      /\ sent \subseteq Turns
  BY DEF BootTypeInv, BootTypeOK
<1>2. /\ t \in Items /\ t \notin sent /\ line' = Append(line, t) /\ sent' = sent \cup {t}
      /\ drainDue' = TRUE
      /\ UNCHANGED <<journal, spent, stage, pool, running, toSettle, toResume, crashes, runs, cut,
                     refused>>
  BY DEF Submit, boot
<1>3. line' \in Seq(Items) /\ IsInjective(line') /\ \A i \in DOMAIN line' : line'[i] \in sent'
  BY <1>1, <1>2, LineIs
<1>4. NobodyWaitsYet' /\ LiveOnesAreInThePool' /\ sent' \subseteq Turns
  BY <1>1, <1>2 DEF BootTypeInv, NobodyWaitsYet, LiveOnesAreInThePool
<1> QED
  BY <1>2, <1>3, <1>4, Unmoved, TypesJoin

\* The drain starts the head of the line, on its session or on a new one.
DrainIs(j, p, q) ==
    LET t == Head(line)
        s == Target[t]
    IN  /\ drainDue /\ stage # "continuing" /\ line # << >> /\ ~Busy(s)
        /\ t \in Items /\ t \in Turns /\ t \in sent
        /\ IsJournal(j) /\ IsPool(p) /\ s \in DOMAIN p
        /\ \/ s \in DOMAIN pool /\ j = journal /\ p = pool
           \/ /\ s \notin DOMAIN pool
              /\ j = Upsert(journal, s, FreshEntry) /\ p = Upsert(pool, s, FreshAgent)
        /\ Begins(t, j, p, q)
        /\ line' = Tail(line)
        /\ UNCHANGED <<spent, stage, drainDue, toSettle, toResume, crashes, sent, cut, refused>>

LEMMA DrainDoes ==
    ASSUME BootTypeInv, DrainStarts
    PROVE  \E j, p, q : DrainIs(j, p, q)
<1> DEFINE t == Head(line)
           s == Target[t]
<1>1. line # << >> /\ drainDue /\ stage # "continuing" /\ ~Busy(s)
  BY DEF DrainStarts, DrainRuns, HeadMayStart
<1>2. t \in Items /\ t \in sent /\ t \in Turns /\ s \in Sessions
  BY <1>1, LineIs, BootAssumption DEF BootTypeInv, BootTypeOK
<1>3. IsJournal(journal) /\ IsPool(pool)
  BY TypesSplit DEF BootTypeInv
<1> HIDE DEF t
<1>4. CASE s \in DOMAIN pool
<2>1. Begins(t, journal, pool, Run(t, FALSE, "running", FALSE))
  BY <1>2, <1>4 DEF DrainStarts, Begin, Begins, Run, Runs, t
<2> QED
  BY <1>1, <1>2, <1>3, <1>4, <2>1 DEF DrainIs, DrainStarts, boot, t
<1>5. CASE s \notin DOMAIN pool
<2> DEFINE j == Upsert(journal, s, FreshEntry)
           p == Upsert(pool, s, FreshAgent)
<2>1. Begins(t, j, p, Run(t, FALSE, "running", TRUE))
  BY <1>2, <1>5 DEF DrainStarts, Begin, Begins, Run, Runs, FreshAgent, t
<2>2. IsJournal(j) /\ IsPool(p)
  BY <1>2, <1>3, UpsertJournal, UpsertPool, FreshIs
<2>3. s \in DOMAIN p
  BY DEF Upsert
<2> QED
  BY <1>1, <1>2, <1>5, <2>1, <2>2, <2>3 DEF DrainIs, DrainStarts, boot, t
<1> QED
  BY <1>4, <1>5

LEMMA DrainTypes ==
    ASSUME BootTypeInv, NEW j, NEW p, NEW q, DrainIs(j, p, q)
    PROVE  BootTypeInv'
<1>1. DOMAIN pool \subseteq DOMAIN p
  BY DEF DrainIs, Upsert
<1>2. /\ IsJournal(journal') /\ IsPool(pool') /\ running' \subseteq Runs
      /\ runs' \in [Turns -> Nat] /\ OneWayToWait' /\ LiveOnesAreInThePool'
      /\ (\A r \in running : r.phase # "waiting") => \A r \in running' : r.phase # "waiting"
<2>1. /\ Head(line) \in Turns /\ IsJournal(j) /\ IsPool(p) /\ Target[Head(line)] \in DOMAIN p
      /\ Begins(Head(line), j, p, q)
  BY DEF DrainIs
<2> QED
  BY <1>1, <2>1, BeginTypes
<1>3. NobodyWaitsYet'
  BY <1>2 DEF DrainIs, BootTypeInv, NobodyWaitsYet
<1>4. line' \in Seq(Items) /\ IsInjective(line') /\ \A i \in DOMAIN line' : line'[i] \in sent'
  BY LineIs DEF DrainIs, BootTypeInv, BootTypeOK
<1> QED
  BY <1>2, <1>3, <1>4, Unmoved, TypesJoin DEF DrainIs

\* The head of the line fails at the usage limit, on its session or on a new one.
DrainRefusedIs(q) ==
    LET t == Head(line)
        s == Target[t]
    IN  /\ drainDue /\ stage # "continuing" /\ line # << >>
        /\ t \in Items /\ t \in sent /\ s \in Sessions
        /\ \/ UNCHANGED <<journal, pool>>
           \/ /\ s \notin DOMAIN pool
              /\ journal' = Upsert(journal, s, FreshEntry) /\ pool' = Upsert(pool, s, FreshAgent)
        /\ running' = running \cup {q} /\ q \in Runs /\ q.turn = t /\ q.phase = "ended"
        /\ line' = Tail(line)
        /\ UNCHANGED <<spent, stage, drainDue, toSettle, toResume, crashes, sent, runs, cut, refused>>

LEMMA DrainRefusedDoes ==
    ASSUME BootTypeInv, DrainRefused
    PROVE  \E q : DrainRefusedIs(q)
<1> DEFINE t == Head(line)
           s == Target[t]
           q == Run(t, FALSE, "ended", s \notin DOMAIN pool)
<1>1. line # << >> /\ drainDue /\ stage # "continuing"
  BY DEF DrainRefused, DrainRuns, HeadMayStart
<1>2. t \in Items /\ t \in sent /\ t \in Turns /\ s \in Sessions
  BY <1>1, LineIs, BootAssumption DEF BootTypeInv, BootTypeOK
<1> HIDE DEF t
<1>3. q \in Runs /\ q.turn = t /\ q.phase = "ended"
  BY <1>2 DEF Run, Runs
<1>4. running' = running \cup {q} /\ line' = Tail(line)
  BY DEF DrainRefused, t
<1> HIDE DEF q
<1>5. DrainRefusedIs(q)
  BY <1>1, <1>2, <1>3, <1>4 DEF DrainRefused, DrainRefusedIs, Created, FreshAgent, boot, history, t
<1> QED
  BY <1>5

LEMMA DrainRefusedTypes ==
    ASSUME BootTypeInv, NEW q, DrainRefusedIs(q)
    PROVE  BootTypeInv'
<1>1. IsJournal(journal') /\ IsPool(pool')
  BY UpsertJournal, UpsertPool, FreshIs, TypesSplit DEF BootTypeInv, DrainRefusedIs
<1>2. DOMAIN pool \subseteq DOMAIN pool'
  BY DEF DrainRefusedIs, Upsert
<1>3. running' \subseteq Runs /\ OneWayToWait' /\ NobodyWaitsYet' /\ LiveOnesAreInThePool'
  BY <1>2 DEF DrainRefusedIs, BootTypeInv, BootTypeOK, OneWayToWait, NobodyWaitsYet, LiveOnesAreInThePool
<1>4. line' \in Seq(Items) /\ IsInjective(line') /\ \A i \in DOMAIN line' : line'[i] \in sent'
  BY LineIs DEF DrainRefusedIs, BootTypeInv, BootTypeOK
<1> QED
  BY <1>1, <1>3, <1>4, Unmoved, TypesJoin DEF DrainRefusedIs

LEMMA DrainStopsTypes == ASSUME BootTypeInv, DrainStops PROVE BootTypeInv'
<1>1. /\ drainDue' \in BOOLEAN
      /\ UNCHANGED <<journal, line, spent, stage, pool, running, toSettle, toResume, crashes, sent,
                     runs, cut, refused>>
  BY DEF DrainStops, disk, boot, history
<1>2. NobodyWaitsYet' /\ LiveOnesAreInThePool'
  BY <1>1 DEF BootTypeInv, NobodyWaitsYet, LiveOnesAreInThePool
<1> QED
  BY <1>1, <1>2, Unmoved, TypesJoin

\* The end of an item: its own session goes with it if nothing else is on it.
ItemEndIs(r) ==
    LET s == Target[r.turn]
    IN  /\ stage \in {"constructed", "settling", "serving"} /\ ~drainDue
        /\ r \in running /\ r.phase = "ended"
        /\ \/ /\ s \in DOMAIN pool /\ ~Busy(s)
              /\ pool' = Without(pool, s) /\ journal' = Without(journal, s)
           \/ UNCHANGED <<journal, pool>>
        /\ running' = running \ {r} /\ drainDue'
        /\ UNCHANGED <<line, spent, stage, toSettle, toResume, crashes, sent, runs, cut, refused>>

LEMMA ItemEndDoes == ASSUME NEW r \in running, ItemEnds(r) PROVE ItemEndIs(r)
  BY DEF ItemEnds, ItemEndIs, Destroyed, Free, boot, history

LEMMA ItemEndTypes == ASSUME BootTypeInv, NEW r \in running, ItemEndIs(r) PROVE BootTypeInv'
<1> DEFINE s == Target[r.turn]
<1>1. IsJournal(journal') /\ IsPool(pool')
  BY WithoutJournal, WithoutPool, TypesSplit DEF BootTypeInv, ItemEndIs
<1>2. \A x \in running : x.at = "live" /\ x.phase # "ended" => Target[x.turn] \in DOMAIN pool'
  BY DEF BootTypeInv, LiveOnesAreInThePool, ItemEndIs, Without, Busy, OnEntry, On
<1>3. running' \subseteq Runs /\ OneWayToWait' /\ NobodyWaitsYet' /\ LiveOnesAreInThePool'
  BY <1>2 DEF ItemEndIs, BootTypeInv, BootTypeOK, OneWayToWait, NobodyWaitsYet, LiveOnesAreInThePool
<1>4. drainDue' \in BOOLEAN
  BY DEF ItemEndIs
<1> QED
  BY <1>1, <1>3, <1>4, Unmoved, TypesJoin DEF ItemEndIs

(* The crash and the boot. *)

\* What an entry says is pending is for its session, and what the boot has yet
\* to reach is pending.
PendingInv ==
    /\ \A s \in DOMAIN journal :
          journal[s].turn # NoTurn => Target[journal[s].turn] = s
    /\ stage = "continuing" =>
          \A s \in toResume : s \in DOMAIN journal /\ journal[s].turn # NoTurn

CrashIs ==
    /\ stage # "down" /\ (stage = "serving" \/ BootCrashes)
    /\ crashes' \in 0..MaxCrashes
    /\ cut' = cut \cup {r.turn : r \in {x \in running : x.call = "write"}}
    /\ stage' = "down" /\ DOMAIN pool' = {} /\ running' = {} /\ drainDue' = FALSE
    /\ DOMAIN toSettle' = {} /\ toResume' = {} /\ refused' = {}
    /\ UNCHANGED <<journal, line, spent, sent, runs>>

LEMMA CrashDoes == ASSUME BootTypeInv, Crash PROVE CrashIs
  BY BootAssumption DEF Crash, CrashIs, disk, BootTypeInv, BootTypeOK

LEMMA CrashTypes == ASSUME BootTypeInv, CrashIs PROVE BootTypeInv'
<1>1. IsPool(pool') /\ running' \subseteq Runs /\ DOMAIN toSettle' \subseteq Sessions
      /\ (\A s \in DOMAIN toSettle' : toSettle'[s] \subseteq ToolCalls)
      /\ stage' \in Stages /\ toResume' \subseteq Sessions /\ drainDue' \in BOOLEAN
      /\ refused' \subseteq Turns /\ OneWayToWait' /\ NobodyWaitsYet' /\ LiveOnesAreInThePool'
  BY DEF CrashIs, IsPool, Stages, OneWayToWait, NobodyWaitsYet, LiveOnesAreInThePool
<1>2. cut' \subseteq Turns
  BY DEF CrashIs, BootTypeInv, BootTypeOK, Runs
<1> QED
  BY <1>1, <1>2, Unmoved, TypesJoin DEF CrashIs

\* The steps that only take the boot further.
StageIs ==
    /\ \/ stage = "down" /\ stage' = "constructed" /\ drainDue' = (Items # {}) /\ UNCHANGED toResume
       \/ /\ stage = "settling" /\ DOMAIN toSettle = {} /\ ~drainDue
          /\ stage' = "continuing" /\ toResume' = Interrupted(journal) /\ UNCHANGED drainDue
       \/ /\ stage = "continuing" /\ toResume = {}
          /\ stage' = "serving" /\ UNCHANGED <<toResume, drainDue>>
    /\ UNCHANGED <<journal, line, spent, pool, running, toSettle, crashes, sent, runs, cut, refused>>

LEMMA StageDoes == ASSUME Boot \/ Settled \/ Serve PROVE StageIs
  BY DEF Boot, Settled, Serve, StageIs, Free, disk, boot, history

LEMMA StageTypes == ASSUME BootTypeInv, StageIs PROVE BootTypeInv'
<1>1. stage' \in Stages /\ drainDue' \in BOOLEAN /\ toResume' \subseteq Sessions
  BY DEF StageIs, Stages, Interrupted, BootTypeInv, BootTypeOK
<1>2. NobodyWaitsYet' /\ LiveOnesAreInThePool'
  BY DEF StageIs, BootTypeInv, NobodyWaitsYet, LiveOnesAreInThePool
<1> QED
  BY <1>1, <1>2, Unmoved, TypesJoin DEF StageIs

\* Every journaled session is created anew, but those whose recreation fails.
ResumeIs(lost, broken) ==
    /\ stage = "constructed" /\ ~drainDue /\ stage' = "settling"
    /\ Failures \/ (lost = {} /\ broken = {})
    /\ lost \subseteq DOMAIN journal /\ broken \subseteq DOMAIN journal
    /\ IsPool(pool')
    /\ DOMAIN pool' = DOMAIN pool \cup (DOMAIN journal \ lost)
    /\ \A s \in DOMAIN journal \ lost :
          pool'[s].history = IF s \in broken THEN {} ELSE journal[s].ckpt
    /\ \A s \in DOMAIN pool : s \notin DOMAIN journal \ lost => pool'[s] = pool[s]
    /\ \A x \in running' :
          \E r \in running :
             /\ x \in Runs /\ x.turn = r.turn /\ x.phase = r.phase /\ x.call = r.call
             /\ x.again = r.again /\ x.oneShot = r.oneShot
             /\ IF Target[r.turn] \in DOMAIN journal \ lost THEN x.at = "replaced" ELSE x = r
    /\ DOMAIN toSettle' = {s \in DOMAIN journal : journal[s].calls # {}}
    /\ \A s \in DOMAIN toSettle' : toSettle'[s] = journal[s].calls
    /\ UNCHANGED <<journal, line, spent, toResume, drainDue, crashes, sent, runs, cut, refused>>

LEMMA ResumeDoes == ASSUME BootTypeInv, Resume PROVE \E lost, broken : ResumeIs(lost, broken)
<1>1. PICK lost \in SUBSET DOMAIN journal, broken \in SUBSET DOMAIN journal :
        /\ Failures \/ (lost = {} /\ broken = {})
        /\ pool' = Resumed(lost, broken)
        /\ running' = {IF Target[r.turn] \in DOMAIN journal \ lost
                       THEN [r EXCEPT !.at = "replaced"] ELSE r : r \in running}
  BY DEF Resume
<1>2. /\ DOMAIN pool' = DOMAIN pool \cup (DOMAIN journal \ lost)
      /\ \A s \in DOMAIN journal \ lost :
            /\ s \in broken => pool'[s] = [history |-> {}, named |-> FALSE]
            /\ s \notin broken => pool'[s] = [history |-> journal[s].ckpt, named |-> TRUE]
      /\ \A s \in DOMAIN pool : s \notin DOMAIN journal \ lost => pool'[s] = pool[s]
<2>1. /\ DOMAIN pool' = DOMAIN pool \cup (DOMAIN journal \ lost)
      /\ \A s \in DOMAIN journal \ lost :
            pool'[s] = [history |-> IF s \in broken THEN {} ELSE journal[s].ckpt,
                        named |-> s \notin broken]
      /\ \A s \in DOMAIN pool : s \notin DOMAIN journal \ lost => pool'[s] = pool[s]
  BY <1>1 DEF Resumed
<2>2. ASSUME NEW s \in DOMAIN journal \ lost
      PROVE  /\ s \in broken => pool'[s] = [history |-> {}, named |-> FALSE]
             /\ s \notin broken => pool'[s] = [history |-> journal[s].ckpt, named |-> TRUE]
<3>1. CASE s \in broken
<4>1. (s \notin broken) = FALSE
  BY <3>1
<4> QED
  BY <2>1, <3>1, <4>1, Zenon
<3>2. CASE s \notin broken
<4>1. (s \notin broken) = TRUE
  BY <3>2
<4> QED
  BY <2>1, <3>2, <4>1, Zenon
<3> QED
  BY <3>1, <3>2
<2> QED
  BY <2>1, <2>2
<1>3. IsPool(pool')
<2>1. ASSUME NEW s \in DOMAIN pool'
      PROVE  s \in Sessions /\ pool'[s] \in Agents
<3>1. s \in DOMAIN journal => s \in Sessions /\ journal[s].ckpt \in SUBSET Facts
  BY DEF BootTypeInv, BootTypeOK, Entries
<3>2. s \in DOMAIN pool => s \in Sessions /\ pool[s] \in Agents
  BY DEF BootTypeInv, BootTypeOK
<3>3. ASSUME s \in DOMAIN journal \ lost, s \in broken PROVE pool'[s] \in Agents
<4>1. pool'[s] = [history |-> {}, named |-> FALSE]
  BY <1>2, <3>3
<4> QED
  BY <4>1 DEF Agents
<3>4. ASSUME s \in DOMAIN journal \ lost, s \notin broken PROVE pool'[s] \in Agents
<4>1. pool'[s] = [history |-> journal[s].ckpt, named |-> TRUE]
  BY <1>2, <3>4
<4> QED
  BY <3>1, <3>4, <4>1 DEF Agents
<3> QED
  BY <1>2, <3>1, <3>2, <3>3, <3>4
<2> QED
  BY <2>1 DEF IsPool
<1>4. ASSUME NEW x \in running'
      PROVE  \E r \in running :
               /\ x \in Runs /\ x.turn = r.turn /\ x.phase = r.phase /\ x.call = r.call
               /\ x.again = r.again /\ x.oneShot = r.oneShot
               /\ IF Target[r.turn] \in DOMAIN journal \ lost THEN x.at = "replaced" ELSE x = r
<2>1. PICK r \in running :
         x = IF Target[r.turn] \in DOMAIN journal \ lost THEN [r EXCEPT !.at = "replaced"] ELSE r
  BY <1>1
<2>2. r \in Runs
  BY DEF BootTypeInv, BootTypeOK
<2>3. LET q == [r EXCEPT !.at = "replaced"]
      IN  /\ q \in Runs /\ q.at = "replaced" /\ q.turn = r.turn /\ q.phase = r.phase
          /\ q.call = r.call /\ q.again = r.again /\ q.oneShot = r.oneShot
  BY <2>2 DEF Runs
<2> QED
  BY <2>1, <2>2, <2>3
<1>5. \A s \in DOMAIN journal \ lost :
         pool'[s].history = IF s \in broken THEN {} ELSE journal[s].ckpt
<2>1. ASSUME NEW s \in DOMAIN journal \ lost, s \in broken PROVE pool'[s].history = {}
<3>1. pool'[s] = [history |-> {}, named |-> FALSE]
  BY <1>2, <2>1
<3> QED
  BY <3>1
<2>2. ASSUME NEW s \in DOMAIN journal \ lost, s \notin broken
      PROVE  pool'[s].history = journal[s].ckpt
<3>1. pool'[s] = [history |-> journal[s].ckpt, named |-> TRUE]
  BY <1>2, <2>2
<3> QED
  BY <3>1
<2> QED
  BY <2>1, <2>2
<1>6. /\ DOMAIN toSettle' = {s \in DOMAIN journal : journal[s].calls # {}}
      /\ \A s \in DOMAIN toSettle' : toSettle'[s] = journal[s].calls
  BY DEF Resume
<1>7. ResumeIs(lost, broken)
  BY <1>1, <1>2, <1>3, <1>4, <1>5, <1>6 DEF Resume, ResumeIs, disk, history
<1> QED
  BY <1>7

LEMMA ResumeTypes ==
    ASSUME BootTypeInv, NEW lost, NEW broken, ResumeIs(lost, broken)
    PROVE  BootTypeInv'
<1>1. running' \subseteq Runs /\ OneWayToWait' /\ NobodyWaitsYet' /\ LiveOnesAreInThePool'
  BY DEF ResumeIs, BootTypeInv, OneWayToWait, NobodyWaitsYet, LiveOnesAreInThePool
<1>2. /\ DOMAIN toSettle' \subseteq Sessions
      /\ \A s \in DOMAIN toSettle' : toSettle'[s] \subseteq ToolCalls
  BY DEF ResumeIs, BootTypeInv, BootTypeOK, Entries
<1>3. stage' \in Stages /\ IsPool(pool')
  BY DEF ResumeIs, Stages
<1> QED
  BY <1>1, <1>2, <1>3, Unmoved, TypesJoin DEF ResumeIs

\* What the boot's notes say of the calls a crash cut.
Notes(C) == {Note(c.turn) : c \in {x \in C : x.kind = "write"}}

SettleIs(s) ==
    /\ stage = "settling" /\ ~drainDue /\ s \in DOMAIN toSettle
    /\ toSettle' = Without(toSettle, s)
    /\ \/ /\ s \in DOMAIN pool /\ IsPool(pool') /\ DOMAIN pool' = DOMAIN pool
          /\ pool'[s].history = pool[s].history \cup Notes(toSettle[s])
          /\ \A x \in DOMAIN pool \ {s} : pool'[x] = pool[x]
          /\ IsJournal(journal') /\ Elsewhere(journal, journal', s)
          /\ s \in DOMAIN journal => /\ journal'[s].turn = journal[s].turn
                                     /\ journal'[s].attempts = journal[s].attempts
                                     /\ journal'[s].calls = {}
                                     /\ journal'[s].ckpt = journal[s].ckpt
       \/ s \notin DOMAIN pool /\ UNCHANGED <<pool, journal>>
    /\ UNCHANGED <<line, spent, stage, running, toResume, drainDue, crashes, sent, runs, cut, refused>>

LEMMA SettleDoes == ASSUME BootTypeInv, NEW s \in Sessions, Settle(s) PROVE SettleIs(s)
<1>1. /\ stage = "settling" /\ ~drainDue /\ s \in DOMAIN toSettle
      /\ toSettle' = Without(toSettle, s)
      /\ UNCHANGED <<line, spent, stage, running, toResume, drainDue, crashes, sent, runs, cut, refused>>
  BY DEF Settle, Free, history
<1>2. IsJournal(journal) /\ IsPool(pool)
  BY TypesSplit DEF BootTypeInv
<1>3. CASE s \in DOMAIN pool
<2>1. Notes(toSettle[s]) \in SUBSET Facts
  BY <1>1, FactsAre DEF Notes, BootTypeInv, BootTypeOK, ToolCalls
<2>2. /\ pool' = [pool EXCEPT ![s].history = @ \cup Notes(toSettle[s])]
      /\ journal' = ClearInFlight(journal, s)
  BY <1>3 DEF Settle, Notes
<2> QED
<3>1. /\ IsPool(pool') /\ DOMAIN pool' = DOMAIN pool
      /\ pool'[s].history = pool[s].history \cup Notes(toSettle[s])
      /\ \A x \in DOMAIN pool \ {s} : pool'[x] = pool[x]
  BY <1>2, <1>3, <2>1, <2>2, HistoryGrows
<3>2. /\ IsJournal(journal') /\ Elsewhere(journal, journal', s)
      /\ s \in DOMAIN journal => /\ journal'[s].turn = journal[s].turn
                                 /\ journal'[s].attempts = journal[s].attempts
                                 /\ journal'[s].calls = {}
                                 /\ journal'[s].ckpt = journal[s].ckpt
  BY <1>2, <2>2, ClearInFlightIs
<3> QED
  BY <1>1, <1>3, <3>1, <3>2 DEF SettleIs
<1>4. CASE s \notin DOMAIN pool
  BY <1>1, <1>4 DEF Settle, SettleIs
<1> QED
  BY <1>3, <1>4

LEMMA SettleTypes == ASSUME BootTypeInv, NEW s \in Sessions, SettleIs(s) PROVE BootTypeInv'
<1>1. IsJournal(journal') /\ IsPool(pool') /\ DOMAIN pool' = DOMAIN pool
  BY TypesSplit DEF SettleIs, BootTypeInv
<1>2. NobodyWaitsYet' /\ LiveOnesAreInThePool'
  BY <1>1 DEF SettleIs, BootTypeInv, NobodyWaitsYet, LiveOnesAreInThePool
<1>3. /\ DOMAIN toSettle' \subseteq Sessions
      /\ \A x \in DOMAIN toSettle' : toSettle'[x] \subseteq ToolCalls
  BY DEF SettleIs, Without, BootTypeInv, BootTypeOK
<1> QED
  BY <1>1, <1>2, <1>3, Unmoved, TypesJoin DEF SettleIs

\* One entry of continueInterruptedTurns: it has no session, it is given up, or
\* its attempt is journaled and it is continued with the run q or refused.
SkipIs(s) == s \notin DOMAIN pool /\ UNCHANGED <<journal, pool, running, runs>>

AttemptIs(s) ==
    /\ s \in DOMAIN pool /\ journal[s].attempts < MaxAttempts
    /\ IsJournal(journal') /\ Elsewhere(journal, journal', s)
    /\ journal'[s].turn = journal[s].turn /\ journal'[s].attempts = journal[s].attempts + 1
    /\ journal'[s].calls = journal[s].calls /\ journal'[s].ckpt = journal[s].ckpt

ContinuedIs(s, q) ==
    LET t == journal[s].turn
    IN  /\ AttemptIs(s)
        /\ running' = running \cup {q}
        /\ q \in Runs /\ q.turn = t /\ q.at = "live" /\ q.call = "none" /\ q.again
        /\ IF Busy(s) THEN q = Waiting(t) /\ q.phase = "waiting" ELSE q.phase = "running"
        /\ IF Busy(s) THEN UNCHANGED runs ELSE runs' = [runs EXCEPT ![t] = @ + 1]
        /\ Grows

RefusedIs(s) == AttemptIs(s) /\ UNCHANGED <<pool, running, runs>>

GivenUpIs(s) ==
    /\ s \in DOMAIN pool
    /\ IsJournal(journal') /\ Elsewhere(journal, journal', s)
    /\ journal'[s].turn = NoTurn /\ journal'[s].attempts = 0
    /\ journal'[s].calls = journal[s].calls /\ journal'[s].ckpt = journal[s].ckpt
    /\ UNCHANGED <<pool, running, runs>>

ContinueIs(s) ==
    /\ stage = "continuing" /\ s \in toResume /\ s \in DOMAIN journal
    /\ journal[s].turn \in Turns /\ Target[journal[s].turn] = s
    /\ toResume' = toResume \ {s}
    /\ SkipIs(s) \/ (\E q : ContinuedIs(s, q)) \/ RefusedIs(s) \/ GivenUpIs(s)
    /\ drainDue' \in {drainDue, Items # {}} /\ refused' \subseteq Turns
    /\ UNCHANGED <<line, spent, stage, toSettle, crashes, sent, cut>>

LEMMA ContinueDoes ==
    ASSUME BootTypeInv, PendingInv, NEW s \in Sessions, ContinueOne(s)
    PROVE  ContinueIs(s)
<1> DEFINE t == journal[s].turn
<1>1. /\ stage = "continuing" /\ s \in toResume /\ s \in DOMAIN journal
      /\ toResume' = toResume \ {s} /\ t # NoTurn /\ Target[t] = s
      /\ UNCHANGED <<line, spent, stage, toSettle, crashes, sent, cut>>
  BY DEF ContinueOne, PendingInv
<1>2. journal[s] \in Entries /\ t \in Turns /\ IsJournal(journal) /\ IsPool(pool)
      /\ refused \subseteq Turns
<2>1. IsJournal(journal) /\ IsPool(pool) /\ refused \subseteq Turns
  BY TypesSplit DEF BootTypeInv
<2>2. journal[s] \in Entries
  BY <1>1, <2>1 DEF IsJournal
<2> QED
  BY <1>1, <2>1, <2>2 DEF Entries
<1>3. ASSUME s \notin DOMAIN pool
      PROVE  SkipIs(s) /\ UNCHANGED <<drainDue, refused>>
  BY <1>3 DEF ContinueOne, SkipIs
<1>4. ASSUME s \in DOMAIN pool, Continues(s)
      PROVE  /\ (\E q : ContinuedIs(s, q)) \/ RefusedIs(s)
             /\ drainDue' \in {drainDue, Items # {}} /\ refused' \subseteq Turns
<2> DEFINE e == [journal[s] EXCEPT !.attempts = @ + 1]
<2>1. /\ journal[s].attempts < MaxAttempts /\ Resent(s, t)
      /\ journal' = [x \in DOMAIN journal |-> IF x = s THEN e ELSE journal[x]]
  BY <1>4 DEF Continues
<2>2. /\ e \in Entries /\ e.turn = t /\ e.attempts = journal[s].attempts + 1
      /\ e.calls = journal[s].calls /\ e.ckpt = journal[s].ckpt
  BY <1>2 DEF Entries
<2> HIDE DEF e
<2>3. /\ IsJournal(journal') /\ Elsewhere(journal, journal', s)
      /\ journal'[s] = e
  BY <1>1, <1>2, <2>1, <2>2 DEF IsJournal, Elsewhere
<2>4. AttemptIs(s)
  BY <1>4, <2>1, <2>2, <2>3 DEF AttemptIs
<2> HIDE DEF t
<2>5. CASE /\ Busy(s)
           /\ running' = running \cup {Run(t, TRUE, "waiting", FALSE)}
           /\ UNCHANGED <<pool, runs, refused, drainDue>>
<3> DEFINE q == Run(t, TRUE, "waiting", FALSE)
<3>1. /\ q \in Runs /\ q.turn = t /\ q.at = "live" /\ q.call = "none" /\ q.again
      /\ q = Waiting(t) /\ q.phase = "waiting"
  BY <1>2 DEF Run, Runs, Waiting
<3> HIDE DEF q
<3>2. running' = running \cup {q}
  BY <2>5 DEF q
<3>3. Grows
  BY <1>2, <2>5 DEF Grows, IsPool
<3>4. ContinuedIs(s, q)
  BY <2>4, <2>5, <3>1, <3>2, <3>3 DEF ContinuedIs, t
<3> QED
  BY <1>2, <2>5, <3>4
<2>6. CASE /\ ~Busy(s)
           /\ running' = running \cup {Run(t, TRUE, "running", FALSE)}
           /\ runs' = [runs EXCEPT ![t] = @ + 1]
           /\ pool' = Says(pool, s, {Said(t)})
           /\ UNCHANGED <<refused, drainDue>>
<3> DEFINE q == Run(t, TRUE, "running", FALSE)
<3>1. /\ q \in Runs /\ q.turn = t /\ q.at = "live" /\ q.call = "none" /\ q.again
      /\ q.phase = "running"
  BY <1>2 DEF Run, Runs
<3> HIDE DEF q
<3>2. running' = running \cup {q}
  BY <2>6 DEF q
<3>3. Grows
<4>1. {Said(t)} \in SUBSET Facts
  BY <1>2, FactsAre
<4> QED
  BY <1>2, <2>6, <4>1, SaysIs DEF Grows
<3>4. ContinuedIs(s, q)
  BY <2>4, <2>6, <3>1, <3>2, <3>3 DEF ContinuedIs, t
<3> QED
  BY <1>2, <2>6, <3>4
<2>7. CASE /\ refused' = refused \cup {t} /\ drainDue' = (Items # {})
           /\ UNCHANGED <<pool, running, runs>>
  BY <1>2, <2>4, <2>7 DEF RefusedIs
<2> QED
  BY <2>1, <2>5, <2>6, <2>7 DEF Resent
<1>5. ASSUME s \in DOMAIN pool, Abandons(s)
      PROVE  GivenUpIs(s) /\ UNCHANGED <<drainDue, refused>>
<2>1. journal' = MarkTurnEnd(journal, s) /\ UNCHANGED <<pool, running, runs, refused, drainDue>>
  BY <1>5 DEF Abandons
<2>2. /\ IsJournal(journal') /\ Elsewhere(journal, journal', s)
      /\ journal'[s].turn = NoTurn /\ journal'[s].attempts = 0
      /\ journal'[s].calls = journal[s].calls /\ journal'[s].ckpt = journal[s].ckpt
  BY <1>1, <1>2, <2>1, MarkTurnEndIs
<2> QED
  BY <1>5, <2>1, <2>2 DEF GivenUpIs
<1>6. /\ SkipIs(s) \/ (\E q : ContinuedIs(s, q)) \/ RefusedIs(s) \/ GivenUpIs(s)
      /\ drainDue' \in {drainDue, Items # {}} /\ refused' \subseteq Turns
  BY <1>2, <1>3, <1>4, <1>5 DEF ContinueOne
<1> QED
  BY <1>1, <1>2, <1>6 DEF ContinueIs

LEMMA ContinueTypes == ASSUME BootTypeInv, NEW s \in Sessions, ContinueIs(s) PROVE BootTypeInv'
<1>1. /\ IsJournal(journal') /\ IsPool(pool') /\ running' \subseteq Runs
      /\ runs' \in [Turns -> Nat] /\ OneWayToWait' /\ LiveOnesAreInThePool'
<2>1. CASE SkipIs(s) \/ RefusedIs(s) \/ GivenUpIs(s)
<3>1. LiveOnesAreInThePool'
  BY <2>1 DEF SkipIs, RefusedIs, GivenUpIs, LiveOnesAreInThePool, BootTypeInv
<3> QED
  BY <2>1, <3>1, Unmoved DEF SkipIs, RefusedIs, AttemptIs, GivenUpIs
<2>2. ASSUME NEW q, ContinuedIs(s, q)
      PROVE  /\ IsJournal(journal') /\ IsPool(pool') /\ running' \subseteq Runs
             /\ runs' \in [Turns -> Nat] /\ OneWayToWait' /\ LiveOnesAreInThePool'
<3>1. runs' \in [Turns -> Nat]
<4>1. journal[s].turn \in Turns /\ runs \in [Turns -> Nat]
  BY DEF ContinueIs, BootTypeInv, BootTypeOK
<4> QED
  BY <2>2, <4>1 DEF ContinuedIs
<3>2. running' \subseteq Runs /\ OneWayToWait' /\ LiveOnesAreInThePool'
  BY <2>2 DEF ContinuedIs, AttemptIs, Grows, ContinueIs, BootTypeInv, BootTypeOK, OneWayToWait, LiveOnesAreInThePool
<3> QED
  BY <2>2, <3>1, <3>2 DEF ContinuedIs, AttemptIs, Grows
<2> QED
  BY <2>1, <2>2 DEF ContinueIs
<1>2. NobodyWaitsYet'
  BY DEF ContinueIs, NobodyWaitsYet
<1>3. toResume' \subseteq Sessions /\ drainDue' \in BOOLEAN
  BY DEF ContinueIs, BootTypeInv, BootTypeOK
<1> QED
  BY <1>1, <1>2, <1>3, Unmoved, TypesJoin DEF ContinueIs

\* A tool call of the run r starts or ends: the run is q from then on.
ToolIs(r, q) ==
    LET s == Target[r.turn]
    IN  /\ stage \in {"constructed", "settling", "serving"} /\ ~drainDue
        /\ r \in running /\ r.phase = "running"
        /\ q \in Runs /\ q.turn = r.turn /\ q.phase = r.phase /\ q.at = r.at
        /\ q.again = r.again /\ q.oneShot = r.oneShot
        /\ running' = (running \ {r}) \cup {q}
        /\ IsJournal(journal') /\ Elsewhere(journal, journal', s)
        /\ s \in DOMAIN journal => /\ journal'[s].turn = journal[s].turn
                                   /\ journal'[s].attempts = journal[s].attempts
                                   /\ journal'[s].ckpt = journal[s].ckpt
        /\ \/ /\ r.call = "none" /\ q.call # "none" /\ r.at # "destroyed"
              /\ s \in DOMAIN journal => journal'[s].calls = journal[s].calls \cup {CallOf(q)}
           \/ /\ r.call # "none" /\ q.call = "none"
              /\ s \in DOMAIN journal => journal'[s].calls = journal[s].calls \ {CallOf(r)}
        /\ UNCHANGED <<line, spent, stage, pool, drainDue, toSettle, toResume, crashes, sent, runs, cut,
                     refused>>

LEMMA ToolStartDoes ==
    ASSUME BootTypeInv, NEW r \in running, NEW kind \in Kinds, ToolStarts(r, kind)
    PROVE  \E q : ToolIs(r, q)
<1> DEFINE s == Target[r.turn]
           q == [r EXCEPT !.call = kind]
<1>1. /\ r \in Runs /\ r.phase = "running" /\ r.call = "none" /\ r.at # "destroyed"
      /\ stage \in {"constructed", "settling", "serving"} /\ ~drainDue
      /\ running' = (running \ {r}) \cup {q}
      /\ journal' = MarkToolStart(journal, s, CallOf(q))
      /\ UNCHANGED <<line, spent, stage, pool, drainDue, toSettle, toResume, crashes, sent, runs, cut,
                     refused>>
  BY DEF ToolStarts, Free, BootTypeInv, BootTypeOK, boot, history
<1>2. /\ q \in Runs /\ q.turn = r.turn /\ q.phase = r.phase /\ q.at = r.at
      /\ q.again = r.again /\ q.oneShot = r.oneShot /\ q.call # "none"
  BY <1>1 DEF Runs, Kinds
<1> HIDE DEF q
<1>3. /\ IsJournal(journal') /\ Elsewhere(journal, journal', s)
      /\ s \in DOMAIN journal => /\ journal'[s].turn = journal[s].turn
                                 /\ journal'[s].attempts = journal[s].attempts
                                 /\ journal'[s].ckpt = journal[s].ckpt
                                 /\ journal'[s].calls = journal[s].calls \cup {CallOf(q)}
<2>1. CallOf(q) \in ToolCalls /\ IsJournal(journal)
  BY <1>2, CallsAre, TypesSplit DEF BootTypeInv
<2> QED
  BY <1>1, <2>1, MarkToolStartIs
<1>4. ToolIs(r, q)
  BY <1>1, <1>2, <1>3 DEF ToolIs
<1> QED
  BY <1>4

LEMMA ToolEndDoes ==
    ASSUME BootTypeInv, NEW r \in running, ToolEnds(r)
    PROVE  \E q : ToolIs(r, q)
<1> DEFINE s == Target[r.turn]
           q == [r EXCEPT !.call = "none"]
<1>1. /\ r \in Runs /\ r.phase = "running" /\ r.call # "none"
      /\ stage \in {"constructed", "settling", "serving"} /\ ~drainDue
      /\ running' = (running \ {r}) \cup {q}
      /\ journal' = MarkToolEnd(journal, s, CallOf(r))
      /\ UNCHANGED <<line, spent, stage, pool, drainDue, toSettle, toResume, crashes, sent, runs, cut,
                     refused>>
  BY DEF ToolEnds, Free, BootTypeInv, BootTypeOK, boot, history
<1>2. /\ q \in Runs /\ q.turn = r.turn /\ q.phase = r.phase /\ q.at = r.at
      /\ q.again = r.again /\ q.oneShot = r.oneShot /\ q.call = "none"
  BY <1>1 DEF Runs
<1> HIDE DEF q
<1>3. /\ IsJournal(journal') /\ Elsewhere(journal, journal', s)
      /\ s \in DOMAIN journal => /\ journal'[s].turn = journal[s].turn
                                 /\ journal'[s].attempts = journal[s].attempts
                                 /\ journal'[s].ckpt = journal[s].ckpt
                                 /\ journal'[s].calls = journal[s].calls \ {CallOf(r)}
<2>1. IsJournal(journal)
  BY TypesSplit DEF BootTypeInv
<2> QED
  BY <1>1, <2>1, MarkToolEndIs
<1>4. ToolIs(r, q)
  BY <1>1, <1>2, <1>3 DEF ToolIs
<1> QED
  BY <1>4

LEMMA ToolTypes == ASSUME BootTypeInv, NEW r \in running, NEW q, ToolIs(r, q) PROVE BootTypeInv'
<1>1. OneWayToWait' /\ NobodyWaitsYet' /\ LiveOnesAreInThePool' /\ running' \subseteq Runs
  BY DEF ToolIs, BootTypeInv, BootTypeOK, OneWayToWait, NobodyWaitsYet, LiveOnesAreInThePool
<1> QED
  BY <1>1, Unmoved, TypesJoin DEF ToolIs

\* A checkpoint is cut.
CheckpointIs(r) ==
    LET s == Target[r.turn]
    IN  /\ stage \in {"constructed", "settling", "serving"} /\ ~drainDue
        /\ r \in running /\ r.phase = "running" /\ r.at = "live"
        /\ s \in DOMAIN journal /\ s \in DOMAIN pool /\ IsJournal(journal')
        /\ Elsewhere(journal, journal', s)
        /\ journal'[s].turn = journal[s].turn /\ journal'[s].attempts = journal[s].attempts
        /\ journal'[s].calls = journal[s].calls /\ journal'[s].ckpt = pool[s].history
        /\ UNCHANGED <<line, spent, stage, pool, running, drainDue, toSettle, toResume, crashes, sent,
                       runs, cut, refused>>

LEMMA CheckpointDoes == ASSUME BootTypeInv, NEW r \in running, Checkpoint(r) PROVE CheckpointIs(r)
<1> DEFINE s == Target[r.turn]
           e == [journal[s] EXCEPT !.ckpt = pool[s].history]
<1>1. /\ stage \in {"constructed", "settling", "serving"} /\ ~drainDue
      /\ r.phase = "running" /\ r.at = "live"
      /\ s \in DOMAIN journal /\ s \in DOMAIN pool
      /\ journal' = [x \in DOMAIN journal |-> IF x = s THEN e ELSE journal[x]]
      /\ UNCHANGED <<line, spent, stage, pool, running, drainDue, toSettle, toResume, crashes, sent,
                     runs, cut, refused>>
  BY DEF Checkpoint, Free, BootTypeInv, LiveOnesAreInThePool, boot, history
<1>2. /\ e.turn = journal[s].turn /\ e.attempts = journal[s].attempts
      /\ e.calls = journal[s].calls /\ e.ckpt = pool[s].history
      /\ e \in Entries
  BY ZenonT(30), <1>1 DEF BootTypeInv, BootTypeOK, Entries, Agents
<1> HIDE DEF e
<1>3. IsJournal(journal') /\ Elsewhere(journal, journal', s) /\ journal'[s] = e
  BY <1>1, <1>2, TypesSplit DEF BootTypeInv, IsJournal, Elsewhere
<1> QED
  BY <1>1, <1>2, <1>3 DEF CheckpointIs

LEMMA CheckpointTypes == ASSUME BootTypeInv, NEW r \in running, CheckpointIs(r) PROVE BootTypeInv'
<1>1. NobodyWaitsYet' /\ LiveOnesAreInThePool'
  BY DEF CheckpointIs, BootTypeInv, NobodyWaitsYet, LiveOnesAreInThePool
<1> QED
  BY <1>1, Unmoved, TypesJoin DEF CheckpointIs

-----------------------------------------------------------------------------
(* The next-state relation, by what its actions do. *)

Moves ==
    \/ \E s \in Sessions : CreateIs(s) \/ DestroyIs(s) \/ SettleIs(s) \/ ContinueIs(s)
    \/ \E t \in Turns : SendIs(t) \/ Submit(t)
    \/ \E r \in running : (\E q : ToolIs(r, q)) \/ CheckpointIs(r) \/ TurnEndIs(r) \/ ItemEndIs(r)
    \/ (\E j, p, q : DrainIs(j, p, q)) \/ (\E q : DrainRefusedIs(q)) \/ DrainStops \/ LimitIs
    \/ CrashIs \/ StageIs \/ (\E lost, broken : ResumeIs(lost, broken))

LEMMA NextDoes == ASSUME BootTypeInv, PendingInv, BootNext PROVE Moves
<1>1. CASE \E s \in Sessions : CreateSession(s) \/ Destroy(s)
  BY <1>1, CreateDoes, DestroyDoes DEF Moves
<1>2. CASE LimitsReset \/ \E t \in Turns : Send(t) \/ SendRefused(t) \/ Submit(t)
  BY <1>2, SendDoes, LimitDoes DEF Moves
<1>3. CASE \E r \in running : (\E kind \in Kinds : ToolStarts(r, kind)) \/ ToolEnds(r) \/ Checkpoint(r)
  BY <1>3, ToolStartDoes, ToolEndDoes, CheckpointDoes DEF Moves
<1>4. CASE TurnStep
  BY <1>4, TurnEndDoes DEF Moves, TurnStep
<1>5. CASE ItemStep
  BY <1>5, DrainDoes, DrainRefusedDoes, ItemEndDoes DEF Moves, ItemStep
<1>6. CASE BootStep
  BY <1>6, StageDoes, ResumeDoes, SettleDoes, ContinueDoes DEF Moves, BootStep
<1>7. CASE Crash
  BY <1>7, CrashDoes DEF Moves
<1> QED
  BY <1>1, <1>2, <1>3, <1>4, <1>5, <1>6, <1>7 DEF BootNext

LEMMA MovesTypes == ASSUME BootTypeInv, Moves PROVE BootTypeInv'
<1>1. CASE \E s \in Sessions : CreateIs(s) \/ DestroyIs(s) \/ SettleIs(s) \/ ContinueIs(s)
  BY <1>1, CreateTypes, DestroyTypes, SettleTypes, ContinueTypes
<1>2. CASE LimitIs \/ \E t \in Turns : SendIs(t) \/ Submit(t)
  BY <1>2, SendTypes, SubmitTypes, LimitTypes
<1>3. CASE \E r \in running : (\E q : ToolIs(r, q)) \/ CheckpointIs(r) \/ TurnEndIs(r) \/ ItemEndIs(r)
  BY <1>3, ToolTypes, CheckpointTypes, TurnEndTypes, ItemEndTypes
<1>4. CASE (\E j, p, q : DrainIs(j, p, q)) \/ (\E q : DrainRefusedIs(q)) \/ DrainStops
  BY <1>4, DrainTypes, DrainRefusedTypes, DrainStopsTypes
<1>5. CASE CrashIs \/ StageIs \/ (\E lost, broken : ResumeIs(lost, broken))
  BY <1>5, CrashTypes, StageTypes, ResumeTypes
<1> QED
  BY <1>1, <1>2, <1>3, <1>4, <1>5 DEF Moves

\* An entry elsewhere than s is what it was.
LEMMA PendingElsewhere ==
    ASSUME PendingInv, NEW s, Elsewhere(journal, journal', s),
           s \in DOMAIN journal => journal'[s].turn \in {NoTurn, journal[s].turn}
    PROVE  \A x \in DOMAIN journal' :
              journal'[x].turn # NoTurn => Target[journal'[x].turn] = x
  BY DEF PendingInv, Elsewhere

LEMMA MovesPending == ASSUME BootTypeInv, PendingInv, Moves PROVE PendingInv'
<1> DEFINE Named == \A x \in DOMAIN journal' :
                       journal'[x].turn # NoTurn => Target[journal'[x].turn] = x
           Reached == stage' = "continuing" =>
                         \A s \in toResume' : s \in DOMAIN journal' /\ journal'[s].turn # NoTurn
<1>1. ASSUME NEW s \in Sessions, CreateIs(s) \/ DestroyIs(s) PROVE PendingInv'
<2>1. Named
  BY <1>1, FreshIs DEF CreateIs, DestroyIs, Upsert, Without, PendingInv
<2>2. Reached
  BY <1>1 DEF CreateIs, DestroyIs
<2> QED
  BY <2>1, <2>2 DEF PendingInv
<1>2. ASSUME NEW s \in Sessions, SettleIs(s) PROVE PendingInv'
<2>1. Named
  BY <1>2, PendingElsewhere DEF SettleIs, PendingInv
<2>2. Reached
  BY <1>2 DEF SettleIs
<2> QED
  BY <2>1, <2>2 DEF PendingInv
<1>3. ASSUME NEW s \in Sessions, ContinueIs(s) PROVE PendingInv'
<2>1. Elsewhere(journal, journal', s) /\ journal'[s].turn \in {NoTurn, journal[s].turn}
  BY <1>3 DEF ContinueIs, SkipIs, ContinuedIs, RefusedIs, AttemptIs, GivenUpIs, Elsewhere
<2>2. Named
  BY <1>3, <2>1, PendingElsewhere
<2>3. Reached
  BY <1>3, <2>1 DEF ContinueIs, PendingInv, Elsewhere
<2> QED
  BY <2>2, <2>3 DEF PendingInv
<1>4. ASSUME NEW t \in Turns, NEW j, NEW p, NEW q, IsJournal(j), Begins(t, j, p, q),
             \A x \in DOMAIN j : j[x].turn # NoTurn => Target[j[x].turn] = x
      PROVE  Named
<2>1. journal' = MarkTurnStart(j, Target[t], t)
  BY <1>4 DEF Begins
<2>2. /\ Elsewhere(j, journal', Target[t])
      /\ Target[t] \in DOMAIN j => journal'[Target[t]].turn = t
  BY <1>4, <2>1, MarkTurnStartIs
<2> QED
  BY <1>4, <2>2 DEF Elsewhere
<1>5. ASSUME NEW t \in Turns, SendIs(t) PROVE PendingInv'
<2>1. IsJournal(journal)
  BY TypesSplit DEF BootTypeInv
<2>2. Named
  BY <1>4, <1>5, <2>1 DEF SendIs, PendingInv
<2>3. Reached
  BY <1>5 DEF SendIs
<2> QED
  BY <2>2, <2>3 DEF PendingInv
<1>6. ASSUME NEW t \in Turns, Submit(t) PROVE PendingInv'
  BY <1>6 DEF Submit, PendingInv, boot
<1>7. ASSUME NEW r \in running, NEW q, ToolIs(r, q) PROVE PendingInv'
<2>1. Named
  BY <1>7, PendingElsewhere DEF ToolIs
<2>2. Reached
  BY <1>7 DEF ToolIs
<2> QED
  BY <2>1, <2>2 DEF PendingInv
<1>8. ASSUME NEW r \in running, CheckpointIs(r) \/ TurnEndIs(r) PROVE PendingInv'
<2>1. Named
  BY <1>8, PendingElsewhere DEF CheckpointIs, TurnEndIs
<2>2. Reached
  BY <1>8 DEF CheckpointIs, TurnEndIs
<2> QED
  BY <2>1, <2>2 DEF PendingInv
<1>9. ASSUME NEW r \in running, ItemEndIs(r) PROVE PendingInv'
<2>1. Named
  BY <1>9 DEF ItemEndIs, Without, PendingInv
<2>2. Reached
  BY <1>9 DEF ItemEndIs
<2> QED
  BY <2>1, <2>2 DEF PendingInv
<1>10. ASSUME NEW j, NEW p, NEW q, DrainIs(j, p, q) PROVE PendingInv'
<2>1. \A x \in DOMAIN j : j[x].turn # NoTurn => Target[j[x].turn] = x
  BY <1>10, FreshIs DEF DrainIs, Upsert, PendingInv
<2>2. Named
  BY <1>4, <1>10, <2>1 DEF DrainIs
<2>3. Reached
  BY <1>10 DEF DrainIs, PendingInv
<2> QED
  BY <2>2, <2>3 DEF PendingInv
<1>11. CASE DrainStops
  BY <1>11 DEF DrainStops, PendingInv, disk, boot
<1>12. CASE CrashIs
  BY <1>12 DEF CrashIs, PendingInv
<1>13. CASE StageIs
  BY <1>13 DEF StageIs, PendingInv, Interrupted
<1>14. ASSUME NEW lost, NEW broken, ResumeIs(lost, broken) PROVE PendingInv'
  BY <1>14 DEF ResumeIs, PendingInv
<1>15. ASSUME NEW q, DrainRefusedIs(q) PROVE PendingInv'
<2>1. Named
  BY <1>15, FreshIs DEF DrainRefusedIs, Upsert, PendingInv
<2>2. Reached
  BY <1>15 DEF DrainRefusedIs
<2> QED
  BY <2>1, <2>2 DEF PendingInv
<1>16. CASE LimitIs
  BY <1>16 DEF LimitIs, PendingInv
<1> QED
  BY <1>1, <1>2, <1>3, <1>5, <1>6, <1>7, <1>8, <1>9, <1>10, <1>11, <1>12, <1>13, <1>14, <1>15,
     <1>16 DEF Moves

LEMMA Steps ==
    ASSUME BootTypeInv, PendingInv, [BootNext]_bootVars
    PROVE  BootTypeInv' /\ PendingInv' /\ (Moves \/ UNCHANGED bootVars)
<1>1. CASE BootNext
  BY <1>1, NextDoes, MovesTypes, MovesPending
<1>2. CASE UNCHANGED bootVars
<2>1. BootTypeInv'
  BY <1>2, Unmoved, TypesJoin DEF bootVars, BootTypeInv, NobodyWaitsYet, LiveOnesAreInThePool
<2> QED
  BY <1>2, <2>1 DEF bootVars, PendingInv
<1> QED
  BY <1>1, <1>2

\* Every variable stays of its type.
THEOREM BootTypeCorrect == BootSpec => []BootTypeOK
<1>1. BootInit => BootTypeInv /\ PendingInv
  BY InitTypes DEF BootInit, PendingInv
<1>2. BootTypeInv /\ PendingInv /\ [BootNext]_bootVars => BootTypeInv' /\ PendingInv'
  BY Steps
<1>3. BootTypeInv => BootTypeOK
  BY DEF BootTypeInv
<1> QED
  BY <1>1, <1>2, <1>3, PTL DEF BootSpec

-----------------------------------------------------------------------------
(* The journal and the pool. *)

\* Before the boot has resumed anything only the drain makes sessions.
JournalFollows ==
    /\ stage = "down" => DOMAIN pool = {} /\ ~drainDue
    /\ stage = "constructed" => DOMAIN pool \subseteq DOMAIN journal
    /\ stage \in {"settling", "continuing", "serving"} => DOMAIN pool = DOMAIN journal

LEMMA MovesFollow ==
    ASSUME BootTypeInv, JournalFollows, Moves, ~Failures
    PROVE  JournalFollows'
<1>1. ASSUME NEW s \in Sessions, CreateIs(s) \/ DestroyIs(s) \/ SettleIs(s) \/ ContinueIs(s)
      PROVE  JournalFollows'
<2>1. CASE CreateIs(s) \/ DestroyIs(s)
  BY <2>1 DEF CreateIs, DestroyIs, Upsert, Without, JournalFollows
<2>2. CASE SettleIs(s)
  BY <2>2 DEF SettleIs, Elsewhere, JournalFollows
<2>3. CASE ContinueIs(s)
<3>1. stage = "continuing" /\ UNCHANGED stage
  BY <2>3 DEF ContinueIs
<3>2. DOMAIN journal' = DOMAIN journal /\ DOMAIN pool' = DOMAIN pool
  BY <2>3 DEF ContinueIs, SkipIs, ContinuedIs, RefusedIs, AttemptIs, GivenUpIs, Grows, Elsewhere
<3> QED
  BY <3>1, <3>2 DEF JournalFollows
<2> QED
  BY <1>1, <2>1, <2>2, <2>3
<1>2. ASSUME NEW t \in Turns, NEW j, NEW p, NEW q, IsJournal(j), IsPool(p),
             Target[t] \in DOMAIN p, Begins(t, j, p, q)
      PROVE  DOMAIN journal' = DOMAIN j /\ DOMAIN pool' = DOMAIN p
<2>1. DOMAIN pool' = DOMAIN p
  BY <1>2 DEF Begins
<2>2. journal' = MarkTurnStart(j, Target[t], t)
  BY <1>2 DEF Begins
<2>3. DOMAIN journal' = DOMAIN j
  BY <1>2, <2>2, MarkTurnStartIs DEF Elsewhere
<2> QED
  BY <2>1, <2>3
<1>3. ASSUME NEW t \in Turns, SendIs(t) PROVE JournalFollows'
<2>1. IsJournal(journal) /\ IsPool(pool)
  BY TypesSplit DEF BootTypeInv
<2>2. DOMAIN journal' = DOMAIN journal /\ DOMAIN pool' = DOMAIN pool
  BY <1>2, <1>3, <2>1 DEF SendIs
<2> QED
  BY <1>3, <2>2 DEF SendIs, JournalFollows
<1>4. ASSUME NEW t \in Turns, Submit(t) PROVE JournalFollows'
  BY <1>4 DEF Submit, JournalFollows, Free
<1>5. ASSUME NEW r \in running, NEW q, ToolIs(r, q) PROVE JournalFollows'
  BY <1>5 DEF ToolIs, Elsewhere, JournalFollows
<1>6. ASSUME NEW r \in running, CheckpointIs(r) \/ TurnEndIs(r) PROVE JournalFollows'
  BY <1>6 DEF CheckpointIs, TurnEndIs, Grows, Elsewhere, JournalFollows
<1>7. ASSUME NEW r \in running, ItemEndIs(r) PROVE JournalFollows'
  BY <1>7 DEF ItemEndIs, Without, JournalFollows
<1>8. ASSUME NEW j, NEW p, NEW q, DrainIs(j, p, q) PROVE JournalFollows'
<2>1. DOMAIN journal' = DOMAIN j /\ DOMAIN pool' = DOMAIN p
  BY <1>2, <1>8 DEF DrainIs
<2>2. \/ DOMAIN j = DOMAIN journal /\ DOMAIN p = DOMAIN pool
      \/ \E s : DOMAIN j = DOMAIN journal \cup {s} /\ DOMAIN p = DOMAIN pool \cup {s}
  BY <1>8 DEF DrainIs, Upsert
<2> QED
  BY <1>8, <2>1, <2>2 DEF DrainIs, JournalFollows
<1>9. CASE DrainStops \/ LimitIs \/ CrashIs \/ StageIs
  BY <1>9 DEF DrainStops, LimitIs, CrashIs, StageIs, JournalFollows, disk, boot
<1>10. ASSUME NEW lost, NEW broken, ResumeIs(lost, broken) PROVE JournalFollows'
  BY <1>10 DEF ResumeIs, JournalFollows
<1>11. ASSUME NEW q, DrainRefusedIs(q) PROVE JournalFollows'
<2>1. \/ DOMAIN journal' = DOMAIN journal /\ DOMAIN pool' = DOMAIN pool
      \/ \E s : DOMAIN journal' = DOMAIN journal \cup {s} /\ DOMAIN pool' = DOMAIN pool \cup {s}
  BY <1>11 DEF DrainRefusedIs, Upsert
<2> QED
  BY <1>11, <2>1 DEF DrainRefusedIs, JournalFollows
<1> QED
  BY <1>1, <1>3, <1>4, <1>5, <1>6, <1>7, <1>8, <1>9, <1>10, <1>11 DEF Moves

(* When every journaled session can be recreated, the journal names the live
   sessions and no other whenever clients are served. *)
THEOREM JournalNamesTheLive ==
    ASSUME ~Failures
    PROVE  BootSpec => []JournalIsTheLiveSessions
<1>1. BootInit => BootTypeInv /\ PendingInv /\ JournalFollows
  BY InitTypes DEF BootInit, PendingInv, JournalFollows
<1>2. BootTypeInv /\ PendingInv /\ JournalFollows /\ [BootNext]_bootVars
        => BootTypeInv' /\ PendingInv' /\ JournalFollows'
<2> SUFFICES ASSUME BootTypeInv, PendingInv, JournalFollows, [BootNext]_bootVars
             PROVE  JournalFollows'
  BY Steps
<2>1. CASE UNCHANGED bootVars
  BY <2>1 DEF bootVars, JournalFollows
<2> QED
  BY <2>1, Steps, MovesFollow
<1>3. JournalFollows => JournalIsTheLiveSessions
  BY DEF JournalFollows, JournalIsTheLiveSessions
<1> QED
  BY <1>1, <1>2, <1>3, PTL DEF BootSpec

-----------------------------------------------------------------------------
(* How often a turn is run. *)

PendingIn(j, t) == Target[t] \in DOMAIN j /\ j[Target[t]].turn = t

\* The runs a turn had and the one it has coming; the runs its entry allows it.
Taken(n, R, t) == n[t] + IF Waiting(t) \in R THEN 1 ELSE 0
Allowed(j, t) == 1 + IF PendingIn(j, t) THEN j[Target[t]].attempts ELSE MaxAttempts

Untouched(j, R, n, t) ==
    /\ n[t] = 0 /\ ~PendingIn(j, t)
    /\ \A r \in R : r.turn # t

BoundInv ==
    /\ \A s \in DOMAIN journal : journal[s].attempts <= MaxAttempts
    /\ \A t \in Turns : Taken(runs, running, t) <= Allowed(journal, t)
    /\ \A t \in Turns :
          t \notin sent \/ (\E i \in DOMAIN line : line[i] = t)
              => Untouched(journal, running, runs, t)

\* A step that starts nothing: it may end runs and drop what is pending.
LEMMA CalmStep ==
    ASSUME BootTypeInv, BootTypeInv', BoundInv,
           \A s \in DOMAIN journal' : journal'[s].attempts <= MaxAttempts,
           \A t \in Turns : PendingIn(journal', t) =>
                /\ PendingIn(journal, t)
                /\ journal'[Target[t]].attempts = journal[Target[t]].attempts,
           \A t \in Turns : Taken(runs', running', t) <= Taken(runs, running, t),
           \A x \in running' :
              \/ \E r \in running : x.turn = r.turn
              \/ x.turn \in sent' /\ \A i \in DOMAIN line' : line'[i] # x.turn,
           \A t \in Turns : t \notin sent' \/ (\E i \in DOMAIN line' : line'[i] = t)
                => t \notin sent \/ (\E i \in DOMAIN line : line[i] = t)
    PROVE  BoundInv'
<1>1. ASSUME NEW t \in Turns
      PROVE  Taken(runs', running', t) <= Allowed(journal', t)
<2>1. /\ Taken(runs, running, t) <= Allowed(journal, t)
      /\ Taken(runs', running', t) <= Taken(runs, running, t)
  BY DEF BoundInv
<2>2. Taken(runs, running, t) \in Nat /\ Taken(runs', running', t) \in Nat
  BY DEF BootTypeInv, BootTypeOK, Taken
<2>3. /\ PendingIn(journal, t) => /\ journal[Target[t]].attempts \in Nat
                                  /\ journal[Target[t]].attempts <= MaxAttempts
      /\ MaxAttempts \in Nat
  BY BootAssumption DEF PendingIn, BoundInv, BootTypeInv, BootTypeOK, Entries
<2>4. Allowed(journal, t) <= Allowed(journal', t)
  BY <2>3 DEF Allowed
<2>5. Allowed(journal, t) \in Nat /\ Allowed(journal', t) \in Nat
  BY <2>3 DEF Allowed
<2> QED
  BY <2>1, <2>2, <2>4, <2>5
<1>2. ASSUME NEW t \in Turns, t \notin sent' \/ (\E i \in DOMAIN line' : line'[i] = t)
      PROVE  Untouched(journal', running', runs', t)
<2>1. Untouched(journal, running, runs, t)
  BY <1>2 DEF BoundInv
<2>2. runs[t] = 0 /\ ~PendingIn(journal, t) /\ \A r \in running : r.turn # t
  BY <2>1 DEF Untouched
<2>3. Waiting(t).turn = t
  BY DEF Waiting, Run
<2>4. Taken(runs, running, t) = 0
  BY <2>2, <2>3 DEF Taken
<2>5. runs'[t] \in Nat /\ Taken(runs', running', t) <= 0
  BY <2>4 DEF BootTypeInv, BootTypeOK
<2>6. runs'[t] = 0
  BY <2>5 DEF Taken
<2> QED
  BY <1>2, <2>2, <2>6 DEF Untouched
<1> QED
  BY <1>1, <1>2 DEF BoundInv

\* The first run of a turn.
LEMMA FirstRun ==
    ASSUME BootTypeInv, BootTypeInv', BoundInv,
           NEW t \in Turns, Untouched(journal, running, runs, t),
           NEW j, NEW p, NEW q, IsJournal(j), Begins(t, j, p, q),
           \A s \in DOMAIN j : j[s].attempts <= MaxAttempts,
           \A u \in Turns : PendingIn(j, u) =>
                PendingIn(journal, u) /\ j[Target[u]].attempts = journal[Target[u]].attempts,
           t \in sent', \A i \in DOMAIN line' : line'[i] # t,
           \A u \in Turns : u \notin sent' \/ (\E i \in DOMAIN line' : line'[i] = u)
                => u \notin sent \/ (\E i \in DOMAIN line : line[i] = u)
    PROVE  BoundInv'
<1> DEFINE s == Target[t]
<1>1. /\ Elsewhere(j, journal', s)
      /\ s \in DOMAIN j => journal'[s].turn = t /\ journal'[s].attempts = 0
<2>1. journal' = MarkTurnStart(j, s, t)
  BY DEF Begins
<2> QED
  BY <2>1, MarkTurnStartIs
<1>2. /\ running' = running \cup {q} /\ q.turn = t /\ q.phase = "running"
      /\ runs' = [runs EXCEPT ![t] = @ + 1] /\ runs \in [Turns -> Nat]
      /\ MaxAttempts \in Nat
  BY BootAssumption DEF Begins, BootTypeInv, BootTypeOK
<1>3. \A x \in DOMAIN journal' : journal'[x].attempts <= MaxAttempts
  BY <1>1, <1>2 DEF Elsewhere
<1>4. \A u : Waiting(u).phase = "waiting" /\ Waiting(u).turn = u
  BY DEF Waiting, Run
<1>5. Taken(runs', running', t) <= Allowed(journal', t)
<2>1. runs'[t] = 1 /\ Waiting(t) \notin running'
  BY <1>2, <1>4 DEF Untouched
<2>2. PendingIn(journal', t) => journal'[s].attempts = 0
  BY <1>1 DEF PendingIn, Elsewhere
<2> QED
  BY <1>2, <2>1, <2>2 DEF Taken, Allowed
<1>6. ASSUME NEW u \in Turns, u # t
      PROVE  /\ PendingIn(journal', u) =>
                  /\ PendingIn(journal, u)
                  /\ journal'[Target[u]].attempts = journal[Target[u]].attempts
             /\ Taken(runs', running', u) = Taken(runs, running, u)
<2>1. PendingIn(journal', u) => PendingIn(j, u) /\ journal'[Target[u]] = j[Target[u]]
  BY <1>1, <1>6 DEF PendingIn, Elsewhere
<2>2. runs'[u] = runs[u] /\ (Waiting(u) \in running' <=> Waiting(u) \in running)
  BY <1>2, <1>4, <1>6
<2> QED
  BY <2>1, <2>2 DEF Taken
<1>7. ASSUME NEW u \in Turns, u # t
      PROVE  Taken(runs', running', u) <= Allowed(journal', u)
<2>1. /\ Taken(runs, running, u) <= Allowed(journal, u)
      /\ Taken(runs', running', u) = Taken(runs, running, u)
  BY <1>6, <1>7 DEF BoundInv
<2>2. Taken(runs, running, u) \in Nat
  BY <1>2 DEF Taken
<2>3. PendingIn(journal, u) => /\ journal[Target[u]].attempts \in Nat
                               /\ journal[Target[u]].attempts <= MaxAttempts
  BY DEF PendingIn, BoundInv, BootTypeInv, BootTypeOK, Entries
<2>4. /\ Allowed(journal, u) <= Allowed(journal', u)
      /\ Allowed(journal, u) \in Nat /\ Allowed(journal', u) \in Nat
  BY <1>2, <1>6, <1>7, <2>3 DEF Allowed
<2> QED
  BY <2>1, <2>2, <2>4
<1>8. ASSUME NEW u \in Turns, u \notin sent' \/ (\E i \in DOMAIN line' : line'[i] = u)
      PROVE  Untouched(journal', running', runs', u)
<2>1. u # t /\ Untouched(journal, running, runs, u)
  BY <1>8 DEF BoundInv
<2> QED
  BY <1>2, <1>6, <2>1 DEF Untouched
<1> QED
  BY <1>3, <1>5, <1>7, <1>8 DEF BoundInv

\* A continuation that runs, waits or is refused.
LEMMA OneMoreRun ==
    ASSUME BootTypeInv, BootTypeInv', BoundInv, NEW s \in Sessions, ContinueIs(s),
           RefusedIs(s) \/ \E q : ContinuedIs(s, q)
    PROVE  BoundInv'
<1> DEFINE t == journal[s].turn
<1>1. /\ s \in DOMAIN journal /\ t \in Turns /\ Target[t] = s
      /\ DOMAIN journal' = DOMAIN journal
      /\ \A x \in DOMAIN journal \ {s} : journal'[x] = journal[x]
      /\ journal'[s].turn = t /\ journal'[s].attempts = journal[s].attempts + 1
      /\ journal[s].attempts < MaxAttempts
      /\ UNCHANGED <<sent, line>>
  BY DEF ContinueIs, RefusedIs, ContinuedIs, AttemptIs, Elsewhere
<1>2. MaxAttempts \in Nat /\ runs \in [Turns -> Nat] /\ journal[s].attempts \in Nat
  BY <1>1, BootAssumption DEF BootTypeInv, BootTypeOK, Entries
<1>3. \A u : Waiting(u).phase = "waiting" /\ Waiting(u).turn = u
  BY DEF Waiting, Run
<1> DEFINE OneMore == /\ Taken(runs', running', t) <= Taken(runs, running, t) + 1
                      /\ \A u \in Turns : u # t => runs'[u] = runs[u]
                      /\ \A x \in running' : x \in running \/ x.turn = t
                      /\ \A x \in running : x \in running'
<1>4. OneMore
<2>1. CASE RefusedIs(s)
  BY <1>1, <1>2, <2>1 DEF RefusedIs, Taken
<2>2. ASSUME NEW q, ContinuedIs(s, q), Busy(s)
      PROVE  OneMore
<3>1. UNCHANGED runs /\ running' = running \cup {q} /\ q.turn = t
  BY <2>2 DEF ContinuedIs
<3> QED
  BY <1>1, <1>2, <3>1 DEF Taken
<2>3. ASSUME NEW q, ContinuedIs(s, q), ~Busy(s)
      PROVE  OneMore
<3>1. /\ runs' = [runs EXCEPT ![t] = @ + 1] /\ q.phase = "running"
      /\ running' = running \cup {q} /\ q.turn = t
  BY <2>3 DEF ContinuedIs
<3>2. Waiting(t) \in running' <=> Waiting(t) \in running
  BY <1>3, <3>1
<3> QED
  BY <1>1, <1>2, <3>1, <3>2 DEF Taken
<2> QED
  BY <2>1, <2>2, <2>3
<1>5. \A u \in Turns : u # t => Taken(runs', running', u) = Taken(runs, running, u)
<2>1. \A u \in Turns : u # t => (Waiting(u) \in running' <=> Waiting(u) \in running)
  BY <1>3, <1>4
<2> QED
  BY <1>4, <2>1 DEF Taken
<1>6. Taken(runs', running', t) <= Allowed(journal', t)
<2>1. PendingIn(journal, t) /\ PendingIn(journal', t)
  BY <1>1 DEF PendingIn
<2>2. Taken(runs, running, t) <= 1 + journal[s].attempts
  BY <1>1, <2>1 DEF BoundInv, Allowed
<2>3. Taken(runs, running, t) \in Nat /\ Taken(runs', running', t) \in Nat
  BY <1>1 DEF Taken, BootTypeInv, BootTypeOK
<2>4. Allowed(journal', t) = 1 + (journal[s].attempts + 1)
  BY <1>1, <2>1 DEF Allowed
<2> QED
  BY <1>2, <1>4, <2>2, <2>3, <2>4
<1>7. \A u \in Turns : u # t => Allowed(journal', u) = Allowed(journal, u)
  BY <1>1 DEF Allowed, PendingIn
<1>8. ASSUME NEW u \in Turns, u \notin sent' \/ (\E i \in DOMAIN line' : line'[i] = u)
      PROVE  Untouched(journal', running', runs', u)
<2>1. Untouched(journal, running, runs, u)
  BY <1>1, <1>8 DEF BoundInv
<2>2. u # t
  BY <1>1, <2>1 DEF Untouched, PendingIn
<2>3. ~PendingIn(journal', u)
  BY <1>1, <2>1, <2>2 DEF Untouched, PendingIn
<2> QED
  BY <1>4, <2>1, <2>2, <2>3 DEF Untouched
<1>9. \A x \in DOMAIN journal' : journal'[x].attempts <= MaxAttempts
  BY <1>1, <1>2 DEF BoundInv
<1> QED
  BY <1>5, <1>6, <1>7, <1>8, <1>9 DEF BoundInv

\* An entry that is dropped, ended or only marked.
LEMMA OneEntry ==
    ASSUME BoundInv, NEW s, Elsewhere(journal, journal', s), MaxAttempts \in Nat,
           s \in DOMAIN journal =>
                \/ journal'[s].turn = NoTurn /\ journal'[s].attempts = 0
                \/ /\ journal'[s].turn = journal[s].turn
                   /\ journal'[s].attempts = journal[s].attempts
    PROVE  /\ \A x \in DOMAIN journal' : journal'[x].attempts <= MaxAttempts
           /\ \A t \in Turns : PendingIn(journal', t) =>
                /\ PendingIn(journal, t)
                /\ journal'[Target[t]].attempts = journal[Target[t]].attempts
<1>1. NoTurn \notin Turns
  BY BootAssumption
<1>2. \A x \in DOMAIN journal' : journal'[x].attempts <= MaxAttempts
  BY DEF BoundInv, Elsewhere
<1>3. ASSUME NEW t \in Turns, PendingIn(journal', t)
      PROVE  /\ PendingIn(journal, t)
             /\ journal'[Target[t]].attempts = journal[Target[t]].attempts
  BY <1>1, <1>3 DEF PendingIn, Elsewhere
<1> QED
  BY <1>2, <1>3

LEMMA MovesBound ==
    ASSUME BootTypeInv, BootTypeInv', PendingInv, BoundInv, Moves
    PROVE  BoundInv'
<1> DEFINE Entries1 == /\ \A x \in DOMAIN journal' : journal'[x].attempts <= MaxAttempts
                       /\ \A t \in Turns : PendingIn(journal', t) =>
                            /\ PendingIn(journal, t)
                            /\ journal'[Target[t]].attempts = journal[Target[t]].attempts
           Counts1 == /\ \A t \in Turns : Taken(runs', running', t) <= Taken(runs, running, t)
                      /\ \A x \in running' :
                            \/ \E r \in running : x.turn = r.turn
                            \/ x.turn \in sent' /\ \A i \in DOMAIN line' : line'[i] # x.turn
           Sent1 == \A t \in Turns : t \notin sent' \/ (\E i \in DOMAIN line' : line'[i] = t)
                       => t \notin sent \/ (\E i \in DOMAIN line : line[i] = t)
<1>1. MaxAttempts \in Nat /\ runs \in [Turns -> Nat] /\ NoTurn \notin Turns
  BY BootAssumption DEF BootTypeInv, BootTypeOK
<1>2. Entries1 /\ Counts1 /\ Sent1 => BoundInv'
  BY CalmStep
<1>3. UNCHANGED <<runs, running>> => Counts1
  BY <1>1 DEF Taken
<1>4. UNCHANGED <<sent, line>> => Sent1
  OBVIOUS
<1>5. UNCHANGED journal => Entries1
  BY DEF BoundInv
<1>6. ASSUME runs' = runs,
             \A x \in running' : \E r \in running : x.turn = r.turn,
             \A t \in Turns : Waiting(t) \in running' => Waiting(t) \in running
      PROVE  Counts1
  BY <1>1, <1>6 DEF Taken
<1> HIDE DEF Entries1, Counts1, Sent1
<1>7. \A t : Waiting(t).phase = "waiting" /\ Waiting(t).turn = t /\ Waiting(t).at = "live"
  BY DEF Waiting, Run
<1>10. ASSUME NEW s \in Sessions, CreateIs(s) PROVE BoundInv'
<2>1. Entries1
  BY <1>1, <1>10, FreshIs DEF CreateIs, Upsert, Entries1, PendingIn, BoundInv
<2> QED
  BY <1>2, <1>3, <1>4, <1>10, <2>1 DEF CreateIs
<1>11. ASSUME NEW s \in Sessions, DestroyIs(s) PROVE BoundInv'
<2>1. Entries1
  BY <1>11 DEF DestroyIs, Without, Entries1, PendingIn, BoundInv
<2>2. \A t \in Turns : Waiting(t) \in running' => Waiting(t) \in running
  BY <1>7, <1>11 DEF DestroyIs
<2>3. Counts1
  BY <1>6, <1>11, <2>2 DEF DestroyIs
<2> QED
  BY <1>2, <1>4, <1>11, <2>1, <2>3 DEF DestroyIs
<1>12. ASSUME NEW s \in Sessions, SettleIs(s) PROVE BoundInv'
<2>1. Entries1
  BY <1>1, <1>5, <1>12, OneEntry DEF SettleIs, Entries1
<2> QED
  BY <1>2, <1>3, <1>4, <1>12, <2>1 DEF SettleIs
<1>13. ASSUME NEW s \in Sessions, ContinueIs(s) PROVE BoundInv'
<2>1. CASE SkipIs(s)
  BY <1>2, <1>3, <1>4, <1>5, <1>13, <2>1 DEF ContinueIs, SkipIs
<2>2. CASE GivenUpIs(s)
<3>1. Entries1
  BY <1>1, <2>2, OneEntry DEF GivenUpIs, Entries1
<3> QED
  BY <1>2, <1>3, <1>4, <1>13, <2>2, <3>1 DEF ContinueIs, GivenUpIs
<2>3. CASE RefusedIs(s) \/ \E q : ContinuedIs(s, q)
  BY <1>13, <2>3, OneMoreRun
<2> QED
  BY <1>13, <2>1, <2>2, <2>3 DEF ContinueIs
<1>14. ASSUME NEW t \in Turns, SendIs(t) PROVE BoundInv'
<2>1. Untouched(journal, running, runs, t)
  BY <1>14 DEF SendIs, BoundInv
<2>2. /\ IsJournal(journal) /\ Begins(t, journal, pool, Run(t, FALSE, "running", FALSE))
      /\ t \in sent' /\ Target[t] \in DOMAIN pool
      /\ sent' = sent \cup {t} /\ line' = line
  BY <1>14, TypesSplit DEF SendIs, BootTypeInv
<2>3. \A i \in DOMAIN line : line[i] # t
  BY <1>14 DEF SendIs, BootTypeInv
<2>4. \A x \in DOMAIN journal : journal[x].attempts <= MaxAttempts
  BY DEF BoundInv
<2> HIDE DEF Sent1
<2>5. Sent1
  BY <2>2 DEF Sent1
<2> QED
  BY <2>1, <2>2, <2>3, <2>4, <2>5, FirstRun DEF Sent1
<1>15. ASSUME NEW t \in Turns, Submit(t) PROVE BoundInv'
<2>1. line \in Seq(Items) /\ t \notin sent /\ sent' = sent \cup {t} /\ line' = Append(line, t)
  BY <1>15 DEF Submit, BootTypeInv, BootTypeOK
<2>2. \A i \in DOMAIN line' : line'[i] = t \/ \E k \in DOMAIN line : line'[i] = line[k]
  BY <2>1
<2>3. Sent1
  BY <2>1, <2>2 DEF Sent1
<2> QED
  BY <1>2, <1>3, <1>5, <1>15, <2>3 DEF Submit
<1>16. ASSUME NEW r \in running, NEW q, ToolIs(r, q) PROVE BoundInv'
<2>1. Entries1
  BY <1>1, <1>16, OneEntry DEF ToolIs, Entries1
<2>2. Counts1
<3>1. \A t \in Turns : Waiting(t) \in running' => Waiting(t) \in running
  BY <1>7, <1>16 DEF ToolIs
<3> QED
  BY <1>6, <1>16, <3>1 DEF ToolIs
<2> QED
  BY <1>2, <1>4, <1>16, <2>1, <2>2 DEF ToolIs
<1>17. ASSUME NEW r \in running, CheckpointIs(r) PROVE BoundInv'
<2>1. Entries1
  BY <1>1, <1>17, OneEntry DEF CheckpointIs, Entries1
<2> QED
  BY <1>2, <1>3, <1>4, <1>17, <2>1 DEF CheckpointIs
<1>18. ASSUME NEW r \in running, TurnEndIs(r) PROVE BoundInv'
<2>1. Entries1
  BY <1>1, <1>18, OneEntry DEF TurnEndIs, Entries1
<2>2. PICK W \in {{}, NextOf(r)} :
        /\ running' = (running \ ({r} \cup NextOf(r))) \cup LeftOf(r) \cup BootStarted(W)
        /\ \A t \in Turns : runs'[t] = runs[t] + IF Waiting(t) \in W THEN 1 ELSE 0
  BY <1>18 DEF TurnEndIs, HandsOver
<2>3. \A x \in LeftOf(r) : x.turn = r.turn /\ x.phase = "ended"
  BY <1>18 DEF LeftOf, TurnEndIs, Runs
<2>4. \A x \in BootStarted(W) :
         x.phase = "running" /\ \E w \in NextOf(r) : w \in running /\ x.turn = w.turn
<3>1. ASSUME NEW w \in NextOf(r)
      PROVE  LET x == [w EXCEPT !.phase = "running"]
             IN  w \in running /\ x.phase = "running" /\ x.turn = w.turn
  BY NextIs
<3> QED
  BY <2>2, <3>1 DEF BootStarted
<2>5. \A x \in running' : \E y \in running : x.turn = y.turn
  BY <2>2, <2>3, <2>4
<2>6. ASSUME NEW t \in Turns PROVE Taken(runs', running', t) <= Taken(runs, running, t)
<3>1. Waiting(t) \in running' => Waiting(t) \in running /\ Waiting(t) \notin NextOf(r)
  BY <1>7, <2>2, <2>3, <2>4
<3>2. Waiting(t) \in NextOf(r) => Waiting(t) \in running
  BY NextIs
<3> QED
  BY <1>1, <2>2, <3>1, <3>2 DEF Taken
<2>7. Counts1
  BY <2>5, <2>6 DEF Counts1
<2> QED
  BY <1>2, <1>4, <1>18, <2>1, <2>7 DEF TurnEndIs
<1>19. ASSUME NEW r \in running, ItemEndIs(r) PROVE BoundInv'
<2>1. Entries1
  BY <1>5, <1>19 DEF ItemEndIs, Without, Entries1, PendingIn, BoundInv
<2>2. Counts1
  BY <1>6, <1>19 DEF ItemEndIs
<2> QED
  BY <1>2, <1>4, <1>19, <2>1, <2>2 DEF ItemEndIs
<1>20. ASSUME NEW j, NEW p, NEW q, DrainIs(j, p, q) PROVE BoundInv'
<2> DEFINE t == Head(line)
<2>1. /\ t \in Turns /\ t \in sent /\ IsJournal(j) /\ Begins(t, j, p, q)
      /\ line # << >> /\ line' = Tail(line) /\ sent' = sent
  BY <1>20 DEF DrainIs
<2>2. /\ \E k \in DOMAIN line : t = line[k]
      /\ \A i \in DOMAIN line' : line'[i] # t /\ \E k \in DOMAIN line : line'[i] = line[k]
  BY <2>1, LineIs DEF BootTypeInv, BootTypeOK
<2> HIDE DEF t
<2>3. Untouched(journal, running, runs, t)
  BY <2>1, <2>2 DEF BoundInv
<2>4. /\ \A s \in DOMAIN j : j[s].attempts <= MaxAttempts
      /\ \A u \in Turns : PendingIn(j, u) =>
            PendingIn(journal, u) /\ j[Target[u]].attempts = journal[Target[u]].attempts
  BY <1>1, <1>20, FreshIs DEF DrainIs, Upsert, PendingIn, BoundInv
<2>5. Sent1
  BY <2>1, <2>2 DEF Sent1
<2> QED
  BY <2>1, <2>2, <2>3, <2>4, <2>5, FirstRun DEF Sent1
<1>21. CASE DrainStops
  BY <1>2, <1>3, <1>4, <1>5, <1>21 DEF DrainStops, disk, history
<1>22. CASE CrashIs
<2>1. Counts1
  BY <1>6, <1>22 DEF CrashIs
<2> QED
  BY <1>2, <1>4, <1>5, <1>22, <2>1 DEF CrashIs
<1>23. CASE StageIs
  BY <1>2, <1>3, <1>4, <1>5, <1>23 DEF StageIs
<1>24. ASSUME NEW lost, NEW broken, ResumeIs(lost, broken) PROVE BoundInv'
<2>1. stage = "constructed"
  BY <1>24 DEF ResumeIs
<2>2. \A x \in running' : x.phase # "waiting" /\ \E r \in running : x.turn = r.turn
  BY <1>24, <2>1 DEF ResumeIs, BootTypeInv, NobodyWaitsYet
<2>3. Counts1
  BY <1>6, <1>7, <1>24, <2>2 DEF ResumeIs
<2> QED
  BY <1>2, <1>4, <1>5, <1>24, <2>3 DEF ResumeIs
<1>25. ASSUME NEW q, DrainRefusedIs(q) PROVE BoundInv'
<2> DEFINE t == Head(line)
<2>1. /\ t \in sent /\ line # << >> /\ line' = Tail(line) /\ UNCHANGED <<sent, runs>>
      /\ running' = running \cup {q} /\ q.turn = t /\ q.phase = "ended"
  BY <1>25 DEF DrainRefusedIs
<2>2. \A i \in DOMAIN line' : line'[i] # t /\ \E k \in DOMAIN line : line'[i] = line[k]
  BY <2>1, LineIs DEF BootTypeInv, BootTypeOK
<2> HIDE DEF t
<2>3. Sent1
  BY <2>1, <2>2 DEF Sent1
<2>4. \A u \in Turns : Taken(runs', running', u) <= Taken(runs, running, u)
  BY <1>1, <1>7, <2>1 DEF Taken
<2>5. Counts1
  BY <2>1, <2>2, <2>4 DEF Counts1
<2>6. Entries1
  BY <1>1, <1>25, FreshIs DEF DrainRefusedIs, Upsert, Entries1, PendingIn, BoundInv
<2> QED
  BY <1>2, <2>3, <2>5, <2>6
<1>26. CASE LimitIs
<2>1. Sent1
  BY <1>26 DEF LimitIs, Sent1
<2> QED
  BY <1>2, <1>3, <1>5, <1>26, <2>1 DEF LimitIs
<1> QED
  BY <1>10, <1>11, <1>12, <1>13, <1>14, <1>15, <1>16, <1>17, <1>18, <1>19, <1>20, <1>21,
     <1>22, <1>23, <1>24, <1>25, <1>26 DEF Moves

LEMMA Bounded ==
    /\ BootInit => BoundInv
    /\ BootTypeInv /\ PendingInv /\ BoundInv /\ [BootNext]_bootVars => BoundInv'
<1>1. ASSUME BootInit PROVE BoundInv
  BY <1>1, BootAssumption DEF BootInit, BoundInv, Taken, Allowed, Untouched, PendingIn
<1>2. ASSUME BootTypeInv, PendingInv, BoundInv, [BootNext]_bootVars PROVE BoundInv'
<2>1. CASE UNCHANGED bootVars
  BY <1>2, <2>1 DEF bootVars, BoundInv, Taken, Allowed, Untouched, PendingIn
<2> QED
  BY <1>2, <2>1, Steps, MovesBound
<1> QED
  BY <1>1, <1>2

(* However the daemon crashes and whatever comes through the queue, a turn is
   run once and continued at most MaxAttempts times: its runs, and the one it
   has coming, never outnumber the attempts its entry counts. *)
THEOREM ContinuationsHaveABound == BootSpec => []ContinuationsAreBounded
<1>1. BootInit => BootTypeInv /\ PendingInv /\ BoundInv
  BY InitTypes, Bounded DEF BootInit, PendingInv
<1>2. BootTypeInv /\ PendingInv /\ BoundInv /\ [BootNext]_bootVars => BootTypeInv' /\ PendingInv' /\ BoundInv'
  BY Steps, Bounded
<1>3. BootTypeInv /\ BoundInv => ContinuationsAreBounded
<2> SUFFICES ASSUME BootTypeInv, BoundInv, NEW t \in Turns
             PROVE  runs[t] <= 1 + MaxAttempts
  BY DEF ContinuationsAreBounded
<2>1. runs[t] \in Nat /\ MaxAttempts \in Nat
  BY BootAssumption DEF BootTypeInv, BootTypeOK
<2>2. Taken(runs, running, t) <= Allowed(journal, t)
  BY DEF BoundInv
<2>3. PendingIn(journal, t) => /\ journal[Target[t]].attempts \in Nat
                               /\ journal[Target[t]].attempts <= MaxAttempts
  BY DEF PendingIn, BoundInv, BootTypeInv, BootTypeOK, Entries
<2> QED
  BY <2>1, <2>2, <2>3 DEF Taken, Allowed
<1> QED
  BY <1>1, <1>2, <1>3, PTL DEF BootSpec

-----------------------------------------------------------------------------
(* What runs is on disk. *)

QueueIsOff == Items = {}

\* With the queue off nothing runs before the boot is done with the sessions.
QuietBoot ==
    /\ line = << >> /\ ~drainDue
    /\ stage \in {"down", "constructed"} => DOMAIN pool = {}
    /\ stage \in {"down", "constructed", "settling"} => running = {}
    /\ \A r \in running : r.phase # "ended"

QuietMoves ==
    \/ \E s \in Sessions : CreateIs(s) \/ DestroyIs(s) \/ SettleIs(s) \/ ContinueIs(s)
    \/ \E t \in Turns : SendIs(t)
    \/ \E r \in running : (\E q : ToolIs(r, q)) \/ CheckpointIs(r) \/ TurnEndIs(r)
    \/ LimitIs \/ CrashIs \/ StageIs \/ (\E lost, broken : ResumeIs(lost, broken))

LEMMA MovesAreQuiet == ASSUME QueueIsOff, QuietBoot, Moves PROVE QuietMoves
<1>1. \A t \in Turns : ~Submit(t)
  BY DEF Submit, QueueIsOff
<1>2. \A r \in running : ~ItemEndIs(r)
  BY DEF ItemEndIs, QuietBoot
<1>3. (\A j, p, q : ~DrainIs(j, p, q)) /\ (\A q : ~DrainRefusedIs(q)) /\ ~DrainStops
  BY DEF DrainIs, DrainRefusedIs, DrainStops, DrainRuns, QuietBoot
<1> QED
  BY <1>1, <1>2, <1>3 DEF Moves, QuietMoves

LEMMA MovesQuiet ==
    ASSUME QueueIsOff, BootTypeInv, QuietBoot, QuietMoves
    PROVE  QuietBoot'
<1>0. drainDue' = (Items # {}) => ~drainDue'
  BY DEF QueueIsOff
<1>1. ASSUME NEW s \in Sessions, CreateIs(s) \/ DestroyIs(s) \/ SettleIs(s)
      PROVE  QuietBoot'
<2>1. CASE CreateIs(s)
  BY <2>1 DEF CreateIs, QuietBoot
<2>2. CASE DestroyIs(s)
  BY <1>0, <2>2 DEF DestroyIs, QuietBoot
<2>3. CASE SettleIs(s)
  BY <2>3 DEF SettleIs, QuietBoot
<2> QED
  BY <1>1, <2>1, <2>2, <2>3
<1>2. ASSUME NEW s \in Sessions, ContinueIs(s)
      PROVE  QuietBoot'
<2>1. stage = "continuing" /\ UNCHANGED <<line, stage>> /\ ~drainDue'
  BY <1>0, <1>2 DEF ContinueIs, QuietBoot
<2>2. \A r \in running' : r.phase # "ended"
  BY <1>2 DEF ContinueIs, SkipIs, GivenUpIs, RefusedIs, ContinuedIs, QuietBoot
<2> QED
  BY <2>1, <2>2 DEF QuietBoot
<1>3. ASSUME NEW t \in Turns, SendIs(t)
      PROVE  QuietBoot'
  BY <1>3 DEF SendIs, Begins, QuietBoot
<1>4. ASSUME NEW r \in running, (\E q : ToolIs(r, q)) \/ CheckpointIs(r)
      PROVE  QuietBoot'
<2>1. CASE \E q : ToolIs(r, q)
  BY <2>1 DEF ToolIs, QuietBoot
<2>2. CASE CheckpointIs(r)
  BY <2>2 DEF CheckpointIs, QuietBoot
<2> QED
  BY <1>4, <2>1, <2>2
<1>5. ASSUME NEW r \in running, TurnEndIs(r)
      PROVE  QuietBoot'
<2>1. LeftOf(r) = {}
  BY DEF LeftOf, QueueIsOff
<2>2. \A W \in {{}, NextOf(r)} : \A x \in BootStarted(W) : x.phase = "running"
<3>1. \A w \in NextOf(r) : [w EXCEPT !.phase = "running"].phase = "running"
  BY NextIs
<3> QED
  BY <3>1 DEF BootStarted
<2>3. \A x \in running' : x.phase # "ended"
  BY <1>5, <2>1, <2>2 DEF TurnEndIs, HandsOver, QuietBoot
<2> QED
  BY <1>0, <1>5, <2>3 DEF TurnEndIs, Grows, QuietBoot
<1>6. CASE CrashIs \/ StageIs
  BY <1>0, <1>6 DEF CrashIs, StageIs, QuietBoot
<1>8. CASE LimitIs
  BY <1>0, <1>8 DEF LimitIs, QuietBoot
<1>7. ASSUME NEW lost, NEW broken, ResumeIs(lost, broken)
      PROVE  QuietBoot'
  BY <1>7 DEF ResumeIs, QuietBoot
<1> QED
  BY <1>1, <1>2, <1>3, <1>4, <1>5, <1>6, <1>7, <1>8 DEF QuietMoves

LEMMA Quiet ==
    ASSUME QueueIsOff
    PROVE  /\ BootInit => QuietBoot
           /\ BootTypeInv /\ PendingInv /\ QuietBoot /\ [BootNext]_bootVars
                => QuietBoot' /\ (QuietMoves \/ UNCHANGED bootVars)
<1>1. ASSUME BootInit PROVE QuietBoot
  BY <1>1 DEF BootInit, QuietBoot
<1>2. ASSUME BootTypeInv, PendingInv, QuietBoot, [BootNext]_bootVars
      PROVE  QuietBoot' /\ (QuietMoves \/ UNCHANGED bootVars)
<2>1. CASE UNCHANGED bootVars
  BY <1>2, <2>1 DEF bootVars, QuietBoot
<2> QED
  BY <1>2, <2>1, Steps, MovesAreQuiet, MovesQuiet
<1> QED
  BY <1>1, <1>2

(* With the queue off no step of the boot costs a session its checkpoint,
   whatever fails in it and wherever it is cut by a crash. *)
THEOREM CheckpointsAreKept ==
    ASSUME QueueIsOff
    PROVE  BootSpec => CheckpointsSurvive
<1>1. BootInit => BootTypeInv /\ PendingInv /\ QuietBoot
<2>1. BootInit => PendingInv
  BY DEF BootInit, PendingInv
<2> QED
  BY <2>1, InitTypes, Quiet
<1>2. BootTypeInv /\ PendingInv /\ QuietBoot /\ [BootNext]_bootVars
        => BootTypeInv' /\ PendingInv' /\ QuietBoot'
  BY Steps, Quiet
<1> DEFINE CkptsStay == \A s \in DOMAIN journal :
                      s \in DOMAIN journal' /\ journal[s].ckpt \subseteq journal'[s].ckpt
<1>3. BootTypeInv /\ PendingInv /\ QuietBoot /\ [BootNext]_bootVars
        => [stage # "serving" =>
              \A s \in DOMAIN journal :
                  /\ s \in DOMAIN journal'
                  /\ journal[s].ckpt \subseteq journal'[s].ckpt]_bootVars
<2> SUFFICES ASSUME BootTypeInv, PendingInv, QuietBoot, [BootNext]_bootVars, stage # "serving"
             PROVE  CkptsStay
  OBVIOUS
<2>1. CASE UNCHANGED bootVars
  BY <2>1 DEF bootVars
<2>2. ASSUME NEW s \in Sessions, CreateIs(s) \/ DestroyIs(s) \/ SettleIs(s)
      PROVE  CkptsStay
  BY <2>2 DEF CreateIs, DestroyIs, SettleIs, Elsewhere
<2>3. ASSUME NEW s \in Sessions, ContinueIs(s)
      PROVE  CkptsStay
  BY <2>3 DEF ContinueIs, SkipIs, GivenUpIs, RefusedIs, ContinuedIs, AttemptIs, Elsewhere
<2>4. ASSUME NEW t \in Turns, SendIs(t)
      PROVE  CkptsStay
  BY <2>4 DEF SendIs
<2>5. ASSUME NEW r \in running, (\E q : ToolIs(r, q)) \/ CheckpointIs(r) \/ TurnEndIs(r)
      PROVE  CkptsStay
  BY <2>5 DEF ToolIs, CheckpointIs, TurnEndIs, QuietBoot
<2>6. CASE LimitIs \/ CrashIs \/ StageIs
  BY <2>6 DEF LimitIs, CrashIs, StageIs
<2>7. ASSUME NEW lost, NEW broken, ResumeIs(lost, broken)
      PROVE  CkptsStay
  BY <2>7 DEF ResumeIs
<2> QED
  BY <2>1, <2>2, <2>3, <2>4, <2>5, <2>6, <2>7, Quiet DEF QuietMoves
<1> QED
  BY <1>1, <1>2, <1>3, PTL DEF BootSpec, CheckpointsSurvive

(* One run to a session: a live one is what its entry says, a destroyed one
   has no session, and the boot's continuations find nothing running. *)
DiskInv ==
    /\ \A r \in running : r.phase = "running" /\ r.at \in {"live", "destroyed"}
    /\ \A r \in running : r.at = "live" =>
          /\ PendingIn(journal, r.turn)
          /\ r.call # "none" => CallOf(r) \in journal[Target[r.turn]].calls
    /\ \A r \in running : r.at = "destroyed" =>
          Target[r.turn] \notin DOMAIN pool /\ Target[r.turn] \notin DOMAIN journal
    /\ \A r1, r2 \in running : Target[r1.turn] = Target[r2.turn] => r1 = r2
    /\ DOMAIN pool \subseteq DOMAIN journal
    /\ stage = "continuing" => \A s \in toResume : \A r \in running : Target[r.turn] # s

\* An entry's write leaves the runs on other sessions as they are.
LEMMA OthersStay ==
    ASSUME DiskInv, NEW s, Elsewhere(journal, journal', s),
           NEW r \in running, Target[r.turn] # s
    PROVE  r.at = "live" =>
                /\ PendingIn(journal', r.turn)
                /\ r.call # "none" => CallOf(r) \in journal'[Target[r.turn]].calls
<1>1. r.at = "live" => PendingIn(journal, r.turn)
  BY DEF DiskInv
<1>2. r.at = "live" => journal'[Target[r.turn]] = journal[Target[r.turn]]
  BY <1>1 DEF Elsewhere, PendingIn
<1>3. r.at = "live" => PendingIn(journal', r.turn)
  BY <1>1, <1>2 DEF Elsewhere, PendingIn
<1>4. r.at = "live" /\ r.call # "none" => CallOf(r) \in journal[Target[r.turn]].calls
  BY DEF DiskInv
<1> QED
  BY <1>2, <1>3, <1>4

\* A session that is free to begin a turn has no run at all.
LEMMA IdleIsFree ==
    ASSUME DiskInv, NEW s \in DOMAIN pool, ~Busy(s)
    PROVE  \A r \in running : Target[r.turn] # s
  BY DEF DiskInv, Busy, OnEntry, On

LEMMA MovesDisk ==
    ASSUME QueueIsOff, ~Recreate, BootTypeInv, QuietBoot, DiskInv, QuietMoves
    PROVE  DiskInv'
<1>1. ASSUME NEW s \in Sessions, CreateIs(s) PROVE DiskInv'
<2>1. \A r \in running : Target[r.turn] # s
  BY <1>1 DEF CreateIs, On
<2>2. /\ DOMAIN journal' = DOMAIN journal \cup {s} /\ DOMAIN pool' = DOMAIN pool \cup {s}
      /\ \A x \in DOMAIN journal \ {s} : journal'[x] = journal[x]
      /\ UNCHANGED running /\ stage' = "serving"
  BY <1>1 DEF CreateIs, Upsert
<2> QED
  BY <2>1, <2>2 DEF DiskInv, PendingIn
<1>2. ASSUME NEW s \in Sessions, DestroyIs(s) PROVE DiskInv'
<2>1. /\ DOMAIN journal' = DOMAIN journal \ {s} /\ DOMAIN pool' = DOMAIN pool \ {s}
      /\ \A x \in DOMAIN journal \ {s} : journal'[x] = journal[x]
      /\ stage' = "serving"
  BY <1>2 DEF DestroyIs, Without
<2>2. ASSUME NEW x \in running'
      PROVE  \/ x \in running /\ (x.at = "live" => Target[x.turn] # s)
             \/ /\ x.at = "destroyed" /\ Target[x.turn] = s /\ x.phase = "running"
                /\ \E r \in running : x.turn = r.turn
  BY <1>2, <2>2 DEF DestroyIs, DiskInv
<2>3. \A r1, r2 \in running' : Target[r1.turn] = Target[r2.turn] => r1 = r2
<3>1. SUFFICES ASSUME NEW x \in running', NEW y \in running', Target[x.turn] = Target[y.turn]
               PROVE  x = y
  OBVIOUS
<3>2. PICK r1 \in running :
        /\ x \in Runs /\ x.turn = r1.turn /\ x.phase = r1.phase /\ x.call = r1.call
        /\ x.again = r1.again /\ x.oneShot = r1.oneShot
        /\ Target[r1.turn] = s /\ r1.at = "live" => x.at = "destroyed"
        /\ ~(Target[r1.turn] = s /\ r1.at = "live") => x = r1
  BY <1>2 DEF DestroyIs
<3>3. PICK r2 \in running :
        /\ y \in Runs /\ y.turn = r2.turn /\ y.phase = r2.phase /\ y.call = r2.call
        /\ y.again = r2.again /\ y.oneShot = r2.oneShot
        /\ Target[r2.turn] = s /\ r2.at = "live" => y.at = "destroyed"
        /\ ~(Target[r2.turn] = s /\ r2.at = "live") => y = r2
  BY <1>2 DEF DestroyIs
<3>4. r1 = r2
  BY <3>1, <3>2, <3>3 DEF DiskInv
<3>5. x.at = y.at
  BY <3>2, <3>3, <3>4
<3> QED
  BY <3>2, <3>3, <3>4, <3>5 DEF Runs
<2>4. \A x \in running' : x.phase = "running" /\ x.at \in {"live", "destroyed"}
  BY <2>2 DEF DiskInv
<2>5. \A x \in running' : x.at = "live" =>
          /\ PendingIn(journal', x.turn)
          /\ x.call # "none" => CallOf(x) \in journal'[Target[x.turn]].calls
  BY <2>1, <2>2 DEF DiskInv, PendingIn
<2>6. \A x \in running' : x.at = "destroyed" =>
          Target[x.turn] \notin DOMAIN pool' /\ Target[x.turn] \notin DOMAIN journal'
  BY <2>1, <2>2 DEF DiskInv
<2> QED
  BY <2>1, <2>3, <2>4, <2>5, <2>6 DEF DiskInv
<1>3. ASSUME NEW s \in Sessions, SettleIs(s) PROVE DiskInv'
  BY <1>3 DEF SettleIs, QuietBoot, DiskInv, Elsewhere
<1>4. ASSUME NEW s \in Sessions, ContinueIs(s) PROVE DiskInv'
<2>1. /\ Elsewhere(journal, journal', s) /\ DOMAIN pool' = DOMAIN pool
      /\ toResume' = toResume \ {s} /\ stage = "continuing"
      /\ \A r \in running : Target[r.turn] # s
      /\ Target[journal[s].turn] = s /\ s \in DOMAIN journal
  BY <1>4 DEF ContinueIs, SkipIs, GivenUpIs, RefusedIs, ContinuedIs, AttemptIs, Grows, DiskInv, Elsewhere
<2>2. ASSUME UNCHANGED running PROVE DiskInv'
<3>1. \A r \in running : r.at = "live" =>
          /\ PendingIn(journal', r.turn)
          /\ r.call # "none" => CallOf(r) \in journal'[Target[r.turn]].calls
  BY <2>1, OthersStay
<3> QED
  BY <2>1, <2>2, <3>1 DEF DiskInv, Elsewhere
<2>3. ASSUME NEW q, ContinuedIs(s, q) PROVE DiskInv'
<3>1. ~Busy(s)
  BY <2>1 DEF Busy, OnEntry, On
<3>2. /\ running' = running \cup {q} /\ q.phase = "running" /\ q.at = "live"
      /\ q.call = "none" /\ q.turn = journal[s].turn /\ journal'[s].turn = journal[s].turn
  BY <2>3, <3>1 DEF ContinuedIs, AttemptIs
<3>3. PendingIn(journal', q.turn)
  BY <2>1, <3>2 DEF PendingIn, Elsewhere
<3>4. \A r \in running : r.at = "live" =>
          /\ PendingIn(journal', r.turn)
          /\ r.call # "none" => CallOf(r) \in journal'[Target[r.turn]].calls
  BY <2>1, OthersStay
<3> QED
  BY <2>1, <3>2, <3>3, <3>4 DEF DiskInv, Elsewhere
<2> QED
  BY <1>4, <2>2, <2>3 DEF ContinueIs, SkipIs, GivenUpIs, RefusedIs
<1>5. ASSUME NEW t \in Turns, SendIs(t) PROVE DiskInv'
<2> DEFINE s == Target[t]
           q == Run(t, FALSE, "running", FALSE)
<2>1. /\ s \in DOMAIN pool /\ s \in DOMAIN journal /\ stage' = "serving"
      /\ \A r \in running : Target[r.turn] # s
  BY <1>5, IdleIsFree DEF SendIs, DiskInv
<2>2. /\ running' = running \cup {q} /\ q.phase = "running" /\ q.at = "live"
      /\ q.call = "none" /\ q.turn = t /\ DOMAIN pool' = DOMAIN pool
      /\ journal' = MarkTurnStart(journal, s, t)
  BY <1>5 DEF SendIs, Begins
<2>3. Elsewhere(journal, journal', s) /\ journal'[s].turn = t
<3>1. IsJournal(journal)
  BY TypesSplit DEF BootTypeInv
<3> QED
  BY <2>1, <2>2, <3>1, MarkTurnStartIs
<2> HIDE DEF q
<2>4. PendingIn(journal', t)
  BY <2>1, <2>3 DEF PendingIn, Elsewhere
<2>5. \A r \in running : r.at = "live" =>
          /\ PendingIn(journal', r.turn)
          /\ r.call # "none" => CallOf(r) \in journal'[Target[r.turn]].calls
  BY <2>1, <2>3, OthersStay
<2> QED
  BY <2>1, <2>2, <2>3, <2>4, <2>5 DEF DiskInv, Elsewhere
<1>6. ASSUME NEW r \in running, NEW q, ToolIs(r, q) PROVE DiskInv'
<2> DEFINE s == Target[r.turn]
<2>1. /\ running' = (running \ {r}) \cup {q} /\ q.turn = r.turn /\ q.phase = r.phase
      /\ q.at = r.at /\ Elsewhere(journal, journal', s) /\ UNCHANGED <<pool, stage>>
      /\ stage # "continuing"
      /\ s \in DOMAIN journal => journal'[s].turn = journal[s].turn
      /\ s \in DOMAIN journal /\ q.call # "none" => CallOf(q) \in journal'[s].calls
  BY <1>6 DEF ToolIs
<2>2. \A x \in running \ {r} : Target[x.turn] # s
  BY DEF DiskInv
<2>3. \A x \in running \ {r} : x.at = "live" =>
          /\ PendingIn(journal', x.turn)
          /\ x.call # "none" => CallOf(x) \in journal'[Target[x.turn]].calls
  BY <2>1, <2>2, OthersStay
<2>4. q.at = "live" => /\ PendingIn(journal', q.turn)
                       /\ q.call # "none" => CallOf(q) \in journal'[Target[q.turn]].calls
  BY <2>1 DEF DiskInv, PendingIn, Elsewhere
<2> QED
  BY <2>1, <2>2, <2>3, <2>4 DEF DiskInv, Elsewhere
<1>7. ASSUME NEW r \in running, CheckpointIs(r) PROVE DiskInv'
<2> DEFINE s == Target[r.turn]
<2>1. /\ Elsewhere(journal, journal', s) /\ UNCHANGED <<running, pool, stage>>
      /\ stage # "continuing" /\ s \in DOMAIN journal
      /\ journal'[s].turn = journal[s].turn /\ journal'[s].calls = journal[s].calls
  BY <1>7 DEF CheckpointIs
<2>2. \A x \in running : x.at = "live" =>
          /\ PendingIn(journal', x.turn)
          /\ x.call # "none" => CallOf(x) \in journal'[Target[x.turn]].calls
  BY <2>1 DEF DiskInv, PendingIn, Elsewhere
<2> QED
  BY <2>1, <2>2 DEF DiskInv, Elsewhere
<1>8. ASSUME NEW r \in running, TurnEndIs(r) PROVE DiskInv'
<2> DEFINE s == Target[r.turn]
<2>1. NextOf(r) = {} /\ LeftOf(r) = {}
<3>1. LeftOf(r) = {}
  BY DEF LeftOf, QueueIsOff
<3>2. \A w \in NextOf(r) : FALSE
  BY NextIs DEF DiskInv
<3> QED
  BY <3>1, <3>2
<2>2. /\ running' = running \ {r} /\ Elsewhere(journal, journal', s)
      /\ DOMAIN pool' = DOMAIN pool /\ UNCHANGED stage /\ stage # "continuing"
  BY <1>8, <2>1 DEF TurnEndIs, HandsOver, Grows, BootStarted
<2>3. \A x \in running' : Target[x.turn] # s
  BY <2>2 DEF DiskInv
<2>4. \A x \in running' : x.at = "live" =>
          /\ PendingIn(journal', x.turn)
          /\ x.call # "none" => CallOf(x) \in journal'[Target[x.turn]].calls
  BY <2>2, <2>3, OthersStay
<2> QED
  BY <2>2, <2>4 DEF DiskInv, Elsewhere
<1>9. CASE CrashIs
  BY <1>9 DEF CrashIs, DiskInv
<1>10. CASE StageIs
  BY <1>10 DEF StageIs, DiskInv, QuietBoot
<1>11. ASSUME NEW lost, NEW broken, ResumeIs(lost, broken) PROVE DiskInv'
  BY <1>11 DEF ResumeIs, DiskInv, QuietBoot
<1>12. CASE LimitIs
  BY <1>12 DEF LimitIs, DiskInv, PendingIn
<1> QED
  BY <1>1, <1>2, <1>3, <1>4, <1>5, <1>6, <1>7, <1>8, <1>9, <1>10, <1>11, <1>12 DEF QuietMoves

(* With the queue off, and when an id is not created anew while its old turn
   still ends, every turn that runs on a live session is on disk as that
   session's pending turn, and every tool call of it as a call in flight. *)
THEOREM WhatRunsIsOnDisk ==
    ASSUME QueueIsOff, ~Recreate
    PROVE  BootSpec => []RunningTurnsAreOnDisk
<1>1. BootInit => BootTypeInv /\ PendingInv /\ QuietBoot /\ DiskInv
<2>1. BootInit => PendingInv /\ DiskInv
  BY DEF BootInit, PendingInv, DiskInv
<2> QED
  BY <2>1, InitTypes, Quiet
<1>2. BootTypeInv /\ PendingInv /\ QuietBoot /\ DiskInv /\ [BootNext]_bootVars
        => BootTypeInv' /\ PendingInv' /\ QuietBoot' /\ DiskInv'
<2> SUFFICES ASSUME BootTypeInv, PendingInv, QuietBoot, DiskInv, [BootNext]_bootVars
             PROVE  DiskInv'
  BY Steps, Quiet
<2>1. CASE UNCHANGED bootVars
  BY <2>1 DEF bootVars, DiskInv, PendingIn
<2> QED
  BY <2>1, Quiet, MovesDisk
<1>3. DiskInv => RunningTurnsAreOnDisk
  BY DEF DiskInv, PendingIn, RunningTurnsAreOnDisk
<1> QED
  BY <1>1, <1>2, <1>3, PTL DEF BootSpec

-----------------------------------------------------------------------------
(* The warning of a cut write. *)

WriteIn(C, t) == \E c \in C : c.turn = t /\ c.kind = "write"
NotedIn(p, t) == Target[t] \in DOMAIN p /\ Note(t) \in p[Target[t]].history

(* Where the warning of a turn is while it waits for its only continuation: in
   the journal, in what the boot has read of it, or in the conversation. *)
WarningIs(t) ==
    LET s == Target[t]
    IN  /\ s \notin DOMAIN pool => WriteIn(journal[s].calls, t)
        /\ s \in DOMAIN pool =>
              \/ stage = "settling" /\ s \in DOMAIN toSettle /\ WriteIn(toSettle[s], t)
              \/ stage = "settling" /\ NotedIn(pool, t)
              \/ stage = "continuing" /\ s \in toResume /\ NotedIn(pool, t)

BootCutInv ==
    /\ cut \subseteq sent
    /\ \A t \in cut :
          PendingIn(journal, t) /\ journal[Target[t]].attempts = 0 => WarningIs(t)
    /\ \A r \in running :
          r.again /\ r.turn \in cut /\ r.at = "live" => NotedIn(pool, r.turn)

\* A step that leaves the pending entries, and the sessions without one, as they were.
LEMMA WarningStays ==
    ASSUME BootCutInv, NEW t \in cut, WarningIs(t), PendingIn(journal, t),
           UNCHANGED <<stage, toSettle>>,
           Target[t] \in DOMAIN pool' <=> Target[t] \in DOMAIN pool,
           Target[t] \in toResume => Target[t] \in toResume',
           Target[t] \in DOMAIN pool => pool[Target[t]].history \subseteq pool'[Target[t]].history,
           Target[t] \notin DOMAIN pool => journal'[Target[t]] = journal[Target[t]]
    PROVE  WarningIs(t)'
  BY DEF WarningIs, NotedIn, WriteIn

\* While a run is live on a session, no warning waits for that session.
LEMMA NoWarningWhereItRuns ==
    ASSUME BootTypeInv, QuietBoot, DiskInv, BootCutInv, stage # "continuing",
           NEW r \in running, NEW t \in cut, PendingIn(journal, t),
           journal[Target[t]].attempts = 0
    PROVE  Target[t] # Target[r.turn]
<1>1. WarningIs(t)
  BY DEF BootCutInv
<1>2. stage # "settling"
  BY DEF QuietBoot
<1>3. Target[t] \notin DOMAIN pool
  BY <1>1, <1>2 DEF WarningIs
<1>4. r.at = "live" => Target[r.turn] \in DOMAIN pool
  BY DEF BootTypeInv, LiveOnesAreInThePool, DiskInv
<1>5. r.at = "destroyed" => Target[r.turn] \notin DOMAIN journal
  BY DEF DiskInv
<1>6. r.at \in {"live", "destroyed"}
  BY DEF DiskInv
<1> QED
  BY <1>3, <1>4, <1>5, <1>6 DEF PendingIn

LEMMA MovesCut ==
    ASSUME QueueIsOff, ~Recreate, ~BootCrashes, MaxAttempts <= 1,
           BootTypeInv, BootTypeInv', BoundInv, QuietBoot, DiskInv, BootCutInv, QuietMoves
    PROVE  BootCutInv'
<1> DEFINE Pend(t) == PendingIn(journal, t) /\ journal[Target[t]].attempts = 0
           Pend1(t) == PendingIn(journal', t) /\ journal'[Target[t]].attempts = 0
           Warned1 == \A r \in running' :
                         r.again /\ r.turn \in cut' /\ r.at = "live" => NotedIn(pool', r.turn)
<1>1. /\ cut \subseteq Turns /\ cut \subseteq sent /\ NoTurn \notin Turns
      /\ \A t \in cut : Pend(t) => WarningIs(t)
      /\ \A r \in running : r.again /\ r.turn \in cut /\ r.at = "live" => NotedIn(pool, r.turn)
  BY BootAssumption DEF BootCutInv, BootTypeInv, BootTypeOK
<1>2. ASSUME cut' \subseteq sent', \A t \in cut' : Pend1(t) => WarningIs(t)', Warned1
      PROVE  BootCutInv'
  BY <1>2 DEF BootCutInv
<1>3. ASSUME NEW s \in Sessions, CreateIs(s) PROVE BootCutInv'
<2>1. /\ DOMAIN journal' = DOMAIN journal \cup {s} /\ DOMAIN pool' = DOMAIN pool \cup {s}
      /\ journal'[s] = FreshEntry /\ s \notin DOMAIN pool
      /\ \A x \in DOMAIN journal \ {s} : journal'[x] = journal[x]
      /\ \A x \in DOMAIN pool : pool'[x] = pool[x]
      /\ UNCHANGED <<running, stage, cut, sent, toResume, toSettle>>
  BY <1>3 DEF CreateIs, Upsert
<2>2. ASSUME NEW t \in cut, Pend1(t) PROVE WarningIs(t)'
<3>1. Target[t] # s /\ t # NoTurn
  BY <1>1, <2>1, <2>2, FreshIs DEF PendingIn
<3>2. Pend(t) /\ WarningIs(t)
  BY <1>1, <2>1, <2>2, <3>1 DEF PendingIn
<3> QED
  BY <2>1, <3>1, <3>2, WarningStays DEF PendingIn
<2>3. Warned1
  BY <1>1, <2>1 DEF NotedIn
<2> QED
  BY <1>1, <1>2, <2>1, <2>2, <2>3
<1>4. ASSUME NEW s \in Sessions, DestroyIs(s) PROVE BootCutInv'
<2>1. /\ DOMAIN journal' = DOMAIN journal \ {s} /\ DOMAIN pool' = DOMAIN pool \ {s}
      /\ \A x \in DOMAIN journal \ {s} : journal'[x] = journal[x]
      /\ \A x \in DOMAIN pool \ {s} : pool'[x] = pool[x]
      /\ UNCHANGED <<stage, cut, sent, toResume, toSettle>>
  BY <1>4 DEF DestroyIs, Without
<2>2. ASSUME NEW t \in cut, Pend1(t) PROVE WarningIs(t)'
<3>1. Target[t] # s
  BY <2>1, <2>2 DEF PendingIn
<3>2. Pend(t) /\ WarningIs(t)
  BY <1>1, <2>1, <2>2, <3>1 DEF PendingIn
<3> QED
  BY <2>1, <3>1, <3>2, WarningStays DEF PendingIn
<2>3. \A x \in running' : x.at = "live" => x \in running /\ Target[x.turn] # s
  BY <1>4 DEF DestroyIs
<2>4. Warned1
  BY <1>1, <2>1, <2>3 DEF NotedIn
<2> QED
  BY <1>1, <1>2, <2>1, <2>2, <2>4
<1>5. ASSUME NEW s \in Sessions, SettleIs(s) PROVE BootCutInv'
<2>1. /\ stage = "settling" /\ s \in DOMAIN toSettle /\ toSettle' = Without(toSettle, s)
      /\ DOMAIN pool' = DOMAIN pool /\ UNCHANGED <<stage, cut, sent, running, toResume>>
      /\ \A x \in DOMAIN pool \ {s} : pool'[x] = pool[x]
      /\ Elsewhere(journal, journal', s)
      /\ s \in DOMAIN journal => /\ journal'[s].turn = journal[s].turn
                                 /\ journal'[s].attempts = journal[s].attempts
      /\ s \in DOMAIN pool => pool'[s].history = pool[s].history \cup Notes(toSettle[s])
      /\ s \notin DOMAIN pool => UNCHANGED journal
  BY <1>5 DEF SettleIs, Elsewhere
<2>2. ASSUME NEW t \in cut, Pend1(t) PROVE WarningIs(t)'
<3>1. Pend(t) /\ WarningIs(t)
  BY <1>1, <2>1, <2>2 DEF PendingIn, Elsewhere
<3>2. CASE Target[t] \notin DOMAIN pool
<4>1. journal'[Target[t]] = journal[Target[t]]
  BY <2>1, <2>2, <3>1, <3>2 DEF PendingIn, Elsewhere
<4> QED
  BY <2>1, <3>1, <3>2, <4>1 DEF WarningIs, WriteIn
<3>3. CASE Target[t] \in DOMAIN pool /\ Target[t] # s
  BY <2>1, <3>1, <3>3 DEF WarningIs, WriteIn, NotedIn, Without
<3>4. CASE Target[t] \in DOMAIN pool /\ Target[t] = s
<4>1. WriteIn(toSettle[s], t) => Note(t) \in Notes(toSettle[s])
  BY DEF WriteIn, Notes
<4>2. NotedIn(pool', t)
  BY <2>1, <3>1, <3>4, <4>1 DEF WarningIs, NotedIn
<4> QED
  BY <2>1, <3>4, <4>2 DEF WarningIs
<3> QED
  BY <3>2, <3>3, <3>4
<2>3. Warned1
  BY <2>1 DEF QuietBoot
<2> QED
  BY <1>1, <1>2, <2>1, <2>2, <2>3
<1>6. ASSUME NEW s \in Sessions, ContinueIs(s) PROVE BootCutInv'
<2>1. /\ stage = "continuing" /\ s \in toResume /\ s \in DOMAIN journal
      /\ toResume' = toResume \ {s} /\ Elsewhere(journal, journal', s)
      /\ DOMAIN pool' = DOMAIN pool /\ UNCHANGED <<stage, cut, sent, toSettle>>
      /\ \A x \in DOMAIN pool : pool[x].history \subseteq pool'[x].history
      /\ s \notin DOMAIN pool => UNCHANGED journal
      /\ s \in DOMAIN pool => journal'[s].turn = NoTurn \/ journal'[s].attempts = journal[s].attempts + 1
  BY <1>6 DEF ContinueIs, SkipIs, GivenUpIs, RefusedIs, ContinuedIs, AttemptIs, Grows, Elsewhere
<2>2. ASSUME NEW t \in cut, Pend1(t) PROVE WarningIs(t)'
<3>1. journal[s].attempts \in Nat
  BY <2>1 DEF BootTypeInv, BootTypeOK, Entries
<3>2. Target[t] = s => s \notin DOMAIN pool
  BY <1>1, <2>1, <2>2, <3>1 DEF PendingIn
<3>3. PendingIn(journal, t) /\ journal'[Target[t]] = journal[Target[t]]
  BY <2>1, <2>2, <3>2 DEF PendingIn, Elsewhere
<3>4. WarningIs(t)
  BY <1>1, <2>2, <3>3
<3>5. CASE Target[t] = s
  BY <2>1, <3>2, <3>3, <3>4, <3>5 DEF WarningIs, WriteIn
<3>6. CASE Target[t] # s
  BY <2>1, <3>3, <3>4, <3>6, WarningStays
<3> QED
  BY <3>5, <3>6
<2>3. Warned1
<3>1. \A r \in running : r.again /\ r.turn \in cut /\ r.at = "live" => NotedIn(pool', r.turn)
  BY <1>1, <2>1 DEF NotedIn
<3>2. ASSUME NEW q, ContinuedIs(s, q), q.turn \in cut PROVE NotedIn(pool', q.turn)
<4>1. /\ s \in DOMAIN pool /\ q.turn = journal[s].turn /\ journal[s].attempts < MaxAttempts
      /\ Target[q.turn] = s
  BY <1>6, <3>2 DEF ContinuedIs, AttemptIs, ContinueIs
<4>2. journal[s].attempts = 0
  BY <2>1, <4>1, BootAssumption DEF BootTypeInv, BootTypeOK, Entries
<4>3. WarningIs(q.turn)
  BY <1>1, <2>1, <3>2, <4>1, <4>2 DEF PendingIn
<4>4. NotedIn(pool, q.turn)
  BY <2>1, <4>1, <4>3 DEF WarningIs
<4> QED
  BY <2>1, <4>4 DEF NotedIn
<3>3. UNCHANGED running \/ \E q : ContinuedIs(s, q) /\ running' = running \cup {q}
  BY <1>6 DEF ContinueIs, SkipIs, GivenUpIs, RefusedIs, ContinuedIs
<3> QED
  BY <2>1, <3>1, <3>2, <3>3
<2> QED
  BY <1>1, <1>2, <2>1, <2>2, <2>3
<1>7. ASSUME NEW u \in Turns, SendIs(u) PROVE BootCutInv'
<2> DEFINE s == Target[u]
           q == Run(u, FALSE, "running", FALSE)
<2>1. /\ u \notin sent /\ stage = "serving" /\ sent' = sent \cup {u}
      /\ s \in DOMAIN pool /\ s \in DOMAIN journal
      /\ UNCHANGED <<stage, cut, toSettle, toResume>>
      /\ running' = running \cup {q} /\ ~q.again
      /\ journal' = MarkTurnStart(journal, s, u)
      /\ pool' = [pool EXCEPT ![s].history = @ \cup {Said(u)}]
  BY <1>7 DEF SendIs, Begins, DiskInv
<2> HIDE DEF q
<2>2. Elsewhere(journal, journal', s) /\ journal'[s].turn = u
<3>1. IsJournal(journal)
  BY TypesSplit DEF BootTypeInv
<3> QED
  BY <2>1, <3>1, MarkTurnStartIs
<2>3. /\ DOMAIN pool' = DOMAIN pool
      /\ \A x \in DOMAIN pool : pool[x].history \subseteq pool'[x].history
<3>1. {Said(u)} \in SUBSET Facts /\ IsPool(pool)
  BY FactsAre, TypesSplit DEF BootTypeInv
<3>2. /\ DOMAIN pool' = DOMAIN pool
      /\ pool'[s].history = pool[s].history \cup {Said(u)}
      /\ \A x \in DOMAIN pool \ {s} : pool'[x] = pool[x]
  BY ZenonT(30), <2>1, <3>1, HistoryGrows
<3> QED
  BY <3>2
<2>4. ASSUME NEW t \in cut, Pend1(t) PROVE WarningIs(t)'
<3>1. Target[t] # s
  BY <1>1, <2>1, <2>2, <2>4 DEF PendingIn
<3>2. Pend(t) /\ WarningIs(t) /\ journal'[Target[t]] = journal[Target[t]]
  BY <1>1, <2>2, <2>4, <3>1 DEF PendingIn, Elsewhere
<3> QED
  BY <2>1, <2>3, <3>2, WarningStays
<2>5. Warned1
  BY <1>1, <2>1, <2>3 DEF NotedIn
<2> QED
  BY <1>1, <1>2, <2>1, <2>4, <2>5
<1>8. ASSUME NEW r \in running,
             \/ \E q : ToolIs(r, q)
             \/ CheckpointIs(r)
             \/ TurnEndIs(r)
      PROVE  BootCutInv'
<2> DEFINE s == Target[r.turn]
<2>1. /\ UNCHANGED <<stage, cut, sent, toSettle, toResume>> /\ stage # "continuing"
      /\ DOMAIN pool' = DOMAIN pool
      /\ \A x \in DOMAIN pool : pool[x].history \subseteq pool'[x].history
      /\ Elsewhere(journal, journal', s)
      /\ s \in DOMAIN journal =>
            \/ journal'[s].turn = NoTurn
            \/ /\ journal'[s].turn = journal[s].turn
               /\ journal'[s].attempts = journal[s].attempts
  BY <1>8 DEF ToolIs, CheckpointIs, TurnEndIs, Grows
<2>2. ASSUME NEW t \in cut, Pend1(t) PROVE WarningIs(t)'
<3>1. Pend(t)
  BY <1>1, <2>1, <2>2 DEF PendingIn, Elsewhere
<3>2. Target[t] # s
  BY <2>1, <3>1, NoWarningWhereItRuns
<3>3. WarningIs(t) /\ journal'[Target[t]] = journal[Target[t]]
  BY <1>1, <2>1, <3>1, <3>2 DEF PendingIn, Elsewhere
<3> QED
  BY <2>1, <3>1, <3>3, WarningStays
<2>3. \A x \in running' : x.again /\ x.at = "live" =>
         \E y \in running : y.turn = x.turn /\ y.again /\ y.at = "live"
<3>1. CASE \E q : ToolIs(r, q)
  BY <3>1 DEF ToolIs
<3>2. CASE CheckpointIs(r)
  BY <3>2 DEF CheckpointIs
<3>3. CASE TurnEndIs(r)
<4>1. LeftOf(r) = {}
  BY DEF LeftOf, QueueIsOff
<4>2. NextOf(r) = {}
<5>1. \A w \in NextOf(r) : FALSE
  BY NextIs DEF DiskInv
<5> QED
  BY <5>1
<4> QED
  BY <3>3, <4>1, <4>2 DEF TurnEndIs, HandsOver, BootStarted
<3> QED
  BY <1>8, <3>1, <3>2, <3>3
<2>4. Warned1
  BY <1>1, <2>1, <2>3 DEF NotedIn
<2> QED
  BY <1>1, <1>2, <2>1, <2>2, <2>4
<1>9. CASE CrashIs
<2>1. /\ stage = "serving" /\ DOMAIN pool' = {} /\ running' = {}
      /\ cut' = cut \cup {r.turn : r \in {x \in running : x.call = "write"}}
      /\ UNCHANGED <<journal, sent>>
  BY <1>9 DEF CrashIs
<2>2. cut' \subseteq sent'
<3>1. \A r \in running : r.turn \in Turns /\ r.turn \in sent
  BY DEF BootTypeInv, BootTypeOK, Runs, BoundInv, Untouched
<3> QED
  BY <1>1, <2>1, <3>1
<2>3. ASSUME NEW t \in cut', Pend1(t) PROVE WriteIn(journal[Target[t]].calls, t)
<3>1. CASE t \in cut
  BY <1>1, <2>1, <2>3, <3>1 DEF WarningIs
<3>2. ASSUME NEW r \in running, r.call = "write", t = r.turn
      PROVE  WriteIn(journal[Target[t]].calls, t)
<4>1. r.at = "live"
  BY <2>1, <2>3, <3>2 DEF DiskInv, PendingIn
<4>2. CallOf(r) \in journal[Target[t]].calls
  BY <3>2, <4>1 DEF DiskInv
<4>3. CallOf(r).turn = t /\ CallOf(r).kind = "write"
  BY <3>2 DEF CallOf
<4> QED
  BY <4>2, <4>3 DEF WriteIn
<3> QED
  BY <2>1, <3>1, <3>2
<2>4. \A t \in cut' : Pend1(t) => WarningIs(t)'
  BY <2>1, <2>3 DEF WarningIs
<2> QED
  BY <1>2, <2>1, <2>2, <2>4
<1>10. CASE StageIs
<2>1. UNCHANGED <<journal, pool, running, toSettle, sent, cut>>
  BY <1>10 DEF StageIs
<2>2. ASSUME NEW t \in cut, Pend1(t) PROVE WarningIs(t)'
<3>1. Pend(t) /\ WarningIs(t) /\ t # NoTurn
  BY <1>1, <2>1, <2>2 DEF PendingIn
<3>2. /\ stage = "settling" => /\ DOMAIN toSettle = {} /\ stage' = "continuing"
                               /\ Target[t] \in toResume'
      /\ stage = "continuing" => toResume = {}
      /\ stage = "down" => DOMAIN pool = {}
      /\ stage \in {"settling", "continuing", "down"}
  BY <1>10, <3>1 DEF StageIs, Interrupted, PendingIn, QuietBoot
<3> QED
  BY <2>1, <3>1, <3>2 DEF WarningIs, NotedIn, WriteIn
<2>3. Warned1
  BY <1>1, <2>1
<2> QED
  BY <1>1, <1>2, <2>1, <2>2, <2>3
<1>11. ASSUME NEW lost, NEW broken, ResumeIs(lost, broken) PROVE BootCutInv'
<2>1. /\ stage = "constructed" /\ stage' = "settling" /\ DOMAIN pool = {}
      /\ UNCHANGED <<journal, cut, sent>> /\ running' = {}
      /\ DOMAIN pool' = DOMAIN journal \ lost
      /\ DOMAIN toSettle' = {s \in DOMAIN journal : journal[s].calls # {}}
      /\ \A s \in DOMAIN toSettle' : toSettle'[s] = journal[s].calls
  BY <1>11 DEF ResumeIs, QuietBoot
<2>2. ASSUME NEW t \in cut, Pend1(t) PROVE WarningIs(t)'
<3>1. Pend(t) /\ WarningIs(t)
  BY <1>1, <2>1, <2>2
<3>2. WriteIn(journal[Target[t]].calls, t) /\ Target[t] \in DOMAIN journal
  BY <2>1, <3>1 DEF WarningIs, PendingIn
<3>3. Target[t] \in DOMAIN toSettle' /\ WriteIn(toSettle'[Target[t]], t)
  BY <2>1, <3>2 DEF WriteIn
<3> QED
  BY <2>1, <3>2, <3>3 DEF WarningIs
<2> QED
  BY <1>1, <1>2, <2>1, <2>2
<1>12. CASE LimitIs
<2>1. /\ UNCHANGED <<journal, stage, pool, running, toSettle, toResume, cut>>
      /\ sent \subseteq sent'
  BY <1>12 DEF LimitIs
<2>2. Warned1
  BY <1>1, <2>1
<2>3. \A t \in cut' : Pend1(t) => WarningIs(t)'
  BY <1>1, <2>1 DEF WarningIs, PendingIn
<2> QED
  BY <1>1, <1>2, <2>1, <2>2, <2>3
<1> QED
  BY <1>3, <1>4, <1>5, <1>6, <1>7, <1>8, <1>9, <1>10, <1>11, <1>12 DEF QuietMoves

(* When no boot is cut itself and a turn is continued at most once, the
   continuation of a turn that was cut in the middle of a write always runs on
   a conversation that says so. *)
THEOREM CutWritesAreWarned ==
    ASSUME QueueIsOff, ~Recreate, ~BootCrashes, MaxAttempts <= 1
    PROVE  BootSpec => []EveryCutWriteIsWarned
<1>1. BootInit => BootTypeInv /\ PendingInv /\ BoundInv /\ QuietBoot /\ DiskInv /\ BootCutInv
<2>1. BootInit => PendingInv /\ DiskInv /\ BootCutInv
  BY DEF BootInit, PendingInv, DiskInv, BootCutInv
<2> QED
  BY <2>1, InitTypes, Bounded, Quiet
<1>2. BootTypeInv /\ PendingInv /\ BoundInv /\ QuietBoot /\ DiskInv /\ BootCutInv /\ [BootNext]_bootVars
        => BootTypeInv' /\ PendingInv' /\ BoundInv' /\ QuietBoot' /\ DiskInv' /\ BootCutInv'
<2> SUFFICES ASSUME BootTypeInv, PendingInv, BoundInv, QuietBoot, DiskInv, BootCutInv, [BootNext]_bootVars
             PROVE  BoundInv' /\ DiskInv' /\ BootCutInv'
  BY Steps, Quiet
<2>1. CASE UNCHANGED bootVars
  BY <2>1, Bounded DEF bootVars, DiskInv, BootCutInv, PendingIn, WarningIs, NotedIn
<2>2. CASE QuietMoves
  BY <2>2, Steps, Bounded, MovesDisk, MovesCut
<2> QED
  BY <2>1, <2>2, Quiet
<1>3. BootCutInv => EveryCutWriteIsWarned
  BY DEF BootCutInv, NotedIn, EveryCutWriteIsWarned
<1> QED
  BY <1>1, <1>2, <1>3, PTL DEF BootSpec

-----------------------------------------------------------------------------
(***************************************************************************)
(* The floor of a huddle, for any officers, humans, roster and budgets: it *)
(* is held for a bounded time by whoever's turn it is, and a round has     *)
(* everyone speak once.                                                    *)
(*                                                                         *)
(* What makes the rounds fair is a relation between the ring and the       *)
(* history: those who stand ahead of ringPos are waiting, and those who    *)
(* wait stand ahead, or were passed by.  Raised hands, cuts and timeouts   *)
(* leave it alone; whoever joins or leaves shifts both sides.              *)
(***************************************************************************)

People == Officers \cup Humans
AllOff == [n \in TimerNames |-> Off]
IsRing(s) == s \in Seq(People) /\ IsInjective(s)
AreHands(s) == s \in Seq(Humans) /\ Len(s) <= RaiseQueueMax /\ IsInjective(s)

\* Who still comes in this round.
Ahead(rg, pos) == {rg[i] : i \in pos + 1 .. Len(rg)}
Fair(rg, pos, left, gone) ==
    /\ Ahead(rg, pos) \subseteq left
    /\ left \subseteq Ahead(rg, pos) \cup gone

\* The turn says what its holder said, and has the timers of its phase.
TurnIsTimed ==
    /\ turn \in HuddleTurns /\ turn.said \subseteq {turn.id, turn.holder}
    /\ timers \in [TimerNames -> Nat \cup {Off}]
    /\ timers.maxTurn # Off /\ timers.wallClock # Off
    /\ turn.holder \in Officers =>
          timers[IF turn.speaking THEN "speak" ELSE "prepare"] # Off
    /\ timers.chairHuman # Off => turn.seat = "chair"

AtTheTurn(rg, pos) ==
    turn.seat = "ring" /\ ~turn.interject => pos < Len(rg) /\ turn.holder = rg[pos + 1]

OpenInv ==
    /\ TurnIsTimed /\ AtTheTurn(ring, ringPos)
    /\ Fair(ring, ringPos, waiting, passed)
    /\ round < MaxRounds

FloorInv ==
    /\ FloorTypeOK /\ IsFiniteSet(awaited)
    /\ huddle = "open" => OpenInv
    /\ huddle # "open" => turn = NoHolder /\ timers = AllOff
    /\ huddle = "idle" => round = 0

\* The chair is granted after the ring, not while it still has someone ahead.
ChairComesLast ==
    Granted /\ turn'.seat = "chair" /\ (turn = NoHolder \/ turn.seat = "ring")
        => Len(ring') <= ringPos'

-----------------------------------------------------------------------------
(* Numbers and sequences. *)

LEMMA LeastOf ==
    ASSUME NEW S, S \subseteq Nat, S # {}
    PROVE  \E m \in S : \A y \in S : m <= y
<1> DEFINE Less == {ss \in Nat \X Nat : ss[1] < ss[2]}
<1>1. IsWellFoundedOn(Less, Nat)
  BY NatLessThanWellFounded DEF OpToRel
<1>2. PICK x \in S : \A y \in S : <<y, x>> \notin Less
  BY <1>1, WFMin
<1>3. \A y \in S : x <= y
  <2>1. SUFFICES ASSUME NEW y \in S PROVE ~ (y < x)
    OBVIOUS
  <2>2. <<y, x>> \in Nat \X Nat
    BY <2>1
  <2> QED
    BY <1>2, <2>2
<1> QED
  BY <1>3

LEMMA RemoveAtIs ==
    ASSUME NEW S, NEW s \in Seq(S), NEW i \in 1 .. Len(s)
    PROVE  /\ RemoveAt(s, i) \in Seq(S)
           /\ Len(RemoveAt(s, i)) = Len(s) - 1
           /\ \A j \in 1 .. Len(s) - 1 : RemoveAt(s, i)[j] = s[IF j < i THEN j ELSE j + 1]
<1> DEFINE a == SubSeq(s, 1, i - 1)
           b == SubSeq(s, i + 1, Len(s))
<1>0. /\ i \in Int /\ i - 1 \in Int /\ i + 1 \in Int /\ Len(s) \in Int
      /\ \A j \in 1 .. i - 1 : s[j] \in S
      /\ \A j \in i + 1 .. Len(s) : s[j] \in S
  OBVIOUS
<1>1. a \in Seq(S) /\ Len(a) = i - 1 /\ \A j \in 1 .. i - 1 : a[j] = s[j]
  <2>1. /\ a \in Seq(S) /\ Len(a) = IF 1 <= i - 1 THEN i - 1 - 1 + 1 ELSE 0
        /\ \A j \in 1 .. i - 1 - 1 + 1 : a[j] = s[1 + j - 1]
    BY <1>0, SubSeqProperties
  <2> QED BY <1>0, <2>1
<1>2. b \in Seq(S) /\ Len(b) = Len(s) - i /\ \A j \in 1 .. Len(s) - i : b[j] = s[i + j]
  <2>1. /\ b \in Seq(S) /\ Len(b) = IF i + 1 <= Len(s) THEN Len(s) - (i + 1) + 1 ELSE 0
        /\ \A j \in 1 .. Len(s) - (i + 1) + 1 : b[j] = s[i + 1 + j - 1]
    BY <1>0, SubSeqProperties
  <2> QED BY <1>0, <2>1
<1> HIDE DEF a, b
<1>3. a \o b \in Seq(S) /\ Len(a \o b) = Len(s) - 1
  <2>1. a \o b \in Seq(S) /\ Len(a \o b) = Len(a) + Len(b)
    BY <1>1, <1>2, ConcatProperties
  <2> QED BY <1>0, <1>1, <1>2, <2>1
<1>4. ASSUME NEW j \in 1 .. Len(s) - 1
      PROVE  (a \o b)[j] = s[IF j < i THEN j ELSE j + 1]
  <2>1. (a \o b)[j] = IF j <= Len(a) THEN a[j] ELSE b[j - Len(a)]
    BY <1>1, <1>2, <1>3
  <2>2. CASE j < i
    BY <1>1, <2>1, <2>2
  <2>3. CASE ~(j < i)
    <3>1. j - (i - 1) \in 1 .. Len(s) - i
      BY <2>3
    <3>2. j - (i - 1) = j - Len(a) /\ i + (j - (i - 1)) = j + 1 /\ ~(j <= Len(a))
      BY <1>1, <2>3
    <3>3. b[j - (i - 1)] = s[i + (j - (i - 1))]
      BY <1>2, <3>1
    <3> QED
      BY <2>1, <2>3, <3>2, <3>3
  <2> QED BY <2>2, <2>3
<1> QED
  BY <1>3, <1>4 DEF RemoveAt, a, b

LEMMA RemoveAtInjective ==
    ASSUME NEW S, NEW s \in Seq(S), IsInjective(s), NEW i \in 1 .. Len(s)
    PROVE  IsInjective(RemoveAt(s, i))
<1> DEFINE t == RemoveAt(s, i)
<1>1. /\ t \in Seq(S) /\ Len(t) = Len(s) - 1
      /\ \A j \in 1 .. Len(s) - 1 : t[j] = s[IF j < i THEN j ELSE j + 1]
  BY RemoveAtIs
<1> HIDE DEF t
<1>2. SUFFICES ASSUME NEW j \in 1 .. Len(s) - 1, NEW k \in 1 .. Len(s) - 1, t[j] = t[k]
               PROVE  j = k
  BY <1>1 DEF IsInjective, t
<1> DEFINE From(n) == IF n < i THEN n ELSE n + 1
<1>3. From(j) \in DOMAIN s /\ From(k) \in DOMAIN s /\ s[From(j)] = s[From(k)]
  BY SMTT(30), <1>1, <1>2
<1>4. From(j) = From(k)
  BY <1>3 DEF IsInjective
<1> QED BY <1>4

LEMMA RemoveFirstHands ==
    ASSUME NEW s, AreHands(s), NEW e
    PROVE  AreHands(RemoveFirst(s, e))
<1>1. CASE \E i \in 1 .. Len(s) : s[i] = e
  <2> DEFINE I == {i \in 1 .. Len(s) : s[i] = e}
             k == SelectInSeq(s, LAMBDA v : v = e)
  <2>1. I # {} /\ I \subseteq Nat
    BY <1>1
  <2>2. k \in I
    <3>1. PICK m \in I : \A y \in I : m <= y
      BY <2>1, LeastOf
    <3>2. Min(I) \in I
      BY <3>1 DEF Min
    <3>3. k = Min(I)
      BY <2>1 DEF SelectInSeq
    <3> QED BY <3>2, <3>3
  <2> HIDE DEF k
  <2>3. s \in Seq(Humans) /\ IsInjective(s) /\ k \in 1 .. Len(s)
    BY <2>2 DEF AreHands
  <2>4. RemoveFirst(s, e) = RemoveAt(s, k)
    BY <1>1 DEF RemoveFirst, k
  <2> QED
    BY SMTT(30), <2>3, <2>4, RemoveAtIs, RemoveAtInjective, FloorAssumption DEF AreHands
<1>2. CASE ~ \E i \in 1 .. Len(s) : s[i] = e
  BY <1>2 DEF RemoveFirst
<1> QED BY <1>1, <1>2

LEMMA TailHands ==
    ASSUME NEW s, AreHands(s), s # <<>>
    PROVE  AreHands(Tail(s)) /\ Head(s) \in Humans
<1>1. s \in Seq(Humans)
  BY DEF AreHands
<1>2. /\ Tail(s) \in Seq(Humans) /\ Len(Tail(s)) = Len(s) - 1 /\ Head(s) \in Humans
      /\ \A i \in 1 .. Len(s) - 1 : Tail(s)[i] = s[i + 1]
  BY <1>1, HeadTailProperties
<1>3. IsInjective(Tail(s))
  <2>1. SUFFICES ASSUME NEW j \in 1 .. Len(s) - 1, NEW k \in 1 .. Len(s) - 1,
                        Tail(s)[j] = Tail(s)[k]
                 PROVE  j = k
    BY <1>2 DEF IsInjective
  <2>2. s[j + 1] = s[k + 1] /\ j + 1 \in DOMAIN s /\ k + 1 \in DOMAIN s
    BY <1>1, <1>2, <2>1
  <2>3. j + 1 = k + 1
    BY <2>2 DEF AreHands, IsInjective
  <2> QED BY <2>3
<1>4. Len(s) <= RaiseQueueMax /\ Len(s) \in Nat /\ RaiseQueueMax \in Nat
  BY <1>1, FloorAssumption DEF AreHands
<1> QED BY <1>2, <1>3, <1>4 DEF AreHands

LEMMA AppendInjectiveSeq ==
    ASSUME NEW S, NEW s \in Seq(S), IsInjective(s), NEW p \in S, p \notin ToSet(s)
    PROVE  Append(s, p) \in Seq(S) /\ IsInjective(Append(s, p))
<1>1. /\ Append(s, p) \in Seq(S) /\ Len(Append(s, p)) = Len(s) + 1
      /\ \A i \in 1 .. Len(s) : Append(s, p)[i] = s[i]
      /\ Append(s, p)[Len(s) + 1] = p
  BY AppendProperties
<1>2. \A i \in 1 .. Len(s) : s[i] # p
  BY DEF ToSet
<1>3. IsInjective(Append(s, p))
  BY <1>1, <1>2 DEF IsInjective
<1> QED BY <1>1, <1>3

-----------------------------------------------------------------------------
(* The ring that a huddle opens with. *)

Joined(o, rg, p) == IF p \in {o} \cup ToSet(rg) THEN rg ELSE Append(rg, p)

\* f[i] is what the first i of the roster make.
MakesRings(o, f, n) ==
    f = [i \in 0 .. n |-> IF i = 0 THEN <<>> ELSE Joined(o, f[i - 1], Roster[i])]

LEMMA JoinedIsRing ==
    ASSUME NEW o, NEW rg, IsRing(rg), NEW p \in People
    PROVE  IsRing(Joined(o, rg, p))
<1>1. rg \in Seq(People) /\ IsInjective(rg)
  BY DEF IsRing
<1>2. CASE p \in {o} \cup ToSet(rg)
  BY <1>2 DEF Joined, IsRing
<1>3. CASE p \notin {o} \cup ToSet(rg)
  <2>1. p \notin ToSet(rg) /\ Joined(o, rg, p) = Append(rg, p)
    BY <1>3 DEF Joined
  <2> QED BY <1>1, <2>1, AppendInjectiveSeq DEF IsRing
<1> QED BY <1>2, <1>3

LEMMA RingsAreMade ==
    ASSUME NEW o, NEW n \in Nat
    PROVE  \E f : MakesRings(o, f, n)
<1> DEFINE Bad == {m \in Nat : ~ \E f : MakesRings(o, f, m)}
<1>1. SUFFICES ASSUME Bad # {} PROVE FALSE
  OBVIOUS
<1>2. PICK m \in Bad : \A y \in Bad : m <= y
  BY <1>1, LeastOf
<1>3. CASE m = 0
  <2>1. MakesRings(o, [i \in 0 .. 0 |-> <<>>], 0)
    BY DEF MakesRings
  <2> QED BY <1>2, <1>3, <2>1
<1>4. CASE m # 0
  <2>1. m - 1 \in Nat /\ m - 1 \notin Bad
    BY <1>2, <1>4
  <2>2. PICK f : MakesRings(o, f, m - 1)
    BY <2>1
  <2> DEFINE g == [i \in 0 .. m |-> IF i = m THEN Joined(o, f[m - 1], Roster[m]) ELSE f[i]]
  <2>3. \A i \in 0 .. m : g[i] = IF i = 0 THEN <<>> ELSE Joined(o, g[i - 1], Roster[i])
    <3>1. SUFFICES ASSUME NEW i \in 0 .. m
                   PROVE  g[i] = IF i = 0 THEN <<>> ELSE Joined(o, g[i - 1], Roster[i])
      OBVIOUS
    <3>2. CASE i = m
      BY <1>4, <3>2
    <3>3. CASE i # m
      <4>1. i \in 0 .. m - 1 /\ g[i] = f[i] /\ (i # 0 => g[i - 1] = f[i - 1])
        BY <3>3
      <4>2. f[i] = IF i = 0 THEN <<>> ELSE Joined(o, f[i - 1], Roster[i])
        BY <2>2, <4>1 DEF MakesRings
      <4> QED BY <4>1, <4>2
    <3> QED BY <3>2, <3>3
  <2>4. MakesRings(o, g, m)
    <3> DEFINE h == [i \in 0 .. m |-> IF i = 0 THEN <<>> ELSE Joined(o, g[i - 1], Roster[i])]
    <3>1. g = h
      <4>1. \A i \in 0 .. m : g[i] = h[i]
        BY <2>3
      <4>2. g = [i \in 0 .. m |-> g[i]]
        OBVIOUS
      <4>3. h = [i \in 0 .. m |-> h[i]]
        OBVIOUS
      <4> HIDE DEF g, h
      <4> QED BY <4>1, <4>2, <4>3
    <3> QED BY <3>1 DEF MakesRings
  <2> QED BY <1>2, <2>4
<1> QED BY <1>3, <1>4

LEMMA MadeRings ==
    ASSUME NEW o, NEW f, MakesRings(o, f, Len(Roster))
    PROVE  IsRing(f[Len(Roster)])
<1> DEFINE Bad == {m \in 0 .. Len(Roster) : ~ IsRing(f[m])}
<1>0. Len(Roster) \in Nat /\ \A i \in 1 .. Len(Roster) : Roster[i] \in People
  BY FloorAssumption DEF People
<1>1. SUFFICES ASSUME Bad # {} PROVE FALSE
  BY <1>0
<1>2. PICK m \in Bad : \A y \in Bad : m <= y
  <2>1. Bad \subseteq Nat
    BY <1>0
  <2> QED BY <1>1, <2>1, LeastOf
<1>3. CASE m = 0
  <2>1. f[0] = <<>>
    BY <1>0 DEF MakesRings
  <2>2. IsRing(<<>>)
    BY DEF IsRing, IsInjective
  <2> QED BY <1>2, <1>3, <2>1, <2>2
<1>4. CASE m # 0
  <2>1. m - 1 \in 0 .. Len(Roster) /\ m \in 1 .. Len(Roster) /\ IsRing(f[m - 1])
    BY <1>0, <1>2, <1>4
  <2>2. f[m] = Joined(o, f[m - 1], Roster[m])
    BY <1>4, <2>1 DEF MakesRings
  <2> QED BY <1>0, <1>2, <2>1, <2>2, JoinedIsRing
<1> QED BY <1>3, <1>4

LEMMA RingIsRing == ASSUME NEW o PROVE IsRing(Ring(o))
<1>1. Len(Roster) \in Nat
  BY FloorAssumption
<1> DEFINE f == CHOOSE f : MakesRings(o, f, Len(Roster))
<1>2. MakesRings(o, f, Len(Roster))
  BY <1>1, RingsAreMade
<1>3. Ring(o) = f[Len(Roster)]
  BY DEF Ring, MakesRings, Joined
<1> HIDE DEF f
<1> QED BY <1>2, <1>3, MadeRings

-----------------------------------------------------------------------------
(* A turn starts. *)

LEMMA MaxTurnIsNat == MaxTurn \in Nat
  BY SMTT(30), FloorAssumption DEF MaxTurn, MaxOf

\* Of the ids, one is left: of the turns that are over at most MaxLate have something
\* to come.
LEMMA FreshIdIsFresh ==
    ASSUME FloorInv, NEW kept \in SUBSET awaited, Leftover(kept)
    PROVE  FreshId(kept) \in TurnIds /\ IsFiniteSet(kept)
<1> DEFINE ids == {c.turn : c \in kept}
           used == ids \cup {turn.id}
<1>1. IsFiniteSet(awaited) /\ Cardinality(awaited) \in Nat /\ MaxLate \in Nat
  BY FS_CardinalityType, FloorAssumption DEF FloorInv
<1>2. IsFiniteSet(kept) /\ Cardinality(kept) \in Nat /\ Cardinality(kept) <= MaxLate
  BY <1>1, FS_Subset, FS_CardinalityType DEF Leftover, MinOf
<1>3. IsFiniteSet(ids) /\ Cardinality(ids) <= Cardinality(kept) /\ Cardinality(ids) \in Nat
  <2> DEFINE f == [c \in kept |-> c.turn]
  <2>1. f \in Surjection(kept, ids)
    BY DEF Surjection
  <2> HIDE DEF f, ids
  <2>2. IsFiniteSet(ids) /\ Cardinality(ids) <= Cardinality(kept)
    BY <1>2, <2>1, FS_Surjection
  <2> QED BY <2>2, FS_CardinalityType
<1>4. IsFiniteSet(used) /\ Cardinality(used) <= MaxLate + 1 /\ Cardinality(used) \in Nat
  <2>1. /\ IsFiniteSet(used)
        /\ Cardinality(used) = IF turn.id \in ids THEN Cardinality(ids) ELSE Cardinality(ids) + 1
    BY <1>3, FS_AddElement
  <2> QED BY <1>1, <1>2, <1>3, <2>1
<1>5. Cardinality(TurnIds) = MaxLate + 2
  <2>1. Cardinality(1 .. MaxLate + 2) =
            IF 1 > MaxLate + 2 THEN 0 ELSE MaxLate + 2 - 1 + 1
    BY <1>1, FS_Interval
  <2> QED BY <1>1, <2>1 DEF TurnIds
<1>6. PICK i \in TurnIds : i \notin used
  <2>1. ASSUME TurnIds \subseteq used PROVE FALSE
    <3>1. Cardinality(TurnIds) <= Cardinality(used)
      BY <1>4, <2>1, FS_Subset
    <3> QED BY <1>1, <1>4, <1>5, <3>1
  <2> QED BY <2>1
<1>7. i \notin ids /\ (turn # NoHolder => i # turn.id)
  BY <1>6
<1> QED BY <1>2, <1>6, <1>7 DEF FreshId

\* What StartTurn leaves, whoever speaks.
TurnStarts(holder, seat, wallClock) ==
    /\ TurnIsTimed /\ timers.wallClock = wallClock
    /\ turn.holder = holder /\ turn.seat = seat
    /\ awaited \subseteq Awaited /\ IsFiniteSet(awaited)
    /\ huddle = "open"

LEMMA StartTurnDoes ==
    ASSUME FloorInv, NEW holder \in People, NEW seat \in {"ring", "chair"},
           NEW wallClock \in Nat,
           StartTurn(holder, seat, TRUE, wallClock) \/ StartTurn(holder, seat, FALSE, wallClock)
    PROVE  TurnStarts(holder, seat, wallClock)'
<1> DEFINE human == holder \in Humans
<1>1. PICK kept \in SUBSET awaited, id \in TurnIds :
         /\ IsFiniteSet(kept)
         /\ \/ turn' = [id |-> id, holder |-> holder, seat |-> seat, said |-> {},
                        interject |-> TRUE, speaking |-> human, heard |-> FALSE]
            \/ turn' = [id |-> id, holder |-> holder, seat |-> seat, said |-> {},
                        interject |-> FALSE, speaking |-> human, heard |-> FALSE]
         /\ timers' = TurnTimers(human, seat, wallClock)
         /\ awaited' = IF human THEN kept ELSE kept \cup {[turn |-> id, what |-> "text"]}
         /\ huddle' = "open"
  <2>1. PICK kept \in SUBSET awaited :
         /\ Leftover(kept)
         /\ \/ turn' = [id |-> FreshId(kept), holder |-> holder, seat |-> seat, said |-> {},
                        interject |-> TRUE, speaking |-> human, heard |-> FALSE]
            \/ turn' = [id |-> FreshId(kept), holder |-> holder, seat |-> seat, said |-> {},
                        interject |-> FALSE, speaking |-> human, heard |-> FALSE]
         /\ timers' = TurnTimers(human, seat, wallClock)
         /\ awaited' = IF human THEN kept
                       ELSE kept \cup {[turn |-> FreshId(kept), what |-> "text"]}
         /\ huddle' = "open"
    BY Zenon DEF StartTurn
  <2>2. FreshId(kept) \in TurnIds /\ IsFiniteSet(kept)
    BY <2>1, FreshIdIsFresh
  <2> QED BY <2>1, <2>2
<1>2. turn' \in HuddleTurns
  <2>1. id \in TurnIds /\ holder \in Officers \cup Humans /\ human \in BOOLEAN
    BY DEF People
  <2> HIDE DEF human
  <2>2. ASSUME NEW b \in BOOLEAN
        PROVE  [id |-> id, holder |-> holder, seat |-> seat, said |-> {},
                interject |-> b, speaking |-> human, heard |-> FALSE] \in HuddleTurns
    BY <2>1 DEF HuddleTurns
  <2> QED BY <1>1, <2>2
<1>3. turn'.said = {} /\ turn'.holder = holder /\ turn'.seat = seat /\ turn'.speaking = human
  BY <1>1
<1>4. /\ timers' \in [TimerNames -> Nat \cup {Off}]
      /\ timers'.maxTurn # Off /\ timers'.wallClock = wallClock /\ wallClock # Off
      /\ timers'.chairHuman # Off => seat = "chair"
      /\ ~human => timers'.prepare # Off
  <2>1. PrepareBudget \in Nat /\ Off \notin Nat
    BY FloorAssumption DEF Off
  <2>2. timers' = [prepare |-> IF human THEN Off ELSE PrepareBudget,
                   speak |-> Off,
                   maxTurn |-> MaxTurn,
                   chairHuman |-> IF human /\ seat = "chair" THEN PrepareBudget ELSE Off,
                   wallClock |-> wallClock]
    BY <1>1 DEF TurnTimers
  <2> QED BY <2>1, <2>2, MaxTurnIsNat DEF TimerNames
<1>5. holder \in Officers => ~human
  BY FloorAssumption
<1>6. awaited' \subseteq Awaited /\ IsFiniteSet(awaited')
  <2>1. awaited \subseteq Awaited
    BY DEF FloorInv, FloorTypeOK
  <2>2. [turn |-> id, what |-> "text"] \in Awaited
    BY DEF Awaited
  <2> QED BY <1>1, <2>1, <2>2, FS_AddElement DEF Awaited
<1> QED
  BY <1>1, <1>2, <1>3, <1>4, <1>5, <1>6 DEF TurnStarts, TurnIsTimed

\* What is granted after `pos' of the ring `rg'.
IsGranted(rg, pos, wallClock) ==
    /\ TurnIsTimed /\ timers.wallClock = wallClock
    /\ ringPos = pos /\ AtTheTurn(rg, pos)
    /\ turn.seat = "chair" => Len(rg) <= pos
    /\ AreHands(raised)
    /\ awaited \subseteq Awaited /\ IsFiniteSet(awaited)
    /\ huddle = "open"

LEMMA GrantDoes ==
    ASSUME FloorInv, NEW rg, IsRing(rg), NEW pos \in Nat, NEW hands, AreHands(hands),
           NEW who \in Humans, NEW since, NEW wallClock \in Nat,
           Grant(rg, pos, hands, who, since, wallClock)
    PROVE  IsGranted(rg, pos, wallClock)'
<1>0. rg \in Seq(People) /\ Len(rg) \in Nat
  BY DEF IsRing
<1>1. CASE /\ hands # <<>>
           /\ StartTurn(Head(hands), "ring", TRUE, wallClock)
           /\ raised' = Tail(hands)
  <2>1. AreHands(raised') /\ Head(hands) \in People
    BY <1>1, TailHands DEF People
  <2>2. TurnStarts(Head(hands), "ring", wallClock)'
    BY <1>1, <2>1, StartTurnDoes
  <2>3. turn'.interject
    BY <1>1 DEF StartTurn
  <2> QED BY <2>1, <2>2, <2>3 DEF Grant, TurnStarts, IsGranted, AtTheTurn
<1>2. CASE /\ hands = <<>> /\ pos < Len(rg)
           /\ StartTurn(rg[pos + 1], "ring", FALSE, wallClock)
           /\ raised' = hands
  <2>1. rg[pos + 1] \in People
    BY <1>0, <1>2
  <2>2. TurnStarts(rg[pos + 1], "ring", wallClock)'
    BY <1>2, <2>1, StartTurnDoes
  <2> QED BY <1>2, <2>2 DEF Grant, TurnStarts, IsGranted, AtTheTurn
<1>3. CASE /\ hands = <<>> /\ pos >= Len(rg)
           /\ StartTurn(Chair(who, since), "chair", FALSE, wallClock)
           /\ raised' = hands
  <2>1. Chair(who, since) \in People
    BY FloorAssumption DEF Chair, People
  <2>2. TurnStarts(Chair(who, since), "chair", wallClock)'
    BY <1>3, <2>1, StartTurnDoes
  <2> QED BY <1>0, <1>3, <2>2 DEF Grant, TurnStarts, IsGranted, AtTheTurn
<1> QED BY <1>1, <1>2, <1>3 DEF Grant

-----------------------------------------------------------------------------
(* A turn ends. *)

\* The variables no turn depends on.
OthersTyped ==
    /\ lastHuman \in Humans /\ away \in 0 .. PresenceTimeout + 1 /\ acts \in 0 .. MaxActs

LEMMA GrantedInv ==
    ASSUME NEW rg, IsRing(rg), NEW pos \in Nat, NEW wallClock \in Nat,
           IsGranted(rg, pos, wallClock)', ring' = rg, pos <= Len(rg) + 1,
           round' \in Nat, round' < MaxRounds, OthersTyped',
           Fair(rg, pos, waiting', passed'), waiting' \subseteq People, passed' \subseteq People
    PROVE  FloorInv' /\ ChairComesLast
<1>1. rg \in Seq(People) /\ IsInjective(rg) /\ Len(rg) \in Nat /\ pos \in 0 .. Len(rg) + 1
  BY DEF IsRing
<1>2. FloorTypeOK'
  <2>1. round' \in 0 .. MaxRounds
    BY SMTT(30), FloorAssumption
  <2>2. turn' \in HuddleTurns /\ timers' \in [TimerNames -> Nat \cup {Off}]
        /\ ringPos' = pos /\ AreHands(raised')
        /\ awaited' \subseteq Awaited /\ huddle' = "open"
    BY DEF IsGranted, TurnIsTimed
  <2> QED BY <1>1, <2>1, <2>2 DEF FloorTypeOK, AreHands, OthersTyped, People
<1>3. OpenInv'
  <2>1. TurnIsTimed' /\ AtTheTurn(rg, pos)' /\ ringPos' = pos
    BY DEF IsGranted
  <2>2. AtTheTurn(ring, ringPos)'
    BY <2>1 DEF AtTheTurn
  <2> QED BY <2>1, <2>2 DEF OpenInv
<1>4. ChairComesLast
  BY DEF ChairComesLast, IsGranted
<1>5. huddle' = "open" /\ IsFiniteSet(awaited')
  BY DEF IsGranted
<1> QED BY <1>2, <1>3, <1>4, <1>5 DEF FloorInv

\* The huddle is over.
LEMMA ClosedInv ==
    ASSUME FinishClosing, FloorInv, IsRing(ring'), ringPos' \in 0 .. Len(ring') + 1,
           round' \in 0 .. MaxRounds, AreHands(raised'), OthersTyped',
           waiting' \subseteq People, passed' \subseteq People
    PROVE  FloorInv' /\ ChairComesLast
<1>1. /\ huddle' = "closed" /\ turn' = NoHolder /\ timers' = AllOff /\ UNCHANGED awaited
  BY DEF FinishClosing, AllOff
<1>2. timers' \in [TimerNames -> Nat \cup {Off}]
  BY <1>1 DEF AllOff
<1>3. FloorTypeOK'
  BY <1>1, <1>2 DEF FloorInv, FloorTypeOK, IsRing, AreHands, OthersTyped, People
<1> QED BY <1>1, <1>3 DEF FloorInv, ChairComesLast, Granted

\* Who stands behind a holder that was dropped, after Release's `passed'.
PassedBy(rg, pos) ==
    IF turn.holder \in ToSet(rg) \/ pos >= Len(rg) THEN passed
    ELSE passed \cup {rg[pos + 1]}

NewRoundIsFair(rg) == Fair(rg, 0, ToSet(rg), {})

LEMMA RoundStartsFair == ASSUME NEW rg, IsRing(rg) PROVE NewRoundIsFair(rg)
<1>1. rg \in Seq(People) /\ Len(rg) \in Nat /\ DOMAIN rg = 1 .. Len(rg)
  BY DEF IsRing
<1> QED BY <1>1 DEF NewRoundIsFair, Fair, Ahead, ToSet

LEMMA ReleaseDoes ==
    ASSUME FloorInv, huddle = "open", NEW rg, IsRing(rg), NEW pos \in Nat,
           NEW hands, AreHands(hands), NEW left, left \subseteq People,
           NEW who \in Humans, NEW since, OthersTyped', ring' = rg,
           Release(rg, pos, hands, left, who, since),
           turn.interject => pos <= Len(rg) + 1 /\ Fair(rg, pos, left, passed),
           ~turn.interject /\ turn.seat = "ring" =>
              /\ pos <= Len(rg)
              /\ Fair(rg, pos + 1, left \ {turn.holder}, PassedBy(rg, pos))
    PROVE  FloorInv' /\ ChairComesLast
<1>1. OpenInv /\ round \in Nat /\ MaxRounds \in Nat /\ passed \subseteq People
  BY FloorAssumption DEF FloorInv, FloorTypeOK, People
<1>2. PICK clock \in Nat : round < MaxRounds /\ timers.wallClock = clock
  BY <1>1 DEF OpenInv, TurnIsTimed, TimerNames
<1>3. rg \in Seq(People) /\ Len(rg) \in Nat /\ ToSet(rg) \subseteq People
  BY DEF IsRing, ToSet
<1>4. CASE /\ turn.interject
           /\ Grant(rg, pos, hands, who, since, timers.wallClock)
           /\ waiting' = left
           /\ UNCHANGED <<round, passed>>
  <2>1. IsGranted(rg, pos, clock)'
    BY <1>2, <1>4, GrantDoes
  <2>2. Fair(rg, pos, waiting', passed') /\ pos <= Len(rg) + 1
    BY <1>4
  <2> QED BY <1>1, <1>2, <1>4, <2>1, <2>2, GrantedInv
<1>5. CASE /\ ~turn.interject /\ turn.seat = "ring"
           /\ Grant(rg, pos + 1, hands, who, since, timers.wallClock)
           /\ waiting' = left \ {turn.holder}
           /\ UNCHANGED round
           /\ passed' = PassedBy(rg, pos)
  <2>1. IsGranted(rg, pos + 1, clock)'
    BY <1>2, <1>5, GrantDoes
  <2>2. Fair(rg, pos + 1, waiting', passed') /\ pos + 1 <= Len(rg) + 1
    BY <1>3, <1>5
  <2>3. passed' \subseteq People /\ waiting' \subseteq People
    BY <1>1, <1>3, <1>5 DEF PassedBy
  <2>4. round' \in Nat /\ round' < MaxRounds /\ pos + 1 \in Nat
    BY <1>1, <1>2, <1>5
  <2> QED BY <1>2, <2>1, <2>2, <2>3, <2>4, GrantedInv
<1>6. CASE /\ turn.seat = "chair" /\ round' = round + 1 /\ NewRound(rg)
           /\ Over /\ FinishClosing /\ ringPos' = 0 /\ raised' = hands
  <2>1. round' \in 0 .. MaxRounds
    BY <1>1, <1>2, <1>6
  <2>2. waiting' \subseteq People /\ passed' \subseteq People
    BY <1>3, <1>6 DEF NewRound
  <2>3. ringPos' \in 0 .. Len(ring') + 1 /\ AreHands(raised') /\ IsRing(ring')
    BY <1>3, <1>6
  <2> QED BY <1>6, <2>1, <2>2, <2>3, ClosedInv
<1>7. CASE /\ turn.seat = "chair" /\ round' = round + 1 /\ NewRound(rg)
           /\ ~Over /\ Grant(rg, 0, hands, who, since, timers.wallClock)
  <2>1. IsGranted(rg, 0, clock)'
    BY <1>2, <1>7, GrantDoes
  <2>2. waiting' = ToSet(rg) /\ passed' = {}
    BY <1>7 DEF NewRound
  <2>3. Fair(rg, 0, waiting', passed')
    BY <2>2, RoundStartsFair DEF NewRoundIsFair
  <2>4. round' \in Nat /\ round' < MaxRounds
    BY <1>1, <1>7 DEF Over
  <2>5. waiting' \subseteq People /\ passed' \subseteq People /\ 0 <= Len(rg) + 1
    BY <1>3, <2>2
  <2> QED BY <1>2, <2>1, <2>3, <2>4, <2>5, GrantedInv
<1> QED BY <1>4, <1>5, <1>6, <1>7 DEF Release, PassedBy

-----------------------------------------------------------------------------
(* What each step keeps.  First the steps that leave the ring. *)

LEMMA AheadOf ==
    ASSUME NEW rg, IsRing(rg), NEW pos \in Nat, pos < Len(rg)
    PROVE  /\ Ahead(rg, pos) = {rg[pos + 1]} \cup Ahead(rg, pos + 1)
           /\ rg[pos + 1] \notin Ahead(rg, pos + 1)
           /\ rg[pos + 1] \in ToSet(rg)
<1>1. /\ rg \in Seq(People) /\ Len(rg) \in Nat /\ DOMAIN rg = 1 .. Len(rg)
      /\ \A i, j \in 1 .. Len(rg) : rg[i] = rg[j] => i = j
  BY DEF IsRing, IsInjective
<1>2. /\ pos + 1 .. Len(rg) = {pos + 1} \cup (pos + 1 + 1 .. Len(rg))
      /\ pos + 1 .. Len(rg) \subseteq 1 .. Len(rg) /\ pos + 1 \in 1 .. Len(rg)
      /\ pos + 1 \notin pos + 1 + 1 .. Len(rg)
      /\ pos + 1 + 1 .. Len(rg) \subseteq 1 .. Len(rg)
  BY <1>1
<1>3. Ahead(rg, pos) = {rg[pos + 1]} \cup Ahead(rg, pos + 1)
  BY <1>2 DEF Ahead
<1>4. rg[pos + 1] \notin Ahead(rg, pos + 1)
  BY <1>1, <1>2 DEF Ahead
<1> QED BY <1>1, <1>2, <1>3, <1>4 DEF ToSet

LEMMA RingFacts ==
    ASSUME FloorInv
    PROVE  /\ IsRing(ring) /\ Len(ring) \in Nat /\ ringPos \in Nat /\ ringPos <= Len(ring) + 1
           /\ AreHands(raised) /\ waiting \subseteq People /\ passed \subseteq People
  BY DEF FloorInv, FloorTypeOK, IsRing, AreHands, People

LEMMA ReleaseKeeps ==
    ASSUME FloorInv, huddle = "open", NEW who \in Humans, NEW since,
           Release(ring, ringPos, raised, waiting, who, since), UNCHANGED ring, OthersTyped'
    PROVE  FloorInv' /\ ChairComesLast
<1>1. OpenInv
  BY DEF FloorInv
<1>2. Fair(ring, ringPos, waiting, passed)
  BY <1>1 DEF OpenInv
<1>3. ASSUME ~turn.interject, turn.seat = "ring"
      PROVE  /\ ringPos <= Len(ring)
             /\ Fair(ring, ringPos + 1, waiting \ {turn.holder}, PassedBy(ring, ringPos))
  <2>1. ringPos < Len(ring) /\ turn.holder = ring[ringPos + 1]
    BY <1>1, <1>3 DEF OpenInv, AtTheTurn
  <2>2. /\ Ahead(ring, ringPos) = {turn.holder} \cup Ahead(ring, ringPos + 1)
        /\ turn.holder \notin Ahead(ring, ringPos + 1) /\ turn.holder \in ToSet(ring)
    BY <2>1, RingFacts, AheadOf
  <2>3. PassedBy(ring, ringPos) = passed
    BY <2>2 DEF PassedBy
  <2> QED BY <1>2, <2>1, <2>2, <2>3, RingFacts DEF Fair
<1> QED BY <1>2, <1>3, RingFacts, ReleaseDoes

LEMMA ReleaseCurrentInv ==
    ASSUME FloorInv, huddle = "open", ReleaseCurrent, UNCHANGED <<lastHuman, away, acts>>
    PROVE  FloorInv' /\ ChairComesLast
<1>1. OthersTyped' /\ lastHuman \in Humans
  BY DEF FloorInv, FloorTypeOK, OthersTyped
<1> QED BY <1>1, ReleaseKeeps DEF ReleaseCurrent

\* The turn goes on.
LEMMA TurnGoesOn ==
    ASSUME FloorInv, huddle = "open", UNCHANGED <<huddle, ring, ringPos, round, waiting, passed>>,
           AreHands(raised'), TurnIsTimed', turn'.id = turn.id, turn'.holder = turn.holder,
           turn'.seat = turn.seat, turn'.interject = turn.interject,
           awaited' \subseteq Awaited, IsFiniteSet(awaited'), OthersTyped'
    PROVE  FloorInv' /\ ChairComesLast
<1>1. OpenInv
  BY DEF FloorInv
<1>2. OpenInv'
  BY <1>1 DEF OpenInv, AtTheTurn
<1>3. FloorTypeOK'
  BY <1>2 DEF FloorInv, FloorTypeOK, AreHands, OthersTyped, OpenInv, TurnIsTimed
<1>4. turn # NoHolder
  BY <1>1, FloorAssumption DEF OpenInv, TurnIsTimed
<1> QED BY <1>2, <1>3, <1>4 DEF FloorInv, ChairComesLast, Granted

\* Another takes the floor, out of turn.
LEMMA FloorIsTaken ==
    ASSUME FloorInv, huddle = "open", UNCHANGED <<ring, ringPos, round, raised, waiting, passed>>,
           NEW holder, NEW seat, NEW clock, TurnStarts(holder, seat, clock)', clock \in Nat,
           turn'.interject \/ seat = "chair", seat = "chair" => turn.seat = "chair",
           OthersTyped'
    PROVE  FloorInv' /\ ChairComesLast
<1>1. OpenInv /\ turn # NoHolder
  BY FloorAssumption DEF FloorInv, OpenInv, TurnIsTimed
<1>2. TurnIsTimed' /\ turn'.seat = seat /\ huddle' = "open"
      /\ awaited' \subseteq Awaited /\ IsFiniteSet(awaited')
  BY DEF TurnStarts
<1>3. OpenInv'
  BY <1>1, <1>2 DEF OpenInv, AtTheTurn
<1>4. FloorTypeOK'
  BY <1>2 DEF FloorInv, FloorTypeOK, OthersTyped, TurnIsTimed
<1>5. ChairComesLast
  BY <1>1, <1>2 DEF ChairComesLast
<1> QED BY <1>2, <1>3, <1>4, <1>5 DEF FloorInv

LEMMA HumanFrameTyped ==
    ASSUME FloorInv, NEW h \in Humans, HumanFrame(h)
    PROVE  OthersTyped' /\ huddle = "open"
<1>1. PresenceTimeout \in Nat /\ MaxActs \in Nat
  BY FloorAssumption
<1> QED BY <1>1 DEF HumanFrame, FloorInv, FloorTypeOK, OthersTyped

LEMMA OpenFacts ==
    ASSUME FloorInv, huddle = "open"
    PROVE  /\ TurnIsTimed /\ turn \in HuddleTurns /\ turn # NoHolder
           /\ awaited \subseteq Awaited /\ IsFiniteSet(awaited) /\ AreHands(raised)
           /\ \E clock \in Nat : timers.wallClock = clock
  BY FloorAssumption, RingFacts DEF FloorInv, OpenInv, FloorTypeOK, TurnIsTimed, TimerNames

LEMMA RaiseInv ==
    ASSUME FloorInv, NEW h \in Humans, Raise(h) PROVE FloorInv' /\ ChairComesLast
<1>1. OthersTyped' /\ huddle = "open"
  BY HumanFrameTyped DEF Raise
<1>2. AreHands(raised')
  <2>1. CASE raised' = raised
    BY <2>1, RingFacts
  <2>2. CASE h \notin ToSet(raised) /\ Len(raised) < RaiseQueueMax /\ raised' = Append(raised, h)
    <3>1. raised \in Seq(Humans) /\ IsInjective(raised)
      BY RingFacts DEF AreHands
    <3>2. raised' \in Seq(Humans) /\ IsInjective(raised')
      BY <2>2, <3>1, AppendInjectiveSeq
    <3>3. Len(raised') = Len(raised) + 1 /\ Len(raised) \in Nat /\ RaiseQueueMax \in Nat
      BY <2>2, <3>1, FloorAssumption
    <3> QED BY <2>2, <3>2, <3>3 DEF AreHands
  <2>3. Len(raised) \in Nat /\ RaiseQueueMax \in Nat
    BY RingFacts, FloorAssumption DEF AreHands
  <2> QED BY <2>1, <2>2, <2>3 DEF Raise
<1>3. UNCHANGED <<huddle, ring, ringPos, round, turn, timers, awaited, waiting, passed>>
  BY DEF Raise
<1>4. TurnIsTimed'
  BY <1>1, <1>3, OpenFacts DEF TurnIsTimed
<1> QED BY <1>1, <1>2, <1>3, <1>4, OpenFacts, TurnGoesOn

LEMMA MessageInv ==
    ASSUME FloorInv, NEW h \in Humans, Message(h) PROVE FloorInv' /\ ChairComesLast
<1>1. OthersTyped' /\ huddle = "open"
  BY HumanFrameTyped DEF Message
<1>2. /\ UNCHANGED <<huddle, ring, ringPos, round, raised, timers, awaited, waiting, passed>>
      /\ turn' = IF turn.holder = h THEN [turn EXCEPT !.said = @ \cup {h}] ELSE turn
  BY DEF Message
<1>3. TurnIsTimed /\ turn \in HuddleTurns
  BY <1>1, OpenFacts
<1>4. /\ turn' \in HuddleTurns /\ turn'.said \subseteq {turn.id, turn.holder}
      /\ turn'.id = turn.id /\ turn'.holder = turn.holder /\ turn'.seat = turn.seat
      /\ turn'.interject = turn.interject /\ turn'.speaking = turn.speaking
  <2>1. CASE turn.holder = h
    BY <1>2, <1>3, <2>1 DEF HuddleTurns, TurnIsTimed
  <2>2. CASE turn.holder # h
    BY <1>2, <1>3, <2>2 DEF TurnIsTimed
  <2> QED BY <2>1, <2>2
<1>5. TurnIsTimed'
  BY <1>2, <1>3, <1>4 DEF TurnIsTimed
<1> QED BY <1>1, <1>2, <1>4, <1>5, OpenFacts, TurnGoesOn

LEMMA FloorCutInv ==
    ASSUME FloorInv, NEW h \in Humans, Cut(h) PROVE FloorInv' /\ ChairComesLast
<1>1. OthersTyped' /\ huddle = "open"
  BY HumanFrameTyped DEF Cut
<1>2. PICK clock \in Nat : timers.wallClock = clock
  BY <1>1, OpenFacts
<1>3. TurnStarts(h, "ring", clock)'
  <2>1. StartTurn(h, "ring", TRUE, clock) /\ h \in People
    BY <1>2 DEF Cut, People
  <2> QED BY <2>1, StartTurnDoes
<1>4. turn'.interject
  BY DEF Cut, StartTurn
<1>5. UNCHANGED <<ring, ringPos, round, raised, waiting, passed>>
  BY DEF Cut
<1> QED BY <1>1, <1>3, <1>4, <1>5, FloorIsTaken

LEMMA YieldInv ==
    ASSUME FloorInv, NEW h \in Humans, Yield(h) PROVE FloorInv' /\ ChairComesLast
<1>1. OthersTyped' /\ huddle = "open"
  BY HumanFrameTyped DEF Yield
<1> QED BY <1>1, ReleaseKeeps DEF Yield

LEMMA FloorCloseInv ==
    ASSUME FloorInv, NEW h \in Humans, CloseHuddle(h) PROVE FloorInv' /\ ChairComesLast
<1>1. OthersTyped' /\ huddle = "open"
  BY HumanFrameTyped DEF CloseHuddle
<1>2. /\ FinishClosing
      /\ UNCHANGED <<ring, ringPos, round, raised, waiting, passed>>
  BY DEF CloseHuddle
<1>3. round \in 0 .. MaxRounds /\ ringPos \in 0 .. Len(ring) + 1
  BY DEF FloorInv, FloorTypeOK
<1> QED BY <1>1, <1>2, <1>3, RingFacts, ClosedInv

-----------------------------------------------------------------------------
(* Answers and narrations. *)

LEMMA RemainingIs ==
    ASSUME timers \in [TimerNames -> Nat \cup {Off}], NEW lag \in Nat
    PROVE  /\ Remaining(lag) \in [TimerNames -> Nat \cup {Off}]
           /\ \A n \in TimerNames : Remaining(lag)[n] = Off <=> timers[n] = Off
  BY DEF Remaining, Off, MaxOf

LEMMA TimePassesTyped ==
    ASSUME FloorInv, NEW lag \in Nat, TimePasses(lag), UNCHANGED <<lastHuman, acts>>
    PROVE  OthersTyped'
<1>1. PresenceTimeout \in Nat /\ away \in Nat
  BY FloorAssumption DEF FloorInv, FloorTypeOK
<1>2. MinOf(away + lag, PresenceTimeout + 1) \in 0 .. PresenceTimeout + 1
  BY <1>1 DEF MinOf
<1> QED BY <1>2 DEF FloorInv, FloorTypeOK, OthersTyped, TimePasses

LEMMA AnswerComesInv ==
    ASSUME FloorInv, NEW c \in awaited, c.what = "text", AnswerComes(c) PROVE FloorInv' /\ ChairComesLast
<1>1. huddle = "open" /\ c.turn = turn.id
  BY DEF AnswerComes, IsCurrent, FloorInv
<1>2. TurnIsTimed /\ turn \in HuddleTurns /\ c \in Awaited
  BY <1>1, OpenFacts
<1>3. /\ UNCHANGED <<huddle, ring, ringPos, round, raised, lastHuman, away, acts, waiting,
                     passed>>
      /\ turn' = [turn EXCEPT !.speaking = TRUE, !.said = {c.turn}]
      /\ timers' = [timers EXCEPT !.prepare = Off,
                                  !.speak = MaxOf(ReadingTime, AudioStartGrace)]
      /\ awaited' = (awaited \ {c}) \cup {[c EXCEPT !.what = "audio"]}
  BY DEF AnswerComes
<1>4. /\ turn' \in HuddleTurns /\ turn'.said \subseteq {turn.id, turn.holder}
      /\ turn'.id = turn.id /\ turn'.holder = turn.holder /\ turn'.seat = turn.seat
      /\ turn'.interject = turn.interject /\ turn'.speaking
  BY <1>1, <1>2, <1>3 DEF HuddleTurns, Awaited
<1>5. MaxOf(ReadingTime, AudioStartGrace) \in Nat
  BY FloorAssumption DEF MaxOf
<1>6. /\ timers' \in [TimerNames -> Nat \cup {Off}] /\ timers'.speak # Off
      /\ timers'.maxTurn # Off /\ timers'.wallClock # Off
      /\ timers'.chairHuman = timers.chairHuman
  <2> DEFINE m == MaxOf(ReadingTime, AudioStartGrace)
  <2>1. m \in Nat /\ m # Off
    BY <1>5 DEF Off
  <2>2. timers' = [timers EXCEPT !["prepare"] = Off, !["speak"] = m]
    BY <1>3
  <2> HIDE DEF m
  <2>3. timers \in [TimerNames -> Nat \cup {Off}]
    BY <1>2 DEF TurnIsTimed
  <2>4. /\ timers' \in [TimerNames -> Nat \cup {Off}]
        /\ timers'["speak"] = m
        /\ \A n \in {"maxTurn", "wallClock", "chairHuman"} : timers'[n] = timers[n]
    BY <2>1, <2>2, <2>3 DEF TimerNames
  <2> QED BY <1>2, <2>1, <2>4 DEF TurnIsTimed
<1>7. TurnIsTimed'
  BY <1>2, <1>4, <1>6 DEF TurnIsTimed
<1>8. awaited' \subseteq Awaited /\ IsFiniteSet(awaited')
  <2>1. [c EXCEPT !.what = "audio"] \in Awaited
    BY <1>2 DEF Awaited
  <2>2. IsFiniteSet(awaited \ {c})
    BY <1>1, OpenFacts, FS_RemoveElement
  <2> QED BY <1>1, <1>3, <2>1, <2>2, OpenFacts, FS_AddElement
<1>9. OthersTyped'
  BY <1>3 DEF FloorInv, FloorTypeOK, OthersTyped
<1> QED BY <1>1, <1>3, <1>4, <1>7, <1>8, <1>9, OpenFacts, TurnGoesOn

LEMMA NarrationStartsInv ==
    ASSUME FloorInv, NEW c \in awaited, NarrationStarts(c) PROVE FloorInv' /\ ChairComesLast
<1>1. huddle = "open" /\ turn.speaking
  BY DEF NarrationStarts, IsCurrent, FloorInv
<1>2. TurnIsTimed /\ turn \in HuddleTurns
  BY <1>1, OpenFacts
<1>3. /\ UNCHANGED <<huddle, ring, ringPos, round, raised, lastHuman, acts, waiting, passed>>
      /\ turn' = [turn EXCEPT !.heard = TRUE]
      /\ awaited' = awaited \ {c}
  BY DEF NarrationStarts
<1>4. PICK lag \in Nat, length \in Nat :
         /\ timers' = [Remaining(lag) EXCEPT !.speak = length]
         /\ TimePasses(lag)
  <2>1. PICK lag \in 0 .. SynthesisTime, length \in 1 .. SpeakBudget :
         /\ timers' = [Remaining(lag) EXCEPT !.speak = length]
         /\ TimePasses(lag)
    BY DEF NarrationStarts
  <2>2. lag \in Nat /\ length \in Nat
    OBVIOUS
  <2> QED BY <2>1, <2>2
<1>5. /\ turn' \in HuddleTurns /\ turn'.said = turn.said
      /\ turn'.id = turn.id /\ turn'.holder = turn.holder /\ turn'.seat = turn.seat
      /\ turn'.interject = turn.interject /\ turn'.speaking
  BY <1>1, <1>2, <1>3 DEF HuddleTurns
<1>6. /\ timers' \in [TimerNames -> Nat \cup {Off}] /\ timers'.speak # Off
      /\ timers'.maxTurn # Off /\ timers'.wallClock # Off
      /\ timers'.chairHuman # Off => timers.chairHuman # Off
  <2>1. /\ Remaining(lag) \in [TimerNames -> Nat \cup {Off}]
        /\ \A n \in TimerNames : Remaining(lag)[n] = Off <=> timers[n] = Off
    BY <1>2, RemainingIs DEF TurnIsTimed
  <2> QED BY <1>2, <1>4, <2>1 DEF TurnIsTimed, TimerNames, Off
<1>7. TurnIsTimed'
  BY <1>2, <1>5, <1>6 DEF TurnIsTimed
<1>8. awaited' \subseteq Awaited /\ IsFiniteSet(awaited')
  BY <1>1, <1>3, OpenFacts, FS_RemoveElement
<1>9. OthersTyped'
  BY <1>3, <1>4, TimePassesTyped
<1> QED BY <1>1, <1>3, <1>5, <1>7, <1>8, <1>9, OpenFacts, TurnGoesOn

\* Time that passes, whatever the huddle is at.
LEMMA TimeGoesOn ==
    ASSUME FloorInv, NEW lag \in Nat, timers' = Remaining(lag), TimePasses(lag),
           UNCHANGED <<huddle, ring, ringPos, round, raised, turn, lastHuman, acts, waiting,
                       passed>>,
           awaited' \subseteq Awaited, IsFiniteSet(awaited')
    PROVE  FloorInv' /\ ChairComesLast
<1>1. OthersTyped'
  BY TimePassesTyped
<1>2. /\ timers' \in [TimerNames -> Nat \cup {Off}]
      /\ \A n \in TimerNames : timers'[n] = Off <=> timers[n] = Off
  BY RemainingIs DEF FloorInv, FloorTypeOK
<1>3. CASE huddle = "open"
  <2>1. TurnIsTimed
    BY <1>3, OpenFacts
  <2>2. TurnIsTimed'
    <3>1. timers'.maxTurn # Off /\ timers'.wallClock # Off
          /\ (timers'.chairHuman # Off => timers.chairHuman # Off)
          /\ (timers.speak # Off => timers'.speak # Off)
          /\ (timers.prepare # Off => timers'.prepare # Off)
      BY <1>2, <2>1 DEF TurnIsTimed, TimerNames
    <3> QED BY <1>2, <2>1, <3>1 DEF TurnIsTimed
  <2> QED BY <1>1, <1>3, <2>2, OpenFacts, TurnGoesOn
<1>4. CASE huddle # "open"
  <2>1. turn' = NoHolder /\ timers' = AllOff
    <3>1. turn = NoHolder /\ timers = AllOff
      BY <1>4 DEF FloorInv
    <3>2. timers' = [n \in TimerNames |-> timers'[n]]
      BY <1>2
    <3> QED BY <1>2, <3>1, <3>2 DEF AllOff
  <2>2. FloorTypeOK'
    BY <1>1, <1>2 DEF FloorInv, FloorTypeOK, OthersTyped
  <2> QED BY <1>4, <2>1, <2>2 DEF FloorInv, ChairComesLast, Granted
<1> QED BY <1>3, <1>4

LEMMA LateInv ==
    ASSUME FloorInv, NEW c \in awaited, Late(c) PROVE FloorInv' /\ ChairComesLast
<1>1. PICK lag \in Nat : timers' = Remaining(lag) /\ TimePasses(lag)
  BY FloorAssumption DEF Late
<1>2. awaited' \subseteq Awaited /\ IsFiniteSet(awaited')
  BY FS_RemoveElement DEF Late, FloorInv, FloorTypeOK
<1> QED BY <1>1, <1>2, TimeGoesOn DEF Late

LEMMA ArrivesInv ==
    ASSUME FloorInv, NEW c \in awaited, Arrives(c) PROVE FloorInv' /\ ChairComesLast
<1>1. CASE c.what = "text" /\ NothingToSay(c)
  <2>1. huddle = "open"
    BY <1>1 DEF NothingToSay, IsCurrent, FloorInv
  <2> QED BY <1>1, <2>1, ReleaseCurrentInv DEF NothingToSay
<1> QED BY <1>1, AnswerComesInv, NarrationStartsInv, LateInv DEF Arrives

-----------------------------------------------------------------------------
(* Timers. *)

\* A timer that is due belongs to a huddle that is open.
LEMMA DueIsOpen ==
    ASSUME FloorInv, NEW n \in TimerNames, Due(n) PROVE huddle = "open"
  BY DEF FloorInv, AllOff, Due, Off

LEMMA ChairHumanTimeoutInv ==
    ASSUME FloorInv, ChairHumanTimeout PROVE FloorInv' /\ ChairComesLast
<1>1. huddle = "open" /\ timers.chairHuman # Off
  BY DueIsOpen DEF ChairHumanTimeout, Due, TimerNames, Off
<1>2. PICK clock \in Nat : timers.wallClock = clock
  BY <1>1, OpenFacts
<1>3. TurnStarts(ChairAgent, "chair", clock)'
  <2>1. StartTurn(ChairAgent, "chair", FALSE, clock) /\ ChairAgent \in People
    BY <1>2, FloorAssumption DEF ChairHumanTimeout, People
  <2> QED BY <2>1, StartTurnDoes
<1>4. turn.seat = "chair"
  BY <1>1, OpenFacts DEF TurnIsTimed
<1>5. /\ UNCHANGED <<ring, ringPos, round, raised, waiting, passed>>
      /\ OthersTyped'
  BY DEF ChairHumanTimeout, FloorInv, FloorTypeOK, OthersTyped
<1> QED BY <1>1, <1>3, <1>4, <1>5, FloorIsTaken

LEMMA FiresInv ==
    ASSUME FloorInv, Fires PROVE FloorInv' /\ ChairComesLast
<1>1. CASE PrepareDeadline \/ SpeakElapsed \/ MaxTurnExpired
  <2>1. huddle = "open"
    BY <1>1, DueIsOpen DEF PrepareDeadline, SpeakElapsed, MaxTurnExpired, TimerNames
  <2> QED
    BY <1>1, <2>1, ReleaseCurrentInv DEF PrepareDeadline, SpeakElapsed, MaxTurnExpired
<1>2. CASE WallClock
  <2>1. /\ FinishClosing
        /\ UNCHANGED <<ring, ringPos, round, raised, lastHuman, away, acts, waiting, passed>>
    BY <1>2 DEF WallClock
  <2>2. round \in 0 .. MaxRounds /\ ringPos \in 0 .. Len(ring) + 1 /\ OthersTyped'
    BY <2>1 DEF FloorInv, FloorTypeOK, OthersTyped
  <2> QED BY <2>1, <2>2, RingFacts, ClosedInv
<1> QED BY <1>1, <1>2, ChairHumanTimeoutInv DEF Fires

LEMMA TickInv == ASSUME FloorInv, Tick PROVE FloorInv' /\ ChairComesLast
<1>1. awaited' \subseteq Awaited /\ IsFiniteSet(awaited')
  BY DEF Tick, FloorInv, FloorTypeOK
<1> QED BY <1>1, TimeGoesOn DEF Tick

-----------------------------------------------------------------------------
(* Then the steps that change the ring. *)

LEMMA OpenStepInv ==
    ASSUME FloorInv, NEW h \in Humans, Open(h) PROVE FloorInv' /\ ChairComesLast
<1>1. PICK rg : IsRing(rg) /\ ring' = rg
  BY RingIsRing DEF Open
<1>2. rg \in Seq(People) /\ Len(rg) \in Nat /\ ToSet(rg) \subseteq People
  BY <1>1 DEF IsRing, ToSet
<1>3. MaxDuration \in Nat /\ MaxRounds \in Nat \ {0}
  BY FloorAssumption
<1>4. IsGranted(rg, 0, MaxDuration)'
  <2>1. Grant(rg, 0, raised, h, 0, MaxDuration)
    BY <1>1 DEF Open
  <2> QED BY <1>1, <1>3, <2>1, RingFacts, GrantDoes
<1>5. waiting' = ToSet(rg) /\ passed' = {}
  BY <1>1 DEF Open, NewRound
<1>6. Fair(rg, 0, waiting', passed')
  BY <1>1, <1>5, RoundStartsFair DEF NewRoundIsFair
<1>7. OthersTyped'
  <2>1. lastHuman' = h /\ away' = 0 /\ acts' = acts
    BY DEF Open
  <2>2. acts \in 0 .. MaxActs
    BY DEF FloorInv, FloorTypeOK
  <2>3. 0 \in 0 .. PresenceTimeout + 1
    BY FloorAssumption
  <2> QED
    BY <2>1, <2>2, <2>3 DEF OthersTyped
<1>8. round' = 0
  BY DEF Open, FloorInv
<1> QED
  BY <1>1, <1>2, <1>3, <1>4, <1>6, <1>5, <1>7, <1>8, GrantedInv

LEMMA InviteInv ==
    ASSUME FloorInv, NEW h \in Humans, NEW p \in People, Invite(h, p)
    PROVE  FloorInv' /\ ChairComesLast
<1>1. OthersTyped' /\ huddle = "open"
  BY HumanFrameTyped DEF Invite
<1>2. /\ p \notin ToSet(ring) /\ ring' = Append(ring, p)
      /\ waiting' = waiting \cup {p}
      /\ passed' = IF ringPos > Len(ring) THEN passed \cup {p} ELSE passed
      /\ UNCHANGED <<huddle, ringPos, round, raised, turn, timers, awaited>>
  BY DEF Invite
<1>3. ring \in Seq(People) /\ IsInjective(ring) /\ OpenInv
  BY <1>1, RingFacts DEF FloorInv, IsRing
<1>4. /\ ring' \in Seq(People) /\ IsInjective(ring') /\ Len(ring') = Len(ring) + 1
      /\ ring'[Len(ring) + 1] = p /\ \A i \in 1 .. Len(ring) : ring'[i] = ring[i]
  BY <1>2, <1>3, AppendInjectiveSeq, AppendProperties
<1>5. AtTheTurn(ring, ringPos)'
  BY <1>2, <1>3, <1>4, RingFacts DEF OpenInv, AtTheTurn
<1>6. Fair(ring, ringPos, waiting, passed)'
  <2>1. Ahead(ring, ringPos) = {ring[i] : i \in ringPos + 1 .. Len(ring)}
        /\ Ahead(ring, ringPos)' = {ring'[i] : i \in ringPos + 1 .. Len(ring) + 1}
    BY <1>2, <1>4 DEF Ahead
  <2>2. \A i \in ringPos + 1 .. Len(ring) : ring'[i] = ring[i]
    BY <1>4, RingFacts
  <2>3. Ahead(ring, ringPos)' = IF ringPos <= Len(ring) THEN Ahead(ring, ringPos) \cup {p}
                                ELSE {}
    <3>1. CASE ringPos <= Len(ring)
      <4>1. ringPos + 1 .. Len(ring) + 1 = (ringPos + 1 .. Len(ring)) \cup {Len(ring) + 1}
        BY <3>1, RingFacts
      <4> QED BY <1>4, <2>1, <2>2, <3>1, <4>1
    <3>2. CASE ringPos > Len(ring)
      BY <2>1, <3>2, RingFacts
    <3> QED BY <3>1, <3>2, RingFacts
  <2>4. ringPos > Len(ring) => Ahead(ring, ringPos) = {}
    BY <2>1, RingFacts
  <2> QED BY <1>2, <1>3, <2>3, <2>4, RingFacts DEF OpenInv, Fair
<1>7. OpenInv'
  BY <1>2, <1>3, <1>5, <1>6 DEF OpenInv, TurnIsTimed
<1>8. FloorTypeOK'
  <2>1. ringPos' \in 0 .. Len(ring') + 1
    BY <1>2, <1>4, RingFacts
  <2> QED BY <1>1, <1>2, <1>4, <2>1 DEF FloorInv, FloorTypeOK, OthersTyped, People
<1>9. turn # NoHolder
  BY <1>1, OpenFacts
<1> QED BY <1>1, <1>2, <1>7, <1>8, <1>9 DEF FloorInv, ChairComesLast, Granted

(* Who leaves shifts those behind; ringPos goes with them. *)
LEMMA RingWithout ==
    ASSUME FloorInv, NEW place \in 1 .. Len(ring)
    PROVE  /\ IsRing(RemoveAt(ring, place)) /\ Len(RemoveAt(ring, place)) = Len(ring) - 1
           /\ ring[place] \notin ToSet(RemoveAt(ring, place))
           /\ PulledBack(place) \in Nat /\ PulledBack(place) <= Len(RemoveAt(ring, place)) + 1
           /\ Ahead(RemoveAt(ring, place), PulledBack(place)) = Ahead(ring, ringPos) \ {ring[place]}
           /\ \A i \in 1 .. Len(ring) :
                 i = ringPos + 1 /\ i # place =>
                    /\ PulledBack(place) < Len(RemoveAt(ring, place))
                    /\ RemoveAt(ring, place)[PulledBack(place) + 1] = ring[i]
<1> DEFINE rg == RemoveAt(ring, place)
           pos == PulledBack(place)
<1>1. /\ ring \in Seq(People) /\ Len(ring) \in Nat /\ ringPos \in Nat
      /\ ringPos <= Len(ring) + 1
      /\ \A i, j \in 1 .. Len(ring) : ring[i] = ring[j] => i = j
  BY RingFacts DEF IsRing, IsInjective
<1>2. /\ rg \in Seq(People) /\ Len(rg) = Len(ring) - 1 /\ IsInjective(rg)
      /\ \A j \in 1 .. Len(ring) - 1 : rg[j] = ring[IF j < place THEN j ELSE j + 1]
  <2>1. IsInjective(ring)
    BY RingFacts DEF IsRing
  <2> QED BY <1>1, <2>1, RemoveAtIs, RemoveAtInjective
<1>3. pos = IF place <= ringPos THEN ringPos - 1 ELSE ringPos
  BY DEF PulledBack
<1> HIDE DEF rg, pos
<1>4. pos \in Nat /\ pos <= Len(rg) + 1
  BY <1>1, <1>2, <1>3
<1>5. ring[place] \notin ToSet(rg)
  <2>1. Len(ring) \in Nat /\ \A i, j \in 1 .. Len(ring) : ring[i] = ring[j] => i = j
    BY <1>1
  <2>2. \A j \in 1 .. Len(ring) - 1 : rg[j] = ring[IF j < place THEN j ELSE j + 1]
    BY <1>2
  <2>3. ASSUME NEW j \in 1 .. Len(ring) - 1 PROVE rg[j] # ring[place]
    <3> DEFINE k == IF j < place THEN j ELSE j + 1
    <3>1. k \in 1 .. Len(ring) /\ k # place
      BY <2>1
    <3>2. rg[j] = ring[k]
      BY <2>2
    <3> HIDE DEF k
    <3> QED BY <2>1, <3>1, <3>2
  <2> QED BY <1>2, <2>3 DEF ToSet
<1>6. Ahead(rg, pos) = Ahead(ring, ringPos) \ {ring[place]}
  <2>1. ASSUME NEW j \in pos + 1 .. Len(rg)
        PROVE  rg[j] \in Ahead(ring, ringPos) \ {ring[place]}
    <3> DEFINE k == IF j < place THEN j ELSE j + 1
    <3>1. k \in ringPos + 1 .. Len(ring) /\ k # place /\ k \in 1 .. Len(ring)
      BY <1>1, <1>2, <1>3
    <3>2. rg[j] = ring[k]
      BY <1>1, <1>2, <1>4
    <3> HIDE DEF k
    <3> QED BY <1>1, <3>1, <3>2 DEF Ahead
  <2>2. ASSUME NEW i \in ringPos + 1 .. Len(ring), i # place
        PROVE  \E j \in pos + 1 .. Len(rg) : rg[j] = ring[i]
    <3> DEFINE j == IF i < place THEN i ELSE i - 1
    <3>1. j \in pos + 1 .. Len(rg) /\ j \in 1 .. Len(ring) - 1
      BY <1>1, <1>2, <1>3, <2>2
    <3>2. (IF j < place THEN j ELSE j + 1) = i
      BY <1>1, <2>2
    <3>3. rg[j] = ring[i]
      BY <1>2, <3>1, <3>2
    <3> QED BY <3>1, <3>3
  <2> QED BY <2>1, <2>2 DEF Ahead
<1>7. ASSUME NEW i \in 1 .. Len(ring), i = ringPos + 1, i # place
      PROVE  pos < Len(rg) /\ rg[pos + 1] = ring[i]
  <2>1. pos < Len(rg) /\ pos + 1 \in 1 .. Len(ring) - 1
    BY <1>1, <1>2, <1>3, <1>7
  <2>2. (IF pos + 1 < place THEN pos + 1 ELSE pos + 1 + 1) = i
    BY <1>1, <1>3, <1>7
  <2> QED BY <1>2, <2>1, <2>2
<1> QED BY <1>2, <1>4, <1>5, <1>6, <1>7 DEF rg, pos, IsRing

LEMMA DropInv ==
    ASSUME FloorInv, NEW h \in Humans, NEW p \in People, Drop(h, p)
    PROVE  FloorInv' /\ ChairComesLast
<1>1. OthersTyped' /\ huddle = "open" /\ p \in ToSet(ring)
  BY HumanFrameTyped DEF Drop
<1> DEFINE place == CHOOSE i \in DOMAIN ring : ring[i] = p
           rg == RemoveAt(ring, place)
           pos == PulledBack(place)
           hands == RemoveFirst(raised, p)
           left == waiting \ {p}
<1>2. place \in 1 .. Len(ring) /\ ring[place] = p
  <2>1. DOMAIN ring = 1 .. Len(ring)
    BY RingFacts DEF IsRing
  <2> QED BY <1>1, <2>1 DEF ToSet
<1>3. /\ ring' = rg
      /\ \/ turn.holder = p /\ Release(rg, pos, hands, left, h, 0)
         \/ /\ turn.holder # p
            /\ ringPos' = pos /\ raised' = hands /\ waiting' = left
            /\ UNCHANGED <<huddle, round, turn, timers, awaited, passed>>
  BY DEF Drop
<1> HIDE DEF place
<1>4. /\ IsRing(rg) /\ Len(rg) = Len(ring) - 1 /\ p \notin ToSet(rg)
      /\ pos \in Nat /\ pos <= Len(rg) + 1
      /\ Ahead(rg, pos) = Ahead(ring, ringPos) \ {p}
  BY <1>2, RingWithout
<1>5. \A i \in 1 .. Len(ring) :
        i = ringPos + 1 /\ i # place => pos < Len(rg) /\ rg[pos + 1] = ring[i]
  BY <1>2, RingWithout
<1>6. AreHands(hands)
  BY RingFacts, RemoveFirstHands
<1>7. pos = IF place <= ringPos THEN ringPos - 1 ELSE ringPos
  BY DEF PulledBack
<1> HIDE DEF rg, pos, hands
<1>8. OpenInv /\ Fair(ring, ringPos, waiting, passed) /\ AtTheTurn(ring, ringPos)
  BY <1>1 DEF FloorInv, OpenInv
<1>9. Fair(rg, pos, left, passed)
  BY <1>4, <1>8 DEF Fair
<1>10. left \subseteq People /\ Len(rg) \in Nat /\ Len(ring) \in Nat /\ ringPos \in Nat
  BY <1>4, RingFacts DEF IsRing
<1>11. CASE turn.holder = p /\ Release(rg, pos, hands, left, h, 0)
  <2>1. ASSUME ~turn.interject, turn.seat = "ring"
        PROVE  /\ pos <= Len(rg)
               /\ Fair(rg, pos + 1, left \ {turn.holder}, PassedBy(rg, pos))
    <3>1. ringPos < Len(ring) /\ ring[ringPos + 1] = p
      BY <1>8, <1>11, <2>1 DEF AtTheTurn
    <3>2. place = ringPos + 1
      <4>1. \A i, j \in 1 .. Len(ring) : ring[i] = ring[j] => i = j
        BY RingFacts DEF IsRing, IsInjective
      <4> QED BY <1>2, <1>10, <3>1, <4>1
    <3>3. pos = ringPos /\ pos <= Len(rg)
      BY <1>4, <1>7, <1>10, <3>1, <3>2
    <3>4. PassedBy(rg, pos) = IF pos >= Len(rg) THEN passed ELSE passed \cup {rg[pos + 1]}
      BY <1>4, <1>11 DEF PassedBy
    <3>5. left \ {turn.holder} = left
      BY <1>11
    <3>6. CASE pos < Len(rg)
      <4>1. Ahead(rg, pos) = {rg[pos + 1]} \cup Ahead(rg, pos + 1)
        BY <1>4, <3>6, AheadOf
      <4> QED BY <1>9, <1>10, <3>3, <3>4, <3>5, <3>6, <4>1 DEF Fair
    <3>7. CASE pos = Len(rg)
      <4>1. Ahead(rg, pos) = {} /\ Ahead(rg, pos + 1) = {}
        BY <1>10, <3>7 DEF Ahead
      <4> QED BY <1>9, <1>10, <3>3, <3>4, <3>5, <3>7, <4>1 DEF Fair
    <3> QED BY <1>4, <1>10, <3>3, <3>6, <3>7
  <2> QED BY <1>1, <1>3, <1>4, <1>6, <1>9, <1>10, <1>11, <2>1, ReleaseDoes
<1>12. CASE /\ turn.holder # p
            /\ ringPos' = pos /\ raised' = hands /\ waiting' = left
            /\ UNCHANGED <<huddle, round, turn, timers, awaited, passed>>
  <2>1. ASSUME turn.seat = "ring", ~turn.interject
        PROVE  pos < Len(rg) /\ turn.holder = rg[pos + 1]
    <3>1. ringPos < Len(ring) /\ ring[ringPos + 1] = turn.holder
      BY <1>8, <2>1 DEF AtTheTurn
    <3>2. ringPos + 1 \in 1 .. Len(ring) /\ ringPos + 1 # place
      BY <1>2, <1>10, <1>12, <3>1
    <3> QED BY <1>5, <3>1, <3>2
  <2>2. AtTheTurn(ring, ringPos)'
    BY <1>3, <1>12, <2>1 DEF AtTheTurn
  <2>3. Fair(ring, ringPos, waiting, passed)'
    BY <1>3, <1>9, <1>12 DEF Fair, Ahead
  <2>4. OpenInv'
    BY <1>8, <1>12, <2>2, <2>3 DEF OpenInv, TurnIsTimed
  <2>5. FloorTypeOK'
    <3>1. ring' \in Seq(People) /\ IsInjective(ring') /\ ringPos' \in 0 .. Len(ring') + 1
      BY <1>3, <1>4, <1>10, <1>12 DEF IsRing
    <3>2. raised' \in Seq(Humans) /\ Len(raised') <= RaiseQueueMax /\ IsInjective(raised')
      BY <1>6, <1>12 DEF AreHands
    <3> QED BY <1>1, <1>10, <1>12, <3>1, <3>2 DEF FloorInv, FloorTypeOK, OthersTyped, People
  <2>6. turn # NoHolder
    BY <1>1, OpenFacts
  <2> QED BY <1>1, <1>12, <2>4, <2>5, <2>6 DEF FloorInv, ChairComesLast, Granted
<1> QED BY <1>3, <1>11, <1>12

-----------------------------------------------------------------------------
LEMMA FloorInitInv == FloorInit => FloorInv
<1> SUFFICES ASSUME FloorInit PROVE FloorInv
  OBVIOUS
<1>1. /\ huddle = "idle" /\ ring = <<>> /\ ringPos = 0 /\ round = 0 /\ raised = <<>>
      /\ turn = NoHolder /\ timers = AllOff /\ awaited = {}
      /\ lastHuman \in Humans /\ away = 0 /\ acts = 0 /\ waiting = {} /\ passed = {}
  BY DEF FloorInit, AllOff
<1>2. IsInjective(<<>>) /\ timers \in [TimerNames -> Nat \cup {Off}]
  BY <1>1 DEF IsInjective, AllOff
<1>3. FloorTypeOK
  BY <1>1, <1>2, FloorAssumption DEF FloorTypeOK
<1>4. IsFiniteSet(awaited)
  BY <1>1, FS_EmptySet
<1> QED BY <1>1, <1>3, <1>4 DEF FloorInv

LEMMA FloorNextInv == FloorInv /\ [FloorNext]_floorVars => FloorInv' /\ ChairComesLast
<1> SUFFICES ASSUME FloorInv, [FloorNext]_floorVars PROVE FloorInv' /\ ChairComesLast
  OBVIOUS
<1>1. CASE UNCHANGED floorVars
  <2>1. FloorInv'
    BY <1>1 DEF floorVars, FloorInv, FloorTypeOK, OpenInv, TurnIsTimed, AtTheTurn, Fair, Ahead
  <2> QED BY <1>1, <2>1 DEF floorVars, ChairComesLast, Granted
<1>2. CASE FloorNext
  <2>1. CASE \E h \in Humans : Open(h) \/ HumanStep(h)
    BY <2>1, OpenStepInv, RaiseInv, FloorCutInv, YieldInv, FloorCloseInv, MessageInv, InviteInv, DropInv
       DEF HumanStep, People
  <2> QED BY <1>2, <2>1, ArrivesInv, FiresInv, TickInv DEF FloorNext
<1> QED BY <1>1, <1>2

(* Every variable keeps its type. *)
THEOREM FloorTypeCorrect == FloorSpec => []FloorTypeOK
<1>1. FloorInv => FloorTypeOK
  BY DEF FloorInv
<1> QED BY <1>1, FloorInitInv, FloorNextInv, PTL DEF FloorSpec

(* While the huddle is open someone has the floor, with a timer that ends the
   turn; a turn of the ring is that of the one the round has reached; and what a
   turn says is its own answer, or what its holder typed (floor.ts:4-9). *)
THEOREM FloorHeld == FloorSpec => []TheFloorIsHeld
<1>1. FloorInv => TheFloorIsHeld
  BY FloorAssumption DEF FloorInv, OpenInv, TurnIsTimed, AtTheTurn, TheFloorIsHeld
<1> QED BY <1>1, FloorInitInv, FloorNextInv, PTL DEF FloorSpec

(* In a round everyone of the ring has one turn, none twice and none passed over,
   whatever the humans do (floor.ts:511-513, 540-544). *)
THEOREM FairRounds == FloorSpec => RoundsAreFair
<1> DEFINE IsFair ==
      Granted =>
        /\ turn'.seat = "ring" /\ ~turn'.interject => turn'.holder \in waiting'
        /\ turn'.seat = "chair" /\ (turn = NoHolder \/ turn.seat = "ring")
              => waiting' \subseteq passed'
<1>1. FloorInv' /\ ChairComesLast => IsFair
  <2> SUFFICES ASSUME FloorInv', ChairComesLast, Granted PROVE IsFair
    OBVIOUS
  <2>1. OpenInv'
    BY DEF FloorInv, Granted
  <2>2. ring' \in Seq(People) /\ Len(ring') \in Nat /\ ringPos' \in Nat
    BY DEF FloorInv, FloorTypeOK, People
  <2>3. Fair(ring, ringPos, waiting, passed)' /\ AtTheTurn(ring, ringPos)'
    BY <2>1 DEF OpenInv
  <2>4. ASSUME turn'.seat = "ring", ~turn'.interject PROVE turn'.holder \in waiting'
    <3>1. ringPos' < Len(ring') /\ turn'.holder = ring'[ringPos' + 1]
      BY <2>3, <2>4 DEF AtTheTurn
    <3>2. turn'.holder \in Ahead(ring, ringPos)'
      BY <2>2, <3>1 DEF Ahead
    <3> QED BY <2>3, <3>2 DEF Fair
  <2>5. ASSUME turn'.seat = "chair", turn = NoHolder \/ turn.seat = "ring"
        PROVE  waiting' \subseteq passed'
    <3>0. Len(ring') <= ringPos'
      BY <2>5 DEF ChairComesLast
    <3>1. Ahead(ring, ringPos)' = {}
      <4>1. ringPos' + 1 .. Len(ring') = {}
        BY <2>2, <3>0
      <4> QED BY <4>1 DEF Ahead
    <3> QED BY <2>3, <3>1 DEF Fair
  <2> QED BY <2>4, <2>5
<1>2. FloorInv /\ [FloorNext]_floorVars => [IsFair]_floorVars
  BY <1>1, FloorNextInv
<1> QED BY <1>2, FloorInitInv, FloorNextInv, PTL DEF FloorSpec, RoundsAreFair
=============================================================================
