------------------------------ MODULE QueueLock ------------------------------
(***************************************************************************)
(* The lock file that keeps the durable queue to one writer                *)
(* (daemon/queue.ts: createLock, acquireLock, releaseLock).  A step is one  *)
(* system call; the daemons that start on one data dir interleave between   *)
(* any two, and any of them may be killed.                                  *)
(*                                                                         *)
(* A file is its content, the pid in it.  A pid belongs to one start of the *)
(* daemon: a reused pid reads as held, which fails safe (queue.ts:135-138). *)
(***************************************************************************)
EXTENDS Integers, FiniteSets

CONSTANTS
    Daemons,   \* the starts of the daemon, each with a pid of its own
    Ghost,     \* the pid of a daemon that died before
    NoLock,    \* no file at the lock's path
    Attempts   \* the takeover loop's bound

ASSUME LockAssumption ==
    /\ Ghost \notin Daemons /\ NoLock \notin Daemons \cup {Ghost} /\ Attempts \in Nat \ {0}

VARIABLES
    lock,     \* the pid in the file at lockPath, or NoLock
    at,       \* where each daemon is in acquireLock, close or neither
    judged,   \* acquireLock's `judged': the pid read
    moved,    \* the pid in the file moved to a name of the taker's own
    attempt,
    exposed   \* history: a lock was created, or the taker killed, while a
              \* rival's lock was moved away

vars == <<lock, at, judged, moved, attempt, exposed>>

Taking == {"creating", "reading", "judging", "moving", "looking", "restoring"}
Places == {"off", "holding", "releasing", "refused", "closed", "dead"} \cup Taking
Pids == Daemons \cup {Ghost}

Alive(p) == p \in Daemons /\ at[p] \notin {"off", "dead"}

\* Between the rename of a lock it did not judge and the link back.
Restoring(d) == at[d] \in {"looking", "restoring"} /\ moved[d] # judged[d]

-----------------------------------------------------------------------------
Init ==
    /\ lock \in {NoLock, Ghost}
    /\ at = [d \in Daemons |-> "off"]
    /\ judged = [d \in Daemons |-> Ghost] /\ moved = [d \in Daemons |-> Ghost]
    /\ attempt = [d \in Daemons |-> 0]
    /\ exposed = FALSE

Go(d, place) == at' = [at EXCEPT ![d] = place]

Start(d) ==
    /\ at[d] = "off"
    /\ Go(d, "creating")
    /\ UNCHANGED <<lock, judged, moved, attempt, exposed>>

\* The loop's next turn, or "could not take".
Again(d) ==
    /\ attempt' = [attempt EXCEPT ![d] = @ + 1]
    /\ Go(d, IF attempt[d] + 1 < Attempts THEN "creating" ELSE "refused")

\* link(tmp, lockPath) lands only where there is no file.
Links(d) == lock = NoLock

Create(d) ==
    /\ at[d] = "creating"
    /\ IF Links(d)
       THEN /\ lock' = d /\ Go(d, "holding")
            /\ exposed' = (exposed \/ \E x \in Daemons : Restoring(x))
       ELSE Go(d, "reading") /\ UNCHANGED <<lock, exposed>>
    /\ UNCHANGED <<judged, moved, attempt>>

\* Mutated: a lock that is gone by now is judged all the same.
Read_Gone(d) ==
    /\ at[d] = "reading"
    /\ judged' = [judged EXCEPT ![d] = lock] /\ Go(d, "judging")
    /\ UNCHANGED <<lock, moved, attempt, exposed>>

Read(d) ==
    /\ at[d] = "reading"
    /\ IF lock = NoLock
       THEN Again(d) /\ UNCHANGED judged
       ELSE judged' = [judged EXCEPT ![d] = lock] /\ Go(d, "judging") /\ UNCHANGED attempt
    /\ UNCHANGED <<lock, moved, exposed>>

\* kill(pid, 0): a live holder refuses the start.
Judge(d) ==
    /\ at[d] = "judging"
    /\ Go(d, IF Alive(judged[d]) THEN "refused" ELSE "moving")
    /\ UNCHANGED <<lock, judged, moved, attempt, exposed>>

\* rename(lockPath, moved): takes whatever is there by now.
Move(d) ==
    /\ at[d] = "moving"
    /\ IF lock = NoLock
       THEN Again(d) /\ UNCHANGED <<lock, moved>>
       ELSE /\ moved' = [moved EXCEPT ![d] = lock] /\ lock' = NoLock
            /\ Go(d, "looking") /\ UNCHANGED attempt
    /\ UNCHANGED <<judged, exposed>>

\* Mutated: what was moved is taken for what was judged.
Judged_Always(d) == TRUE

Judged(d) == moved[d] = judged[d]

\* Mutated: no second try after dropping the stale lock.
Look_GivesUp(d) ==
    /\ at[d] = "looking"
    /\ Go(d, IF Judged(d) THEN "refused" ELSE "restoring")
    /\ UNCHANGED <<lock, judged, moved, attempt, exposed>>

\* It is the stale lock: dropped.  It is a rival's: to be put back.
Look(d) ==
    /\ at[d] = "looking"
    /\ IF Judged(d) THEN Again(d) ELSE Go(d, "restoring") /\ UNCHANGED attempt
    /\ UNCHANGED <<lock, judged, moved, exposed>>

\* Mutated: the rival's lock is not put back.
Restore_Dropped(d) ==
    /\ at[d] = "restoring"
    /\ Go(d, "refused")
    /\ UNCHANGED <<lock, judged, moved, attempt, exposed>>

\* link(moved, lockPath), which fails silently when there is a lock again.
Restore(d) ==
    /\ at[d] = "restoring"
    /\ lock' = IF lock = NoLock THEN moved[d] ELSE lock
    /\ Go(d, "refused")
    /\ UNCHANGED <<judged, moved, attempt, exposed>>

\* close(): the file is closed, then the lock is read ...
Close(d) ==
    /\ at[d] = "holding"
    /\ Go(d, IF lock = d THEN "releasing" ELSE "closed")
    /\ UNCHANGED <<lock, judged, moved, attempt, exposed>>

\* ... and, read as its own, unlinked, whatever is there by now.
Unlink(d) ==
    /\ at[d] = "releasing"
    /\ lock' = NoLock
    /\ Go(d, "closed")
    /\ UNCHANGED <<judged, moved, attempt, exposed>>

Dies(d) ==
    /\ Alive(d)
    /\ Go(d, "dead")
    /\ exposed' = (exposed \/ Restoring(d))
    /\ UNCHANGED <<lock, judged, moved, attempt>>

Next ==
    \E d \in Daemons :
        \/ Start(d) \/ Create(d) \/ Read(d) \/ Judge(d) \/ Move(d) \/ Look(d)
        \/ Restore(d) \/ Close(d) \/ Unlink(d) \/ Dies(d)

Spec == Init /\ [][Next]_vars

-----------------------------------------------------------------------------
TypeOK ==
    /\ lock \in Pids \cup {NoLock}
    /\ at \in [Daemons -> Places]
    /\ judged \in [Daemons -> Pids] /\ moved \in [Daemons -> Pids]
    /\ attempt \in [Daemons -> 0..Attempts]
    /\ exposed \in BOOLEAN

Writers == {d \in Daemons : at[d] = "holding"}

(* One writer per file (queue.ts:12), but for the documented limit, a daemon
   that creates the lock between a rename and its link back (queue.ts:131-134),
   and one the comment does not name, a taker killed there. *)
OneWriter == exposed \/ Cardinality(Writers) <= 1

(* A writer's lock is at its path, or with a taker that is about to put it
   back: no start of another daemon can pass it for good. *)
WriterHasALock ==
    \A d \in Writers :
        \/ exposed \/ lock = d
        \/ \E x \in Daemons : moved[x] = d /\ Restoring(x)

(* The queue is not left to nobody: when every daemon that started has been
   let in or refused, and none was killed or has closed, one has it. *)
SomeoneHasTheQueue ==
    (/\ \A d \in Daemons : at[d] \in {"off", "holding", "refused"}
     /\ \E d \in Daemons : at[d] = "refused")
        => Writers # {}
=============================================================================
