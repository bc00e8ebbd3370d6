---------------------------- MODULE MCWorkQueue ----------------------------
(* Small instances of WorkQueue for TLC. *)
EXTENDS WorkQueue, TLC
CONSTANTS a, b, c
Symmetry == Permutations(Ids)

\* The disk on which no write throws (the queue of MCParts has one on which some do).
SoundNext ==
    \/ \E id \in Ids : \/ Enqueue(id) \/ EnqueueKnown(id) \/ Start(id)
                       \/ \E op \in {"done", "failed"} : End(id, op)
    \/ Crash \/ Close \/ Open \/ OpenDies

SoundSpec == Init /\ [][SoundNext]_vars
=============================================================================
