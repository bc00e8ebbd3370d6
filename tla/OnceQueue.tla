----------------------------- MODULE OnceQueue -----------------------------
(***************************************************************************)
(* What the header of packages/daemon/queue.ts promises to a caller of     *)
(* enqueue, without files or daemons: each id is accepted once, starts in  *)
(* the order of acceptance, ends once, and is never started again; a stop  *)
(* turns an item whose end is not known into "unknown", which is final.    *)
(***************************************************************************)
EXTENDS Naturals, Sequences, FiniteSets

CONSTANTS Ids, StartLimit

VARIABLES phase,   \* id -> "none", "queued", "running", or how it ended
          line     \* the ids waiting to start, oldest first

vars == <<phase, line>>

Ended == {"done", "failed", "unknown"}
InFlight == {id \in Ids : phase[id] = "running"}

Init == phase = [id \in Ids |-> "none"] /\ line = <<>>

Accept(id) ==
    /\ phase[id] = "none"
    /\ phase' = [phase EXCEPT ![id] = "queued"]
    /\ line' = Append(line, id)

Start ==
    /\ line # <<>> /\ Cardinality(InFlight) < StartLimit
    /\ phase[Head(line)] = "queued"
    /\ phase' = [phase EXCEPT ![Head(line)] = "running"]
    /\ line' = Tail(line)

Finish(id) ==
    /\ phase[id] = "running"
    /\ phase' \in {[phase EXCEPT ![id] = how] : how \in {"done", "failed"}}
    /\ UNCHANGED line

\* Nobody knows any more how the items in `lost' ended; everything that was
\* in flight is among them, and nothing that still waited is.
Stop(lost) ==
    /\ InFlight \subseteq lost
    /\ \A id \in lost : phase[id] \in Ended \cup {"running"}
    /\ phase' = [id \in Ids |-> IF id \in lost THEN "unknown" ELSE phase[id]]
    /\ UNCHANGED line

Next ==
    \/ \E id \in Ids : Accept(id) \/ Finish(id)
    \/ Start
    \/ \E lost \in SUBSET Ids : Stop(lost)

Spec == Init /\ [][Next]_vars
=============================================================================
