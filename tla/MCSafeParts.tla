----------------------------- MODULE MCSafeParts -----------------------------
(* Three parts that share no state, of which safety alone is checked, so that *)
(* the daemons may be taken as symmetric: "lock", starts of the daemon racing *)
(* for the queue's lock file; "boot", two sessions over crashes of a serving  *)
(* daemon, with sessions that fail to be recreated or restored; "floor", one  *)
(* huddle.  A behaviour is a behaviour of one of them, `part'; the variables  *)
(* of the others keep their initial values.                                   *)
EXTENDS QueueLock, DaemonBoot, Floor, TLC

CONSTANTS d1, d2, d3, d4, s1, s2, t1, t2, o1, o2, chair, h1, h2

VARIABLE part

lockVars == vars

Symmetry == Permutations(Daemons)

MCTarget == [t \in {t1, t2} |-> IF t = t1 THEN s1 ELSE s2]
MCRoster == <<h1, o1, h2, o1>>

PartsInit ==
    /\ part \in {"lock", "boot", "floor"}
    /\ Init /\ BootInit /\ FloorInit
    /\ part # "lock" => lock = NoLock
    /\ part # "floor" => lastHuman = h1

\* The starts and the huddle come to an end; the daemon never stops.
PartIsOver ==
    \/ part = "lock" /\ \A d \in Daemons : at[d] \in {"refused", "closed", "dead"}
    \/ part = "floor" /\ huddle = "closed"

PartsNext ==
    /\ UNCHANGED part
    /\ \/ part = "lock" /\ Next /\ UNCHANGED <<bootVars, floorVars>>
       \/ part = "boot" /\ BootNext /\ UNCHANGED <<lockVars, floorVars>>
       \/ part = "floor" /\ FloorNext /\ UNCHANGED <<lockVars, bootVars>>
       \/ PartIsOver /\ UNCHANGED <<lockVars, bootVars, floorVars>>

PartsSpec == PartsInit /\ [][PartsNext]_<<part, lockVars, bootVars, floorVars>>
=============================================================================
