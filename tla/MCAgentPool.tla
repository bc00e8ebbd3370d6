---------------------------- MODULE MCAgentPool ----------------------------
(* Small pools: two sessions of a channel that may hold one, one telegram  *)
(* session that is never evicted, room for two in all.                     *)
EXTENDS AgentPool, TLC

CONSTANTS s1, s2, t1, c1, c2, c3, c4, x

MCChannelOf == [s \in Sessions |-> IF s = t1 THEN "telegram" ELSE "computer"]
MCCapOf == [ch \in {"telegram", "computer"} |-> IF ch = "computer" THEN 1 ELSE 2]
Symmetry == Permutations(Items) \cup Permutations(Calls \ Items)
RoomSymmetry == Symmetry \cup Permutations(Sessions \ {t1})
=============================================================================
