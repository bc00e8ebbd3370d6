----------------------------- MODULE MCDurableRun -----------------------------
EXTENDS DurableRun, TLC

CONSTANTS a1, a2, r1, r2, c1, c2

Symmetry == Permutations(Askers) \cup Permutations(Requests)
=============================================================================
