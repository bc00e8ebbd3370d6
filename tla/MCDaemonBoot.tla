----------------------------- MODULE MCDaemonBoot -----------------------------
(* One or two sessions and two or three turns: turns that share a session, and
   turns each for a session of its own.                                     *)
EXTENDS DaemonBoot

CONSTANTS s1, s2, t1, t2, t3

SharedTarget == [t \in Turns |-> IF t = t3 THEN s2 ELSE s1]
=============================================================================
