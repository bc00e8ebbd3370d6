------------------------------- MODULE MCFloor -------------------------------
\* One officer and the chair in one round, in ticks of 30 seconds: the budgets of
\* floor.ts:72-104 as a huddle has them that is opened without any of its own.
EXTENDS Floor

CONSTANTS o1, chair, h1

MCRoster == <<h1, o1>>
=============================================================================
