----------------------------- MODULE MCScheduler -----------------------------
(* Scheduler for TLC: a periodic command and two that run once. *)
EXTENDS Scheduler

CONSTANTS p, a, b

TestCommands == {p, a, b}
TestPeriod == [c \in TestCommands |-> IF c = p THEN 1 ELSE 0]
==============================================================================
