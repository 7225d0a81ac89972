---------------------------- MODULE MCScheduler -----------------------------
(* Instances of Scheduler for TLC: one or two agents and a task.               *)
EXTENDS Scheduler, TLC

CONSTANTS a1, a2, t1

MCSymmetry == Permutations({a1, a2})
=============================================================================
