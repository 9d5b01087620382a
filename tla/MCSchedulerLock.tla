-------------------------- MODULE MCSchedulerLock --------------------------
(* Small instances of SchedulerLock for TLC. *)
EXTENDS SchedulerLock, TLC

CONSTANTS p1, p2, p3

Symmetry == Permutations(Processes)
=============================================================================
