------------------------------- MODULE MCGoal -------------------------------
(* Small instances of the goal lifecycle for TLC. *)
EXTENDS GoalRefinement, TLC

Symmetry == Permutations(Target)
=============================================================================
