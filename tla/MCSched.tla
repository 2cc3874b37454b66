------------------------------ MODULE MCSched ------------------------------
(* Model-checking instance of the scheduler *)
EXTENDS ListLoops, TLC

Symmetry == Permutations(Task)
=============================================================================
