------------------------------- MODULE MCGpio -------------------------------
(* Instances of the interrupt pin for TLC. *)
EXTENDS Gpio, TLC

CONSTANTS a, b, c, p

TaskSymmetry == Permutations(Task)
=============================================================================
