------------------------------ MODULE MCWQueue ------------------------------
(* Instances of the work queue for TLC. *)
EXTENDS WQueue

CONSTANTS k1, k2, w1, w2, p1, a, b
=============================================================================
