------------------------------ MODULE MCRwSem ------------------------------
(* Instances of the reader-writer lock for TLC. *)
EXTENDS RwSem

CONSTANTS a, b, c

\* One task of a higher priority
MCPrio == [t \in Task |-> IF t = a THEN 2 ELSE 1]
=============================================================================
