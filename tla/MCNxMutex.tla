----------------------------- MODULE MCNxMutex -----------------------------
(* Instances of the mutex for TLC. *)
EXTENDS NxMutex

CONSTANTS a, b, c

\* Two tasks of the same priority and one of a higher priority
MCPrio == [t \in Task |-> IF t = a THEN 2 ELSE 1]

\* What each task calls
AllCalls == [t \in Task |-> {"wait", "try", "tick", "break"}]
=============================================================================
