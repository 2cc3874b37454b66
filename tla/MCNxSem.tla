------------------------------ MODULE MCNxSem ------------------------------
(* Model-checking instances of the counting semaphore *)
EXTENDS NxSem

CONSTANTS t1, t2, t3

\* t1 and t2 share a priority, t3 is above them.
MCPrio == [t \in Task |-> IF t = t3 THEN 2 ELSE 1]

\* Every call, shared out among the tasks
Mixed == [t \in Task |-> CASE t = t1 -> {"wait", "reset", "destroy"}
                           [] t = t2 -> {"wait", "tick", "post"}
                           [] t = t3 -> {"tick", "try"}]

\* Waits and posts only
WaitPost == [t \in Task |-> IF t = t2 THEN {"wait", "post"}
                            ELSE {"wait", "try", "tick", "post"}]
=============================================================================
