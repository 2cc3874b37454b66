------------------------------- MODULE AbsSem -------------------------------
(***************************************************************************)
(* What a counting semaphore promises: a value, the set of tasks that wait *)
(* for it, and how the last wait of each task ended.                       *)
(***************************************************************************)
EXTENDS Integers, FiniteSets

CONSTANTS Task,         \* the tasks
          prio,         \* their priorities
          InitValue,    \* the initial value
          ResetCounts,  \* the values that it may be reset to
          Destroyable   \* TRUE if some task may destroy it

VARIABLES value,        \* how many waits would succeed now
          waiters,      \* the tasks that wait
          result,       \* "none" while a call is in progress
          posts         \* how many posts there were

vars == <<value, waiters, result, posts>>

Init == /\ value = InitValue /\ waiters = {} /\ posts = 0
        /\ result = [t \in Task |-> "OK"]

Call(t) == /\ t \notin waiters
           /\ result' = [result EXCEPT ![t] = "none"]
           /\ UNCHANGED <<value, waiters, posts>>

Return(t, r) == /\ result[t] = "none"
                /\ result' = [result EXCEPT ![t] = r]

\* A wait succeeds at once, fails at once, or begins.
Take(t) == /\ value > 0 /\ value' = value - 1
           /\ Return(t, "OK")
           /\ UNCHANGED <<waiters, posts>>
Fail(t) == /\ value = 0 /\ t \notin waiters
           /\ Return(t, "EAGAIN") \/ Return(t, "ETIMEDOUT")
           /\ UNCHANGED <<value, waiters, posts>>
Begin(t) == /\ value = 0 /\ result[t] = "none"
            /\ waiters' = waiters \cup {t}
            /\ UNCHANGED <<value, result, posts>>

\* A post goes to a waiting task of the highest priority if there is one.
Grant(t) == /\ t \in waiters /\ \A u \in waiters : prio[u] <= prio[t]
            /\ waiters' = waiters \ {t}
            /\ posts' = posts + 1
            /\ Return(t, "OK")
            /\ UNCHANGED value
Post == /\ waiters = {} /\ value' = value + 1 /\ posts' = posts + 1
        /\ UNCHANGED <<waiters, result>>

\* A wait ends without a count: timeout or signal.
Cancel(t) == /\ t \in waiters
             /\ waiters' = waiters \ {t}
             /\ Return(t, "ETIMEDOUT") \/ Return(t, "EINTR")
             /\ UNCHANGED <<value, posts>>

\* The value is set to c: waiting tasks get a count each, those of higher
\* priority first, as far as c goes; what is left over stays available.
Reset(c) ==
    \E g \in SUBSET waiters :
        /\ \A t \in g, u \in waiters \ g : prio[u] <= prio[t]
        /\ Cardinality(g) = c \/ (g = waiters /\ Cardinality(g) <= c)
        /\ waiters' = waiters \ g
        /\ value' = c - Cardinality(g)
        /\ result' = [t \in Task |-> IF t \in g THEN "OK" ELSE result[t]]
        /\ UNCHANGED posts

\* A semaphore is only destroyed while nobody waits; it ends up with one count.
Destroy == /\ Destroyable /\ waiters = {}
           /\ value' = 1 /\ UNCHANGED <<waiters, result, posts>>

Next == \/ \E t \in Task : Call(t) \/ Take(t) \/ Fail(t) \/ Begin(t)
                              \/ Grant(t) \/ Cancel(t)
        \/ \E c \in ResetCounts : Reset(c)
        \/ Post \/ Destroy

Spec == Init /\ [][Next]_vars
=============================================================================
