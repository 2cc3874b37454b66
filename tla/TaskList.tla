------------------------------ MODULE TaskList ------------------------------
(***************************************************************************)
(* The prioritized task lists of the NuttX scheduler: doubly linked lists  *)
(* of TCBs kept in descending sched_priority order, tasks of one priority  *)
(* in the order in which they were queued.  A list is a sequence of tasks; *)
(* prio maps each task to its sched_priority.                              *)
(***************************************************************************)
EXTENDS Integers, Sequences

Members(list) == {list[i] : i \in DOMAIN list}

(***************************************************************************)
(* The search loop shared by every insertion: the number of tasks at the   *)
(* front of the list that a task of priority p does not overtake.          *)
(***************************************************************************)
Ahead(list, prio, p) ==
    CHOOSE k \in 0..Len(list) :
        /\ \A i \in 1..k : p <= prio[list[i]]
        /\ k < Len(list) => prio[list[k + 1]] < p

nxsched_add_prioritized(list, prio, t) ==
    LET k == Ahead(list, prio, prio[t])
    IN  [i \in 1..(Len(list) + 1) |->
            IF i <= k THEN list[i] ELSE IF i = k + 1 THEN t ELSE list[i - 1]]

dq_rem(list, t) ==
    LET k == CHOOSE i \in DOMAIN list : list[i] = t
    IN  [i \in 1..(Len(list) - 1) |-> IF i < k THEN list[i] ELSE list[i + 1]]

(***************************************************************************)
(* The merge loops of nxsched_merge_pending and nxsched_merge_prioritized, *)
(* in closed form: a task of list2 is preceded by the tasks of list1 with  *)
(* a strictly higher priority, a task of list1 by the tasks of list2 with  *)
(* at least its priority.  ListLoops runs the pointer loops against it.    *)
(***************************************************************************)
Place2(list1, list2, prio, i) == i + Ahead(list1, prio, prio[list2[i]] + 1)
Place1(list1, list2, prio, j) == j + Ahead(list2, prio, prio[list1[j]])

Merge(list1, list2, prio) ==
    [q \in 1..(Len(list1) + Len(list2)) |->
        IF \E i \in DOMAIN list2 : Place2(list1, list2, prio, i) = q
        THEN list2[CHOOSE i \in DOMAIN list2 : Place2(list1, list2, prio, i) = q]
        ELSE list1[CHOOSE j \in DOMAIN list1 : Place1(list1, list2, prio, j) = q]]

(***************************************************************************)
(* The do-while loop of nxsched_running_setpriority, for a running task    *)
(* that drops to priority p with preemption disabled: the number of tasks  *)
(* it moves to the pending list, the next one and then every further one   *)
(* with a priority above p.                                                *)
(***************************************************************************)
MovedAside(rtr, prio, p) ==
    LET above == Ahead(Tail(rtr), prio, p + 1)
    IN  IF above = 0 THEN 1 ELSE above

(***************************************************************************)
(* What the loops rely on and keep: no task twice, descending priorities.  *)
(***************************************************************************)
Distinct(list) == \A i, j \in DOMAIN list : list[i] = list[j] => i = j
Descending(list, prio) ==
    \A i, j \in DOMAIN list : i <= j => prio[list[j]] <= prio[list[i]]
=============================================================================
