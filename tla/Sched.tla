------------------------------- MODULE Sched -------------------------------
(***************************************************************************)
(* The single-CPU NuttX scheduler: the ready-to-run and pending lists, the *)
(* preemption lock, reprioritization, round robin, blocking and waking.    *)
(*                                                                         *)
(* The data that the kernel changes only inside a critical section is one  *)
(* record, k:                                                              *)
(*   readytorun, pending, waiting   g_readytorun, g_pendingtasks and the   *)
(*                                  wait list of one semaphore             *)
(*   state, prio, lock              task_state, sched_priority, lockcount  *)
(*   ret                            the bool the last list operation       *)
(*                                  returned: a context switch is needed   *)
(* Every kernel function is an operator from k to k; the actions call them *)
(* in the order in which the code does.                                    *)
(***************************************************************************)
EXTENDS TaskList

CONSTANTS Task,         \* the tasks other than the idle task
          Idle,         \* the idle task: always ready, never blocks
          MaxPrio,      \* SCHED_PRIORITY_MAX
          MaxLock,      \* bound on the nesting of sched_lock
          RRTasks,      \* the tasks with the SCHED_RR policy
          RRInterval    \* MSEC2TICK(CONFIG_RR_INTERVAL)

ASSUME SchedAssumption ==
    /\ Idle \notin Task
    /\ MaxPrio \in Nat \ {0}
    /\ MaxLock \in Nat \ {0}
    /\ RRTasks \subseteq Task
    /\ RRInterval \in Nat \ {0}

VARIABLES sched,        \* the record k described above
          cpu,          \* the task whose code the CPU executes
          pc,           \* where each task is inside a kernel call
          arg,          \* the arguments and values read that the call holds
          timeslice     \* ticks left to each round-robin task

vars == <<sched, cpu, pc, arg, timeslice>>

Tcb == Task \cup {Idle}
Prio == 1..MaxPrio      \* SCHED_PRIORITY_MIN..SCHED_PRIORITY_MAX
NoArg == <<Idle, 0>>
TaskState == {"INVALID", "PENDING", "READYTORUN", "RUNNING", "INACTIVE",
              "WAIT_SEM", "STOPPED"}

Runnable(k, t) == k.state[t] \in {"READYTORUN", "RUNNING"}
Blocked(k, t)  == k.state[t] \in {"INACTIVE", "WAIT_SEM", "STOPPED"}

this_task(k) == k.readytorun[1]
islocked(k, t) == k.lock[t] > 0

-----------------------------------------------------------------------------
(* List operations *)

\* dq_rem on TLIST_HEAD(tcb), the list that the task's state names.  The
\* lists of inactive and of stopped tasks are unordered: the state is enough.
Unlink(k, t) ==
    [k EXCEPT !.readytorun = IF Runnable(k, t) THEN dq_rem(@, t) ELSE @,
              !.pending    = IF k.state[t] = "PENDING" THEN dq_rem(@, t) ELSE @,
              !.waiting    = IF k.state[t] = "WAIT_SEM" THEN dq_rem(@, t) ELSE @]

\* Mutant: the preemption lock of the running task is not consulted.
add_readytorun_ignores_lock(k, t) ==
    LET rtr == nxsched_add_prioritized(k.readytorun, k.prio, t)
    IN  [k EXCEPT !.readytorun = rtr,
                  !.state = IF rtr[1] = t
                            THEN [@ EXCEPT ![t] = "RUNNING", ![rtr[2]] = "READYTORUN"]
                            ELSE [@ EXCEPT ![t] = "READYTORUN"],
                  !.ret = (rtr[1] = t)]

nxsched_add_readytorun(k, t) ==
    LET rtcb == this_task(k)
        rtr  == nxsched_add_prioritized(k.readytorun, k.prio, t)
    IN  IF islocked(k, rtcb) /\ k.prio[rtcb] < k.prio[t]
        THEN [k EXCEPT !.pending = nxsched_add_prioritized(@, k.prio, t),
                       !.state = [@ EXCEPT ![t] = "PENDING"],
                       !.ret = FALSE]
        ELSE IF rtr[1] = t
        THEN [k EXCEPT !.readytorun = rtr,
                       !.state = [@ EXCEPT ![t] = "RUNNING",
                                           ![rtr[2]] = "READYTORUN"],
                       !.ret = TRUE]
        ELSE [k EXCEPT !.readytorun = rtr,
                       !.state = [@ EXCEPT ![t] = "READYTORUN"],
                       !.ret = FALSE]

nxsched_remove_readytorun(k, t) ==
    LET u == Unlink(k, t)
    IN  IF Runnable(k, t) /\ this_task(k) = t
        THEN [u EXCEPT !.state = [@ EXCEPT ![k.readytorun[2]] = "RUNNING",
                                           ![t] = "INVALID"],
                       !.ret = TRUE]
        ELSE [u EXCEPT !.state = [@ EXCEPT ![t] = "INVALID"],
                       !.ret = FALSE]

nxsched_remove_blocked(k, t) ==
    [Unlink(k, t) EXCEPT !.state = [@ EXCEPT ![t] = "INVALID"]]

\* Nothing happens while the running task has preemption disabled.
nxsched_merge_pending(k) ==
    LET rtcb == this_task(k)
        rtr  == Merge(k.pending, k.readytorun, k.prio)
    IN  IF islocked(k, rtcb)
        THEN [k EXCEPT !.ret = FALSE]
        ELSE [k EXCEPT !.readytorun = rtr,
                       !.pending = <<>>,
                       !.state = [t \in Tcb |->
                            IF t = rtr[1] THEN "RUNNING"
                            ELSE IF t = rtcb \/ t \in Members(k.pending)
                                 THEN "READYTORUN" ELSE k.state[t]],
                       !.ret = (rtr[1] # rtcb)]

\* Mutant: a task that blocks leaves the pending tasks where they are.
remove_self_without_merge(k, t) == nxsched_remove_readytorun(k, t)

\* Mutant: only a task that had disabled preemption merges the pending tasks.
remove_self_merge_if_locked(k, t) ==
    LET r == nxsched_remove_readytorun(k, t)
    IN  IF r.pending # <<>> /\ islocked(k, t) THEN nxsched_merge_pending(r) ELSE r

nxsched_remove_self(k, t) ==
    LET r == nxsched_remove_readytorun(k, t)
    IN  IF r.pending # <<>> THEN nxsched_merge_pending(r) ELSE r

-----------------------------------------------------------------------------
(* Priorities *)

\* Mutant: only the insertion decides whether to switch.
reprioritize_rtr_ignores_removal(k, t, p) ==
    LET r == nxsched_remove_readytorun(k, t)
        a == nxsched_add_readytorun([r EXCEPT !.prio = [@ EXCEPT ![t] = p]], t)
    IN  IF a.ret /\ a.pending # <<>>
        THEN [nxsched_merge_pending(a) EXCEPT !.ret = TRUE]
        ELSE a

nxsched_reprioritize_rtr(k, t, p) ==
    LET r == nxsched_remove_readytorun(k, t)
        a == nxsched_add_readytorun([r EXCEPT !.prio = [@ EXCEPT ![t] = p]], t)
        switch_needed == (r.ret # a.ret)
    IN  IF switch_needed /\ a.pending # <<>>
        THEN [nxsched_merge_pending(a) EXCEPT !.ret = switch_needed]
        ELSE [a EXCEPT !.ret = switch_needed]

\* Mutant: the tasks moved aside keep the state READYTORUN.
running_setpriority_keeps_state(k, t, p) ==
    LET n     == MovedAside(k.readytorun, k.prio, p)
        moved == SubSeq(k.readytorun, 2, n + 1)
    IN  IF p > k.prio[k.readytorun[2]]
        THEN [k EXCEPT !.prio = [@ EXCEPT ![t] = p], !.ret = FALSE]
        ELSE IF islocked(k, this_task(k))
        THEN [k EXCEPT
                !.readytorun = [i \in 1..(Len(@) - n) |->
                                    IF i = 1 THEN @[1] ELSE @[i + n]],
                !.pending = Merge(moved, @, k.prio),
                !.prio = [@ EXCEPT ![t] = p],
                !.ret = FALSE]
        ELSE nxsched_reprioritize_rtr(k, t, p)

\* While preemption is disabled the tasks that would take over go to the
\* pending list.
nxsched_running_setpriority(k, t, p) ==
    LET n     == MovedAside(k.readytorun, k.prio, p)
        moved == SubSeq(k.readytorun, 2, n + 1)
    IN  IF p > k.prio[k.readytorun[2]]
        THEN [k EXCEPT !.prio = [@ EXCEPT ![t] = p], !.ret = FALSE]
        ELSE IF islocked(k, this_task(k))
        THEN [k EXCEPT
                !.readytorun = [i \in 1..(Len(@) - n) |->
                                    IF i = 1 THEN @[1] ELSE @[i + n]],
                !.pending = Merge(moved, @, k.prio),
                !.state = [u \in Tcb |-> IF u \in Members(moved)
                                         THEN "PENDING" ELSE k.state[u]],
                !.prio = [@ EXCEPT ![t] = p],
                !.ret = FALSE]
        ELSE nxsched_reprioritize_rtr(k, t, p)

\* Mutant: the task keeps its place in the prioritized list.
blocked_setpriority_in_place(k, t, p) ==
    [k EXCEPT !.prio = [@ EXCEPT ![t] = p], !.ret = FALSE]

nxsched_blocked_setpriority(k, t, p) ==
    LET prio == [k.prio EXCEPT ![t] = p]
        requeue(list) == nxsched_add_prioritized(dq_rem(list, t), prio, t)
    IN  [k EXCEPT
            !.pending = IF k.state[t] = "PENDING" THEN requeue(@) ELSE @,
            !.waiting = IF k.state[t] = "WAIT_SEM" THEN requeue(@) ELSE @,
            !.prio = prio,
            !.ret = FALSE]

nxsched_set_priority(k, t, p) ==
    CASE k.state[t] = "RUNNING"    -> nxsched_running_setpriority(k, t, p)
      [] k.state[t] = "READYTORUN" -> nxsched_reprioritize_rtr(k, t, p)
      [] OTHER                     -> nxsched_blocked_setpriority(k, t, p)

-----------------------------------------------------------------------------
(* Steps.  A task takes a step while the CPU executes it.  An interrupt     *)
(* handler may run between any two steps; whichever task is at the head of *)
(* the ready-to-run list when it returns is the one that continues.        *)

\* up_switch_context(this_task(), rtcb), called only if it is needed
IfSwitchNeeded(k) ==
    /\ sched' = [k EXCEPT !.ret = FALSE]
    /\ cpu' = IF k.ret THEN this_task(k) ELSE cpu

\* an unconditional up_switch_context, or the return from an interrupt
Switch(k) ==
    /\ sched' = [k EXCEPT !.ret = FALSE]
    /\ cpu' = this_task(k)

Goto(t, label, a) == /\ pc' = [pc EXCEPT ![t] = label]
                     /\ arg' = [arg EXCEPT ![t] = a]

sched_lock ==
    LET t == this_task(sched)
    IN  /\ pc[cpu] = "run" /\ cpu # Idle
        /\ sched.lock[t] < MaxLock
        /\ sched' = [sched EXCEPT !.lock = [@ EXCEPT ![t] = sched.lock[t] + 1]]
        /\ UNCHANGED <<cpu, pc, arg, timeslice>>

\* Mutant: an unbalanced sched_unlock takes the count below zero.
sched_unlock_unbalanced ==
    LET t == this_task(sched)
    IN  /\ pc[cpu] \in {"run", "leave"} /\ cpu # Idle
        /\ sched' = [sched EXCEPT !.lock = [@ EXCEPT ![t] = sched.lock[t] - 1]]
        /\ Goto(cpu, IF sched.lock[t] = 1 THEN "merge" ELSE "run", NoArg)
        /\ UNCHANGED <<cpu, timeslice>>

\* The lock count is decremented before the critical section is entered.
sched_unlock ==
    LET t == this_task(sched)
    IN  /\ pc[cpu] \in {"run", "leave"} /\ sched.lock[t] > 0
        /\ sched' = [sched EXCEPT !.lock = [@ EXCEPT ![t] = sched.lock[t] - 1]]
        /\ Goto(cpu, IF sched.lock[t] = 1 THEN "merge" ELSE "run", NoArg)
        /\ UNCHANGED <<cpu, timeslice>>

\* On one CPU the time-slice check that ends sched_unlock is never taken: after
\* up_switch_context has returned, rtcb is this_task() again.
sched_unlock_merge ==
    /\ pc[cpu] = "merge"
    /\ IF sched.pending # <<>>
       THEN IfSwitchNeeded(nxsched_merge_pending(sched))
       ELSE UNCHANGED <<sched, cpu>>
    /\ Goto(cpu, "run", NoArg)
    /\ UNCHANGED timeslice

\* The priority to restore is read before the critical section is entered.
sched_yield ==
    /\ pc[cpu] = "run" /\ cpu # Idle
    /\ Goto(cpu, "yield", <<cpu, sched.prio[cpu]>>)
    /\ UNCHANGED <<sched, cpu, timeslice>>

sched_yield_set ==
    /\ pc[cpu] = "yield"
    /\ IfSwitchNeeded(nxsched_set_priority(sched, cpu, arg[cpu][2]))
    /\ Goto(cpu, "run", NoArg)
    /\ UNCHANGED timeslice

nxsched_set_param(u, p) ==
    /\ pc[cpu] = "run" /\ cpu # Idle
    /\ sched.lock[cpu] < MaxLock
    /\ sched.state[u] # "INACTIVE"
    /\ sched' = [sched EXCEPT !.lock = [@ EXCEPT ![cpu] = sched.lock[cpu] + 1]]
    /\ Goto(cpu, "param", <<u, p>>)
    /\ UNCHANGED <<cpu, timeslice>>

nxsched_set_param_apply ==
    /\ pc[cpu] = "param"
    /\ IfSwitchNeeded(nxsched_set_priority(sched, arg[cpu][1], arg[cpu][2]))
    /\ Goto(cpu, "leave", NoArg)
    /\ UNCHANGED timeslice

\* The scheduling part of nxsem_wait_slow: the caller blocks.
Wait ==
    /\ pc[cpu] = "run" /\ cpu # Idle
    /\ LET k == nxsched_remove_self(sched, cpu)
       IN  Switch([k EXCEPT
                !.state = [@ EXCEPT ![cpu] = "WAIT_SEM"],
                !.waiting = nxsched_add_prioritized(@, k.prio, cpu)])
    /\ UNCHANGED <<pc, arg, timeslice>>

\* The scheduling part of nxsem_post_slow and of nxsem_wait_irq: a waiting
\* task is made ready, by the running task or by an interrupt handler.
Wake(t, isr) ==
    /\ t \in Members(sched.waiting)
    /\ isr \/ (pc[cpu] = "run" /\ cpu # Idle)
    /\ LET k == nxsched_add_readytorun(nxsched_remove_blocked(sched, t), t)
       IN  IF isr THEN Switch(k) ELSE IfSwitchNeeded(k)
    /\ UNCHANGED <<pc, arg, timeslice>>

nxsched_suspend(t) ==
    /\ pc[cpu] = "run" /\ cpu # Idle
    /\ sched.state[t] \notin {"INACTIVE", "STOPPED"}
    /\ IF Blocked(sched, t)
       THEN /\ sched' = [nxsched_remove_blocked(sched, t) EXCEPT
                            !.state = [@ EXCEPT ![t] = "STOPPED"]]
            /\ UNCHANGED cpu
       ELSE LET r == nxsched_remove_readytorun(sched, t)
                m == IF r.pending # <<>> THEN nxsched_merge_pending(r) ELSE r
            IN  IfSwitchNeeded([m EXCEPT
                    !.state = [@ EXCEPT ![t] = "STOPPED"],
                    !.ret = r.ret \/ m.ret])
    /\ UNCHANGED <<pc, arg, timeslice>>

\* SIGCONT in nxsig_tcbdispatch
Continue(t, isr) ==
    /\ isr \/ (pc[cpu] = "run" /\ cpu # Idle)
    /\ sched.state[t] = "STOPPED"
    /\ LET k == nxsched_add_readytorun(sched, t)
       IN  IF isr THEN Switch(k) ELSE IfSwitchNeeded(k)
    /\ UNCHANGED <<pc, arg, timeslice>>

\* A new TCB starts with no lock held, and a released one is gone: an inactive
\* task carries no trace of its former life.
Release(k, t) == [k EXCEPT !.state = [@ EXCEPT ![t] = "INACTIVE"],
                           !.prio  = [@ EXCEPT ![t] = 1],
                           !.lock  = [@ EXCEPT ![t] = 0],
                           !.ret   = FALSE]

ReleaseLocals(t) == /\ Goto(t, "run", NoArg)
                    /\ timeslice' = [timeslice EXCEPT ![t] = RRInterval]

\* The idle task starts the first task (nx_bringup), tasks start the others.
nxtask_activate(t, p) ==
    /\ pc[cpu] = "run"
    /\ sched.state[t] = "INACTIVE"
    /\ LET k == nxsched_remove_blocked([sched EXCEPT !.prio = [@ EXCEPT ![t] = p]], t)
       IN  IfSwitchNeeded(nxsched_add_readytorun(k, t))
    /\ UNCHANGED <<pc, arg, timeslice>>

nxtask_exit ==
    /\ pc[cpu] = "run" /\ cpu # Idle
    /\ Switch(Release(nxsched_remove_self(sched, cpu), cpu))
    /\ ReleaseLocals(cpu)

\* task_delete of another task; nxtask_exithook brackets the wake-up of waiting
\* parents with sched_lock and sched_unlock.  A task that waits for a semaphore
\* goes through nxsem_recover as well: module NxSem has that case.
nxtask_terminate(t) ==
    LET r == nxsched_remove_readytorun(sched, t)
        m == IF r.pending # <<>> THEN nxsched_merge_pending(r) ELSE r
    IN  /\ pc[cpu] = "run" /\ cpu # Idle
        /\ t # cpu /\ sched.state[t] \notin {"INACTIVE", "WAIT_SEM"}
        /\ sched' = Release(m, t)
        /\ cpu' = IF m.ret THEN this_task(m) ELSE cpu
        /\ ReleaseLocals(t)

\* Mutant: the time slice is restarted but the next task of the same priority
\* is not given its turn.
process_roundrobin_strict ==
    LET t    == this_task(sched)
        left == IF timeslice[t] > 0 THEN timeslice[t] - 1 ELSE 0
        expired == left = 0 /\ ~islocked(sched, t)
    IN  /\ t \in RRTasks
        /\ timeslice' = [timeslice EXCEPT ![t] = IF expired THEN RRInterval ELSE left]
        /\ IF expired /\ sched.prio[sched.readytorun[2]] > sched.prio[t]
           THEN Switch(nxsched_reprioritize_rtr(sched, t, sched.prio[t]))
           ELSE UNCHANGED <<sched, cpu>>
        /\ UNCHANGED <<pc, arg>>

\* nxsched_process_timer, in the timer interrupt
nxsched_process_roundrobin ==
    LET t    == this_task(sched)
        left == IF timeslice[t] > 0 THEN timeslice[t] - 1 ELSE 0
        expired == left = 0 /\ ~islocked(sched, t)
    IN  /\ t \in RRTasks
        /\ timeslice' = [timeslice EXCEPT ![t] = IF expired THEN RRInterval ELSE left]
        /\ IF expired /\ sched.prio[sched.readytorun[2]] >= sched.prio[t]
           THEN Switch(nxsched_reprioritize_rtr(sched, t, sched.prio[t]))
           ELSE UNCHANGED <<sched, cpu>>
        /\ UNCHANGED <<pc, arg>>

-----------------------------------------------------------------------------
Init ==
    /\ sched = [readytorun |-> <<Idle>>, pending |-> <<>>, waiting |-> <<>>,
                state |-> [t \in Tcb |-> IF t = Idle THEN "RUNNING" ELSE "INACTIVE"],
                prio  |-> [t \in Tcb |-> IF t = Idle THEN 0 ELSE 1],
                lock  |-> [t \in Tcb |-> 0],
                ret   |-> FALSE]
    /\ cpu = Idle
    /\ pc = [t \in Tcb |-> "run"]
    /\ arg = [t \in Tcb |-> NoArg]
    /\ timeslice = [t \in Tcb |-> RRInterval]

Next ==
    \/ sched_lock \/ sched_unlock \/ sched_unlock_merge
    \/ sched_yield \/ sched_yield_set
    \/ \E t \in Task, p \in Prio : nxsched_set_param(t, p)
    \/ nxsched_set_param_apply
    \/ Wait
    \/ \E t \in Task, isr \in BOOLEAN : Wake(t, isr) \/ Continue(t, isr)
    \/ \E t \in Task : nxsched_suspend(t) \/ nxtask_terminate(t)
    \/ \E t \in Task, p \in Prio : nxtask_activate(t, p)
    \/ nxtask_exit
    \/ nxsched_process_roundrobin

Spec == Init /\ [][Next]_vars

\* The timer interrupt keeps coming.
LiveSpec == Spec /\ WF_vars(nxsched_process_roundrobin)

-----------------------------------------------------------------------------
(* Properties *)

SchedRecord ==
    [readytorun : Seq(Tcb), pending : Seq(Task), waiting : Seq(Task),
     state : [Tcb -> TaskState], prio : [Tcb -> 0..MaxPrio],
     lock : [Tcb -> 0..MaxLock], ret : BOOLEAN]

\* Every variable keeps its type; between two kernel calls no task is in limbo.
TypeOK ==
    /\ sched \in SchedRecord
    /\ cpu \in Tcb
    /\ pc \in [Tcb -> {"run", "merge", "yield", "param", "leave"}]
    /\ arg \in [Tcb -> Tcb \X (0..MaxPrio)]
    /\ timeslice \in [Tcb -> 0..RRInterval]

\* A TCB's task_state names the one list that holds it: dq_rem on TLIST_HEAD
\* never unlinks a TCB from a list that it is not in.
StateNamesList ==
    /\ \A t \in Tcb :
        /\ t \in Members(sched.readytorun) <=> Runnable(sched, t)
        /\ t \in Members(sched.pending) <=> sched.state[t] = "PENDING"
        /\ t \in Members(sched.waiting) <=> sched.state[t] = "WAIT_SEM"
        /\ sched.state[t] # "INVALID"
    /\ Distinct(sched.readytorun) /\ Distinct(sched.pending)
    /\ Distinct(sched.waiting)

\* Whatever mix of insertions, merges and reprioritizations ran, each list is
\* in descending priority order; the early exits of the search loops need it.
ListsDescending ==
    /\ Descending(sched.readytorun, sched.prio)
    /\ Descending(sched.pending, sched.prio)
    /\ Descending(sched.waiting, sched.prio)

\* The CPU executes the task at the head of the ready-to-run list, and only
\* that one is in state RUNNING: no function that changed the head returned
\* false, which would have skipped up_switch_context.
HeadIsExecuting ==
    /\ cpu = this_task(sched)
    /\ \A t \in Tcb : sched.state[t] = "RUNNING" <=> t = cpu

\* A task that has preemption disabled keeps the CPU until it gives it up
\* itself by blocking, stopping or exiting.
LockedTaskKeepsCpu ==
    [][islocked(sched, cpu) /\ cpu' # cpu => Blocked(sched', cpu)]_vars

\* Tasks collect in g_pendingtasks only while the running task has preemption
\* disabled or some task is about to merge them in sched_unlock: none is
\* forgotten there when a locked task blocks, stops, exits or is deleted.
PendingOnlyIfLocked ==
    sched.pending # <<>> =>
        islocked(sched, this_task(sched)) \/ \E t \in Task : pc[t] = "merge"

\* When the running task gives up the CPU, the tasks that its preemption lock
\* held back compete: the CPU goes to a ready task of the highest priority, or
\* to one that had itself disabled preemption before it was switched out.
HandoverToHighest ==
    [][Blocked(sched', cpu) /\ Runnable(sched, cpu) =>
        \/ islocked(sched', cpu')
        \/ \A t \in Task : Runnable(sched', t) \/ sched'.state[t] = "PENDING"
                                => sched'.prio[t] <= sched'.prio[cpu']]_vars

\* A round-robin task that stays ready at the priority of the running task gets
\* the CPU again and again, however the others yield, block, start or exit:
\* only a higher priority or a preemption lock may hold it up.
RoundRobinShares ==
    \A t \in RRTasks : []<>(\/ cpu = t
                            \/ ~Runnable(sched, t)
                            \/ sched.prio[cpu] > sched.prio[t]
                            \/ islocked(sched, cpu))
=============================================================================
