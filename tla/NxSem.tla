------------------------------- MODULE NxSem -------------------------------
(***************************************************************************)
(* A NuttX counting semaphore: the lock-free fast paths of nxsem_wait,     *)
(* nxsem_trywait and nxsem_post, one atomic operation per step, and their  *)
(* slow paths, each inside one critical section; timeouts, signals,        *)
(* nxsem_reset and nxsem_destroy.                                          *)
(*                                                                         *)
(* The tasks share one CPU.  With round-robin time slices a switch may     *)
(* come between any two instructions, so a step of any task that is not    *)
(* blocked may come next; interrupt handlers run between steps.  The       *)
(* priorities only order the wait list.                                    *)
(***************************************************************************)
EXTENDS TaskList

CONSTANTS Task,             \* the tasks that use the semaphore
          Prio,             \* their priorities
          InitValue,        \* the value given to nxsem_init
          SEM_VALUE_MAX,    \* INT_MAX, the largest value of an int32_t
          Calls,            \* the calls that each task makes
          ResetCounts,      \* the counts that nxsem_reset is called with
          MaxPosts          \* bound on the number of posts

ASSUME NxSemAssumption ==
    /\ Prio \in [Task -> Nat]
    /\ SEM_VALUE_MAX \in Nat
    /\ InitValue \in 0..SEM_VALUE_MAX
    /\ Calls \in [Task -> SUBSET {"wait", "try", "tick", "post", "destroy", "reset"}]
    /\ ResetCounts \subseteq 0..SEM_VALUE_MAX
    /\ MaxPosts \in Nat

VARIABLES semcount,     \* sem->val.semcount
          waitlist,     \* SEM_WAITLIST(sem)
          pc,           \* where each task is
          old,          \* the count that its fast path has read
          errcode,      \* tcb->errcode: how its wait ended
          ret,          \* what its last wait returned, "none" while it waits
          waitdog,      \* its watchdog timer is running
          posts         \* the number of posts so far

vars == <<semcount, waitlist, pc, old, errcode, ret, waitdog, posts>>

Label == {"run", "wait", "waitcas", "waitslow", "try", "trycas", "tick",
          "post", "postcas", "postslow", "destroy", "destroycas",
          "blocked", "timedblocked", "woken", "dead"}
Result == {"none", "OK", "EAGAIN", "EINTR", "ETIMEDOUT"}

\* An int32_t wraps around.
Wrap(n) == IF n > SEM_VALUE_MAX THEN -(SEM_VALUE_MAX + 1) ELSE n

WaitSem(t) == pc[t] \in {"blocked", "timedblocked"}     \* TSTATE_WAIT_SEM

Goto(t, label) == pc' = [pc EXCEPT ![t] = label]
Return(t, r) == Goto(t, "run") /\ ret' = [ret EXCEPT ![t] = r]

\* A task enters one of the calls below.
Call(t, label) ==
    /\ pc[t] = "run" /\ label \in Calls[t]
    /\ Goto(t, label)
    /\ ret' = IF label \in {"wait", "try", "tick"}
              THEN [ret EXCEPT ![t] = "none"] ELSE ret
    /\ UNCHANGED <<semcount, waitlist, old, errcode, waitdog, posts>>

\* The count that a fast path has read, forgotten when the loop is left
Read(t)   == old' = [old EXCEPT ![t] = semcount]
Forget(t) == old' = [old EXCEPT ![t] = 0]

-----------------------------------------------------------------------------
(* nxsem_wait *)

wait_read(t) ==
    /\ pc[t] = "wait"
    /\ \/ semcount < 1 /\ Goto(t, "waitslow") /\ UNCHANGED old
       \/ semcount >= 1 /\ Goto(t, "waitcas") /\ Read(t)
    /\ UNCHANGED <<semcount, waitlist, errcode, ret, waitdog, posts>>

\* atomic_try_cmpxchg_acquire: on a mismatch the loop reads the count again
wait_cas(t) ==
    /\ pc[t] = "waitcas"
    /\ IF semcount = old[t]
       THEN semcount' = semcount - 1 /\ Return(t, "OK")
       ELSE Goto(t, "wait") /\ UNCHANGED <<semcount, ret>>
    /\ Forget(t)
    /\ UNCHANGED <<waitlist, errcode, waitdog, posts>>

Block(t, label) ==
    /\ semcount' = semcount - 1
    /\ errcode' = [errcode EXCEPT ![t] = "OK"]
    /\ waitlist' = nxsched_add_prioritized(waitlist, Prio, t)
    /\ Goto(t, label)
    /\ UNCHANGED ret

nxsem_wait_slow(t) ==
    /\ pc[t] = "waitslow"
    /\ \/ /\ semcount > 0
          /\ semcount' = semcount - 1
          /\ Return(t, "OK")
          /\ UNCHANGED <<waitlist, errcode>>
       \/ semcount <= 0 /\ Block(t, "blocked")
    /\ UNCHANGED <<old, waitdog, posts>>

\* Mutant: the watchdog is left running.
wait_resume_no_cancel(t) ==
    /\ pc[t] = "woken"
    /\ Return(t, errcode[t])
    /\ UNCHANGED <<semcount, waitlist, old, errcode, waitdog, posts>>

\* The task resumes inside nxsem_wait_slow; nxsem_tickwait goes on to stop the
\* watchdog in the same critical section.
wait_resume(t) ==
    /\ pc[t] = "woken"
    /\ Return(t, errcode[t])
    /\ waitdog' = [waitdog EXCEPT ![t] = FALSE]
    /\ UNCHANGED <<semcount, waitlist, old, errcode, posts>>

-----------------------------------------------------------------------------
(* nxsem_trywait and nxsem_tickwait *)

try_read(t) ==
    /\ pc[t] = "try"
    /\ \/ semcount < 1 /\ Return(t, "EAGAIN") /\ UNCHANGED old
       \/ semcount >= 1 /\ Goto(t, "trycas") /\ Read(t) /\ UNCHANGED ret
    /\ UNCHANGED <<semcount, waitlist, errcode, waitdog, posts>>

try_cas(t) ==
    /\ pc[t] = "trycas"
    /\ IF semcount = old[t]
       THEN semcount' = semcount - 1 /\ Return(t, "OK")
       ELSE Goto(t, "try") /\ UNCHANGED <<semcount, ret>>
    /\ Forget(t)
    /\ UNCHANGED <<waitlist, errcode, waitdog, posts>>

\* All of nxsem_tickwait up to the point where it blocks is one critical section.
nxsem_tickwait(t) ==
    /\ pc[t] = "tick"
    /\ \/ /\ semcount >= 1
          /\ semcount' = semcount - 1
          /\ Return(t, "OK")
          /\ UNCHANGED <<waitlist, errcode, waitdog>>
       \/ /\ semcount < 1
          /\ Return(t, "ETIMEDOUT")         \* with a delay of zero
          /\ UNCHANGED <<semcount, waitlist, errcode, waitdog>>
       \/ /\ semcount < 1
          /\ waitdog' = [waitdog EXCEPT ![t] = TRUE]
          /\ Block(t, "timedblocked")
    /\ UNCHANGED <<old, posts>>

\* Mutant: the count that the wait had taken is not given back.
wait_irq_keeps_count(t, err) ==
    /\ waitlist' = dq_rem(waitlist, t)
    /\ errcode' = [errcode EXCEPT ![t] = err]
    /\ Goto(t, "woken")
    /\ UNCHANGED <<semcount, old, ret, posts>>

\* A wait is cut short, by a timeout or by a signal.
nxsem_wait_irq(t, err) ==
    /\ waitlist' = dq_rem(waitlist, t)
    /\ semcount' = semcount + 1
    /\ errcode' = [errcode EXCEPT ![t] = err]
    /\ Goto(t, "woken")
    /\ UNCHANGED <<old, ret, posts>>

\* Mutant: the timer interrupt only marks the wait as timed out.
timeout_without_wake(t) ==
    /\ waitdog[t]
    /\ waitdog' = [waitdog EXCEPT ![t] = FALSE]
    /\ errcode' = [errcode EXCEPT ![t] = "ETIMEDOUT"]
    /\ UNCHANGED <<semcount, waitlist, pc, old, ret, posts>>

\* The watchdog expires in the timer interrupt, perhaps too late.
nxsem_timeout(t) ==
    /\ waitdog[t]
    /\ waitdog' = [waitdog EXCEPT ![t] = FALSE]
    /\ IF WaitSem(t)
       THEN nxsem_wait_irq(t, "ETIMEDOUT")
       ELSE UNCHANGED <<semcount, waitlist, pc, old, errcode, ret, posts>>

\* nxsig_tcbdispatch, from a task or an interrupt handler
Signal(t) ==
    /\ WaitSem(t)
    /\ nxsem_wait_irq(t, "EINTR")
    /\ UNCHANGED waitdog

-----------------------------------------------------------------------------
(* nxsem_post *)

post_read(t) ==
    /\ pc[t] = "post"
    /\ \/ semcount < 0 /\ Goto(t, "postslow") /\ UNCHANGED old
       \/ semcount >= 0 /\ Goto(t, "postcas") /\ Read(t)
    /\ UNCHANGED <<semcount, waitlist, errcode, ret, waitdog, posts>>

\* Mutant: the count is stored without comparing it with the one read.
post_cas_blind(t) ==
    /\ pc[t] = "postcas" /\ posts < MaxPosts
    /\ semcount' = Wrap(old[t] + 1) /\ posts' = posts + 1
    /\ Goto(t, "run") /\ Forget(t)
    /\ UNCHANGED <<waitlist, errcode, ret, waitdog>>

post_cas(t) ==
    /\ pc[t] = "postcas" /\ posts < MaxPosts
    /\ IF semcount = old[t]
       THEN /\ semcount' = Wrap(semcount + 1)
            /\ posts' = posts + 1
            /\ Goto(t, "run")
       ELSE Goto(t, "post") /\ UNCHANGED <<semcount, posts>>
    /\ Forget(t)
    /\ UNCHANGED <<waitlist, errcode, ret, waitdog>>

\* The labels and watchdogs after the first waiting task, if any, is woken
Awaken(labels) ==
    IF waitlist = <<>> THEN labels ELSE [labels EXCEPT ![waitlist[1]] = "woken"]
StopWaitdog ==
    IF waitlist = <<>> THEN waitdog ELSE [waitdog EXCEPT ![waitlist[1]] = FALSE]
RemFirst == IF waitlist = <<>> THEN <<>> ELSE Tail(waitlist)

nxsem_post_slow(t) ==
    /\ pc[t] = "postslow" /\ posts < MaxPosts
    /\ IF semcount >= SEM_VALUE_MAX         \* -EOVERFLOW
       THEN Goto(t, "run") /\ UNCHANGED <<semcount, waitlist, waitdog, posts>>
       ELSE /\ semcount' = semcount + 1
            /\ posts' = posts + 1
            /\ IF semcount < 0
               THEN /\ waitlist' = RemFirst
                    /\ waitdog' = StopWaitdog
                    /\ pc' = Awaken([pc EXCEPT ![t] = "run"])
               ELSE Goto(t, "run") /\ UNCHANGED <<waitlist, waitdog>>
    /\ UNCHANGED <<old, errcode, ret>>

\* A post by an interrupt handler: no task runs between its read and its CAS.
PostIsr ==
    /\ posts < MaxPosts /\ posts' = posts + 1
    /\ IF semcount < 0
       THEN /\ semcount' = semcount + 1
            /\ waitlist' = RemFirst
            /\ waitdog' = StopWaitdog
            /\ pc' = Awaken(pc)
       ELSE semcount' = Wrap(semcount + 1) /\ UNCHANGED <<waitlist, waitdog, pc>>
    /\ UNCHANGED <<old, errcode, ret>>

-----------------------------------------------------------------------------
(* nxsem_reset and nxsem_destroy *)

\* Mutant: the count is added to what is there.
nxsem_reset_adds(t, count) ==
    /\ pc[t] = "run" /\ "reset" \in Calls[t]
    /\ semcount' = semcount + count
    /\ UNCHANGED <<waitlist, pc, waitdog, old, errcode, ret, posts>>

\* The loop hands a count to each of the first n waiting tasks; a count that is
\* not negative afterwards is replaced by what is left.
nxsem_reset(t, count) ==
    LET n == IF semcount >= 0 THEN 0
             ELSE IF count < -semcount THEN count ELSE -semcount
        woken == {waitlist[i] : i \in 1..n}
    IN  /\ pc[t] = "run" /\ "reset" \in Calls[t]
        /\ semcount' = IF semcount + n < 0 THEN semcount + n ELSE count - n
        /\ waitlist' = SubSeq(waitlist, n + 1, Len(waitlist))
        /\ pc' = [u \in Task |-> IF u \in woken THEN "woken" ELSE pc[u]]
        /\ waitdog' = [u \in Task |-> waitdog[u] /\ u \notin woken]
        /\ UNCHANGED <<old, errcode, ret, posts>>

destroy_read(t) ==
    /\ pc[t] = "destroy"
    /\ \/ semcount < 0 /\ Goto(t, "run") /\ UNCHANGED old
       \/ semcount >= 0 /\ Goto(t, "destroycas") /\ Read(t)
    /\ UNCHANGED <<semcount, waitlist, errcode, ret, waitdog, posts>>

\* A failed exchange has put the current count into old, as a read would.
destroy_cas(t) ==
    /\ pc[t] = "destroycas"
    /\ \/ /\ semcount = old[t]
          /\ semcount' = 1
          /\ Goto(t, "run") /\ Forget(t)
       \/ /\ semcount # old[t] /\ semcount >= 0
          /\ Read(t)
          /\ UNCHANGED <<semcount, pc>>
       \/ /\ semcount < 0
          /\ Goto(t, "run") /\ Forget(t)
          /\ UNCHANGED semcount
    /\ UNCHANGED <<waitlist, errcode, ret, waitdog, posts>>

-----------------------------------------------------------------------------
(* Deletion of a waiting task *)

\* dq_rem of an entry that is in no list: its links are NULL, which leaves the
\* queue with neither head nor tail.
dq_rem_unlinked(list) == <<>>

\* nxtask_terminate takes the task off the wait list and keeps its state, so
\* that nxsem_recover unlinks it a second time.
nxtask_terminate(t) ==
    /\ WaitSem(t)
    /\ waitlist' = dq_rem_unlinked(dq_rem(waitlist, t))
    /\ semcount' = semcount + 1
    /\ Goto(t, "dead")
    /\ waitdog' = [waitdog EXCEPT ![t] = FALSE]
    /\ UNCHANGED <<old, errcode, ret, posts>>

-----------------------------------------------------------------------------
Init ==
    /\ semcount = InitValue
    /\ waitlist = <<>>
    /\ pc = [t \in Task |-> "run"]
    /\ old = [t \in Task |-> 0]
    /\ errcode = [t \in Task |-> "OK"]
    /\ ret = [t \in Task |-> "OK"]
    /\ waitdog = [t \in Task |-> FALSE]
    /\ posts = 0

TaskStep(t) ==
    \/ wait_read(t) \/ wait_cas(t) \/ nxsem_wait_slow(t) \/ wait_resume(t)
    \/ try_read(t) \/ try_cas(t) \/ nxsem_tickwait(t)
    \/ post_read(t) \/ post_cas(t) \/ nxsem_post_slow(t)
    \/ destroy_read(t) \/ destroy_cas(t)

Next ==
    \/ \E t \in Task, l \in {"wait", "try", "tick", "post", "destroy"} : Call(t, l)
    \/ \E t \in Task : TaskStep(t)
    \/ \E t \in Task : nxsem_timeout(t) \/ Signal(t)
    \/ \E t \in Task, c \in ResetCounts : nxsem_reset(t, c)
    \/ PostIsr

Spec == Init /\ [][Next]_vars

\* The timer interrupt keeps coming, and no task of higher priority keeps the
\* CPU for ever from a task that has been woken.
Fairness == \A t \in Task : WF_vars(wait_resume(t)) /\ WF_vars(nxsem_timeout(t))
LiveSpec == Spec /\ Fairness

\* Tasks may also be deleted while they wait.
DeleteSpec == Init /\ [][Next \/ \E t \in Task : nxtask_terminate(t)]_vars

-----------------------------------------------------------------------------
(* Properties *)

\* Every variable keeps its type, and the count stays an int32_t.
TypeOK ==
    /\ semcount \in Int /\ semcount <= SEM_VALUE_MAX
    /\ waitlist \in Seq(Task)
    /\ pc \in [Task -> Label]
    /\ old \in [Task -> Int]
    /\ errcode \in [Task -> Result] /\ ret \in [Task -> Result]
    /\ waitdog \in [Task -> BOOLEAN]
    /\ posts \in 0..MaxPosts

\* A negative count is the number of waiting tasks, exactly the tasks blocked
\* on the semaphore are in its wait list, once and by priority: each post that
\* sees a negative count finds a task to wake, and no task waits while the
\* count is positive, whatever interrupts a fast path between read and CAS.
CountMatchesWaiters ==
    /\ Len(waitlist) = IF semcount < 0 THEN -semcount ELSE 0
    /\ \A t \in Task : t \in Members(waitlist) <=> WaitSem(t)
    /\ Distinct(waitlist) /\ Descending(waitlist, Prio)

\* The abstract semaphore that the fast and slow paths together implement:
\* every count that is posted is taken once, by a wait that returns OK; a wait
\* that a timeout or a signal ends takes none.
Abs == INSTANCE AbsSem WITH
    prio        <- Prio,
    ResetCounts <- {c \in ResetCounts : \E t \in Task : "reset" \in Calls[t]},
    Destroyable <- \E t \in Task : "destroy" \in Calls[t],
    value       <- IF semcount > 0 THEN semcount ELSE 0,
    waiters     <- Members(waitlist),
    result      <- [t \in Task |-> IF pc[t] = "woken" THEN errcode[t] ELSE ret[t]]

ImplementsAbsSem == Abs!Spec

\* A watchdog left over from an earlier nxsem_tickwait never ends a later wait
\* without a timeout.
NoStaleTimeout ==
    [][\A t \in Task : pc[t] = "blocked" /\ pc'[t] = "woken"
            => errcode'[t] # "ETIMEDOUT"]_vars

\* A wait with a timeout returns.
TimedWaitReturns ==
    \A t \in Task : pc[t] = "timedblocked" ~> pc[t] = "run"

-----------------------------------------------------------------------------
(* What a comment in the code claims, and what it does not keep *)

\* nxsem_recover is to "Remove the tcb from the semaphore wait list": the
\* other tasks that wait stay there.
OthersStayQueued == \A t \in Task : WaitSem(t) => t \in Members(waitlist)
=============================================================================
