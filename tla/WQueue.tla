------------------------------- MODULE WQueue -------------------------------
(***************************************************************************)
(* A kernel work queue: works wait in the list "pending", in the order of  *)
(* the ticks at which they are due, and in the list "expired", for worker  *)
(* threads that sleep on the semaphore sem.  A watchdog timer is set for   *)
(* the first pending work.  The code between spin_lock_irqsave and         *)
(* spin_unlock_irqrestore runs with interrupts disabled and is one step;   *)
(* what comes before and after it (the tick that is read, the post of the  *)
(* semaphore, the wait of work_cancel_sync) is not.  Ticks wrap around.    *)
(***************************************************************************)
EXTENDS TaskList, FiniteSets

CONSTANTS Worker,       \* the worker threads of the queue
          Work,         \* the work structures
          Periodic,     \* works that their own callback queues again
          Requeue,      \* works that may be queued again while they wait
          Task,         \* the tasks and interrupts that queue and cancel works
          Canceller,    \* those of them that call work_cancel_sync
          Delay,        \* the delays that they ask for
          Nobody,       \* no worker, no work
          Ticks,        \* the number of ticks after which the clock wraps
          MaxLag,       \* works that are later than that are not told apart
          MaxSem        \* bound on the posts that are left over

ASSUME WQueueAssumption ==
    /\ IsFiniteSet(Worker) /\ IsFiniteSet(Task)
    /\ Periodic \subseteq Work /\ Requeue \subseteq Work \ Periodic
    /\ Canceller \subseteq Task
    /\ Nobody \notin Worker \cup Work
    /\ Ticks \in Nat \ {0}
    /\ Delay \subseteq 0..((Ticks - 1) \div 4)        \* WDOG_MAX_DELAY
    /\ IsFiniteSet(Work) /\ MaxSem \in Nat /\ MaxSem >= Cardinality(Work)
    /\ MaxLag \in Nat /\ \A d \in Delay \cup {0} : MaxLag + d + 1 < Ticks \div 2

VARIABLES ticks,        \* the clock
          expired, pending,     \* wqueue->expired, wqueue->pending
          qtime,        \* work->qtime, and 0 once it is not read any more
          queued,       \* the works with work->worker # NULL
          timer,        \* wqueue->timer: is it active, and when is it due
          sem, idle,    \* wqueue->sem: its count; the workers that wait for it
          wpc,          \* where each worker is
          job,          \* kworker->work
          wait,         \* the count of kworker->wait
          wait_count,   \* kworker->wait_count: the posts that it owes
          pc,           \* where each task is
          call          \* its call: the work, the delay, the tick it is due;
                        \* the worker that it waits for, and, as a history,
                        \* whether that has finished the work

queue == <<expired, pending, qtime, queued, timer>>
workers == <<wpc, job, wait, wait_count>>
vars == <<ticks, queue, sem, idle, workers, pc, call>>

NoCall == [work |-> Nobody, delay |-> 0, due |-> 0, on |-> Nobody, over |-> TRUE]

WorkerLabel == {"loop", "busy", "next", "nextnow", "nextpost", "done", "wait", "idle"}
Label == {"run", "lock", "post", "sync", "blocked"}
Tick == 0..(Ticks - 1)
Call == [work : Work \cup {Nobody}, delay : Delay \cup {0}, due : Tick,
         on : Worker \cup {Nobody}, over : BOOLEAN]

\* The tasks that wait for a worker, and those of them that sleep
Syncing(k) == {t \in Task : call[t].on = k}
Asleep(k) == {t \in Task : pc[t] = "blocked" /\ call[t].on = k}

-----------------------------------------------------------------------------
(* The clock and the lists *)

After(tick, d) == (tick + d) % Ticks

\* Mutant: the ticks are compared as plain numbers.
clock_compare_plain(tick1, tick2) == tick1 <= tick2

\* tick1 is not after tick2: the difference, as a signed number, is not negative.
clock_compare(tick1, tick2) == (tick2 - tick1) % Ticks < Ticks \div 2

\* How many works of a list come before the first that is due after the tick
Place(list, tick) ==
    CHOOSE k \in 0..Len(list) :
        /\ \A i \in 1..k : clock_compare(qtime[list[i]], tick)
        /\ k < Len(list) => ~clock_compare(qtime[list[k + 1]], tick)

work_insert_pending(list, tick, w) ==
    LET k == Place(list, tick)
    IN  [i \in 1..(Len(list) + 1) |->
            IF i <= k THEN list[i] ELSE IF i = k + 1 THEN w ELSE list[i - 1]]

\* list_delete finds the list that the work is in by the work's own links: of the
\* two lists, the other one stays as it is.  A work in no list has null links.
list_delete(list, w) == IF w \in Members(list) THEN dq_rem(list, w) ELSE list

TimerOff == [on |-> FALSE, at |-> 0]
wd_start(tick) == [on |-> TRUE, at |-> tick]

\* work_timer_reset, for a new list of pending works
work_timer_reset(list, due) ==
    IF list # <<>> THEN wd_start(due[list[1]]) ELSE TimerOff

-----------------------------------------------------------------------------
(* work_queue *)

\* The tick is read before the lock is taken.  A periodic work is queued by its
\* own callback while that runs, and by nobody else: work_queue_next does not
\* remove a work that is queued already.
work_queue(t, w, d) ==
    /\ pc[t] = "run"
    /\ w \in Requeue \/ w \notin queued
    /\ w \in Periodic => \A k \in Worker : job[k] # w
    /\ \A u \in Task : call[u].work # w     \* one caller for a work
    /\ pc' = [pc EXCEPT ![t] = "lock"]
    /\ call' = [call EXCEPT ![t] = [work |-> w, delay |-> d, due |-> After(ticks, d + 1),
                                    on |-> Nobody, over |-> TRUE]]
    /\ UNCHANGED <<ticks, queue, sem, idle, workers>>

\* Mutant: a work that is queued already is queued once more.
work_queue_locked_no_remove(t) ==
    /\ pc[t] = "lock" /\ call[t].delay = 0
    /\ qtime' = [qtime EXCEPT ![call[t].work] = call[t].due]
    /\ queued' = queued \cup {call[t].work}
    /\ expired' = Append(expired, call[t].work)
    /\ pc' = [pc EXCEPT ![t] = "post"]
    /\ UNCHANGED <<ticks, pending, timer, sem, idle, workers, call>>

\* The locked part.  A work that is queued already is removed first.
work_queue_locked(t) ==
    LET w == call[t].work
        due == call[t].due
        rest == list_delete(pending, w)
        first == Place(rest, due) = 0
        retimer == pending # <<>> /\ pending[1] = w
    IN
    /\ pc[t] = "lock"
    /\ qtime' = [qtime EXCEPT ![w] = due]
    /\ queued' = queued \cup {w}
    /\ IF call[t].delay > 0
       THEN /\ pending' = work_insert_pending(rest, due, w)
            /\ expired' = list_delete(expired, w)
            /\ timer' = IF first THEN wd_start(due)
                        ELSE IF retimer THEN wd_start(qtime[rest[1]]) ELSE timer
            /\ pc' = [pc EXCEPT ![t] = "run"]
            /\ call' = [call EXCEPT ![t] = NoCall]
       ELSE /\ pending' = rest
            /\ expired' = Append(list_delete(expired, w), w)
            /\ timer' = IF retimer THEN work_timer_reset(rest, qtime) ELSE timer
            /\ pc' = [pc EXCEPT ![t] = "post"]
            /\ UNCHANGED call
    /\ UNCHANGED <<ticks, sem, idle, workers>>

\* nxsem_post(&wqueue->sem), n times; more than MaxSem posts are not told apart
Count(n) == IF n < MaxSem THEN n ELSE MaxSem

\* The idle workers that n posts wake, in the order in which they went to sleep
Wakes(n) == IF n < Len(idle) THEN n ELSE Len(idle)
Woken(n) == {idle[i] : i \in 1..Wakes(n)}

\* at is where the workers are otherwise
Post(n, at) ==
    /\ idle' = SubSeq(idle, Wakes(n) + 1, Len(idle))
    /\ sem' = Count(sem + n - Wakes(n))
    /\ wpc' = [v \in Worker |-> IF v \in Woken(n) THEN "loop" ELSE at[v]]

work_queue_post(t) ==
    /\ pc[t] = "post"
    /\ Post(1, wpc)
    /\ pc' = [pc EXCEPT ![t] = "run"]
    /\ call' = [call EXCEPT ![t] = NoCall]
    /\ UNCHANGED <<ticks, queue, job, wait, wait_count>>

-----------------------------------------------------------------------------
(* work_cancel and work_cancel_sync *)

\* The worker that runs the work, if any; only the first one is waited for.
Running(w) == {k \in Worker : job[k] = w}

\* The works that work_queue_next has marked as queued and not listed yet
Early == {w \in Work : \E k \in Worker : job[k] = w /\ wpc[k] \in {"next", "nextnow"}}

\* Any work may be cancelled, a periodic one too, but not while it is Early:
\* there the code follows the null links of a work that is in no list, which is
\* not modelled.  A callback that cancels acts like a task without sync, since
\* the test of the pid keeps a worker from waiting for itself.
work_qcancel(t, w, sync) ==
    LET rest == list_delete(pending, w) IN
    /\ pc[t] = "run" /\ w \notin Early
    /\ sync => t \in Canceller
    /\ pending' = rest /\ expired' = list_delete(expired, w)
    /\ queued' = queued \ {w}
    /\ qtime' = IF w \in Periodic /\ Running(w) # {} THEN qtime
                ELSE [qtime EXCEPT ![w] = 0]
    /\ timer' = IF pending # <<>> /\ pending[1] = w
                THEN work_timer_reset(rest, qtime) ELSE timer
    /\ IF sync /\ Running(w) # {}
       THEN /\ \E k \in Running(w) :
                /\ call' = [call EXCEPT ![t] = [work |-> Nobody, delay |-> 0, due |-> 0,
                                                on |-> k, over |-> FALSE]]
                /\ wait_count' = [wait_count EXCEPT ![k] = @ + 1]
            /\ pc' = [pc EXCEPT ![t] = "sync"]
       ELSE UNCHANGED <<call, pc, wait_count>>
    /\ UNCHANGED <<ticks, sem, idle, wpc, job, wait>>

\* nxsem_wait_uninterruptible(&worker->wait), after the unlock
cancel_wait(t) ==
    LET k == call[t].on IN
    /\ pc[t] = "sync"
    /\ IF wait[k] > 0
       THEN /\ wait' = [wait EXCEPT ![k] = @ - 1]
            /\ pc' = [pc EXCEPT ![t] = "run"]
            /\ call' = [call EXCEPT ![t].on = Nobody]
       ELSE pc' = [pc EXCEPT ![t] = "blocked"] /\ UNCHANGED <<wait, call>>
    /\ UNCHANGED <<ticks, queue, sem, idle, wpc, job, wait_count>>

-----------------------------------------------------------------------------
(* work_thread *)

\* work_dispatch: how many works move to the expired list
Moved == IF timer.on THEN 0 ELSE Place(pending, ticks)

\* Mutant: work_dispatch does not wake other workers.
work_thread_no_posts(k) ==
    LET ready == expired \o SubSeq(pending, 1, Moved)
        rest == SubSeq(pending, Moved + 1, Len(pending))
    IN
    /\ wpc[k] = "loop"
    /\ pending' = rest
    /\ timer' = IF ~timer.on /\ rest # <<>> THEN wd_start(qtime[rest[1]]) ELSE timer
    /\ IF ready = <<>>
       THEN /\ wpc' = [wpc EXCEPT ![k] = "wait"]
            /\ UNCHANGED <<expired, queued, job, sem, idle>>
       ELSE /\ expired' = Tail(ready)
            /\ queued' = queued \ {ready[1]}
            /\ job' = [job EXCEPT ![k] = ready[1]]
            /\ wpc' = [wpc EXCEPT ![k] = "busy"]
            /\ UNCHANGED <<sem, idle>>
    /\ UNCHANGED <<ticks, qtime, wait, wait_count, pc, call>>

\* The locked part at the top of the loop: dispatch, and take the first work.
\* The posts of work_dispatch wake workers while the lock is held.
work_thread(k) ==
    LET n == Moved
        ready == expired \o SubSeq(pending, 1, n)
        rest == SubSeq(pending, n + 1, Len(pending))
        posts == IF n > 0 THEN n - 1 ELSE 0
    IN
    /\ wpc[k] = "loop"
    /\ pending' = rest
    /\ timer' = IF ~timer.on /\ rest # <<>> THEN wd_start(qtime[rest[1]]) ELSE timer
    /\ Post(posts, [wpc EXCEPT ![k] = IF ready = <<>> THEN "wait" ELSE "busy"])
    /\ expired' = IF ready = <<>> THEN <<>> ELSE Tail(ready)
    /\ queued' = IF ready = <<>> THEN queued ELSE queued \ {ready[1]}
    /\ job' = IF ready = <<>> THEN job ELSE [job EXCEPT ![k] = ready[1]]
    /\ qtime' = IF ready = <<>> \/ ready[1] \in Periodic THEN qtime
                ELSE [qtime EXCEPT ![ready[1]] = 0]
    /\ UNCHANGED <<ticks, wait, wait_count, pc, call>>

\* work_queue_next, in the callback of the work: the fields are set before the
\* lock is taken, and the work is due a delay after the tick it was due before.
work_queue_next(k, d) ==
    LET w == job[k] IN
    /\ wpc[k] = "busy" /\ w \in Periodic /\ w \notin queued
    /\ queued' = queued \cup {w}
    /\ qtime' = [qtime EXCEPT ![w] = After(@, d)]
    /\ wpc' = [wpc EXCEPT ![k] = IF d > 0 THEN "next" ELSE "nextnow"]
    /\ UNCHANGED <<ticks, expired, pending, timer, sem, idle, job, wait, wait_count, pc, call>>

\* Mutant: the timer is left as it is.
next_locked_no_timer(k) ==
    /\ wpc[k] = "next"
    /\ pending' = work_insert_pending(pending, qtime[job[k]], job[k])
    /\ wpc' = [wpc EXCEPT ![k] = "done"]
    /\ UNCHANGED <<ticks, expired, timer, qtime, queued, sem, idle, job, wait, wait_count, pc, call>>

next_locked(k) ==
    LET w == job[k] IN
    /\ wpc[k] \in {"next", "nextnow"}
    /\ IF wpc[k] = "next"
       THEN /\ pending' = work_insert_pending(pending, qtime[w], w)
            /\ timer' = IF Place(pending, qtime[w]) = 0 THEN wd_start(qtime[w]) ELSE timer
            /\ wpc' = [wpc EXCEPT ![k] = "done"]
            /\ UNCHANGED expired
       ELSE /\ expired' = Append(expired, w)
            /\ wpc' = [wpc EXCEPT ![k] = "nextpost"]
            /\ UNCHANGED <<pending, timer>>
    /\ UNCHANGED <<ticks, qtime, queued, sem, idle, job, wait, wait_count, pc, call>>

next_post(k) ==
    /\ wpc[k] = "nextpost"
    /\ Post(1, [wpc EXCEPT ![k] = "done"])
    /\ UNCHANGED <<ticks, queue, job, wait, wait_count, pc, call>>

\* What the end of a callback changes besides: the qtime of a work that is not
\* queued again, and that no other worker runs, is not read any more.
Finished(k) ==
    /\ wpc[k] \in {"busy", "done"}
    /\ wpc' = [wpc EXCEPT ![k] = "wait"]
    /\ job' = [job EXCEPT ![k] = Nobody]
    /\ wait_count' = [wait_count EXCEPT ![k] = 0]
    /\ qtime' = IF job[k] \in queued \/ Running(job[k]) # {k} THEN qtime
                ELSE [qtime EXCEPT ![job[k]] = 0]
    /\ UNCHANGED <<ticks, expired, pending, queued, timer, sem, idle>>

\* The tasks that kworker->wait lets go return, and for all that wait for this
\* worker the work is over.
Released(k, woken) ==
    /\ pc' = [t \in Task |-> IF t \in woken THEN "run" ELSE pc[t]]
    /\ call' = [t \in Task |-> [call[t] EXCEPT !.over = @ \/ t \in Syncing(k),
                                               !.on = IF t \in woken THEN Nobody ELSE @]]

\* Mutant: only the tasks that are asleep already are posted for.
work_done_posts_sleepers(k) ==
    Finished(k) /\ Released(k, Asleep(k)) /\ UNCHANGED wait

\* Mutant: kworker->wait is posted once, whoever waits.
work_done_posts_always(k) ==
    /\ Finished(k) /\ Released(k, Asleep(k))
    /\ wait' = [wait EXCEPT ![k] = IF Asleep(k) = {} THEN 1 ELSE @]

\* The callback has returned: kworker->wait is posted wait_count times.  The
\* tasks that sleep come first, what is left counts.
work_done(k) ==
    LET n == wait_count[k] IN
    /\ Finished(k)
    /\ \E woken \in SUBSET Asleep(k) :
        /\ IF n < Cardinality(Asleep(k)) THEN Cardinality(woken) = n ELSE woken = Asleep(k)
        /\ wait' = [wait EXCEPT ![k] = @ + (n - Cardinality(woken))]
        /\ Released(k, woken)

\* nxsem_wait_uninterruptible(&wqueue->sem)
work_wait(k) ==
    /\ wpc[k] = "wait"
    /\ IF sem > 0
       THEN sem' = sem - 1 /\ wpc' = [wpc EXCEPT ![k] = "loop"] /\ UNCHANGED idle
       ELSE /\ idle' = Append(idle, k)
            /\ wpc' = [wpc EXCEPT ![k] = "idle"] /\ UNCHANGED sem
    /\ UNCHANGED <<ticks, queue, job, wait, wait_count, pc, call>>

-----------------------------------------------------------------------------
(* The timer interrupt *)

\* A work that is MaxLag ticks late stays so when the clock goes on.
Late(at, now) == IF (now - at) % Ticks = MaxLag + 1 THEN After(at, 1) ELSE at

\* A watchdog whose tick has come is stopped, and work_timer_expired posts sem.
tick ==
    LET now == After(ticks, 1)
        running == {job[k] : k \in Worker}
    IN
    /\ ticks' = now
    /\ IF timer.on /\ clock_compare(timer.at, now)
       THEN timer' = TimerOff /\ Post(1, wpc)
       ELSE UNCHANGED <<timer, sem, idle, wpc>>
    /\ qtime' = [w \in Work |-> IF w \in queued \/ (w \in Periodic /\ w \in running)
                                THEN Late(qtime[w], now) ELSE qtime[w]]
    /\ call' = [t \in Task |-> IF pc[t] = "lock"
                               THEN [call[t] EXCEPT !.due = Late(@, now)] ELSE call[t]]
    /\ UNCHANGED <<expired, pending, queued, job, wait, wait_count, pc>>

-----------------------------------------------------------------------------
Init ==
    /\ ticks = 0
    /\ expired = <<>> /\ pending = <<>> /\ queued = {} /\ timer = TimerOff
    /\ qtime = [w \in Work |-> 0]
    /\ sem = 0 /\ idle = <<>>
    /\ wpc = [k \in Worker |-> "loop"]
    /\ job = [k \in Worker |-> Nobody]
    /\ wait = [k \in Worker |-> 0] /\ wait_count = [k \in Worker |-> 0]
    /\ pc = [t \in Task |-> "run"]
    /\ call = [t \in Task |-> NoCall]

WorkerStep(k) ==
    work_thread(k) \/ next_locked(k) \/ next_post(k) \/ work_done(k) \/ work_wait(k)

TaskStep(t) == work_queue_locked(t) \/ work_queue_post(t) \/ cancel_wait(t)

Next ==
    \/ tick
    \/ \E k \in Worker : WorkerStep(k) \/ \E d \in Delay : work_queue_next(k, d)
    \/ \E t \in Task :
        \/ TaskStep(t)
        \/ \E w \in Work, d \in Delay : work_queue(t, w, d)
        \/ \E w \in Work, sync \in BOOLEAN : work_qcancel(t, w, sync)

Spec == Init /\ [][Next]_vars

\* The timer interrupt keeps coming, the worker threads run, callbacks return
\* and a call that was made goes on.
Fairness ==
    /\ WF_vars(tick)
    /\ \A k \in Worker : WF_vars(WorkerStep(k))
    /\ \A t \in Task : WF_vars(TaskStep(t))
LiveSpec == Spec /\ Fairness

-----------------------------------------------------------------------------
(* Properties *)

TypeOK ==
    /\ ticks \in Tick
    /\ expired \in Seq(Work) /\ pending \in Seq(Work) /\ queued \subseteq Work
    /\ qtime \in [Work -> Tick] /\ timer \in [on : BOOLEAN, at : Tick]
    /\ sem \in 0..MaxSem /\ idle \in Seq(Worker)
    /\ wpc \in [Worker -> WorkerLabel] /\ job \in [Worker -> Work \cup {Nobody}]
    /\ wait \in [Worker -> Nat] /\ wait_count \in [Worker -> Nat]
    /\ pc \in [Task -> Label] /\ call \in [Task -> Call]

\* A worker that has come to the end of its loop sleeps until sem is posted, it
\* does not look at the lists again.  So there must always be a worker on its
\* way, or a post, for each expired work, and one more for the pending works
\* if their timer does not run: however the posts of work_queue, work_dispatch
\* and the timer interleave with cancellations.
NoStrandedWork ==
    Len(expired) + (IF pending # <<>> /\ ~timer.on THEN 1 ELSE 0)
        <= sem + Cardinality({k \in Worker : wpc[k] = "loop"})
               + Cardinality({t \in Task : pc[t] = "post"})
               + Cardinality({k \in Worker : wpc[k] = "nextpost"})

\* The pending works are in the order of the ticks at which they are due, over
\* the wrap-around of the clock, and while the timer runs it is set for the
\* first of them: no work waits for the timer of another one.
TimerIsForFirst ==
    /\ \A i, j \in DOMAIN pending :
        i <= j => clock_compare(qtime[pending[i]], qtime[pending[j]])
    /\ timer.on => pending # <<>> /\ timer.at = qtime[pending[1]]

\* A work is in one of the lists, once, exactly while work_available says that
\* it is not available, but for the works that work_queue_next marks before it
\* takes the lock: so list_delete, which is called for every work that is not
\* available, never follows the links of a work that is in no list, however
\* tasks queue a work again or cancel it (also a periodic one, that runs or
\* waits) while workers take it and queue it again.
QueuedIsListed ==
    \A w \in Work :
        Cardinality({i \in DOMAIN expired : expired[i] = w})
            + Cardinality({i \in DOMAIN pending : pending[i] = w})
        = IF w \in queued \ Early THEN 1 ELSE 0

\* A task that sleeps in work_cancel_sync sleeps for a worker that is still in
\* a callback and owes a post to every one of its sleepers: however the post of
\* kworker->wait races the task on its way into the wait.  And work_cancel_sync
\* does not return before the worker has finished the work, if the task waits
\* alone.  (The posts of kworker->wait bear no names: with a second task that
\* waits for a later work, each can get the other's.)
CancelSyncWaits ==
    /\ \A k \in Worker :
        /\ Cardinality(Asleep(k)) <= wait_count[k]
        /\ wait_count[k] > 0 => job[k] # Nobody
    /\ (\A t, u \in Canceller : t = u) => \A t \in Task : pc[t] = "run" => call[t].over

\* A work that is queued, and not put off by queueing it again, is taken by a
\* worker or cancelled, whatever its delay.
QueuedWorkRuns == \A w \in Work \ Requeue : w \in queued ~> w \notin queued

\* A task does not wait for ever in work_cancel_sync.
CancelSyncReturns == \A t \in Task : pc[t] = "sync" ~> pc[t] = "run"
=============================================================================
