# A TLA+ model of the NuttX kernel of the Nucleo-H753ZI port

The repository is a copy of the NuttX real-time operating system with a board
port for the STM32 Nucleo-H753ZI: one Cortex-M7 core, no SMP. This directory
holds a formal model of the part of it that everything else stands on (the
scheduler's task lists, the single-CPU scheduler, the counting semaphore and the
mutex), of what is built on them (reader-writer locks, POSIX message queues, work
queues) and of the board's interrupt pins. All source paths below are relative to `src/nuttx/`.

- [What the system consists of](#inventory)
- [How the modules correspond to the code](#modules)
- [What each run checks](#runs)
- [Bounds](#bounds), [fairness](#fairness)
- [What is proved](#proofs), [what is only model-checked](#only-model-checked)
- [Where the code and its comments disagree](#findings), [further observations](#observations)
- [Plan](#plan), [what is not modelled](#not-modelled)

Run a model with `tlc -workers 2 -config MCNxSem.cfg MCNxSem`, check the proofs
of a module with `tlapm SchedProofs.tla`.

## Inventory

| Component | State | Operations | What makes it hard | What makes it correct |
|---|---|---|---|---|
| **Prioritized task lists** (`sched/sched/sched.h`, `include/nuttx/queue.h`, `sched_mergepending.c`, `sched_mergeprioritized.c`) | doubly linked lists of TCBs in descending priority, first come first served within a priority | insert, remove, merge two lists, move tasks aside | equal priorities, first and last entries, loops that rely on the idle task to stop | lists stay sorted, nobody appears twice, nobody is lost |
| **Scheduler, one CPU** (`sched/sched/`) | `g_readytorun`, `g_pendingtasks`, the wait lists, each TCB's `task_state`, `sched_priority`, `lockcount`, `timeslice` | lock and unlock preemption, yield, change a priority, block, wake, stop, continue, timer tick | interrupts between any two instructions outside a critical section; values read before a critical section and used inside it; functions that only *say* whether a switch is needed | the running task is the head of the ready list; a task with preemption disabled keeps the CPU; no pending task is forgotten; equal priorities share the CPU |
| **Task lifecycle** (`sched/task/`, `sched/init/nx_start.c`) | the TCB, its state | create, activate, exit, delete | a task is deleted in any state, also while it waits | a deleted task leaves no trace in any list or count |
| **Counting semaphores** (`sched/semaphore/`, `libs/libc/semaphore/`) | a signed count, a wait list; per task the watchdog and `errcode` | wait, try, timed wait, post (also from interrupts), reset, destroy | lock-free fast paths race with slow paths, timeouts, signals and resets | every posted count is taken once; the count equals minus the number of waiting tasks; the highest priority is served first; a timed wait returns |
| **Mutexes** (`include/nuttx/mutex.h`, `libs/libc/misc/lib_mutex.c`) | the holder word with its blocking bit, the recursion count | lock, try, timed lock, unlock, break and restore, reset | handover to a task that resumes later; timeouts; a holder that exits | one owner; a waiting task is not passed over; the count is the owner's nesting |
| **Priority inheritance, priority ceiling** (`sem_holder.c`, `sem_protect.c`) | holder lists, boosted priorities | boost, restore | every order of posts, timeouts and further waits | a priority returns to its base |
| **Watchdog timers** (`sched/wdog/`) | a list ordered by expiry tick | start, cancel, expire | wrap-around of the tick counter; start and cancel from a handler | each expires once, none early |
| **Reader-writer locks** (`sem_rw.c`) | counters of readers, writers and waiting tasks, the holder, a semaphore to wait on | take, try and release for reading and writing; a read lock of the writer is converted | the wait is outside of the mutex that protects the counters; posts are left over or reach the wrong task | a writer is alone; the counters agree; nobody sleeps beside a free lock |
| **Message queues** (`sched/mqueue/`) | a list of messages by priority, two wait lists and their counts, pools of message structures, one registration for notification | send and receive (blocking, not blocking, with a timeout), send from interrupts, notify, close | switches to other tasks inside the critical section; a woken task that finds the place taken; timeouts, signals and deletions; a full queue and empty pools | first come first served within a priority; nobody waits beside a place or a message; no structure is lost |
| **Work queues** (`sched/wqueue/`) | works that are due and works that wait for their tick, one timer, worker threads on a semaphore | queue, queue again, cancel, cancel and wait, run | a worker sleeps without looking again; cancellation while the work runs; a clock that wraps around | every queued work runs; the timer is the first work's; a cancel-and-wait waits and returns |
| **Events, signals, POSIX timers and threads** (`sched/event`, `sched/signal`, `sched/timer`, `sched/pthread`) | their own wait lists | blocking calls with timeouts | built on the components above | nothing lost, nobody waits for ever |
| **Interrupts and context switch** (`arch/arm/`) | the running context | take an interrupt, switch | nothing but the order of events | the CPU executes the head of the ready list |
| **Interrupt pins** (`drivers/ioexpander/gpio.c`, `boards/arm/stm32h7/nucleo-h753zi/src/stm32_gpio.c`, `arch/arm/src/stm32h7/stm32_exti_gpio.c`) | slots of registered tasks and their count, the callback, the EXTI callback table, the interrupt controller, the count of interrupts, poll slots | register, unregister, read, poll; the interrupt; buttons on the same line | attach, enable, disable and detach run outside of the critical section; pins and buttons share an interrupt | who is registered is signalled; an unused pin is off; no interrupt is hidden from a poll |
| **Rest of the board port** (`boards/arm/stm32h7/nucleo-h753zi/`) | tables of pins and chip selects | register, select | none beyond the order of bring-up | one selected device |

**Interaction.** A blocking call (semaphore, mutex) changes its own object and
then calls the scheduler inside the same critical section: it takes the caller
off the ready list (`nxsched_remove_self`), puts it on the object's wait list and
switches. A post, a timeout (`nxsem_timeout`, from the timer interrupt) or a
signal (`nxsig_tcbdispatch`) does the reverse through `nxsched_add_readytorun`,
which may put the task into `g_pendingtasks` if the running task has disabled
preemption. A mutex is a semaphore of type `SEM_TYPE_MUTEX`: the same functions
with other branches. The wait lists are prioritized task lists, so a change of a
priority (`nxsched_set_priority`) moves a waiting task within the list of an
object that it does not otherwise touch. Message queues have wait lists of their
own with the same scheduling calls; reader-writer locks and work queues use the
semaphore (and the mutex) through its interface, and the models use what `AbsSem`
says of it. Watchdogs run in the timer interrupt and end timed waits or wake
workers; the pin interrupt signals tasks and notifies polls.

## Modules

```
TaskList ─┬── Sched ── ListLoops ── MCSched
          ├── NxSem ─────────────── MCNxSem      AbsSem     (instantiated by NxSem)
          ├── NxMutex ───────────── MCNxMutex
          ├── MQueue ────────────── MCMQueue     AbsMQueue  (instantiated by MQueue)
          ├── RwSem ─────────────── MCRwSem
          ├── WQueue ────────────── MCWQueue
          └── TaskListProofs ─┬ NxSemProofs, NxMutexProofs, RwSemProofs
                              ├ SchedProofs, MQueueProofs, WQueueProofs
                              └ GpioProofs
              Gpio ──────────────── MCGpio
```

**TaskList.** A list is a sequence of tasks. `nxsched_add_prioritized` and
`dq_rem` insert and remove; `Merge` is the closed form of the loops of
`nxsched_merge_pending` and `nxsched_merge_prioritized`, `MovedAside` that of the
`do ... while` of `nxsched_running_setpriority`. The closed forms use neither
`RECURSIVE` nor induction, so that proofs can use them.

**ListLoops** runs those two loops with their pointer, one iteration per recursive
call, on the lists of every reachable state of the scheduler, and compares the
result with the closed forms.

**Sched** has the whole of the scheduler's state as one record, since the code
changes it only inside critical sections; each kernel function is an operator
from a record to a record with the name it has in the code (its `bool` result is
the field `ret`), and the actions call them in the order of the code. `cpu` is the
task whose code the processor executes: it changes only where the code calls
`up_switch_context` or returns from an interrupt. `pc` and `arg` hold a task between the
steps of a call that is not one critical section: `sched_unlock` (the count is
decremented before the critical section), `sched_yield` (the priority is read
before it) and `sched_setparam` (which is bracketed by `sched_lock` and
`sched_unlock`). Interrupts wake tasks, continue stopped ones and end time slices
between any two steps. `Wait` and `Wake` are the scheduling half of all blocking
calls; one wait list stands for all of them.

**NxSem** has the count, the wait list and, per task, the place inside the call,
the count that the fast path has read, `errcode`, the watchdog and what the call
returned. Each atomic operation of a fast path (`atomic_read`,
`atomic_try_cmpxchg`) is a step of its own, each slow path, which runs inside one
critical section, is one step: `wait_read`, `wait_cas`, `nxsem_wait_slow`, and
`wait_resume`, where the task continues after `up_switch_context`. A task that was
woken has `pc = "woken"`: the time between the wake-up and the moment when it gets
the CPU is arbitrary. `PostIsr` is `nxsem_post` from an interrupt handler, which no
task can interrupt. `nxtask_terminate` belongs to `DeleteSpec` only (see
[findings](#findings)).

**AbsSem** is what the semaphore promises: a value, a set of waiting tasks and how
the last wait of each ended. The refinement mapping takes the value to be the count
if it is positive and zero otherwise, the waiting tasks to be the members of the
list, and the result of a task to be its `errcode` from the moment at which it is
woken: the abstract wait ends there and not when the task resumes.

**NxMutex** is the recursive mutex over the mutex branches of the same semaphore
functions. `mholder` is the word with the holder's pid and the blocking bit; `count`
the recursion count of `rmutex_t`; `depth` and `saved` what the task itself knows:
how many locks it has to unlock, and the count that `nxrmutex_breaklock` has
stored for it. A holder may exit without unlocking.

**MQueue** has the message list with its count, the two wait lists with theirs, the
three pools of message structures, the registration of `mq_notify`, and per task the
call it is in and the structure in its hands. A critical section is one step except
where the code itself calls something that may switch to another task in the middle:
`poll_notify` after the first message (`pollin`) or before a sender is woken
(`pollout`), and the signal of `mq_notify` (`notify`). A task that is woken resumes in
a step of its own, in the loop of `nxmq_wait_send` or `nxmq_wait_receive`. `irq_send` is
the whole of a send from an interrupt handler. `nxmq_recover` deletes a task wherever
it is. The System V queues are not in it.

What a critical section does to the wait lists is written on a record (`Waiting`, `unblock`,
`Becomes`), because a send from an interrupt may end one wait by a signal and another by
a wake-up in the same section.

**AbsMQueue** is what the queue promises: the messages in the order in which they were
sent, of which a receiver takes the oldest of those with the highest priority. The
mapping takes the queue to be the history variable `sent`, which says nothing about
where `nxmq_add_queue` put a message: that the head of `msglist` is the right one is
what the refinement shows.

**RwSem** has the fields of `rw_semaphore_t`, the semaphore `waiting` as a value and a wait
list, and per task the locks that it has to release. What happens under
`rwsem->protected` is one step; the wait is not. A task releases its locks in any order.
`nxtask_delete` does what finding 1 shows: it takes the deleted task off the wait list
twice, and the others that sleep there are dropped with it. Two history variables
mark what the code does not repair: `silent` (the last release was that of a converted read
lock, which posts nothing) and `lost` (the tasks that were dropped). What a signal or
a further deletion does to a lost task depends on links into other lists and is left out.

**Gpio** follows one pin through three files. The critical section of
`GPIOC_REGISTER` and `GPIOC_UNREGISTER` in `gpio.c` is one step; what the call does after
it is the list `todo` of the task, one store per step: the stores of
`stm32_gpint_attach` and `stm32_gpint_enable` and of the `stm32_gpiosetevent` that both
call. `btn_enable`, which runs in a critical section, is a button on the same interrupt.
An edge sets the pending bit if the line is not masked, and `multiisr` is the interrupt.
A task registers once, for a signal, and unregisters what it registered: `GPIOC_REGISTER` with
a null argument, which takes no slot, is left out. `stm32_gpiosetevent` stores the callback and its
argument as one step, and its stores to the edge and event registers are left out.

**WQueue** has both lists of a work queue, its timer with an absolute tick, its semaphore
and its workers. The code under the queue's spin lock is one step; reading the clock before
the lock, the post after it, the fields that `work_queue_next` sets before it and
the wait of `work_cancel_sync` after it are steps of their own. A callback that cancels a
work acts like a task that cancels without waiting: the test of the pid in `work_qcancel`
keeps a worker from waiting for itself. `Post` is one or more posts
of the queue's semaphore: sleeping workers first, in the order in which they went to
sleep, and what is left counts. `wait` and `wait_count` are the two counters of a worker
for those who wait for it in `work_cancel_sync`: the semaphore, and the posts that are still owed when the
callback returns. `wait_count` is a variable because it cannot be told from the
tasks: one of them may return on the post of another. Ticks are counted modulo
`Ticks` and compared as `clock_compare` does. So that the state space is finite, a work that is more
than `MaxLag` ticks late is kept exactly so late when the clock goes on: the code
compares ticks only for being due.

## Runs

| Run | Instance | Distinct states | Shows |
|---|---|---|---|
| `sched` | 3 tasks, 3 priorities, locks nested twice | 1,162,846 | the lists, the states and the CPU agree; locks are respected; pending tasks are merged when the locked task gives up the CPU in whatever way; in every state the pointer loops compute the closed forms and stop inside the list |
| `sched_live` | 3 tasks of one priority, time slice of 2 ticks | 72,658 | tasks of one priority share the CPU |
| `sem` | 3 tasks, 2 priorities, 2 posts, resets to 0 and 2, destruction | 626,452 | `CountMatchesWaiters`, the refinement of `AbsSem`, no stale timeout, and a timed wait returns, with resets and destruction between read and exchange of a fast path |
| `mutex` | 3 tasks, nesting of 2, two tasks may exit | 238,195 | one owner, no waiting task without the blocking bit, the count is the owner's nesting; the successor of a holder that has exited takes over alone and keeps the waiting tasks; in behaviours in which no lock times out and nobody exits, a waiting task of the highest priority gets the mutex |
| `mqueue` | 3 tasks, 3 message structures, 2 places, 2 message priorities, one task may be deleted | 916,616 | the counts are the lengths of the lists; nobody waits beside a place or a message; structures are conserved; no stale timeout; the refinement of `AbsMQueue` |
| `rwsem` | 3 tasks, nesting of 2, releases in any order, one task may be deleted and drops the others from the wait list | 25,320 | a writer is alone and the counters agree; after a release that posts nobody but the dropped tasks sleeps beside a free lock, now or for ever |
| `gpio` | 3 tasks for 2 signal slots, 1 poll slot, 2 interrupts, a button | 1,558,179 | the slots have no holes and hold who is registered; an unused pin is off; no interrupt is hidden from a poll |
| `wqueue` | 2 workers, a one-shot and a periodic work, delays of 0 and 1, a clock of 6 ticks | 322,692 | for every work that is due there is a post or a worker on its way; the timer is set for the first pending work; every queued work runs; `work_cancel_sync` waits and returns |

The other four runs each end in a counterexample that TLC is expected to find:
see [findings](#findings).

Deadlock is checked in `sched`, where the idle task can always go on, in `mqueue`
(interrupt handlers can send), in `wqueue` (the clock ticks) and in `rwsem`. It is switched
off where a bound ends the behaviours (`sem` with its bound on posts), in `mutex`,
where the code itself really can leave every task blocked (finding `mutex_unlock`),
and in `gpio`, where nothing runs after the assertion of finding `gpio_callback` has failed.

## Bounds

- **Three tasks** are the least with which a running task, a task that preempts it
  and a task that both forget can differ; the bugs of the run list need at most
  three. The idle task comes on top in `Sched`.
- **Three priorities** (`MaxPrio`) tell apart below, equal and above. The idle
  task has priority 0, as in the code.
- **Nesting of locks** (`MaxLock = 2`, `MaxNest = 2`): the innermost and the
  outermost level differ; further levels repeat the first.
- **`MaxPosts = 2`** lets the two tasks that wait both be woken, and
  a post meet a post. The initial count of 1 lets one wait succeed at once.
- **`SEM_VALUE_MAX`** stands for `INT_MAX`. In the passing runs it is out of reach, as
  two thousand million posts are in practice.
- **`ResetCounts = {0, 2}`**: fewer than, as many as and more than the tasks that can
  wait.
- **`RRInterval`** of one or two ticks: a slice that ends at once and one that is
  interrupted.
- **Message queue**: one structure of each kind, so that each pool runs empty, and two
  places, so that a queue can be neither empty nor full. Three structures fill the
  queue and leave one in the hands of a sender that waits.
- **Pins**: two slots for three tasks, so that a slot is missing; two interrupts are
  enough for a poll between them. `register_count` has its width of 8 bits.
- **Work queue**: a clock of 6 ticks is the smallest on which the delays of 0 and 1 (due one and
  two ticks ahead) and a work that is due are told apart by `clock_compare`, as
  `WQueueAssumption` says. With a lag of one tick more and a clock of 8 the same properties hold
  (614,128 states), and with a second task that cancels the invariants do (4,202,718 states).
  `MaxSem` caps the posts that are left over at the number of works; more than that are
  spurious wake-ups all the same.
- Symmetry is used in `sched` and `gpio`, whose tasks are interchangeable model values, and in
  no run with a temporal property other than action properties.

## Fairness

- `Sched!LiveSpec`: the timer interrupt keeps coming (`WF` of
  `nxsched_process_roundrobin`). It is a hardware timer that nothing in the kernel
  stops. No fairness of any task is assumed.
- `NxSem!LiveSpec`: the timer interrupt comes for a running watchdog, and a task
  that was woken gets the CPU at last: tasks of higher priority block now and
  then. No task is assumed to post.
- `NxMutex!LiveSpec`: a call that does not block goes on, and a task that holds
  the mutex unlocks it. The property is conditional on behaviours without errors and exits, in
  which every other task unlocks completely again and again. `HighestGetsIt` is about the task of highest priority:
  others may be overtaken for ever, which is what priorities mean.
- `MQueue!LiveSpec`: a call goes on unless it blocks, and the timer interrupt comes for
  a running watchdog. Nobody is assumed to send or to receive.
- `RwSem!LiveSpec`: a task inside `down_read` or `down_write` goes on unless it sleeps.
  Nobody is assumed to release, and signals are not assumed to come.
- `WQueue!LiveSpec`: the clock ticks, the worker threads run, callbacks return and calls
  that were made go on. Callbacks that never return would stop any queue.

## Proofs

TLAPS checks the proofs for every set of tasks, every assignment of priorities
and calls and every value of the bounds that the assumptions of a module allow
(`SchedAssumption`, `NxMutexAssumption`, ...; all are evaluated by TLC in the runs).
Each component has one inductive invariant `IInv`, which TLC checked before it was
proved, and a lemma for each action.

**TaskListProofs**: inserting into a proper list (a sequence of distinct tasks in
descending priority) gives a proper list with one more member (`AddPrioritized`),
removing a member gives a proper list without it (`DqRem`), and so does dropping
the first n (`DropFirst`, `DropFirstMembers`). `Ahead` is a `CHOOSE`; its existence
needs the least element of a set of naturals, which `LeastNat` provides. For the
scheduler it adds what `Merge` and `MovedAside` keep: the result is proper and has the
members of both lists.

**NxSemProofs** proves the invariant `IInv`, the conjunction of
- `TypeOK`;
- `CountMatchesWaiters`: a negative count is minus the length of the wait list, and the
  list holds exactly the tasks in `TSTATE_WAIT_SEM`, each once, by priority;
- `Room`: the count plus the posts that are still to come stays within
  `SEM_VALUE_MAX`;
- `Stages`: what the place of a task says about its other variables. A fast path
  that is about to exchange holds a count that was positive (or not
  negative, for a post); a task inside a wait has not returned; a waiting task has no error yet; a
  running watchdog belongs to a task that is inside `nxsem_tickwait`.

`CountMatchesWaiters` alone is not inductive: that an exchange may subtract one
without looking at the wait list needs the value which the task has read
(`Stages`), and that adding one does not wrap around needs `Room`. The slow paths
share `BlockIInv`, `HandOver` and `WaitIrqStep`, the fast paths `FastPathIInv`. From the
invariant follow

- `SemTypeOK` and `SemCountMatchesWaiters`;
- `SemNoStaleTimeout`, an action property: a watchdog never ends a wait that has no
  timeout. It rests on the part of `Stages` about watchdogs.

All of these assume `NoOverflow`: initial count, reset counts and
one (what destruction leaves) plus `MaxPosts` stay within `SEM_VALUE_MAX`. Without it the
theorems are false: the fast path of `nxsem_post` has no test against `SEM_VALUE_MAX`.

The same module proves the refinement, `SemRefinement`: `Spec => ImplementsAbsSem`. Each step of the detailed semaphore is a step of the abstract one or a stutter: reads and
failed exchanges stutter, a successful exchange is `Take` or `Post`, a slow post is
`Grant` or `Post`, a timeout or a signal is `Cancel`, `nxsem_reset` is `Reset`. That
a post grants to a task of the highest priority uses the order of the list.

**NxMutexProofs**: `MutexExcludes`, `MutexKeepsWaiters`, `MutexCountsNesting` and
`MutexTypeCorrect`. Mutual exclusion is not inductive, because a task has the mutex
before it knows: `HolderNamed` says that the holder word names every task that
owns the mutex, is about to store the end of its unlock, or was handed it and
has not resumed. `Counts` separates the three situations of the recursion count (locked, broken
by `nxrmutex_breaklock`, free); it is an equation only as long as no holder has exited,
as in `CountIsDepth`. `Stages` says what a task knows at each place of its call. Most
actions move one task and leave the wait list alone: `LocalStep`.

**RwSemProofs**: `RwSemExcludes`, `RwSemCounts`, `RwSemTypeCorrect` and `RwSemWakesAll`. The lock
keeps two counters and one holder, not who holds what; the invariant ties them to the locks
of all tasks together: `LocksCounted` (readers plus writers are the number of all
locks, so that both are zero only if nobody has one), `HolderAlone` (what the holder
has is what `writer` counts, and nobody else has any), `WaitersCounted` (the
counter is the number of tasks in a call, deleted ones included) and `Posted` (while the
lock is free nobody is in the wait list and there is a post for everyone on the
way to it, if the last release was one that posts), and `LostCounted` (the count of
the semaphore is below zero by no more than the tasks that were lost with a deleted one, so that the
posts of a release still reach whoever comes later). `RwSemWakesAll` is for every order of
releases; what it leaves out, `silent` and `lost`, are the two cases in which the code does
leave tasks asleep (see [observations](#observations)).

**SchedProofs**: all five invariants and both action properties of the run `sched`. The
kernel functions are operators from a record to a record, and between the removal of
a task and its insertion elsewhere the record is not consistent: `Consistent(k, out)`
says that `k` is right but for the tasks of the set `out`, which are in no list.
`nxsched_remove_readytorun` turns `Consistent(k, {})` into `Consistent(k, {t})`, and
`nxsched_add_readytorun` back; there is one such lemma per function, and the lemma of
an action chains those of the functions it calls. The invariant adds what
the unlocked parts of `sched_unlock`, `sched_yield` and `sched_setparam` rely on
(`Calls`), and `PendingOnlyIfLocked`, which needs the idle task to be ready (`IdleReady`): the
merge loop stops only there. `LockedTaskKeepsCpu` and `HandoverToHighest` are proved for
each step from the invariant.

**MQueueProofs**: all five safety properties of the run `mqueue` and the refinement. The
invariant has five parts. `WaitOK`: each wait list holds the tasks that wait there, by
priority, and its count is its length. `Messages`: the queue is in descending
priority, every structure is in one place (`Placed`), and messages of one
priority are in the queue in the order in which they were sent (`SameOrder`). `Locals` are the
types of the rest. `Stages`: which places of a call go with a structure in the task's hands
and with a running watchdog. `Served`: as long as nobody was deleted, if somebody
waits for a place there are at least as many `Wakers` as free places, and likewise for
messages. `NoStrandedWaiter` itself is not inductive: it counts every woken task, but one
that was woken by a timeout or a signal gives up and wakes nobody, so that `Wakers`
counts only those woken with `OK`. A step of one task ends the waits of others only in
the way that `Passive` describes, and `ServedStep` has the four ways in which it keeps
the rest served: it uses up what it was woken for, it leaves everything as it is, it wakes another
task in its place, or it makes room for one more and wakes one more. For the refinement
(`MQueueImplementsAbsMQueue`) a send is `Put`, taking a message is `Take` (`ReceivedOldest`: by
`SameOrder` the head of the queue is the oldest of the highest priority), the end or
the deletion of a receiver is `Return`, the end of the queue is `Close`, and every other
step stutters.

**GpioProofs**: `GpioRegistrantsSignalled`, `GpioUnusedIsQuiet`, `GpioNoMissedInterrupt` and
`GpioTypeCorrect`. The invariant has three parts. `Registry`: the slots in use come
first, no task has two, and the count is the number of registered tasks, so that fewer
than 256 tasks cannot make it wrap. `Ioctls`: a task that is not registered has only
stores left that switch something off, a test of the shared callbacks after each
cleared callback, and the detach at the end; and while nobody is registered,
whatever is still on is ahead of some task (`Leftovers`). That is why `UnusedIsQuiet` holds
in whatever order the stores of several calls come: the last task that unregisters
has a full set of them ahead. `Polling`: every poller's count is at most `int_count`, so that
one more interrupt differs from all of them.

**WQueueProofs**: all four invariants of the run `wqueue`, and `WQueueTypeCorrect`, for any
number of workers, works and tasks. The invariant is the conjunction of `TypeOK`, of
`NoStrandedWork`, which is nearly inductive as it stands, and of

- `Listed`: the two lists hold the queued works, each once, but for those that
  `work_queue_next` has marked and not yet inserted (`Early`).
- `Stages`: what a worker and a task know at each place. A periodic work is in the hands of
  one worker or one caller only, so that `next_locked` never inserts a work twice; a call
  without delay, and a periodic work that is taken, are due at the next tick at the latest.
- `Clock`: all ticks in use are in one window that begins `MaxLag` ticks before the clock
  and is half a turn long. `Off` is the place of a tick in it, and `CompareIs` shows that inside of the window
  `clock_compare`, a signed difference, is the order of the places: without
  the window it is not even transitive, and no list could be sorted by it. With `Off` as
  priority the pending list is a prioritized list, so that `PlaceIsAhead`
  takes over what `TaskListProofs` shows of `nxsched_add_prioritized`. `LateIs`
  and `TickStep` show that a step of the clock keeps every work in the window and in its order.
- `Sleepers`: the wait list holds the workers that sleep, once each. `PostWakes` counts with
  it: n posts add n to what `Supply` counts (left-over posts, workers on their way,
  posts still to come), up to the cap `MaxSem`. The cap does no harm since the `Demand` of both
  lists is at most the number of works (`DemandBound`).
- `Sync`: for every worker, the posts left in `wait` and the posts owed (`wait_count`) are
  together the number of tasks that wait for it, and `wait` is zero while one of
  them sleeps. That everyone who sleeps is owed a post follows, for any number of tasks;
  that nobody returns early needs in addition that the one canceller which is not served
  finds no post (the last conjunct), which is false for two.

`WQueueAssumption` asks of the clock that a work with the longest delay, queued at the
moment at which the latest work is `MaxLag` late, is less than half a turn away from it
(`MaxLag + d + 1 < Ticks \div 2`): the code refuses delays of more than a quarter of
a turn (`WDOG_MAX_DELAY`), and `wdog.h` says that nothing may be late by as much again.

Proving this changed the model in one place: an earlier version had no `wait_count` and computed
the posts that a worker owes from the tasks that wait. `Sync` was not preserved
then: of two cancellers one may take the other's post, after which the worker owes a
different number of posts than it has tasks waiting for its present work.

### Only model-checked

- The liveness properties (`RoundRobinShares`, `TimedWaitReturns`, `HighestGetsIt`,
  `WaiterGetsIn`, `QueuedWorkRuns`, `CancelSyncReturns`): the prover does no fairness.
- `LoopsMatchClosedForms`: the pointer loops are recursive and what they compute needs
  induction over the lists.

## Findings

Four runs show the code doing something other than a comment beside it says.

1. `sem_delete`: deleting a task that waits on a semaphore calls `dq_rem` twice
   for the same TCB, once in `nxtask_terminate` and once in `nxsem_recover`. The
   second call sees null links and empties the list: the other waiting tasks are
   lost. `RwSem` models what this does to a reader-writer lock.
2. `mutex_unlock`: a timed lock that gives up leaves the blocking bit set. If
   nobody waits any more, the holder's unlock takes the slow path, finds an empty list
   and returns `OK` without releasing the mutex.
3. `mq_timeout`: whoever wakes a task in `mq_timedsend` or `mq_timedreceive` stops its
   watchdog. If a third task takes the place or the message before the woken task
   resumes, the loop blocks it again and nothing starts the watchdog again: the call has
   no ceiling any more.
4. `gpio_callback`: a task that unregisters last and a task that registers meanwhile run
   their attach, enable, disable and detach outside of the critical section. The detach can
   come last: the interrupt is enabled, `callback` is `NULL`, and the next edge fails
   the assertion of `stm32_gpio_interrupt_handler`.

### Observations

Met while modelling; the models behave in this way, and the properties of the passing
runs are stated so that they hold in spite of it. No run is spent on them.

- `sched_unlock` decrements `lockcount` to zero before its critical section. An
  interrupt in between can switch to a task it wakes while a task of higher priority
  sits in `g_pendingtasks` until the first task runs again. `PendingOnlyIfLocked`
  shows how far the harm goes: a task is pending only while the running task is
  locked or some task is about to merge.
- `sched_yield` restores a priority that it read outside the critical section, and so
  undoes a `sched_setparam` by a task that preempted it.
- Lowering the priority of the running task with preemption disabled moves aside one
  task even if its priority is only equal to the new one (the loop of
  `sched_setpriority.c` is a `do ... while`; the comment says "with the higher
  priority"); the order of the lists does not suffer.
- The fast path of `nxsem_post` has no test against `SEM_VALUE_MAX`; the slow path has.
- A task that takes over a recursive mutex from a holder that has exited inherits its
  recursion count, so that its own unlocks do not release the mutex: `CountIsDepth`
  claims equality only as long as no task has exited.
- `mq_notify` sends its signal for the next message, whatever the queue holds; the
  comment at `mq_notify.c:49` says "whenever the message changes from empty to non-empty".
- A task deleted between its wake-up and its resumption in a message queue takes the
  wake-up with it, and a task deleted with a message structure in its hands leaks it:
  `NoStrandedWaiter` is conditional on nobody having been deleted, and
  `StructuresConserved` counts the structures of deleted tasks as theirs.
- `up_read` of a converted read lock wakes nobody. If a task
  releases its write lock before the read lock that it took under it, the last release frees the lock
  and the waiting tasks sleep on until the next release that posts, which is why
  `NoStrandedWaiter` and `WaiterGetsIn` of `RwSem` name `silent`; the comment at `sem_rw.c:163` says that it is
  "released according to the procedures for releasing a write lock".
- While readers hold a reader-writer lock, a writer that is woken for nothing can use up
  the post meant for a reader, which then sleeps until the next release.
- A task deleted while it waits for a reader-writer lock stays in `rwsem->waiter` for good,
  and the tasks that sleep beside it are dropped from the wait list (finding 1): no later
  release wakes them, and the count stays too low by their number. `NoStrandedWaiter` and
  `WaiterGetsIn` claim nothing of them (`lost`).
- A register that overlaps the last unregister can leave the pin disabled although a task is
  registered, and `stm32_gpiosetevent` can disable a shared interrupt after a button
  has just been enabled on it: the test and the store are not atomic.
- An unbalanced `GPIOC_UNREGISTER` wraps `register_count` to 255, after which registering
  enables nothing; a failed enable leaves `register_count` raised; `g_gpint_ops` has no
  `go_setpintype`, which `GPIOC_SETPINTYPE` calls.
- `work_cancel_sync` posts bear no names: with two tasks that wait for two works of
  the same worker, one can return on the other's post while its work still runs. The
  part of `CancelSyncWaits` about returning is stated for one such task. If two workers run the same work, only
  the first is waited for.
- `work_queue_next` marks the work as queued before it takes the lock. A cancel in between
  follows the null links of a node that is in no list, and what is inserted afterwards counts as
  available. Writes through null links are not modelled: the guard of `work_qcancel` keeps a
  cancel out of this window (`Early`), `QueuedIsListed` says nothing of works in it, and
  the hazard has no property. Everywhere else a periodic work may be cancelled like any other. Nor does
  anyone but its own callback queue a periodic work while it runs: `work_queue_next` does not remove
  a work that is queued already, and would list it twice.

## Plan

Modelled first is what every other component calls, and every safety property of a passing run
but `LoopsMatchClosedForms` is proved. What is left, in this order:

1. **Event**: waiters on the stacks of the tasks, a post that serves several, and a
   waiter that times out while it is still in the list.
2. **SemSched**, the composition of `Sched` with `NxSem`: a waiting task that is
   stopped or reprioritized, a task deleted between the handover of a count and its
   resumption, priority inheritance (`sem_holder.c`) with boosted priorities;
   `nxmutex_reset` with the value `NXSEM_MRESET`.
3. **Wdog**: the list of all active watchdogs with start, cancel and expiry.
4. **Board**: the buttons' sampling and notification, SPI chip selects.

## Not modelled

- **Events, POSIX timers and threads, System V message queues** (planned in part): they are built
  on what is modelled and add no blocking protocol of another kind, except the events.
- **`work_queue_free`**: it stops the timer before it tells the workers to exit, and nobody
  on this board calls it.
- **SMP**: the chip has one core and the configurations do not enable it.
- **Priority inheritance and ceilings** (planned): off in the board's
  configurations.
- **Tickless timers, sporadic scheduling, CPU load accounting**: off in the
  configurations.
- **Memory management, file systems, network, drivers, applications**: the upstream
  tree around the kernel. Sequential code, or I/O with hardware whose behaviour is
  not in the repository.
- **Registers, stacks and exception frames** of a context switch: the model knows
  when a switch happens and to whom.
- **Weak memory**: on one core all tasks and handlers see one order of accesses.
