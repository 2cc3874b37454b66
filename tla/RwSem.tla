------------------------------- MODULE RwSem -------------------------------
(***************************************************************************)
(* The reader-writer lock of sem_rw.c.  Its counters are protected by a    *)
(* mutex, so what a call does between nxmutex_lock and nxmutex_unlock is   *)
(* one step (module NxMutex: MutualExclusion).  Tasks that have to wait do *)
(* so on the semaphore "waiting", OUTSIDE of the mutex: between the unlock *)
(* and the wait, and between the wake-up and the next lock, other tasks    *)
(* run.  The semaphore is used through what module AbsSem says of it.      *)
(***************************************************************************)
EXTENDS TaskList, FiniteSets

CONSTANTS Task,         \* the tasks that use the lock
          Prio,         \* their priorities
          NoHolder,     \* RWSEM_NO_HOLDER
          MayDie,       \* the tasks that may be deleted while they wait
          MaxNest,      \* bound on the locks that a task holds
          SemMax        \* SEM_VALUE_MAX

ASSUME RwSemAssumption ==
    /\ Prio \in [Task -> Nat]
    /\ NoHolder \notin Task
    /\ MayDie \subseteq Task
    /\ MaxNest \in Nat \ {0}
    /\ IsFiniteSet(Task) /\ SemMax \in Nat /\ SemMax >= Cardinality(Task)

VARIABLES reader, writer, waiter, holder,       \* the fields of rw_semaphore_t
          value,        \* the count of rwsem->waiting, plus the tasks in waitlist
          waitlist,     \* the tasks that wait for rwsem->waiting
          pc,           \* where each task is
          mode,         \* what its call is for: "r" down_read, "w" down_write
          held,         \* the locks that it has to release, oldest first
          silent,       \* history: did the last release post nothing
          lost          \* history: who was dropped from waitlist by a deletion

vars == <<reader, writer, waiter, holder, value, waitlist, pc, mode, held, silent, lost>>

\* "towait": rwsem->protected is unlocked, nxsem_wait is about to be called;
\* "blocked": in nxsem_wait; "woken": before nxmutex_lock, after nxsem_wait
Label == {"run", "towait", "blocked", "woken", "dead"}

Goto(t, label) == pc' = [pc EXCEPT ![t] = label]
Smaller(i, j) == IF i < j THEN i ELSE j

-----------------------------------------------------------------------------
(* down_read, down_write and their trylocks *)

\* What lets a task take the lock.  The holder of the write lock gets all it
\* asks for: its read lock is converted to another write lock.
MayTake(t, m) ==
    \/ m = "r" /\ (holder = t \/ writer = 0)
    \/ m = "w" /\ reader = 0 /\ (writer = 0 \/ holder = t)

Take(t, m) ==
    /\ IF m = "w" \/ holder = t
       THEN writer' = writer + 1 /\ UNCHANGED reader
       ELSE reader' = reader + 1 /\ UNCHANGED writer
    /\ holder' = IF m = "w" THEN t ELSE holder
    /\ held' = [held EXCEPT ![t] = Append(@, m)]

\* A task asks for a write lock only if it has none of the read locks that it
\* would wait for itself.
MayCall(t, m) ==
    /\ Len(held[t]) < MaxNest
    /\ m = "w" => held[t] = <<>> \/ holder = t

down_trylock(t, m) ==
    /\ pc[t] = "run" /\ Len(held[t]) < MaxNest
    /\ MayTake(t, m) /\ Take(t, m)
    /\ UNCHANGED <<waiter, value, waitlist, pc, mode, silent, lost>>

down(t, m) ==
    /\ pc[t] = "run" /\ MayCall(t, m)
    /\ IF MayTake(t, m)
       THEN Take(t, m) /\ UNCHANGED <<waiter, pc, mode>>
       ELSE /\ waiter' = waiter + 1
            /\ Goto(t, "towait")
            /\ mode' = [mode EXCEPT ![t] = m]
            /\ UNCHANGED <<reader, writer, holder, held>>
    /\ UNCHANGED <<value, waitlist, silent, lost>>

\* nxsem_wait(&rwsem->waiting), its result is ignored
down_wait(t) ==
    /\ pc[t] = "towait"
    /\ IF value > 0
       THEN value' = value - 1 /\ Goto(t, "woken") /\ UNCHANGED waitlist
       ELSE /\ waitlist' = nxsched_add_prioritized(waitlist, Prio, t)
            /\ Goto(t, "blocked") /\ UNCHANGED value
    /\ UNCHANGED <<reader, writer, waiter, holder, mode, held, silent, lost>>

\* Mutant: the task that was woken takes the lock without looking again.
down_retry_once(t) ==
    /\ pc[t] = "woken"
    /\ Take(t, mode[t]) /\ waiter' = waiter - 1 /\ Goto(t, "run")
    /\ UNCHANGED <<value, waitlist, mode, silent, lost>>

\* Mutant: rwsem->waiter is not counted down.
down_retry_keeps_waiter(t) ==
    /\ pc[t] = "woken"
    /\ IF MayTake(t, mode[t])
       THEN Take(t, mode[t]) /\ Goto(t, "run")
       ELSE Goto(t, "towait") /\ UNCHANGED <<reader, writer, holder, held>>
    /\ UNCHANGED <<waiter, value, waitlist, mode, silent, lost>>

\* Back in the loop: waiter--, the test, and perhaps waiter++ again
down_retry(t) ==
    /\ pc[t] = "woken"
    /\ IF MayTake(t, mode[t])
       THEN Take(t, mode[t]) /\ waiter' = waiter - 1 /\ Goto(t, "run")
       ELSE Goto(t, "towait") /\ UNCHANGED <<reader, writer, waiter, holder, held>>
    /\ UNCHANGED <<value, waitlist, mode, silent, lost>>

\* A signal ends nxsem_wait with -EINTR.  (What it does to a task that was lost
\* depends on links into other lists; it is left out.)
signal(t) ==
    /\ pc[t] = "blocked" /\ t \notin lost
    /\ waitlist' = dq_rem(waitlist, t)
    /\ Goto(t, "woken")
    /\ UNCHANGED <<reader, writer, waiter, holder, value, mode, held, silent, lost>>

\* A task is deleted in down_read or down_write; rwsem->waiter keeps counting it.
\* If it sleeps, nxtask_terminate takes it off the wait list, and nxsem_recover
\* gives back its count and unlinks it a second time: with its null links
\* that empties the list.  The others sleep on, and the count still knows them.
nxtask_delete(t) ==
    /\ t \in MayDie \ lost /\ pc[t] \in {"towait", "blocked", "woken"} /\ held[t] = <<>>
    /\ IF pc[t] = "blocked"
       THEN LET others == dq_rem(waitlist, t) IN
            /\ waitlist' = <<>>
            /\ value' = value - Len(others)
            /\ lost' = lost \cup Members(others)
       ELSE UNCHANGED <<value, waitlist, lost>>
    /\ Goto(t, "dead")
    /\ UNCHANGED <<reader, writer, waiter, holder, mode, held, silent>>

-----------------------------------------------------------------------------
(* up_read and up_write *)

\* Mutant: one post, however many tasks wait.
up_wait_one ==
    IF waitlist # <<>>
    THEN /\ waitlist' = Tail(waitlist)
         /\ pc' = [pc EXCEPT ![waitlist[1]] = "woken"]
         /\ UNCHANGED value
    ELSE /\ value' = IF waiter > 0 THEN Smaller(SemMax, value + 1) ELSE value
         /\ UNCHANGED <<waitlist, pc>>

\* Mutant: only the tasks that sleep already are posted for.
up_wait_sleepers ==
    /\ waitlist' = <<>>
    /\ pc' = [t \in Task |-> IF t \in Members(waitlist) THEN "woken" ELSE pc[t]]
    /\ UNCHANGED value

\* rwsem->waiter posts: the first wake the tasks in the wait list, the rest
\* count, up to SEM_VALUE_MAX.
up_wait ==
    LET n == Smaller(waiter, Len(waitlist)) IN
    /\ waitlist' = SubSeq(waitlist, n + 1, Len(waitlist))
    /\ pc' = [t \in Task |-> IF t \in Members(SubSeq(waitlist, 1, n))
                             THEN "woken" ELSE pc[t]]
    /\ value' = Smaller(SemMax, value + (waiter - n))

RemoveAt(s, i) == [j \in 1..(Len(s) - 1) |-> IF j < i THEN s[j] ELSE s[j + 1]]

Released(t, m) ==
    \E i \in 1..Len(held[t]) :
        /\ held[t][i] = m
        /\ held' = [held EXCEPT ![t] = RemoveAt(@, i)]

DropWriter ==
    /\ writer' = writer - 1
    /\ holder' = IF writer - 1 <= 0 THEN NoHolder ELSE holder
    /\ UNCHANGED reader

\* Mutant: the conversion is forgotten.
up_read_unconverted(t) ==
    /\ pc[t] = "run" /\ Released(t, "r")
    /\ reader' = reader - 1 /\ up_wait /\ silent' = FALSE
    /\ UNCHANGED <<writer, holder, waiter, mode, lost>>

\* The release of a converted read lock wakes nobody.
up_read(t) ==
    /\ pc[t] = "run" /\ Released(t, "r")
    /\ IF holder = t
       THEN DropWriter /\ silent' = TRUE /\ UNCHANGED <<value, waitlist, pc>>
       ELSE /\ reader' = reader - 1 /\ up_wait /\ silent' = FALSE
            /\ UNCHANGED <<writer, holder>>
    /\ UNCHANGED <<waiter, mode, lost>>

up_write(t) ==
    /\ pc[t] = "run" /\ Released(t, "w")
    /\ DropWriter /\ up_wait /\ silent' = FALSE
    /\ UNCHANGED <<waiter, mode, lost>>

-----------------------------------------------------------------------------
init_rwsem ==
    /\ reader = 0 /\ writer = 0 /\ waiter = 0 /\ holder = NoHolder
    /\ value = 0 /\ waitlist = <<>>

Init ==
    /\ init_rwsem
    /\ pc = [t \in Task |-> "run"]
    /\ mode = [t \in Task |-> "r"]
    /\ held = [t \in Task |-> <<>>]
    /\ silent = FALSE /\ lost = {}

Next ==
    \E t \in Task :
        \/ \E m \in {"r", "w"} : down_trylock(t, m) \/ down(t, m)
        \/ down_wait(t) \/ down_retry(t)
        \/ up_read(t) \/ up_write(t)
        \/ signal(t) \/ nxtask_delete(t)

Spec == Init /\ [][Next]_vars

\* A task that runs gets on with its call.  Nothing makes a task release.
Fairness == \A t \in Task : WF_vars(down_wait(t)) /\ WF_vars(down_retry(t))
LiveSpec == Spec /\ Fairness

-----------------------------------------------------------------------------
(* Properties *)

\* Every variable keeps its type; the assertions reader > 0 and writer > 0 of
\* up_read and up_write hold, so that no counter goes below zero.
TypeOK ==
    /\ reader \in Nat /\ writer \in Nat /\ waiter \in 0..Cardinality(Task)
    /\ holder \in Task \cup {NoHolder}
    /\ value \in Int /\ value <= SemMax /\ waitlist \in Seq(Task)
    /\ pc \in [Task -> Label] /\ mode \in [Task -> {"r", "w"}]
    /\ held \in [Task -> Seq({"r", "w"})]
    /\ silent \in BOOLEAN /\ lost \subseteq Task

Holds(t, m) == m \in Members(held[t])

\* While one task has a write lock no other task has a lock of any kind, in
\* every order of conversions, releases, trylocks, wake-ups and deletions.
Exclusion ==
    \A t, u \in Task : t # u /\ held[t] # <<>> => ~Holds(u, "w")

\* The counters agree with what the tasks did: a lock that nobody has or waits
\* for passes the assertion of destroy_rwsem, except that a task that was
\* deleted while it waited is counted for good.
CountersMatch ==
    /\ writer > 0 <=> holder # NoHolder
    /\ holder # NoHolder => writer = Len(held[holder])
    /\ (\A t \in Task : held[t] = <<>>) => reader = 0 /\ writer = 0
    /\ waiter = Cardinality({t \in Task : pc[t] # "run"})

\* Nobody sleeps on the semaphore while the lock is free: the posts of the last
\* release reach every task that waits, those that have not called nxsem_wait
\* yet included, also when posts go to deleted tasks.  Two cases are left out,
\* in which the code itself strands a task: the last release was that of
\* a converted read lock, or the task was dropped from the wait list when
\* another one was deleted.  (While readers have the lock a writer that was
\* woken for nothing can use up the post of a reader, which then sleeps until
\* one of them releases.)
NoStrandedWaiter ==
    reader = 0 /\ writer = 0 /\ ~silent => \A t \in Task : pc[t] = "blocked" => t \in lost

\* A task does not wait for ever for a lock that stays free, however many
\* wake-ups were left over in the semaphore, came for nothing or were used up
\* by deleted tasks; but for the two cases of NoStrandedWaiter.
WaiterGetsIn ==
    \A t \in Task :
        [](pc[t] # "dead" /\ t \notin lost)
            => []<>(pc[t] = "run" \/ reader > 0 \/ writer > 0 \/ silent)
=============================================================================
