------------------------------ MODULE NxMutex ------------------------------
(***************************************************************************)
(* A NuttX recursive mutex, nxrmutex: a semaphore of type SEM_TYPE_MUTEX,  *)
(* whose value is not a count but the word mholder (who holds the mutex,   *)
(* and a bit that says that tasks wait for it), and on top of it the count *)
(* of nested locks that only the holder touches.  The atomic steps of the  *)
(* fast paths interleave as in module NxSem.  Signals do not end a wait    *)
(* for a mutex, and interrupt handlers do not use one.                     *)
(***************************************************************************)
EXTENDS TaskList

CONSTANTS Task,         \* the tasks that use the mutex
          Prio,         \* their priorities
          NoHolder,     \* NXSEM_NO_MHOLDER
          Calls,        \* the calls that each task makes, "unlock" apart
          MayExit,      \* the tasks that may exit, even with the mutex locked
          MaxNest       \* bound on the nesting of locks

ASSUME NxMutexAssumption ==
    /\ Prio \in [Task -> Nat]
    /\ NoHolder \notin Task
    /\ Calls \in [Task -> SUBSET {"wait", "try", "tick", "break"}]
    /\ MayExit \subseteq Task
    /\ MaxNest \in Nat \ {0}

VARIABLES mholder,      \* sem->val.mholder: holder and NXSEM_MBLOCKING_BIT
          waitlist,     \* SEM_WAITLIST(sem)
          count,        \* rmutex->count
          pc,           \* where each task is
          old,          \* the word that its fast path has read
          errcode,      \* tcb->errcode: how its wait ended
          waitdog,      \* its watchdog timer is running
          depth,        \* the locks that it has to unlock, as it sees it
          saved         \* the count stored for it by nxrmutex_breaklock, or 0

vars == <<mholder, waitlist, count, pc, old, errcode, waitdog, depth, saved>>

Word == [tid : Task \cup {NoHolder}, blocking : BOOLEAN]
Free == [tid |-> NoHolder, blocking |-> FALSE]
Held(t, blocking) == [tid |-> t, blocking |-> blocking]

Label == {"run", "wait", "waitcas", "waitslow", "try", "trycas", "tick", "got",
          "post", "postcas", "postslow", "blocked", "timedblocked", "woken", "dead"}

WaitSem(t) == pc[t] \in {"blocked", "timedblocked"}     \* TSTATE_WAIT_SEM

Goto(t, label) == pc' = [pc EXCEPT ![t] = label]
Forget(t) == old' = [old EXCEPT ![t] = Free]

-----------------------------------------------------------------------------
(* nxrmutex_lock, nxrmutex_trylock and nxrmutex_ticklock *)

nxrmutex_is_hold(t) == mholder.tid = t

\* Only a task that is not the holder already enters nxmutex_lock and the like.
nxrmutex_lock(t, label) ==
    /\ pc[t] = "run" /\ saved[t] = 0 /\ label \in Calls[t]
    /\ depth[t] < MaxNest
    /\ IF nxrmutex_is_hold(t)
       THEN /\ count' = count + 1
            /\ depth' = [depth EXCEPT ![t] = @ + 1]
            /\ UNCHANGED pc
       ELSE Goto(t, label) /\ UNCHANGED <<count, depth>>
    /\ UNCHANGED <<mholder, waitlist, old, errcode, waitdog, saved>>

\* Mutant: the lock that is taken back counts once, however deep it was.
lock_got_restores_one(t) ==
    /\ pc[t] = "got" /\ Goto(t, "run")
    /\ count' = count + 1
    /\ depth' = [depth EXCEPT ![t] = IF saved[t] > 0 THEN @ ELSE 1]
    /\ saved' = [saved EXCEPT ![t] = 0]
    /\ UNCHANGED <<mholder, waitlist, old, errcode, waitdog>>

\* The mutex is locked; nxrmutex_lock or nxrmutex_restorelock sets the count.
lock_got(t) ==
    /\ pc[t] = "got" /\ Goto(t, "run")
    /\ IF saved[t] > 0
       THEN count' = saved[t] /\ UNCHANGED depth
       ELSE count' = count + 1 /\ depth' = [depth EXCEPT ![t] = 1]
    /\ saved' = [saved EXCEPT ![t] = 0]
    /\ UNCHANGED <<mholder, waitlist, old, errcode, waitdog>>

wait_read(t) ==
    /\ pc[t] = "wait"
    /\ Goto(t, IF mholder = Free THEN "waitcas" ELSE "waitslow")
    /\ UNCHANGED <<mholder, waitlist, count, old, errcode, waitdog, depth, saved>>

\* Mutant: the holder is stored without comparing.
wait_cas_blind(t) ==
    /\ pc[t] = "waitcas"
    /\ mholder' = Held(t, FALSE) /\ Goto(t, "got")
    /\ UNCHANGED <<waitlist, count, old, errcode, waitdog, depth, saved>>

\* The word that was read is Free, so that is what the exchange compares with.
wait_cas(t) ==
    /\ pc[t] = "waitcas"
    /\ IF mholder = Free
       THEN mholder' = Held(t, FALSE) /\ Goto(t, "got")
       ELSE UNCHANGED mholder /\ Goto(t, "wait")
    /\ UNCHANGED <<waitlist, count, old, errcode, waitdog, depth, saved>>

\* nxsched_get_tcb finds nobody: the mutex is free, or its holder has exited.
Unlocked == mholder.tid \notin {t \in Task : pc[t] # "dead"}

\* The critical section of nxsem_wait_slow, up to the point where it blocks
Acquire(t) ==
    /\ Unlocked
    /\ mholder' = Held(t, waitlist # <<>>)
    /\ Goto(t, "got")
    /\ UNCHANGED <<waitlist, errcode>>
Block(t, label) ==
    /\ ~Unlocked
    /\ mholder' = [mholder EXCEPT !.blocking = TRUE]
    /\ errcode' = [errcode EXCEPT ![t] = "OK"]
    /\ waitlist' = nxsched_add_prioritized(waitlist, Prio, t)
    /\ Goto(t, label)

nxsem_wait_slow(t) ==
    /\ pc[t] = "waitslow"
    /\ Acquire(t) \/ Block(t, "blocked")
    /\ UNCHANGED <<count, old, waitdog, depth, saved>>

try_read(t) ==
    /\ pc[t] = "try"
    /\ Goto(t, IF mholder = Free THEN "trycas" ELSE "run")      \* or -EAGAIN
    /\ UNCHANGED <<mholder, waitlist, count, old, errcode, waitdog, depth, saved>>

try_cas(t) ==
    /\ pc[t] = "trycas"
    /\ IF mholder = Free
       THEN mholder' = Held(t, FALSE) /\ Goto(t, "got")
       ELSE UNCHANGED mholder /\ Goto(t, "try")
    /\ UNCHANGED <<waitlist, count, old, errcode, waitdog, depth, saved>>

\* One critical section: nxsem_trywait, the start of the watchdog, nxsem_wait.
\* A watchdog that was started for nothing is stopped again at the end.  With
\* a delay of zero nxmutex_ticklock is nxsem_trywait.
nxsem_tickwait(t) ==
    /\ pc[t] = "tick"
    /\ \/ Acquire(t) /\ UNCHANGED waitdog
       \/ Block(t, "timedblocked") /\ waitdog' = [waitdog EXCEPT ![t] = TRUE]
    /\ UNCHANGED <<count, old, depth, saved>>

\* Mutant: the holder word is written without looking at the wait list.
wait_resume_clears_bit(t) ==
    /\ pc[t] = "woken"
    /\ IF errcode[t] = "OK"
       THEN mholder' = Held(t, FALSE) /\ Goto(t, "got")
       ELSE UNCHANGED mholder /\ Goto(t, "run")
    /\ waitdog' = [waitdog EXCEPT ![t] = FALSE]
    /\ UNCHANGED <<waitlist, count, old, errcode, depth, saved>>

\* The task resumes inside nxsem_wait_slow, in a critical section that only
\* ends after nxsem_tickwait has stopped the watchdog.
wait_resume(t) ==
    /\ pc[t] = "woken"
    /\ IF errcode[t] = "OK"
       THEN mholder' = Held(t, waitlist # <<>>) /\ Goto(t, "got")
       ELSE UNCHANGED mholder /\ Goto(t, "run")
    /\ waitdog' = [waitdog EXCEPT ![t] = FALSE]
    /\ UNCHANGED <<waitlist, count, old, errcode, depth, saved>>

\* The watchdog expires.  nxsem_wait_irq leaves the holder word as it is.
nxsem_timeout(t) ==
    /\ waitdog[t]
    /\ waitdog' = [waitdog EXCEPT ![t] = FALSE]
    /\ IF WaitSem(t)
       THEN /\ waitlist' = dq_rem(waitlist, t)
            /\ errcode' = [errcode EXCEPT ![t] = "ETIMEDOUT"]
            /\ Goto(t, "woken")
       ELSE UNCHANGED <<waitlist, errcode, pc>>
    /\ UNCHANGED <<mholder, count, old, depth, saved>>

-----------------------------------------------------------------------------
(* nxrmutex_unlock, nxrmutex_breaklock and nxrmutex_restorelock *)

\* Mutant: an unlock too many takes the count below zero.
rmutex_unlock_unbalanced(t) ==
    /\ pc[t] = "run"
    /\ count' = count - 1
    /\ depth' = [depth EXCEPT ![t] = IF @ > 0 THEN @ - 1 ELSE 0]
    /\ IF count = 1 THEN Goto(t, "post") ELSE UNCHANGED pc
    /\ UNCHANGED <<mholder, waitlist, old, errcode, waitdog, saved>>

nxrmutex_unlock(t) ==
    /\ pc[t] = "run" /\ depth[t] > 0 /\ saved[t] = 0
    /\ count' = count - 1
    /\ depth' = [depth EXCEPT ![t] = @ - 1]
    /\ IF count = 1 THEN Goto(t, "post") ELSE UNCHANGED pc
    /\ UNCHANGED <<mholder, waitlist, old, errcode, waitdog, saved>>

nxrmutex_breaklock(t) ==
    /\ pc[t] = "run" /\ "break" \in Calls[t] /\ depth[t] > 0 /\ saved[t] = 0
    /\ nxrmutex_is_hold(t)
    /\ saved' = [saved EXCEPT ![t] = count]
    /\ count' = 0
    /\ Goto(t, "post")
    /\ UNCHANGED <<mholder, waitlist, old, errcode, waitdog, depth>>

nxrmutex_restorelock(t) ==
    /\ pc[t] = "run" /\ saved[t] > 0
    /\ Goto(t, "wait")
    /\ UNCHANGED <<mholder, waitlist, count, old, errcode, waitdog, depth, saved>>

post_read(t) ==
    /\ pc[t] = "post"
    /\ IF mholder.blocking
       THEN Goto(t, "postslow") /\ UNCHANGED old
       ELSE Goto(t, "postcas") /\ old' = [old EXCEPT ![t] = mholder]
    /\ UNCHANGED <<mholder, waitlist, count, errcode, waitdog, depth, saved>>

post_cas(t) ==
    /\ pc[t] = "postcas"
    /\ IF mholder = old[t]
       THEN mholder' = Free /\ Goto(t, "run")
       ELSE UNCHANGED mholder /\ Goto(t, "post")
    /\ Forget(t)
    /\ UNCHANGED <<waitlist, count, errcode, waitdog, depth, saved>>

\* Mutant: the mutex is released, not handed over, and nobody is woken.
post_slow_releases(t) ==
    /\ pc[t] = "postslow"
    /\ mholder' = Free
    /\ Goto(t, "run")
    /\ UNCHANGED <<waitlist, count, old, errcode, waitdog, depth, saved>>

\* The mutex is handed to the first waiting task.  If the blocking bit is set
\* but nobody waits, nothing happens: the caller stays the holder.
\* The first case is there for callers that come without the fast path.
nxsem_post_slow(t) ==
    /\ pc[t] = "postslow"
    /\ \/ /\ ~mholder.blocking
          /\ mholder' = Free
          /\ Goto(t, "run")
          /\ UNCHANGED <<waitlist, waitdog>>
       \/ /\ mholder.blocking /\ waitlist = <<>>
          /\ Goto(t, "run")
          /\ UNCHANGED <<mholder, waitlist, waitdog>>
       \/ /\ mholder.blocking /\ waitlist # <<>>
          /\ mholder' = Held(waitlist[1], Tail(waitlist) # <<>>)
          /\ waitlist' = Tail(waitlist)
          /\ waitdog' = [waitdog EXCEPT ![waitlist[1]] = FALSE]
          /\ pc' = [pc EXCEPT ![t] = "run", ![waitlist[1]] = "woken"]
    /\ UNCHANGED <<count, old, errcode, depth, saved>>

\* A task exits, perhaps without unlocking: the holder word keeps its pid.
nxtask_exit(t) ==
    /\ pc[t] = "run" /\ t \in MayExit
    /\ Goto(t, "dead")
    /\ depth' = [depth EXCEPT ![t] = 0]
    /\ saved' = [saved EXCEPT ![t] = 0]
    /\ UNCHANGED <<mholder, waitlist, count, old, errcode, waitdog>>

-----------------------------------------------------------------------------
Init ==
    /\ mholder = Free
    /\ waitlist = <<>>
    /\ count = 0
    /\ pc = [t \in Task |-> "run"]
    /\ old = [t \in Task |-> Free]
    /\ errcode = [t \in Task |-> "OK"]
    /\ waitdog = [t \in Task |-> FALSE]
    /\ depth = [t \in Task |-> 0]
    /\ saved = [t \in Task |-> 0]

\* The steps that a call takes once it has been made
CallStep(t) ==
    \/ wait_read(t) \/ wait_cas(t) \/ nxsem_wait_slow(t) \/ wait_resume(t)
    \/ try_read(t) \/ try_cas(t) \/ nxsem_tickwait(t) \/ lock_got(t)
    \/ post_read(t) \/ post_cas(t) \/ nxsem_post_slow(t)

Next ==
    \/ \E t \in Task, l \in {"wait", "try", "tick"} : nxrmutex_lock(t, l)
    \/ \E t \in Task :
        \/ nxrmutex_unlock(t) \/ nxrmutex_breaklock(t) \/ nxrmutex_restorelock(t)
        \/ CallStep(t) \/ nxsem_timeout(t) \/ nxtask_exit(t)

Spec == Init /\ [][Next]_vars

\* Every call that was made goes on unless it blocks, and a task unlocks what
\* it has locked.
Fairness == \A t \in Task : WF_vars(CallStep(t)) /\ WF_vars(nxrmutex_unlock(t))
LiveSpec == Spec /\ Fairness

-----------------------------------------------------------------------------
(* Properties *)

\* Every variable keeps its type; in particular the count never goes below
\* zero, where the unsigned int would wrap around.
TypeOK ==
    /\ mholder \in Word /\ waitlist \in Seq(Task)
    /\ count \in Nat
    /\ pc \in [Task -> Label] /\ old \in [Task -> Word]
    /\ errcode \in [Task -> {"OK", "ETIMEDOUT"}]
    /\ waitdog \in [Task -> BOOLEAN]
    /\ depth \in [Task -> 0..MaxNest] /\ saved \in [Task -> Nat]

\* A task that has locked the mutex, and one that is about to be told so
Owns(t) == (depth[t] > 0 /\ saved[t] = 0) \/ pc[t] = "got"

\* No two tasks own the mutex, whatever fast paths, handovers, timeouts and
\* exits of holders interleave; and the holder word names the owner.
MutualExclusion ==
    \A t \in Task : Owns(t) => mholder.tid = t /\ \A u \in Task \ {t} : ~Owns(u)

\* While tasks wait the blocking bit is set, so that the holder's unlock goes
\* to the slow path and wakes one; exactly the blocked tasks are in the list.
NoLostWaiter ==
    /\ waitlist # <<>> => mholder.blocking
    /\ \A t \in Task : t \in Members(waitlist) <=> WaitSem(t)

\* rmutex->count is the number of locks that the owner has yet to unlock, over
\* any nesting of lock, unlock, breaklock and restorelock.  A holder that exits
\* leaves its count behind, and the owner after it counts on from there.
CountIsDepth ==
    \A t \in Task : depth[t] > 0 /\ saved[t] = 0 =>
        /\ count >= depth[t]
        /\ (\A u \in Task : pc[u] # "dead") => count = depth[t]

\* A waiting task whose priority is above all others gets the mutex, if the
\* tasks that have it let it go at some time, nobody gives up waiting (see
\* UnlockReleases) and nobody exits.
HighestGetsIt ==
    \A t \in Task : (\A u \in Task \ {t} : Prio[u] < Prio[t]) =>
        ([](\A u \in Task : errcode[u] = "OK" /\ pc[u] # "dead")
            /\ (\A u \in Task \ {t} : []<>(depth[u] = 0))
            => (WaitSem(t) ~> Owns(t)))

-----------------------------------------------------------------------------
(* What comments in the code claim, and what it does not keep *)

\* After a wait has timed out "the holder is updated by the thread itself when
\* it exits nxsem_wait": a task that unlocks the mutex is no longer the holder.
UnlockReleases ==
    [][\A t \in Task : pc[t] \in {"postcas", "postslow"} /\ pc'[t] = "run"
            => mholder'.tid # t]_vars
=============================================================================
