--------------------------- MODULE NxMutexProofs ---------------------------
(***************************************************************************)
(* Mutual exclusion of the recursive mutex, for any number of tasks, any   *)
(* priorities and any nesting: no two tasks own it, no waiter is lost, and *)
(* the nesting count is that of the owner.                                 *)
(***************************************************************************)
EXTENDS NxMutex, TaskListProofs

-----------------------------------------------------------------------------
(* The inductive invariant.  Mutual exclusion by itself is not inductive:  *)
(* a task has the mutex from the moment it is handed over, before it runs  *)
(* and knows it, until the store that ends its unlock.                     *)

Claims(t) ==
    \/ Owns(t)
    \/ pc[t] \in {"post", "postcas", "postslow"}
    \/ pc[t] = "woken" /\ errcode[t] = "OK"

HolderNamed == \A t \in Task : Claims(t) => mholder.tid = t

WaitersListed == NoLostWaiter /\ Distinct(waitlist) /\ Descending(waitlist, Prio)

\* What a task knows at each place of its call
Stage(t) ==
    /\ saved[t] > 0 => depth[t] > 0 /\ saved[t] >= depth[t]
    /\ pc[t] # "run" /\ saved[t] = 0 => depth[t] = 0
    /\ pc[t] = "dead" => saved[t] = 0
    /\ pc[t] = "postcas" => ~old[t].blocking

Stages == \A t \in Task : Stage(t)

Alive == \A u \in Task : pc[u] # "dead"
Locked(t) == depth[t] > 0 /\ saved[t] = 0

\* The count while somebody has the mutex locked, while its lock is broken,
\* and while nobody has it
Counts ==
    /\ \A t \in Task : Locked(t) => count >= depth[t]
    /\ Alive => /\ \A t \in Task : Locked(t) => count = depth[t]
                /\ \A t \in Task : saved[t] > 0 => saved[t] = depth[t]
                /\ (\A t \in Task : ~Locked(t)) => count = 0

IInv == TypeOK /\ HolderNamed /\ WaitersListed /\ Stages /\ Counts

LEMMA Words ==
    /\ Free \in Word /\ Free.tid = NoHolder /\ Free.blocking = FALSE
    /\ \A t \in Task, b \in BOOLEAN :
        Held(t, b) \in Word /\ Held(t, b).tid = t /\ Held(t, b).blocking = b
BY DEF Word, Free, Held

LEMMA InitIInv == ASSUME Init PROVE IInv
<1> USE NxMutexAssumption DEF Init
<1>1. TypeOK
  BY DEF TypeOK, Word, Free, Label
<1>2. HolderNamed
  BY DEF HolderNamed, Claims, Owns
<1>3. WaitersListed
  BY DEF WaitersListed, NoLostWaiter, WaitSem, Members, Distinct, Descending
<1>4. Stages
  BY DEF Stages, Stage
<1>5. Counts
  BY DEF Counts, Locked
<1> QED BY <1>1, <1>2, <1>3, <1>4, <1>5 DEF IInv

-----------------------------------------------------------------------------
(* Steps that leave the wait list alone *)

\* Only the task t moves, and it neither starts nor ends to wait.
Local(t) ==
    /\ waitlist' = waitlist
    /\ WaitSem(t)' <=> WaitSem(t)
    /\ \A u \in Task \ {t} :
        /\ pc'[u] = pc[u] /\ old'[u] = old[u] /\ errcode'[u] = errcode[u]
        /\ depth'[u] = depth[u] /\ saved'[u] = saved[u]

\* The holder word still names who claims the mutex, and shows the waiters.
WordKept(t) ==
    /\ waitlist # <<>> => mholder'.blocking
    /\ \A u \in Task \ {t} : Claims(u) => mholder'.tid = u
    /\ Claims(t)' => mholder'.tid = t

LEMMA LocalStep ==
    ASSUME IInv, NEW t \in Task, TypeOK', Local(t), WordKept(t), Stage(t)', Counts'
    PROVE  IInv'
<1> USE DEF IInv, Local
<1>1. HolderNamed'
  BY DEF HolderNamed, Claims, Owns, WordKept
<1>2. WaitersListed'
  <2>1. \A u \in Task : WaitSem(u)' <=> WaitSem(u)
    BY DEF WaitSem
  <2> QED BY <2>1 DEF WaitersListed, NoLostWaiter, WordKept
<1>3. Stages'
  BY DEF Stages, Stage
<1> QED BY <1>1, <1>2, <1>3

\* The count is right after a step that touches neither it nor the nesting.
LEMMA CountsKept ==
    ASSUME IInv, UNCHANGED <<count, depth, saved>>, Alive' => Alive
    PROVE  Counts'
BY DEF IInv, Counts, Locked

\* nxrmutex_lock, entered by the holder or by another task
LEMMA LockStep ==
    ASSUME IInv, NEW t \in Task, NEW l \in {"wait", "try", "tick"}, nxrmutex_lock(t, l)
    PROVE  IInv'
<1> USE NxMutexAssumption DEF IInv, nxrmutex_lock, nxrmutex_is_hold, Goto
<1>0. ~nxrmutex_is_hold(t) => depth[t] = 0
  BY DEF HolderNamed, Claims, Owns, TypeOK
<1>1. TypeOK'
  <2>1. depth[t] + 1 \in 0..MaxNest
    BY DEF TypeOK
  <2>2. depth' = depth \/ depth' = [depth EXCEPT ![t] = depth[t] + 1]
    OBVIOUS
  <2>c. count' \in Nat
    BY DEF TypeOK
  <2>d. depth' \in [Task -> 0..MaxNest]
    <3>1. depth \in [Task -> 0..MaxNest]
      BY DEF TypeOK
    <3> QED BY ONLY <2>1, <2>2, <3>1, t \in Task
  <2>3. depth' \in [Task -> 0..MaxNest] /\ count' \in Nat
    BY <2>c, <2>d
  <2>4. pc' \in [Task -> Label]
    BY DEF TypeOK, Label
  <2> QED BY <2>3, <2>4 DEF TypeOK
<1>2. Local(t)
  BY DEF Local, WaitSem, TypeOK
<1>3. WordKept(t)
  BY <1>0 DEF WordKept, HolderNamed, Claims, Owns, WaitersListed, NoLostWaiter, TypeOK
<1>4. Stage(t)'
  BY <1>0 DEF Stages, Stage, TypeOK
<1>5. Counts'
  <2>1. CASE nxrmutex_is_hold(t)
    <3>1. \A u \in Task \ {t} : ~Locked(u) /\ ~Locked(u)'
      BY <2>1 DEF HolderNamed, Claims, Owns, Locked, TypeOK
    <3>2. Locked(t)' /\ depth'[t] = depth[t] + 1 /\ count' = count + 1
      BY <2>1 DEF Locked, TypeOK
    <3>3. Alive' => Alive /\ \A u \in Task : saved'[u] > 0 => saved'[u] = depth'[u]
      BY <2>1 DEF Alive, Counts, TypeOK
    <3>4. count >= depth[t] /\ (Alive => count = depth[t])
      BY <3>1 DEF Counts, Locked, TypeOK
    <3>5. count \in Nat /\ depth[t] \in Nat
      BY DEF TypeOK
    <3> QED BY <3>1, <3>2, <3>3, <3>4, <3>5 DEF Counts
  <2>2. CASE ~nxrmutex_is_hold(t)
    BY <2>2, CountsKept DEF Alive, TypeOK
  <2> QED BY <2>1, <2>2
<1> QED BY <1>1, <1>2, <1>3, <1>4, <1>5, LocalStep

\* The lock call or nxrmutex_restorelock sets the count and returns.
LEMMA GotStep ==
    ASSUME IInv, NEW t \in Task, lock_got(t)
    PROVE  IInv'
<1> USE NxMutexAssumption DEF IInv, lock_got, Goto
<1>0. saved[t] = 0 => depth[t] = 0
  BY DEF Stages, Stage
<1>1. TypeOK'
  BY DEF TypeOK, Label
<1>2. Local(t)
  BY DEF Local, WaitSem, TypeOK
<1>3. WordKept(t)
  BY DEF WordKept, HolderNamed, Claims, Owns, WaitersListed, NoLostWaiter, TypeOK
<1>4. Stage(t)'
  BY DEF Stages, Stage, TypeOK
<1>5. Counts'
  <2>1. \A u \in Task \ {t} : ~Locked(u) /\ ~Locked(u)'
    BY DEF HolderNamed, Claims, Owns, Locked, TypeOK
  <2>2. Alive' => Alive
    BY DEF Alive, TypeOK
  <2>3. CASE saved[t] > 0
    <3>1. Locked(t)' /\ depth'[t] = depth[t] /\ count' = saved[t] /\ saved'[t] = 0
      BY <2>3 DEF Locked, TypeOK, Stages, Stage
    <3>2. saved[t] >= depth[t] /\ (Alive => saved[t] = depth[t])
      BY <2>3 DEF Stages, Stage, Counts
    <3>3. Alive => \A u \in Task : saved'[u] > 0 => saved'[u] = depth'[u]
      BY <2>3, <3>1 DEF Counts, TypeOK
    <3> QED BY <2>1, <2>2, <3>1, <3>2, <3>3 DEF Counts
  <2>4. CASE ~(saved[t] > 0)
    <3>1. saved[t] = 0 /\ ~Locked(t)
      BY <2>4, <1>0 DEF TypeOK, Locked
    <3>2. Locked(t)' /\ depth'[t] = 1 /\ count' = count + 1 /\ saved'[t] = 0
      BY <2>4 DEF Locked, TypeOK
    <3>3. count \in Nat /\ (Alive => count = 0)
      BY <2>1, <3>1 DEF Counts, TypeOK
    <3>4. Alive => \A u \in Task : saved'[u] > 0 => saved'[u] = depth'[u]
      BY <2>4, <3>1, <3>2 DEF Counts, TypeOK
    <3> QED BY <2>1, <2>2, <3>2, <3>3, <3>4 DEF Counts
  <2> QED BY <2>3, <2>4
<1> QED BY <1>1, <1>2, <1>3, <1>4, <1>5, LocalStep

\* The fast paths: a read of the word, and the exchange that takes it if it is
\* free
LEMMA FastPathStep ==
    ASSUME IInv, NEW t \in Task,
           wait_read(t) \/ wait_cas(t) \/ try_read(t) \/ try_cas(t)
    PROVE  IInv'
<1> USE NxMutexAssumption DEF IInv, wait_read, wait_cas, try_read, try_cas, Goto
<1>f. mholder = Free => waitlist = <<>> /\ \A u \in Task : ~Claims(u)
  BY DEF Free, WaitersListed, NoLostWaiter, HolderNamed
<1>1. TypeOK'
  <2>1. \E l \in {"waitcas", "waitslow", "got", "wait", "trycas", "run", "try"} :
            pc' = [pc EXCEPT ![t] = l]
    OBVIOUS
  <2>2. pc' \in [Task -> Label]
    BY <2>1 DEF TypeOK, Label
  <2>3. mholder' = mholder \/ mholder' = Held(t, FALSE)
    OBVIOUS
  <2>4. mholder' \in Word
    BY <2>3, Words DEF TypeOK
  <2> QED BY <2>2, <2>4 DEF TypeOK
<1>2. Local(t)
  BY DEF Local, WaitSem, TypeOK
<1>3. WordKept(t)
  <2>1. CASE mholder' = mholder
    <3>1. Claims(t)' => Claims(t)
      BY <2>1 DEF TypeOK, Claims, Owns, Held, Free
    <3> QED BY <2>1, <3>1 DEF WordKept, HolderNamed, WaitersListed, NoLostWaiter
  <2>2. CASE mholder' # mholder
    BY <2>2, <1>f, Words DEF WordKept
  <2> QED BY <2>1, <2>2
<1>4. Stage(t)'
  BY DEF Stages, Stage, TypeOK
<1>5. Counts'
  BY CountsKept DEF Alive, TypeOK
<1> QED BY <1>1, <1>2, <1>3, <1>4, <1>5, LocalStep

\* The mutex is free, or its holder has exited: nobody claims it.
LEMMA UnlockedUnclaimed ==
    ASSUME IInv, Unlocked
    PROVE  \A u \in Task : ~Claims(u)
<1> SUFFICES ASSUME NEW u \in Task, Claims(u) PROVE FALSE
  OBVIOUS
<1>1. mholder.tid = u
  BY DEF IInv, HolderNamed
<1>2. pc[u] = "dead"
  BY <1>1 DEF Unlocked
<1>3. saved[u] = 0 /\ depth[u] = 0
  BY <1>2 DEF IInv, Stages, Stage
<1> QED BY <1>2, <1>3 DEF Claims, Owns

\* A slow path takes the mutex.
LEMMA AcquireStep ==
    ASSUME IInv, NEW t \in Task, pc[t] \in {"waitslow", "tick"}, Acquire(t),
           UNCHANGED <<count, old, waitdog, depth, saved>>
    PROVE  IInv'
<1> USE NxMutexAssumption DEF IInv, Acquire, Goto
<1>1. TypeOK'
  <2>1. pc' \in [Task -> Label]
    BY DEF TypeOK, Label
  <2>2. mholder' \in Word
    BY Words DEF TypeOK
  <2> QED BY <2>1, <2>2 DEF TypeOK
<1>2. Local(t)
  BY DEF Local, WaitSem, TypeOK
<1>3. WordKept(t)
  BY UnlockedUnclaimed, Words DEF WordKept
<1>4. Stage(t)'
  BY DEF Stages, Stage, TypeOK
<1>5. Counts'
  BY CountsKept DEF Alive, TypeOK
<1> QED BY <1>1, <1>2, <1>3, <1>4, <1>5, LocalStep

\* A task that was woken resumes, with the mutex or after a timeout.
LEMMA ResumeStep ==
    ASSUME IInv, NEW t \in Task, wait_resume(t)
    PROVE  IInv'
<1> USE NxMutexAssumption DEF IInv, wait_resume, Goto
<1>1. TypeOK'
  <2>1. pc' \in [Task -> Label]
    BY DEF TypeOK, Label
  <2>2. mholder' \in Word
    BY Words DEF TypeOK
  <2> QED BY <2>1, <2>2 DEF TypeOK
<1>2. Local(t)
  BY DEF Local, WaitSem, TypeOK
<1>3. WordKept(t)
  <2>1. CASE errcode[t] = "OK"
    <3>1. mholder.tid = t /\ mholder' = Held(t, waitlist # <<>>)
      BY <2>1 DEF HolderNamed, Claims
    <3> QED BY <3>1, Words DEF WordKept, HolderNamed
  <2>2. CASE errcode[t] # "OK"
    <3>1. Claims(t)' => Claims(t)
      BY <2>2 DEF TypeOK, Claims, Owns
    <3> QED BY <2>2, <3>1 DEF WordKept, HolderNamed, WaitersListed, NoLostWaiter
  <2> QED BY <2>1, <2>2
<1>4. Stage(t)'
  BY DEF Stages, Stage, TypeOK
<1>5. Counts'
  BY CountsKept DEF Alive, TypeOK
<1> QED BY <1>1, <1>2, <1>3, <1>4, <1>5, LocalStep

\* nxrmutex_unlock: the last of the nested locks goes on to the post.
LEMMA UnlockStep ==
    ASSUME IInv, NEW t \in Task, nxrmutex_unlock(t)
    PROVE  IInv'
<1> USE NxMutexAssumption DEF IInv, nxrmutex_unlock, Goto
<1>0. /\ Locked(t) /\ count \in Nat /\ depth[t] \in Nat /\ count >= depth[t]
      /\ mholder.tid = t
  BY DEF Locked, TypeOK, Counts, HolderNamed, Claims, Owns
<1>1. TypeOK'
  <2>1. depth' \in [Task -> 0..MaxNest] /\ count' \in Nat
    BY <1>0 DEF TypeOK
  <2>p. pc' = pc \/ pc' = [pc EXCEPT ![t] = "post"]
    OBVIOUS
  <2>2. pc' \in [Task -> Label]
    BY <2>p DEF TypeOK, Label
  <2> QED BY <2>1, <2>2 DEF TypeOK
<1>2. Local(t)
  BY DEF Local, WaitSem, TypeOK
<1>3. WordKept(t)
  BY <1>0 DEF WordKept, HolderNamed, WaitersListed, NoLostWaiter
<1>4. Stage(t)'
  BY <1>0 DEF Stages, Stage, TypeOK
<1>5. Counts'
  <2>1. \A u \in Task \ {t} : ~Locked(u) /\ ~Locked(u)'
    BY <1>0 DEF HolderNamed, Claims, Owns, Locked, TypeOK
  <2>2. Alive' => Alive
    BY DEF Alive, TypeOK
  <2>3. depth'[t] = depth[t] - 1 /\ count' = count - 1 /\ saved'[t] = 0
    BY DEF TypeOK
  <2>4. Alive => count = depth[t]
    BY <1>0 DEF Counts
  <2>5. Alive => \A u \in Task : saved'[u] > 0 => saved'[u] = depth'[u]
    BY <2>3 DEF Counts, TypeOK
  <2>6. Locked(t)' <=> depth[t] - 1 > 0
    BY <2>3 DEF Locked
  <2> QED BY <1>0, <2>1, <2>2, <2>3, <2>4, <2>5, <2>6 DEF Counts
<1> QED BY <1>1, <1>2, <1>3, <1>4, <1>5, LocalStep

\* nxrmutex_breaklock puts the count away and posts.
LEMMA BreakStep ==
    ASSUME IInv, NEW t \in Task, nxrmutex_breaklock(t)
    PROVE  IInv'
<1> USE NxMutexAssumption DEF IInv, nxrmutex_breaklock, nxrmutex_is_hold, Goto
<1>0. /\ Locked(t) /\ count \in Nat /\ depth[t] \in Nat /\ count >= depth[t]
      /\ mholder.tid = t /\ saved'[t] = count /\ depth' = depth
  BY DEF Locked, TypeOK, Counts
<1>1. TypeOK'
  BY DEF TypeOK, Label
<1>2. Local(t)
  BY DEF Local, WaitSem, TypeOK
<1>3. WordKept(t)
  BY <1>0 DEF WordKept, HolderNamed, WaitersListed, NoLostWaiter
<1>4. Stage(t)'
  BY <1>0 DEF Stage, Locked, TypeOK
<1>5. Counts'
  <2>1. \A u \in Task : ~Locked(u)'
    BY <1>0 DEF HolderNamed, Claims, Owns, Locked, TypeOK
  <2>2. Alive' => Alive
    BY DEF Alive, TypeOK
  <2>3. Alive => \A u \in Task : saved'[u] > 0 => saved'[u] = depth'[u]
    BY <1>0 DEF Counts, TypeOK
  <2> QED BY <2>1, <2>2, <2>3 DEF Counts
<1> QED BY <1>1, <1>2, <1>3, <1>4, <1>5, LocalStep

\* nxrmutex_restorelock locks the mutex again.
LEMMA RestoreStep ==
    ASSUME IInv, NEW t \in Task, nxrmutex_restorelock(t)
    PROVE  IInv'
<1> USE NxMutexAssumption DEF IInv, nxrmutex_restorelock, Goto
<1>1. TypeOK'
  BY DEF TypeOK, Label
<1>2. Local(t)
  BY DEF Local, WaitSem, TypeOK
<1>3. WordKept(t)
  <2>1. Claims(t)' => Claims(t)
    BY DEF TypeOK, Claims, Owns
  <2> QED BY <2>1 DEF WordKept, HolderNamed, WaitersListed, NoLostWaiter
<1>4. Stage(t)'
  BY DEF Stages, Stage, TypeOK
<1>5. Counts'
  BY CountsKept DEF Alive, TypeOK
<1> QED BY <1>1, <1>2, <1>3, <1>4, <1>5, LocalStep

\* The post reads the word, and frees the mutex if nobody waits.
LEMMA PostFastStep ==
    ASSUME IInv, NEW t \in Task, post_read(t) \/ post_cas(t)
    PROVE  IInv'
<1> USE NxMutexAssumption DEF IInv, post_read, post_cas, Goto, Forget
<1>0. Claims(t) /\ mholder.tid = t /\ \A u \in Task \ {t} : ~Claims(u)
  BY DEF HolderNamed, Claims
<1>1. TypeOK'
  <2>1. pc' \in [Task -> Label]
    BY DEF TypeOK, Label
  <2>m. mholder' = mholder \/ mholder' = Free
    OBVIOUS
  <2>o. \E w \in {mholder, Free} : old' = old \/ old' = [old EXCEPT ![t] = w]
    OBVIOUS
  <2>2. mholder' \in Word /\ old' \in [Task -> Word]
    <3>1. mholder \in Word /\ old \in [Task -> Word] /\ Free \in Word
      BY Words DEF TypeOK
    <3> QED BY ONLY <2>m, <2>o, <3>1, t \in Task
  <2> QED BY <2>1, <2>2 DEF TypeOK
<1>2. Local(t)
  BY DEF Local, WaitSem, TypeOK
<1>3. WordKept(t)
  <2>1. CASE mholder' = mholder
    BY <1>0, <2>1 DEF WordKept, HolderNamed, WaitersListed, NoLostWaiter
  <2>2. CASE mholder' # mholder
    <3>1. post_cas(t) /\ mholder = old[t] /\ pc'[t] = "run" /\ waitlist = <<>>
      BY <2>2 DEF WaitersListed, NoLostWaiter, Stages, Stage, TypeOK
    <3>2. ~Claims(t)'
      <4>1. ~(depth[t] > 0 /\ saved[t] = 0)
        BY <3>1 DEF Stages, Stage
      <4> QED BY <3>1, <4>1 DEF Claims, Owns
    <3> QED BY <1>0, <3>1, <3>2 DEF WordKept
  <2> QED BY <2>1, <2>2
<1>4. Stage(t)'
  BY DEF Stages, Stage, TypeOK
<1>5. Counts'
  BY CountsKept DEF Alive, TypeOK
<1> QED BY <1>1, <1>2, <1>3, <1>4, <1>5, LocalStep

\* A task exits; its count stays behind.
LEMMA ExitStep ==
    ASSUME IInv, NEW t \in Task, nxtask_exit(t)
    PROVE  IInv'
<1> USE NxMutexAssumption DEF IInv, nxtask_exit, Goto
<1>1. TypeOK'
  BY DEF TypeOK, Label
<1>2. Local(t)
  BY DEF Local, WaitSem, TypeOK
<1>3. WordKept(t)
  <2>1. ~Claims(t)'
    BY DEF TypeOK, Claims, Owns
  <2> QED BY <2>1 DEF WordKept, HolderNamed, WaitersListed, NoLostWaiter
<1>4. Stage(t)'
  BY DEF Stage, TypeOK
<1>5. Counts'
  <2>1. ~Alive' /\ ~Locked(t)'
    BY DEF Alive, Locked, TypeOK
  <2> QED BY <2>1 DEF Counts, Locked, TypeOK
<1> QED BY <1>1, <1>2, <1>3, <1>4, <1>5, LocalStep
-----------------------------------------------------------------------------
(* Steps that change the wait list *)

\* A task that has to wait sets the blocking bit and enters the list.
LEMMA BlockStep ==
    ASSUME IInv, NEW t \in Task, NEW l \in {"blocked", "timedblocked"},
           pc[t] \in {"waitslow", "tick"}, Block(t, l),
           waitdog' \in [Task -> BOOLEAN], UNCHANGED <<count, old, depth, saved>>
    PROVE  IInv'
<1> USE NxMutexAssumption DEF IInv, Block, Goto
<1>w. mholder' \in Word /\ mholder'.tid = mholder.tid /\ mholder'.blocking = TRUE
  BY DEF TypeOK, Word
<1>l. Proper(waitlist', Task, Prio) /\ Members(waitlist') = Members(waitlist) \cup {t}
  <2>1. Proper(waitlist, Task, Prio) /\ t \notin Members(waitlist) /\ Prio \in [Task -> Int]
    <3>1. Proper(waitlist, Task, Prio)
      BY DEF TypeOK, WaitersListed, Proper
    <3>2. t \notin Members(waitlist)
      BY DEF WaitersListed, NoLostWaiter, WaitSem
    <3>3. Prio \in [Task -> Int]
      OBVIOUS
    <3> QED BY <3>1, <3>2, <3>3
  <2>2. waitlist' = nxsched_add_prioritized(waitlist, Prio, t)
    OBVIOUS
  <2> QED BY ONLY <2>1, <2>2, AddPrioritized, t \in Task
<1>1. TypeOK'
  BY <1>w, <1>l DEF TypeOK, Label, Proper
<1>2. HolderNamed'
  BY <1>w DEF TypeOK, HolderNamed, Claims, Owns
<1>3. WaitersListed'
  BY <1>w, <1>l DEF TypeOK, WaitersListed, NoLostWaiter, WaitSem, Proper
<1>4. Stages'
  BY DEF TypeOK, Stages, Stage
<1>5. Counts'
  BY CountsKept DEF Alive, TypeOK
<1> QED BY <1>1, <1>2, <1>3, <1>4, <1>5

\* The slow paths take the mutex, or wait for it.
LEMMA SlowWaitStep ==
    ASSUME IInv, NEW t \in Task, nxsem_wait_slow(t) \/ nxsem_tickwait(t)
    PROVE  IInv'
<1>1. waitdog \in [Task -> BOOLEAN]
  BY DEF IInv, TypeOK
<1>2. CASE nxsem_wait_slow(t)
  BY <1>1, <1>2, AcquireStep, BlockStep DEF nxsem_wait_slow
<1>3. CASE nxsem_tickwait(t)
  BY <1>1, <1>3, AcquireStep, BlockStep DEF nxsem_tickwait
<1> QED BY <1>2, <1>3

\* The watchdog takes the task off the list, if it still waits.
LEMMA TimeoutStep ==
    ASSUME IInv, NEW t \in Task, nxsem_timeout(t)
    PROVE  IInv'
<1> USE NxMutexAssumption DEF IInv, nxsem_timeout, Goto
<1>l. CASE WaitSem(t)
  <2>l. Proper(waitlist', Task, Prio) /\ Members(waitlist') = Members(waitlist) \ {t}
    <3>1. Proper(waitlist, Task, Prio) /\ t \in Members(waitlist)
      BY <1>l DEF TypeOK, WaitersListed, NoLostWaiter, Proper
    <3>2. waitlist' = dq_rem(waitlist, t)
      BY <1>l
    <3> QED BY ONLY <3>1, <3>2, DqRem
  <2>1. TypeOK'
    BY <1>l, <2>l DEF TypeOK, Label, Proper
  <2>2. HolderNamed'
    BY <1>l DEF TypeOK, HolderNamed, Claims, Owns
  <2>3. WaitersListed'
    <3>1. waitlist # <<>>
      BY <1>l DEF WaitersListed, NoLostWaiter, Members
    <3>2. \A u \in Task : u \in Members(waitlist') <=> WaitSem(u)'
      BY <1>l, <2>l DEF TypeOK, WaitersListed, NoLostWaiter, WaitSem
    <3> QED BY <1>l, <2>l, <3>1, <3>2 DEF WaitersListed, NoLostWaiter, Proper
  <2>4. Stages'
    BY <1>l DEF TypeOK, Stages, Stage, WaitSem
  <2>5. Counts'
    BY <1>l, CountsKept DEF Alive, TypeOK, WaitSem
  <2> QED BY <2>1, <2>2, <2>3, <2>4, <2>5
<1>n. CASE ~WaitSem(t)
  <2>1. TypeOK' /\ UNCHANGED <<mholder, waitlist, count, pc, old, errcode, depth, saved>>
    BY <1>n DEF TypeOK
  <2>2. HolderNamed' /\ WaitersListed' /\ Stages' /\ Counts'
    BY <2>1 DEF HolderNamed, Claims, Owns, WaitersListed, NoLostWaiter, WaitSem,
                Stages, Stage, Counts, Locked, Alive
  <2> QED BY <2>1, <2>2
<1> QED BY <1>l, <1>n

\* The first task of the list
LEMMA FirstWaiter ==
    ASSUME IInv, waitlist # <<>>
    PROVE  /\ waitlist[1] \in Task /\ WaitSem(waitlist[1])
           /\ Proper(Tail(waitlist), Task, Prio)
           /\ Members(Tail(waitlist)) = Members(waitlist) \ {waitlist[1]}
<1>1. Proper(waitlist, Task, Prio) /\ 1 \in 0..Len(waitlist) /\ 1 \in DOMAIN waitlist
  BY DEF IInv, TypeOK, WaitersListed, Proper
<1>2. Tail(waitlist) = SubSeq(waitlist, 1 + 1, Len(waitlist))
  BY <1>1 DEF Proper
<1>3. Proper(Tail(waitlist), Task, Prio)
  BY <1>1, <1>2, DropFirst
<1>4. Members(Tail(waitlist)) = Without(Members(waitlist), FirstOf(waitlist, 1))
  BY <1>1, <1>2, DropFirstMembers
<1>5. FirstOf(waitlist, 1) = {waitlist[1]}
  BY DEF FirstOf
<1>6. waitlist[1] \in Task /\ waitlist[1] \in Members(waitlist)
  BY <1>1 DEF Members, Proper
<1> QED BY <1>3, <1>4, <1>5, <1>6 DEF Without, IInv, WaitersListed, NoLostWaiter

\* The slow post hands the mutex to the first task of the list.
LEMMA PostSlowStep ==
    ASSUME IInv, NEW t \in Task, nxsem_post_slow(t)
    PROVE  IInv'
<1> USE NxMutexAssumption DEF IInv, nxsem_post_slow, Goto
<1>0. /\ Claims(t) /\ mholder.tid = t /\ \A u \in Task \ {t} : ~Claims(u)
      /\ ~(depth[t] > 0 /\ saved[t] = 0)
  BY DEF HolderNamed, Claims, Stages, Stage
<1>5. CASE waitlist' = waitlist
  <2>p. pc' = [pc EXCEPT ![t] = "run"] /\ UNCHANGED <<count, old, errcode, depth, saved, waitdog>>
    <3>1. ~(mholder.blocking /\ waitlist # <<>>)
      <4>1. waitlist # <<>> => Len(Tail(waitlist)) # Len(waitlist)
        BY DEF TypeOK
      <4> QED BY <4>1, <1>5
    <3> QED BY <3>1
  <2>m. mholder' = mholder \/ (mholder' = Free /\ waitlist = <<>>)
    BY <1>5 DEF WaitersListed, NoLostWaiter
  <2>1. TypeOK'
    <3>1. mholder' \in Word
      BY <2>m, Words DEF TypeOK
    <3> QED BY <1>5, <2>p, <3>1 DEF TypeOK, Label
  <2>2. Local(t)
    BY <1>5, <2>p DEF Local, WaitSem, TypeOK
  <2>3. WordKept(t)
    <3>1. ~Claims(t)'
      BY <2>p, <1>0 DEF Claims, Owns, TypeOK
    <3> QED BY <2>m, <3>1, <1>0 DEF WordKept, WaitersListed, NoLostWaiter
  <2>4. Stage(t)'
    BY <2>p DEF Stages, Stage, TypeOK
  <2>5. Counts'
    BY <2>p, CountsKept DEF Alive, TypeOK
  <2> QED BY <2>1, <2>2, <2>3, <2>4, <2>5, LocalStep
<1>6. CASE waitlist' # waitlist
  <2> DEFINE h == waitlist[1]
  <2>0. /\ waitlist # <<>> /\ waitlist' = Tail(waitlist)
        /\ mholder' = Held(h, Tail(waitlist) # <<>>)
        /\ waitdog' = [waitdog EXCEPT ![h] = FALSE]
        /\ pc' = [pc EXCEPT ![t] = "run", ![h] = "woken"]
        /\ UNCHANGED <<count, old, errcode, depth, saved>>
    BY <1>6
  <2>h. /\ h \in Task /\ WaitSem(h) /\ h # t
        /\ Proper(waitlist', Task, Prio)
        /\ Members(waitlist') = Members(waitlist) \ {h}
    BY <2>0, FirstWaiter DEF WaitSem
  <2> HIDE DEF h
  <2>1. TypeOK'
    <3>1. mholder' \in Word
      BY <2>0, <2>h, Words
    <3>2. pc' \in [Task -> Label] /\ waitdog' \in [Task -> BOOLEAN]
      BY <2>0, <2>h DEF TypeOK, Label
    <3> QED BY <2>0, <2>h, <3>1, <3>2 DEF TypeOK, Proper
  <2>p. /\ pc'[t] = "run" /\ pc'[h] = "woken"
        /\ \A u \in Task \ {t, h} : pc'[u] = pc[u]
    BY <2>0, <2>h DEF TypeOK
  <2>2. HolderNamed'
    <3>1. ~Claims(t)'
      BY <2>0, <2>p, <1>0 DEF Claims, Owns
    <3>2. \A u \in Task \ {t, h} : ~Claims(u)'
      <4>1. UNCHANGED <<errcode, depth, saved>>
        BY <2>0
      <4> QED BY ONLY <4>1, <2>p, <1>0 DEF Claims, Owns
    <3>3. mholder'.tid = h
      BY <2>0, <2>h, Words
    <3> QED BY <3>1, <3>2, <3>3 DEF HolderNamed
  <2>3. WaitersListed'
    <3>1. mholder'.blocking <=> waitlist' # <<>>
      BY <2>0, <2>h, Words
    <3>2. \A u \in Task : u \in Members(waitlist') <=> WaitSem(u)'
      BY <2>h, <2>p DEF WaitersListed, NoLostWaiter, WaitSem
    <3> QED BY <2>h, <3>1, <3>2 DEF WaitersListed, NoLostWaiter, Proper
  <2>4. Stages'
    BY <2>0, <2>p, <2>h DEF Stages, Stage, WaitSem
  <2>5. Counts'
    <3>1. Alive' => Alive
      BY <2>p, <2>h DEF Alive, WaitSem
    <3> QED BY <2>0, <3>1, CountsKept
  <2> QED BY <2>1, <2>2, <2>3, <2>4, <2>5
<1> QED BY <1>5, <1>6

-----------------------------------------------------------------------------
(* The theorems *)

LEMMA NextIInv == ASSUME IInv, [Next]_vars PROVE IInv'
<1>1. ASSUME NEW t \in Task, NEW l \in {"wait", "try", "tick"}, nxrmutex_lock(t, l)
      PROVE  IInv'
  BY <1>1, LockStep
<1>2. ASSUME NEW t \in Task,
             nxrmutex_unlock(t) \/ nxrmutex_breaklock(t) \/ nxrmutex_restorelock(t)
      PROVE  IInv'
  BY <1>2, UnlockStep, BreakStep, RestoreStep
<1>3. ASSUME NEW t \in Task, CallStep(t)
      PROVE  IInv'
  BY <1>3, FastPathStep, SlowWaitStep, ResumeStep, GotStep, PostFastStep, PostSlowStep
     DEF CallStep
<1>4. ASSUME NEW t \in Task, nxsem_timeout(t) \/ nxtask_exit(t)
      PROVE  IInv'
  BY <1>4, TimeoutStep, ExitStep
<1>5. CASE UNCHANGED vars
  BY <1>5 DEF vars, IInv, TypeOK, HolderNamed, Claims, Owns, WaitersListed, NoLostWaiter,
              WaitSem, Stages, Stage, Counts, Locked, Alive
<1> QED BY <1>1, <1>2, <1>3, <1>4, <1>5 DEF Next

LEMMA Invariance == Spec => []IInv
<1>1. Init => IInv
  BY InitIInv
<1>2. IInv /\ [Next]_vars => IInv'
  BY NextIInv
<1> QED BY <1>1, <1>2, PTL DEF Spec

\* Every variable of the mutex keeps its type; rmutex->count, an unsigned int,
\* is never decremented below zero.
THEOREM MutexTypeCorrect == Spec => []TypeOK
<1>1. IInv => TypeOK
  BY DEF IInv
<1> QED BY <1>1, Invariance, PTL

\* Whatever fast paths, handovers, timeouts, broken locks and exits of holders
\* interleave, at most one task has the mutex, and the holder word names it.
THEOREM MutexExcludes == Spec => []MutualExclusion
<1>1. IInv => MutualExclusion
  BY DEF IInv, HolderNamed, MutualExclusion, Claims
<1> QED BY <1>1, Invariance, PTL

\* The wait list holds exactly the blocked tasks, and the blocking bit, which
\* sends the unlock to the slow path, is set as long as there are any.
THEOREM MutexKeepsWaiters == Spec => []NoLostWaiter
<1>1. IInv => NoLostWaiter
  BY DEF IInv, WaitersListed
<1> QED BY <1>1, Invariance, PTL

\* rmutex->count is the nesting of the owner's locks, over any sequence of
\* nxrmutex_lock, unlock, breaklock and restorelock.
THEOREM MutexCountsNesting == Spec => []CountIsDepth
<1>1. IInv => CountIsDepth
  BY DEF IInv, Counts, CountIsDepth, Locked, Alive
<1> QED BY <1>1, Invariance, PTL
=============================================================================
