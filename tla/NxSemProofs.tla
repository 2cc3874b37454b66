---------------------------- MODULE NxSemProofs ----------------------------
(***************************************************************************)
(* Theorems about the counting semaphore, for any set of tasks, priorities *)
(* and calls, as long as the posts cannot take the count to its limit.     *)
(***************************************************************************)
EXTENDS NxSem, TaskListProofs

\* No sequence of posts reaches SEM_VALUE_MAX: with counts of 31 bits, fewer
\* than two thousand million posts since the last reset.  The fast
\* path of nxsem_post has no test against the limit: beyond it the count wraps
\* around to a negative value.
NoOverflow == \A c \in ResetCounts \cup {InitValue, 1} : c + MaxPosts <= SEM_VALUE_MAX

\* Room for the posts that are still to come
Room == semcount + (MaxPosts - posts) <= SEM_VALUE_MAX

\* What the place where a task is says about the rest of its state: a count
\* that a fast path holds was there, a call in progress has not returned, a
\* task that waits has no error yet, its watchdog runs only while it is in
\* nxsem_tickwait, and only a task that may destroy the semaphore does so.
WaitLabel == {"wait", "waitcas", "waitslow", "try", "trycas", "tick",
              "blocked", "timedblocked", "woken"}
Stage(t) ==
    /\ pc[t] \in {"waitcas", "trycas"} => old[t] >= 1
    /\ pc[t] \in {"postcas", "destroycas"} => old[t] >= 0
    /\ pc[t] \in WaitLabel => ret[t] = "none"
    /\ WaitSem(t) => errcode[t] = "OK"
    /\ pc[t] = "woken" => errcode[t] \in {"OK", "EINTR", "ETIMEDOUT"}
    /\ waitdog[t] => pc[t] \in {"timedblocked", "woken"}
    /\ pc[t] \in {"destroy", "destroycas"} => "destroy" \in Calls[t]
Stages == \A t \in Task : Stage(t)

\* The inductive invariant
IInv == TypeOK /\ CountMatchesWaiters /\ Room /\ Stages

\* nxsem_init establishes the invariant.
LEMMA InitIInv == ASSUME NoOverflow, Init PROVE IInv
<1> USE NxSemAssumption
<1>1. TypeOK
  BY DEF Init, TypeOK, Label, Result
<1>2. CountMatchesWaiters
  BY DEF Init, CountMatchesWaiters, WaitSem, Members, Distinct, Descending
<1>3. Room
  BY DEF Init, Room, NoOverflow
<1>4. Stages
  BY DEF Init, Stages, Stage, WaitSem, WaitLabel
<1> QED BY <1>1, <1>2, <1>3, <1>4 DEF IInv

\* What the wait list and the count are when a task blocks
LEMMA BlockIInv ==
    ASSUME IInv, NEW t \in Task, NEW label \in {"blocked", "timedblocked"},
           semcount <= 0, ~WaitSem(t), ret[t] = "none",
           Block(t, label), UNCHANGED <<old, posts>>,
           waitdog' \in [Task -> BOOLEAN],
           \A u \in Task \ {t} : waitdog'[u] = waitdog[u],
           waitdog'[t] => label = "timedblocked"
    PROVE  IInv'
<1> USE NxSemAssumption DEF IInv
<1>p. Prio \in [Task -> Int]
  OBVIOUS
<1>t. t \notin Members(waitlist)
  BY DEF CountMatchesWaiters
<1>1. /\ Proper(waitlist', Task, Prio)
      /\ Len(waitlist') = Len(waitlist) + 1
      /\ Members(waitlist') = Members(waitlist) \cup {t}
  <2>1. Proper(waitlist, Task, Prio)
    BY DEF TypeOK, CountMatchesWaiters, Proper
  <2>2. waitlist' = nxsched_add_prioritized(waitlist, Prio, t)
    BY DEF Block
  <2> QED BY <2>1, <2>2, <1>p, <1>t, AddPrioritized
<1>2. TypeOK'
  <2>1. waitlist' \in Seq(Task) /\ semcount' \in Int /\ semcount' <= SEM_VALUE_MAX
    BY <1>1 DEF TypeOK, Block, Proper
  <2>2. pc' \in [Task -> Label]
    BY DEF TypeOK, Block, Goto, Label
  <2>3. errcode' \in [Task -> Result]
    BY DEF TypeOK, Block, Result
  <2> QED BY <2>1, <2>2, <2>3 DEF TypeOK, Block
<1>3. CountMatchesWaiters'
  <2>1. Len(waitlist') = IF semcount' < 0 THEN -semcount' ELSE 0
    BY <1>1 DEF TypeOK, CountMatchesWaiters, Block
  <2>2. \A u \in Task : u \in Members(waitlist') <=> WaitSem(u)'
    BY <1>1 DEF TypeOK, CountMatchesWaiters, Block, Goto, WaitSem
  <2> QED BY <1>1, <2>1, <2>2 DEF CountMatchesWaiters, Proper
<1>4. Room'
  BY DEF Room, Block, TypeOK
<1>5. Stages'
  BY DEF Stages, Stage, Block, Goto, WaitSem, WaitLabel, TypeOK
<1> QED BY <1>2, <1>3, <1>4, <1>5

\* A step that leaves the wait list alone, and a negative count too
LEMMA QuietStep ==
    ASSUME IInv, waitlist' = waitlist,
           \/ semcount' = semcount
           \/ semcount >= 0 /\ semcount' \in Nat,
           \A u \in Task : WaitSem(u)' <=> WaitSem(u)
    PROVE  CountMatchesWaiters'
BY DEF IInv, CountMatchesWaiters, TypeOK

\* A wait is cut short: the task leaves the list, and its count is given back.
LEMMA WaitIrqStep ==
    ASSUME IInv, NoOverflow, NEW t \in Task, NEW err \in {"EINTR", "ETIMEDOUT"},
           WaitSem(t), nxsem_wait_irq(t, err),
           \/ waitdog' = waitdog
           \/ waitdog' = [waitdog EXCEPT ![t] = FALSE]
    PROVE  IInv'
<1> USE NxSemAssumption DEF IInv
<1>1. /\ Proper(waitlist', Task, Prio)
      /\ Len(waitlist') = Len(waitlist) - 1
      /\ Members(waitlist') = Members(waitlist) \ {t}
  <2>1. Proper(waitlist, Task, Prio) /\ t \in Members(waitlist)
    BY DEF TypeOK, CountMatchesWaiters, Proper
  <2>2. waitlist' = dq_rem(waitlist, t)
    BY DEF nxsem_wait_irq
  <2> QED BY <2>1, <2>2, DqRem
<1>2. semcount < 0
  <2>1. Len(waitlist) # 0
    BY DEF TypeOK, CountMatchesWaiters, Members
  <2> QED BY <2>1 DEF CountMatchesWaiters, TypeOK
<1>3. TypeOK'
  <2>1. semcount' \in Int /\ semcount' <= SEM_VALUE_MAX
    BY <1>2 DEF TypeOK, nxsem_wait_irq
  <2>2. waitdog' \in [Task -> BOOLEAN]
    BY DEF TypeOK
  <2>3. waitlist' \in Seq(Task)
    BY <1>1 DEF Proper
  <2> QED BY <2>1, <2>2, <2>3 DEF TypeOK, nxsem_wait_irq, Goto, Label, Result
<1>4. CountMatchesWaiters'
  <2>1. Len(waitlist') = IF semcount' < 0 THEN -semcount' ELSE 0
    BY <1>1, <1>2 DEF TypeOK, CountMatchesWaiters, nxsem_wait_irq
  <2>2. \A u \in Task : u \in Members(waitlist') <=> WaitSem(u)'
    BY <1>1 DEF TypeOK, CountMatchesWaiters, nxsem_wait_irq, Goto, WaitSem
  <2> QED BY <1>1, <2>1, <2>2 DEF CountMatchesWaiters, Proper
<1>5. Room'
  <2>1. 1 + MaxPosts <= SEM_VALUE_MAX
    BY DEF NoOverflow
  <2> QED BY <2>1, <1>2 DEF Room, nxsem_wait_irq, TypeOK
<1>6. Stages'
  BY DEF Stages, Stage, nxsem_wait_irq, Goto, WaitSem, WaitLabel, TypeOK
<1> QED BY <1>3, <1>4, <1>5, <1>6

\* Room for the posts to come keeps the count itself within its limit.
LEMMA RoomBound ==
    \A s, p, m, x \in Int : s + (m - p) <= x /\ p <= m => s <= x
OBVIOUS

\* Counts are handed to the first n waiting tasks, by a post or by nxsem_reset.
LEMMA HandOver ==
    ASSUME IInv, NEW n \in Nat, semcount < 0, n <= -semcount,
           waitlist' = SubSeq(waitlist, n + 1, Len(waitlist)),
           semcount' \in Int, posts' \in 0..MaxPosts, Room',
           \/ semcount' = semcount + n
           \/ n = -semcount /\ semcount' >= 0,
           pc' \in [Task -> Label],
           \A u \in Task : u \in FirstOf(waitlist, n) => pc'[u] = "woken",
           \A u \in Task : u \notin FirstOf(waitlist, n) =>
                \/ pc'[u] = pc[u]
                \/ pc[u] = "postslow" /\ pc'[u] = "run",
           waitdog' \in [Task -> BOOLEAN],
           \A u \in Task : waitdog'[u] => waitdog[u],
           UNCHANGED <<old, errcode, ret>>
    PROVE  IInv'
<1>1. /\ Proper(waitlist, Task, Prio)
      /\ Len(waitlist) = -semcount /\ n \in 0..Len(waitlist) /\ semcount \in Int
  BY DEF IInv, TypeOK, CountMatchesWaiters, Proper
<1>2. Proper(waitlist', Task, Prio) /\ Len(waitlist') = Len(waitlist) - n
  <2>1. Proper(waitlist', Task, Prio)
    BY <1>1, DropFirst
  <2>2. Len(waitlist') = Len(waitlist) - n
    BY <1>1, DropFirst
  <2> QED BY <2>1, <2>2
<1>3. Members(waitlist') = Without(Members(waitlist), FirstOf(waitlist, n))
  BY <1>1, DropFirstMembers
<1>4. FirstOf(waitlist, n) \subseteq Members(waitlist)
  BY <1>1 DEF Members, Proper, FirstOf
<1>5. TypeOK'
  <2>1. semcount' <= SEM_VALUE_MAX
    <3>1. semcount' + (MaxPosts - posts') <= SEM_VALUE_MAX
      BY DEF Room
    <3>2. MaxPosts \in Int /\ SEM_VALUE_MAX \in Int
      BY NxSemAssumption
    <3>3. semcount' \in Int /\ posts' \in Int /\ posts' <= MaxPosts
      BY <3>2
    <3> QED BY ONLY <3>1, <3>2, <3>3, RoomBound, Zenon
  <2>2. waitlist' \in Seq(Task)
    BY <1>2 DEF Proper
  <2> QED BY <2>1, <2>2 DEF IInv, TypeOK
<1>6. CountMatchesWaiters'
  <2>1. Len(waitlist') = IF semcount' < 0 THEN -semcount' ELSE 0
    BY <1>1, <1>2
  <2>2. ASSUME NEW u \in Task PROVE u \in Members(waitlist') <=> WaitSem(u)'
    BY <1>3 DEF IInv, CountMatchesWaiters, WaitSem, Without
  <2> QED BY <1>2, <2>1, <2>2 DEF CountMatchesWaiters, Proper
<1>7. Stages'
  <2> SUFFICES ASSUME NEW u \in Task PROVE Stage(u)'
    BY DEF Stages
  <2>1. CASE u \in FirstOf(waitlist, n)
    <3>1. WaitSem(u)
      BY <2>1, <1>4 DEF IInv, CountMatchesWaiters
    <3> QED BY <2>1, <3>1 DEF IInv, Stages, Stage, WaitSem, WaitLabel
  <2>2. CASE u \notin FirstOf(waitlist, n)
    BY <2>2 DEF IInv, Stages, Stage, WaitSem, WaitLabel
  <2> QED BY <2>1, <2>2
<1> QED BY <1>5, <1>6, <1>7 DEF IInv

\* A step of a fast path: the task moves on without touching the wait list, and
\* may take a count or, in nxsem_destroy, set it.
Moves(t) ==
    /\ UNCHANGED <<waitlist, waitdog, errcode, posts>>
    /\ pc[t] \notin {"blocked", "timedblocked", "woken"}
    /\ pc' \in [Task -> Label]
    /\ pc'[t] \notin {"blocked", "timedblocked", "woken"}
    /\ old' \in [Task -> Int] /\ ret' \in [Task -> Result]
    /\ \A u \in Task \ {t} : pc'[u] = pc[u] /\ old'[u] = old[u] /\ ret'[u] = ret[u]
Counts == \/ semcount' = semcount
          \/ semcount >= 1 /\ semcount' = semcount - 1
          \/ semcount >= 0 /\ semcount' = 1

\* A step that neither blocks nor wakes anybody keeps the invariant.
LEMMA FastPathIInv ==
    ASSUME IInv, NoOverflow, NEW t \in Task, Moves(t), Counts, Stage(t)'
    PROVE  IInv'
<1> USE NxSemAssumption DEF IInv, Moves, Counts
<1>0. 1 + MaxPosts <= SEM_VALUE_MAX /\ 1 <= SEM_VALUE_MAX
  BY DEF NoOverflow
<1>1. TypeOK'
  <2>1. semcount' \in Int /\ semcount' <= SEM_VALUE_MAX
    BY <1>0 DEF TypeOK
  <2> QED BY <2>1 DEF TypeOK
<1>2. CountMatchesWaiters'
  <2>1. \A u \in Task : WaitSem(u)' <=> WaitSem(u)
    BY DEF WaitSem, TypeOK
  <2>2. \/ semcount' = semcount
        \/ semcount >= 0 /\ semcount' \in Nat
    BY DEF TypeOK
  <2>3. waitlist' = waitlist
    OBVIOUS
  <2> HIDE DEF IInv
  <2> QED BY <2>1, <2>2, <2>3, QuietStep
<1>3. Room'
  BY <1>0 DEF Room, TypeOK
<1>4. Stages'
  BY DEF Stages, Stage, WaitSem, TypeOK
<1> QED BY <1>1, <1>2, <1>3, <1>4

\* A task enters a call.
LEMMA CallStep ==
    ASSUME IInv, NoOverflow, NEW t \in Task,
           \E l \in {"wait", "try", "tick", "post", "destroy"} : Call(t, l)
    PROVE  IInv'
<1>1. Moves(t)
  BY DEF IInv, TypeOK, Moves, Call, Goto, Label, Result
<1>2. Counts
  BY DEF IInv, TypeOK, Stages, Stage, Counts, Call, Goto
<1>3. Stage(t)'
  BY DEF IInv, TypeOK, Call, Goto, Stages, Stage, WaitSem, WaitLabel
<1> QED BY <1>1, <1>2, <1>3, FastPathIInv

\* The fast path of nxsem_wait reads the count.
LEMMA WaitReadStep ==
    ASSUME IInv, NoOverflow, NEW t \in Task,
           wait_read(t)
    PROVE  IInv'
<1>1. Moves(t)
  BY DEF IInv, TypeOK, Moves, wait_read, Read, Goto, Label, Result
<1>2. Counts
  BY DEF IInv, TypeOK, Stages, Stage, Counts, wait_read, Read, Goto
<1>3. Stage(t)'
  BY DEF IInv, TypeOK, wait_read, Read, Goto, Stages, Stage, WaitSem, WaitLabel
<1> QED BY <1>1, <1>2, <1>3, FastPathIInv

\* The fast path of nxsem_wait takes a count, or has to read again.
LEMMA WaitCasStep ==
    ASSUME IInv, NoOverflow, NEW t \in Task,
           wait_cas(t)
    PROVE  IInv'
<1>1. Moves(t)
  <2>1. pc' \in [Task -> Label] /\ \A u \in Task \ {t} : pc'[u] = pc[u]
    BY DEF IInv, TypeOK, wait_cas, Forget, Return, Goto, Label
  <2>2. old' \in [Task -> Int] /\ \A u \in Task \ {t} : old'[u] = old[u]
    BY DEF IInv, TypeOK, wait_cas, Forget, Return, Goto
  <2>3. ret' \in [Task -> Result] /\ \A u \in Task \ {t} : ret'[u] = ret[u]
    BY DEF IInv, TypeOK, wait_cas, Forget, Return, Goto, Result
  <2> QED BY <2>1, <2>2, <2>3 DEF IInv, TypeOK, Moves, wait_cas, Forget, Return, Goto
<1>2. Counts
  BY DEF IInv, TypeOK, Stages, Stage, Counts, wait_cas, Forget, Return, Goto
<1>3. Stage(t)'
  BY DEF IInv, TypeOK, wait_cas, Forget, Return, Goto, Stages, Stage, WaitSem, WaitLabel
<1> QED BY <1>1, <1>2, <1>3, FastPathIInv

\* nxsem_trywait reads the count, or fails.
LEMMA TryReadStep ==
    ASSUME IInv, NoOverflow, NEW t \in Task,
           try_read(t)
    PROVE  IInv'
<1>1. Moves(t)
  BY DEF IInv, TypeOK, Moves, try_read, Read, Return, Goto, Label, Result
<1>2. Counts
  BY DEF IInv, TypeOK, Stages, Stage, Counts, try_read, Read, Return, Goto
<1>3. Stage(t)'
  BY DEF IInv, TypeOK, try_read, Read, Return, Goto, Stages, Stage, WaitSem, WaitLabel
<1> QED BY <1>1, <1>2, <1>3, FastPathIInv

\* nxsem_trywait takes a count, or has to read again.
LEMMA TryCasStep ==
    ASSUME IInv, NoOverflow, NEW t \in Task,
           try_cas(t)
    PROVE  IInv'
<1>1. Moves(t)
  <2>1. pc' \in [Task -> Label] /\ \A u \in Task \ {t} : pc'[u] = pc[u]
    BY DEF IInv, TypeOK, try_cas, Forget, Return, Goto, Label
  <2>2. old' \in [Task -> Int] /\ \A u \in Task \ {t} : old'[u] = old[u]
    BY DEF IInv, TypeOK, try_cas, Forget, Return, Goto
  <2>3. ret' \in [Task -> Result] /\ \A u \in Task \ {t} : ret'[u] = ret[u]
    BY DEF IInv, TypeOK, try_cas, Forget, Return, Goto, Result
  <2> QED BY <2>1, <2>2, <2>3 DEF IInv, TypeOK, Moves, try_cas, Forget, Return, Goto
<1>2. Counts
  BY DEF IInv, TypeOK, Stages, Stage, Counts, try_cas, Forget, Return, Goto
<1>3. Stage(t)'
  BY DEF IInv, TypeOK, try_cas, Forget, Return, Goto, Stages, Stage, WaitSem, WaitLabel
<1> QED BY <1>1, <1>2, <1>3, FastPathIInv

\* The fast path of nxsem_post reads the count.
LEMMA PostReadStep ==
    ASSUME IInv, NoOverflow, NEW t \in Task,
           post_read(t)
    PROVE  IInv'
<1>1. Moves(t)
  BY DEF IInv, TypeOK, Moves, post_read, Read, Goto, Label, Result
<1>2. Counts
  BY DEF IInv, TypeOK, Stages, Stage, Counts, post_read, Read, Goto
<1>3. Stage(t)'
  BY DEF IInv, TypeOK, post_read, Read, Goto, Stages, Stage, WaitSem, WaitLabel
<1> QED BY <1>1, <1>2, <1>3, FastPathIInv

\* nxsem_destroy reads the count.
LEMMA DestroyReadStep ==
    ASSUME IInv, NoOverflow, NEW t \in Task,
           destroy_read(t)
    PROVE  IInv'
<1>1. Moves(t)
  BY DEF IInv, TypeOK, Moves, destroy_read, Read, Goto, Label, Result
<1>2. Counts
  BY DEF IInv, TypeOK, Stages, Stage, Counts, destroy_read, Read, Goto
<1>3. Stage(t)'
  BY DEF IInv, TypeOK, destroy_read, Read, Goto, Stages, Stage, WaitSem, WaitLabel
<1> QED BY <1>1, <1>2, <1>3, FastPathIInv

\* nxsem_destroy sets the count to one, reads again, or gives up.
LEMMA DestroyCasStep ==
    ASSUME IInv, NoOverflow, NEW t \in Task,
           destroy_cas(t)
    PROVE  IInv'
<1>1. Moves(t)
  <2>1. pc' \in [Task -> Label] /\ \A u \in Task \ {t} : pc'[u] = pc[u]
    BY DEF IInv, TypeOK, destroy_cas, Read, Forget, Goto, Label
  <2>2. old' \in [Task -> Int] /\ \A u \in Task \ {t} : old'[u] = old[u]
    BY DEF IInv, TypeOK, destroy_cas, Read, Forget, Goto
  <2>3. ret' \in [Task -> Result] /\ \A u \in Task \ {t} : ret'[u] = ret[u]
    BY DEF IInv, TypeOK, destroy_cas, Read, Forget, Goto, Result
  <2> QED BY <2>1, <2>2, <2>3 DEF IInv, TypeOK, Moves, destroy_cas, Read, Forget, Goto
<1>2. Counts
  BY DEF IInv, TypeOK, Stages, Stage, Counts, destroy_cas, Read, Forget, Goto
<1>3. Stage(t)'
  BY DEF IInv, TypeOK, destroy_cas, Read, Forget, Goto, Stages, Stage, WaitSem, WaitLabel
<1> QED BY <1>1, <1>2, <1>3, FastPathIInv

\* nxsem_wait_slow takes a count or blocks.
LEMMA WaitSlowStep ==
    ASSUME IInv, NoOverflow, NEW t \in Task, nxsem_wait_slow(t)
    PROVE  IInv'
<1>1. CASE semcount > 0
  <2>1. Moves(t)
    <3>1. /\ pc[t] = "waitslow" /\ Return(t, "OK")
          /\ UNCHANGED <<waitlist, errcode, old, waitdog, posts>>
      BY <1>1 DEF nxsem_wait_slow, IInv, TypeOK
    <3> QED BY <3>1 DEF IInv, TypeOK, Moves, Return, Goto, Label, Result
  <2>2. Counts
    BY <1>1 DEF IInv, TypeOK, Counts, nxsem_wait_slow
  <2>3. Stage(t)'
    BY <1>1 DEF IInv, TypeOK, nxsem_wait_slow, Return, Goto, Stages, Stage, WaitSem, WaitLabel
  <2> QED BY <2>1, <2>2, <2>3, FastPathIInv
<1>2. CASE ~(semcount > 0)
  <2>1. semcount <= 0 /\ Block(t, "blocked") /\ UNCHANGED <<old, posts>>
    BY <1>2 DEF nxsem_wait_slow, IInv, TypeOK
  <2>2. ~WaitSem(t) /\ ret[t] = "none" /\ ~waitdog[t]
    BY DEF nxsem_wait_slow, IInv, Stages, Stage, WaitSem, WaitLabel
  <2>3. waitdog' \in [Task -> BOOLEAN] /\ waitdog' = waitdog
    BY DEF nxsem_wait_slow, IInv, TypeOK
  <2> QED BY <2>1, <2>2, <2>3, BlockIInv
<1> QED BY <1>1, <1>2

\* nxsem_tickwait takes a count, fails or blocks with a watchdog.
LEMMA TickWaitStep ==
    ASSUME IInv, NoOverflow, NEW t \in Task, nxsem_tickwait(t)
    PROVE  IInv'
<1> DEFINE Blocks == /\ semcount < 1
                     /\ waitdog' = [waitdog EXCEPT ![t] = TRUE]
                     /\ Block(t, "timedblocked")
<1>1. CASE ~Blocks
  <2>1. Moves(t)
    BY <1>1 DEF IInv, TypeOK, Moves, nxsem_tickwait, Return, Goto, Label, Result
  <2>2. Counts
    BY <1>1 DEF IInv, TypeOK, Counts, nxsem_tickwait
  <2>3. Stage(t)'
    BY <1>1 DEF IInv, TypeOK, nxsem_tickwait, Return, Goto, Stages, Stage, WaitSem, WaitLabel
  <2> QED BY <2>1, <2>2, <2>3, FastPathIInv
<1>2. CASE Blocks
  <2>1. semcount <= 0 /\ Block(t, "timedblocked") /\ UNCHANGED <<old, posts>>
    BY <1>2 DEF nxsem_tickwait, IInv, TypeOK
  <2>2. ~WaitSem(t) /\ ret[t] = "none"
    BY DEF nxsem_tickwait, IInv, Stages, Stage, WaitSem, WaitLabel
  <2>3. waitdog' \in [Task -> BOOLEAN] /\ \A u \in Task \ {t} : waitdog'[u] = waitdog[u]
    BY <1>2 DEF IInv, TypeOK
  <2> QED BY <2>1, <2>2, <2>3, BlockIInv
<1> QED BY <1>1, <1>2

\* A woken task resumes and stops its watchdog.
LEMMA WaitResumeStep ==
    ASSUME IInv, NEW t \in Task, wait_resume(t)
    PROVE  IInv'
<1> USE NxSemAssumption DEF IInv, wait_resume, Return, Goto
<1>1. TypeOK'
  BY DEF TypeOK, Label, Result
<1>2. CountMatchesWaiters'
  <2>1. \A u \in Task : WaitSem(u)' <=> WaitSem(u)
    BY DEF WaitSem, TypeOK
  <2>2. semcount' = semcount /\ waitlist' = waitlist
    OBVIOUS
  <2> HIDE DEF IInv
  <2> QED BY <2>1, <2>2, QuietStep
<1>3. Room'
  BY DEF Room
<1>4. Stages'
  BY DEF Stages, Stage, WaitSem, WaitLabel, TypeOK
<1> QED BY <1>1, <1>2, <1>3, <1>4

\* A watchdog expires, in time or too late.
LEMMA TimeoutStep ==
    ASSUME IInv, NoOverflow, NEW t \in Task, nxsem_timeout(t)
    PROVE  IInv'
<1>1. CASE WaitSem(t)
  BY <1>1, WaitIrqStep DEF nxsem_timeout
<1>2. CASE ~WaitSem(t)
  <2> USE <1>2 DEF IInv, nxsem_timeout
  <2>1. TypeOK'
    BY DEF TypeOK
  <2>2. CountMatchesWaiters'
    BY DEF CountMatchesWaiters, WaitSem
  <2>3. Room'
    BY DEF Room
  <2>4. Stages'
    BY DEF Stages, Stage, WaitSem, WaitLabel, TypeOK
  <2> QED BY <2>1, <2>2, <2>3, <2>4
<1> QED BY <1>1, <1>2

\* A signal ends a wait.
LEMMA SignalStep ==
    ASSUME IInv, NoOverflow, NEW t \in Task, Signal(t)
    PROVE  IInv'
BY WaitIrqStep DEF Signal

\* A post that finds nobody waiting adds a count.
LEMMA AddCount ==
    ASSUME IInv, semcount >= 0, semcount' = semcount + 1, posts' = posts + 1,
           posts < MaxPosts,
           UNCHANGED <<waitlist, waitdog, errcode, ret>>,
           NEW t \in Task, pc[t] \in {"postcas", "postslow"},
           pc' = [pc EXCEPT ![t] = "run"],
           old' \in [Task -> Int], \A u \in Task \ {t} : old'[u] = old[u]
    PROVE  IInv'
<1> USE NxSemAssumption DEF IInv
<1>1. Room' /\ semcount' \in Int /\ semcount' <= SEM_VALUE_MAX /\ posts' \in 0..MaxPosts
  BY DEF TypeOK, Room
<1>t. TypeOK'
  <2>1. pc' \in [Task -> Label]
    BY DEF TypeOK, Label
  <2> QED BY <1>1, <2>1 DEF TypeOK
<1>2. CountMatchesWaiters'
  <2>1. \A u \in Task : WaitSem(u)' <=> WaitSem(u)
    BY DEF WaitSem, TypeOK
  <2>2. semcount' \in Nat
    BY DEF TypeOK
  <2> HIDE DEF IInv
  <2> QED BY <2>1, <2>2, QuietStep
<1>3. Stages'
  BY DEF Stages, Stage, WaitSem, WaitLabel, TypeOK
<1> QED BY <1>1, <1>t, <1>2, <1>3

\* The fast path of nxsem_post adds a count, or has to read again.
LEMMA PostCasStep ==
    ASSUME IInv, NoOverflow, NEW t \in Task, post_cas(t)
    PROVE  IInv'
<1>1. CASE semcount = old[t]
  <2>1. semcount >= 0 /\ semcount + 1 <= SEM_VALUE_MAX
    BY <1>1, NxSemAssumption DEF IInv, TypeOK, Room, Stages, Stage, post_cas
  <2>2. semcount' = semcount + 1
    BY <1>1, <2>1, NxSemAssumption DEF post_cas, Wrap, IInv, TypeOK
  <2>3. old' \in [Task -> Int] /\ \A u \in Task \ {t} : old'[u] = old[u]
    BY DEF post_cas, Forget, IInv, TypeOK
  <2> QED BY <1>1, <2>1, <2>2, <2>3, AddCount DEF post_cas, Goto
<1>2. CASE semcount # old[t]
  <2>1. Moves(t)
    <3>1. old' \in [Task -> Int] /\ \A u \in Task \ {t} : old'[u] = old[u]
      BY DEF post_cas, Forget, IInv, TypeOK
    <3>2. pc' = [pc EXCEPT ![t] = "post"] /\ UNCHANGED posts
      BY <1>2 DEF post_cas, Goto
    <3>3. pc' \in [Task -> Label]
      BY <3>2 DEF IInv, TypeOK, Label
    <3> QED BY <3>1, <3>2, <3>3 DEF IInv, TypeOK, Moves, post_cas
  <2>2. Counts
    BY <1>2 DEF Counts, post_cas
  <2>3. Stage(t)'
    BY <1>2 DEF IInv, TypeOK, post_cas, Forget, Goto, Stages, Stage, WaitSem, WaitLabel
  <2> QED BY <2>1, <2>2, <2>3, FastPathIInv
<1> QED BY <1>1, <1>2

\* With a negative count there is a first waiting task.
LEMMA Waiting ==
    ASSUME IInv, semcount < 0
    PROVE  /\ waitlist # <<>> /\ Len(waitlist) >= 1
           /\ FirstOf(waitlist, 1) = {waitlist[1]}
           /\ waitlist[1] \in Task /\ WaitSem(waitlist[1])
           /\ RemFirst = SubSeq(waitlist, 1 + 1, Len(waitlist))
<1>1. Len(waitlist) >= 1 /\ waitlist \in Seq(Task)
  BY DEF IInv, TypeOK, CountMatchesWaiters
<1>2. waitlist[1] \in Task /\ waitlist # <<>>
  BY <1>1
<1>3. waitlist[1] \in Members(waitlist)
  BY <1>1 DEF Members
<1>4. FirstOf(waitlist, 1) = {waitlist[1]}
  BY DEF FirstOf
<1>5. Tail(waitlist) = SubSeq(waitlist, 2, Len(waitlist))
  BY <1>1
<1> QED BY <1>1, <1>2, <1>3, <1>4, <1>5 DEF IInv, CountMatchesWaiters, RemFirst

\* nxsem_post_slow hands its count to the first waiting task, or adds it.
LEMMA PostSlowStep ==
    ASSUME IInv, NoOverflow, NEW t \in Task, nxsem_post_slow(t)
    PROVE  IInv'
<1> USE NxSemAssumption
<1>1. semcount < SEM_VALUE_MAX /\ pc[t] = "postslow" /\ posts < MaxPosts
  BY DEF nxsem_post_slow, IInv, Room, TypeOK
<1>2. semcount' = semcount + 1 /\ posts' = posts + 1 /\ UNCHANGED <<old, errcode, ret>>
  BY <1>1 DEF nxsem_post_slow, IInv, TypeOK
<1>3. CASE semcount < 0
  <2>1. waitlist' = RemFirst /\ waitdog' = StopWaitdog /\ pc' = Awaken([pc EXCEPT ![t] = "run"])
    BY <1>1, <1>3 DEF nxsem_post_slow, IInv, TypeOK
  <2>2. /\ waitlist # <<>> /\ FirstOf(waitlist, 1) = {waitlist[1]}
        /\ waitlist[1] \in Task /\ WaitSem(waitlist[1])
        /\ RemFirst = SubSeq(waitlist, 1 + 1, Len(waitlist))
    BY <1>3, Waiting
  <2>3. waitdog' \in [Task -> BOOLEAN] /\ \A u \in Task : waitdog'[u] => waitdog[u]
    BY <2>1, <2>2 DEF StopWaitdog, IInv, TypeOK
  <2>4. pc' = [[pc EXCEPT ![t] = "run"] EXCEPT ![waitlist[1]] = "woken"]
    BY <2>1, <2>2 DEF Awaken
  <2>5. pc' \in [Task -> Label]
    BY <2>2, <2>4 DEF IInv, TypeOK, Label
  <2>6. \A u \in Task : u \in FirstOf(waitlist, 1) => pc'[u] = "woken"
    BY <2>2, <2>4 DEF IInv, TypeOK
  <2>7. \A u \in Task : u \notin FirstOf(waitlist, 1) =>
                \/ pc'[u] = pc[u]
                \/ pc[u] = "postslow" /\ pc'[u] = "run"
    BY <2>2, <2>4, <1>1 DEF IInv, TypeOK
  <2>8. semcount' \in Int /\ posts' \in 0..MaxPosts /\ Room' /\ 1 <= -semcount
    BY <1>1, <1>2, <1>3 DEF IInv, TypeOK, Room
  <2> QED BY <1>2, <1>3, <2>1, <2>2, <2>3, <2>5, <2>6, <2>7, <2>8, HandOver
<1>4. CASE semcount >= 0
  <2>1. UNCHANGED <<waitlist, waitdog>> /\ pc' = [pc EXCEPT ![t] = "run"]
    BY <1>1, <1>4 DEF nxsem_post_slow, Goto, IInv, TypeOK
  <2>2. old' \in [Task -> Int] /\ \A u \in Task \ {t} : old'[u] = old[u]
    BY <1>2 DEF IInv, TypeOK
  <2> QED BY <1>1, <1>2, <1>4, <2>1, <2>2, AddCount
<1> QED BY <1>3, <1>4 DEF IInv, TypeOK

\* An interrupt handler posts.
LEMMA PostIsrStep ==
    ASSUME IInv, NoOverflow, PostIsr
    PROVE  IInv'
<1> USE NxSemAssumption
<1>1. posts < MaxPosts /\ posts' = posts + 1 /\ UNCHANGED <<old, errcode, ret>>
  BY DEF PostIsr
<1>2. CASE semcount < 0
  <2>1. /\ semcount' = semcount + 1 /\ waitlist' = RemFirst
        /\ waitdog' = StopWaitdog /\ pc' = Awaken(pc)
    BY <1>2 DEF PostIsr
  <2>2. /\ waitlist # <<>> /\ FirstOf(waitlist, 1) = {waitlist[1]}
        /\ waitlist[1] \in Task
        /\ RemFirst = SubSeq(waitlist, 1 + 1, Len(waitlist))
    BY <1>2, Waiting
  <2>3. waitdog' \in [Task -> BOOLEAN] /\ \A u \in Task : waitdog'[u] => waitdog[u]
    BY <2>1, <2>2 DEF StopWaitdog, IInv, TypeOK
  <2>4. pc' = [pc EXCEPT ![waitlist[1]] = "woken"]
    BY <2>1, <2>2 DEF Awaken
  <2>5. /\ pc' \in [Task -> Label]
        /\ \A u \in Task : u \in FirstOf(waitlist, 1) => pc'[u] = "woken"
        /\ \A u \in Task : u \notin FirstOf(waitlist, 1) => pc'[u] = pc[u]
    BY <2>2, <2>4 DEF IInv, TypeOK, Label
  <2>6. semcount' \in Int /\ posts' \in 0..MaxPosts /\ Room' /\ 1 <= -semcount
    BY <1>1, <1>2, <2>1 DEF IInv, TypeOK, Room
  <2> QED BY <1>1, <1>2, <2>1, <2>2, <2>3, <2>5, <2>6, HandOver
<1>3. CASE semcount >= 0
  <2>1. semcount + 1 <= SEM_VALUE_MAX /\ semcount \in Int
    BY <1>1 DEF IInv, TypeOK, Room
  <2>2. semcount' = semcount + 1 /\ UNCHANGED <<waitlist, waitdog, pc>>
    BY <1>3, <2>1 DEF PostIsr, Wrap
  <2>3. TypeOK' /\ Room'
    BY <1>1, <2>1, <2>2 DEF IInv, TypeOK, Room
  <2>4. CountMatchesWaiters'
    <3>1. \A u \in Task : WaitSem(u)' <=> WaitSem(u)
      BY <2>2 DEF WaitSem
    <3> QED BY <1>3, <2>1, <2>2, <3>1, QuietStep
  <2>5. Stages'
    BY <1>1, <2>2 DEF IInv, Stages, Stage, WaitSem
  <2> QED BY <2>3, <2>4, <2>5 DEF IInv
<1> QED BY <1>2, <1>3 DEF IInv, TypeOK

\* nxsem_reset hands out counts and sets what is left.
LEMMA ResetStep ==
    ASSUME IInv, NoOverflow, NEW t \in Task, NEW c \in ResetCounts, nxsem_reset(t, c)
    PROVE  IInv'
<1> USE NxSemAssumption
<1> DEFINE n == IF semcount >= 0 THEN 0
                ELSE IF c < -semcount THEN c ELSE -semcount
<1>1. /\ semcount' = IF semcount + n < 0 THEN semcount + n ELSE c - n
      /\ waitlist' = SubSeq(waitlist, n + 1, Len(waitlist))
      /\ pc' = [u \in Task |-> IF u \in FirstOf(waitlist, n) THEN "woken" ELSE pc[u]]
      /\ waitdog' = [u \in Task |-> waitdog[u] /\ u \notin FirstOf(waitlist, n)]
      /\ UNCHANGED <<old, errcode, ret, posts>>
  BY DEF nxsem_reset, FirstOf
<1>2. c \in Nat /\ c + MaxPosts <= SEM_VALUE_MAX /\ 1 + MaxPosts <= SEM_VALUE_MAX
  BY DEF NoOverflow
<1>3. n \in Nat
  BY <1>2 DEF IInv, TypeOK
<1>4. semcount' \in Int /\ posts' \in 0..MaxPosts /\ Room'
  BY <1>1, <1>2 DEF IInv, TypeOK, Room
<1>5. CASE semcount < 0
  <2>1. /\ n <= -semcount
        /\ \/ semcount' = semcount + n
           \/ n = -semcount /\ semcount' >= 0
    BY <1>1, <1>2, <1>5 DEF IInv, TypeOK
  <2> HIDE DEF n
  <2>2. /\ pc' \in [Task -> Label]
        /\ \A u \in Task : u \in FirstOf(waitlist, n) => pc'[u] = "woken"
        /\ \A u \in Task : u \notin FirstOf(waitlist, n) => pc'[u] = pc[u]
    BY <1>1 DEF IInv, TypeOK, Label
  <2>3. waitdog' \in [Task -> BOOLEAN] /\ \A u \in Task : waitdog'[u] => waitdog[u]
    BY <1>1 DEF IInv, TypeOK
  <2> QED BY <1>1, <1>3, <1>4, <1>5, <2>1, <2>2, <2>3, HandOver
<1>6. CASE semcount >= 0
  <2>1. n = 0 /\ semcount' = c
    BY <1>1, <1>2, <1>6 DEF IInv, TypeOK
  <2>2. waitlist = <<>> /\ waitlist' = <<>>
    <3>1. waitlist \in Seq(Task) /\ Len(waitlist) = 0
      BY <1>6 DEF IInv, TypeOK, CountMatchesWaiters
    <3> QED BY <3>1, <2>1, <1>1
  <2>3. FirstOf(waitlist, n) = {}
    BY <2>1 DEF FirstOf
  <2> HIDE DEF n
  <2>4. pc' = pc /\ waitdog' = waitdog
    BY <1>1, <2>3 DEF IInv, TypeOK
  <2>5. TypeOK'
    BY <1>1, <1>2, <1>4, <2>1, <2>2, <2>4 DEF IInv, TypeOK
  <2>6. CountMatchesWaiters'
    <3>1. \A u \in Task : WaitSem(u)' <=> WaitSem(u)
      BY <2>4 DEF WaitSem
    <3> QED BY <1>2, <1>6, <2>1, <2>2, <3>1, QuietStep
  <2>7. Stages'
    BY <1>1, <2>4 DEF IInv, Stages, Stage, WaitSem
  <2> QED BY <1>4, <2>5, <2>6, <2>7 DEF IInv
<1> QED BY <1>5, <1>6 DEF IInv, TypeOK

\* Every step keeps the invariant: one case per action.
LEMMA NextIInv ==
    ASSUME NoOverflow, IInv, [Next]_vars
    PROVE  IInv'
<1>1. CASE UNCHANGED vars
  BY <1>1 DEF vars, IInv, TypeOK, CountMatchesWaiters, WaitSem, Room, Stages, Stage
<1>2. ASSUME NEW t \in Task, NEW l \in {"wait", "try", "tick", "post", "destroy"}, Call(t, l)
      PROVE  IInv'
  BY <1>2, CallStep
<1>3. ASSUME NEW t \in Task, TaskStep(t) PROVE IInv'
  BY <1>3, WaitReadStep, WaitCasStep, WaitSlowStep, WaitResumeStep, TryReadStep,
     TryCasStep, TickWaitStep, PostReadStep, PostCasStep, PostSlowStep,
     DestroyReadStep, DestroyCasStep DEF TaskStep
<1>4. ASSUME NEW t \in Task, nxsem_timeout(t) \/ Signal(t) PROVE IInv'
  BY <1>4, TimeoutStep, SignalStep
<1>5. ASSUME NEW t \in Task, NEW c \in ResetCounts, nxsem_reset(t, c) PROVE IInv'
  BY <1>5, ResetStep
<1>6. CASE PostIsr
  BY <1>6, PostIsrStep
<1> QED BY <1>1, <1>2, <1>3, <1>4, <1>5, <1>6 DEF Next

\* The inductive invariant holds in every reachable state.
THEOREM SemInvariant ==
    ASSUME NoOverflow
    PROVE  Spec => []IInv
<1>1. Init => IInv
  BY InitIInv
<1>2. IInv /\ [Next]_vars => IInv'
  BY NextIInv
<1> QED BY <1>1, <1>2, PTL DEF Spec

\* The variables of the semaphore keep their types, and no count of an int32_t
\* is exceeded.
THEOREM SemTypeOK ==
    ASSUME NoOverflow
    PROVE  Spec => []TypeOK
<1>1. IInv => TypeOK
  BY DEF IInv
<1> QED BY <1>1, SemInvariant, PTL

\* The count of nxsem_wait, nxsem_post and their fast paths always agrees with
\* the wait list, for any number of tasks and however their steps interleave.
THEOREM SemCountMatchesWaiters ==
    ASSUME NoOverflow
    PROVE  Spec => []CountMatchesWaiters
<1>1. IInv => CountMatchesWaiters
  BY DEF IInv
<1> QED BY <1>1, SemInvariant, PTL

\* A watchdog of nxsem_tickwait never ends a later wait without a timeout.
THEOREM SemNoStaleTimeout ==
    ASSUME NoOverflow
    PROVE  Spec => NoStaleTimeout
<1> DEFINE P == \A t \in Task : pc[t] = "blocked" /\ pc'[t] = "woken"
                    => errcode'[t] # "ETIMEDOUT"
<1>1. IInv /\ [Next]_vars => [P]_vars
  <2> SUFFICES ASSUME IInv, Next, NEW t \in Task,
                      pc[t] = "blocked", pc'[t] = "woken", errcode'[t] = "ETIMEDOUT"
               PROVE  FALSE
    OBVIOUS
  <2>0. errcode[t] = "OK" /\ ~waitdog[t] /\ pc \in [Task -> Label] /\ errcode \in [Task -> Result]
    BY DEF IInv, Stages, Stage, WaitSem, TypeOK
  <2>1. ASSUME NEW u \in Task, NEW l \in {"wait", "try", "tick", "post", "destroy"}, Call(u, l)
        PROVE  FALSE
    BY <2>0, <2>1 DEF Call
  <2>2. ASSUME NEW u \in Task, TaskStep(u)
        PROVE  FALSE
    <3>1. CASE nxsem_wait_slow(u)
      BY <2>0, <3>1 DEF nxsem_wait_slow, Block
    <3>2. CASE nxsem_tickwait(u)
      BY <2>0, <3>2 DEF nxsem_tickwait, Block
    <3>3. CASE UNCHANGED errcode
      BY <2>0, <3>3
    <3> QED BY <2>2, <3>1, <3>2, <3>3 DEF TaskStep, wait_read, wait_cas, wait_resume,
            try_read, try_cas, post_read, post_cas, nxsem_post_slow, destroy_read, destroy_cas
  <2>3. ASSUME NEW u \in Task, nxsem_timeout(u)
        PROVE  FALSE
    <3>1. u # t
      BY <2>0, <2>3 DEF nxsem_timeout
    <3>2. errcode'[t] = errcode[t]
      BY <3>1, <2>0, <2>3 DEF nxsem_timeout, nxsem_wait_irq
    <3> QED BY <3>2, <2>0
  <2>4. ASSUME NEW u \in Task, Signal(u)
        PROVE  FALSE
    BY <2>0, <2>4 DEF Signal, nxsem_wait_irq
  <2>5. ASSUME NEW u \in Task, NEW c \in ResetCounts, nxsem_reset(u, c)
        PROVE  FALSE
    BY <2>0, <2>5 DEF nxsem_reset
  <2>6. CASE PostIsr
    BY <2>0, <2>6 DEF PostIsr
  <2> QED BY <2>1, <2>2, <2>3, <2>4, <2>5, <2>6 DEF Next
<1> QED BY <1>1, SemInvariant, PTL DEF Spec, NoStaleTimeout

-----------------------------------------------------------------------------
(* The refinement of AbsSem: the fast and slow paths of the semaphore *)
(* implement the abstract one.                                        *)

\* The abstract value and the abstract result of a task
Value == IF semcount > 0 THEN semcount ELSE 0
Res(t) == IF pc[t] = "woken" THEN errcode[t] ELSE ret[t]

\* A step that the abstract semaphore does not see
LEMMA Stutters ==
    ASSUME Value' = Value, Members(waitlist') = Members(waitlist), posts' = posts,
           \A u \in Task : Res(u)' = Res(u)
    PROVE  UNCHANGED Abs!vars
BY DEF Abs!vars, Value, Res

\* A step that changes the result of one task
LEMMA ResultOf ==
    ASSUME NEW t \in Task, NEW r, Res(t)' = r,
           \A u \in Task \ {t} : Res(u)' = Res(u)
    PROVE  [u \in Task |-> Res(u)]' = [[u \in Task |-> Res(u)] EXCEPT ![t] = r]
OBVIOUS

\* Both modules mean the same Cardinality.
LEMMA SameCardinality == \A S : Abs!Cardinality(S) = Cardinality(S)
BY Zenon DEF Abs!Cardinality, Cardinality

\* The initial state maps to the initial state.
LEMMA InitAbs == ASSUME Init PROVE Abs!Init
BY NxSemAssumption DEF Init, Abs!Init, Members

\* Entering a wait is Call, entering another call is not seen.
LEMMA CallAbs ==
    ASSUME IInv, NEW t \in Task, NEW l \in {"wait", "try", "tick", "post", "destroy"},
           Call(t, l)
    PROVE  Abs!Next \/ UNCHANGED Abs!vars
<1> USE DEF IInv
<1>1. /\ UNCHANGED <<semcount, waitlist, posts, errcode>> /\ pc[t] = "run"
      /\ pc' = [pc EXCEPT ![t] = l]
  BY DEF Call, Goto
<1>2. Value' = Value /\ Members(waitlist') = Members(waitlist)
  BY <1>1 DEF Value
<1>3. CASE l \in {"wait", "try", "tick"}
  <2>1. ret' = [ret EXCEPT ![t] = "none"]
    BY <1>3 DEF Call
  <2>2. Res(t)' = "none" /\ \A u \in Task \ {t} : Res(u)' = Res(u)
    BY <1>1, <1>3, <2>1 DEF Res, TypeOK
  <2>3. t \notin Members(waitlist)
    BY <1>1 DEF CountMatchesWaiters, WaitSem
  <2>4. Abs!Call(t)
    BY <1>1, <1>2, <2>2, <2>3, ResultOf DEF Abs!Call, Value, Res
  <2> QED BY <2>4 DEF Abs!Next
<1>4. CASE l \in {"post", "destroy"}
  <2>1. ret' = ret
    BY <1>4 DEF Call
  <2>2. \A u \in Task : Res(u)' = Res(u)
    BY <1>1, <1>4, <2>1 DEF Res, TypeOK
  <2> QED BY <1>1, <1>2, <2>2, Stutters
<1> QED BY <1>3, <1>4

\* Task t takes a step outside the wait list.
Acts(t) ==
    /\ UNCHANGED <<waitlist, errcode, posts>>
    /\ pc[t] \notin {"blocked", "timedblocked", "woken"}
    /\ pc'[t] \notin {"blocked", "timedblocked", "woken"}
    /\ \A u \in Task \ {t} : pc'[u] = pc[u] /\ ret'[u] = ret[u]

\* A fast path that only looks at the count
LEMMA LookAbs ==
    ASSUME IInv, NEW t \in Task, Acts(t), semcount' = semcount, ret' = ret
    PROVE  UNCHANGED Abs!vars
<1>1. Value' = Value /\ Members(waitlist') = Members(waitlist) /\ posts' = posts
  BY DEF Value, Acts
<1>2. \A u \in Task : Res(u)' = Res(u)
  BY DEF Acts, Res
<1> QED BY <1>1, <1>2, Stutters

\* A count is taken, and the call returns.
LEMMA TakeAbs ==
    ASSUME IInv, NEW t \in Task, Acts(t), semcount >= 1, semcount' = semcount - 1,
           ret[t] = "none", ret'[t] = "OK"
    PROVE  Abs!Next
<1>1. /\ Value > 0 /\ Value' = Value - 1
      /\ Members(waitlist') = Members(waitlist) /\ posts' = posts
  BY DEF Value, Acts, IInv, TypeOK
<1>2. Res(t) = "none" /\ Res(t)' = "OK" /\ \A u \in Task \ {t} : Res(u)' = Res(u)
  BY DEF Acts, Res
<1>3. Abs!Return(t, "OK")
  BY <1>2, ResultOf DEF Abs!Return, Res
<1>4. Abs!Take(t)
  BY <1>1, <1>3 DEF Abs!Take, Value
<1> QED BY <1>4 DEF Abs!Next

\* A call fails at once.
LEMMA FailAbs ==
    ASSUME IInv, NEW t \in Task, Acts(t), semcount < 1, semcount' = semcount,
           ret[t] = "none", ret'[t] \in {"EAGAIN", "ETIMEDOUT"}
    PROVE  Abs!Next
<1>1. /\ Value = 0 /\ Value' = Value
      /\ Members(waitlist') = Members(waitlist) /\ posts' = posts
  BY DEF Value, Acts, IInv, TypeOK
<1>2. /\ Res(t) = "none" /\ Res(t)' = ret'[t]
      /\ \A u \in Task \ {t} : Res(u)' = Res(u)
  BY DEF Acts, Res
<1>3. Abs!Return(t, "EAGAIN") \/ Abs!Return(t, "ETIMEDOUT")
  BY <1>2, ResultOf DEF Abs!Return, Res
<1>4. t \notin Members(waitlist)
  BY DEF IInv, CountMatchesWaiters, WaitSem, Acts
<1>5. Abs!Fail(t)
  BY <1>1, <1>3, <1>4 DEF Abs!Fail, Value
<1> QED BY <1>5 DEF Abs!Next

\* A wait begins.
LEMMA BlockAbs ==
    ASSUME IInv, NEW t \in Task, NEW label \in {"blocked", "timedblocked"},
           semcount <= 0, ~WaitSem(t), pc[t] # "woken", ret[t] = "none",
           Block(t, label), posts' = posts
    PROVE  Abs!Next
<1>1. Members(waitlist') = Members(waitlist) \cup {t}
  <2>1. Proper(waitlist, Task, Prio) /\ t \notin Members(waitlist)
    BY DEF IInv, TypeOK, CountMatchesWaiters, Proper
  <2>2. waitlist' = nxsched_add_prioritized(waitlist, Prio, t)
    BY DEF Block
  <2>3. Prio \in [Task -> Int]
    BY NxSemAssumption
  <2> QED BY <2>1, <2>2, <2>3, AddPrioritized
<1>2. Value = 0 /\ Value' = 0
  BY DEF Value, Block, IInv, TypeOK
<1>3. Res(t) = "none" /\ \A u \in Task : Res(u)' = Res(u)
  BY DEF Res, Block, Goto, IInv, TypeOK
<1>4. Abs!Begin(t)
  BY <1>1, <1>2, <1>3 DEF Abs!Begin, Value, Res
<1> QED BY <1>4 DEF Abs!Next

\* A timeout or a signal ends a wait.
LEMMA WaitIrqAbs ==
    ASSUME IInv, NEW t \in Task, NEW err \in {"EINTR", "ETIMEDOUT"},
           WaitSem(t), nxsem_wait_irq(t, err)
    PROVE  Abs!Next
<1>1. t \in Members(waitlist) /\ Members(waitlist') = Members(waitlist) \ {t}
  <2>1. Proper(waitlist, Task, Prio) /\ t \in Members(waitlist)
    BY DEF IInv, TypeOK, CountMatchesWaiters, Proper
  <2>2. waitlist' = dq_rem(waitlist, t)
    BY DEF nxsem_wait_irq
  <2>3. /\ Proper(waitlist', Task, Prio)
        /\ Len(waitlist') = Len(waitlist) - 1
        /\ Members(waitlist') = Members(waitlist) \ {t}
    BY <2>1, <2>2, DqRem
  <2> QED BY <2>1, <2>3
<1>2. Value = 0 /\ Value' = 0 /\ posts' = posts
  <2>1. Len(waitlist) # 0
    BY <1>1 DEF IInv, TypeOK, Members
  <2>2. semcount < 0 /\ semcount \in Int
    BY <2>1 DEF IInv, TypeOK, CountMatchesWaiters
  <2> QED BY <2>2 DEF Value, nxsem_wait_irq
<1>3. Res(t) = "none" /\ Res(t)' = err /\ \A u \in Task \ {t} : Res(u)' = Res(u)
  BY DEF Res, nxsem_wait_irq, Goto, IInv, TypeOK, Stages, Stage, WaitSem, WaitLabel
<1>4. Abs!Return(t, "ETIMEDOUT") \/ Abs!Return(t, "EINTR")
  BY <1>3, ResultOf DEF Abs!Return, Res
<1>5. Abs!Cancel(t)
  BY <1>1, <1>2, <1>4 DEF Abs!Cancel, Value
<1> QED BY <1>5 DEF Abs!Next

\* All tasks but w stay where they are, or return from nxsem_post_slow.
OthersStay(w) ==
    \A u \in Task : u # w => \/ pc'[u] = pc[u]
                             \/ pc[u] = "postslow" /\ pc'[u] = "run"

\* A post goes to the first waiting task, one of the highest priority.
LEMMA GrantAbs ==
    ASSUME IInv, NEW t \in Task, t = waitlist[1],
           semcount < 0, semcount' = semcount + 1, posts' = posts + 1,
           waitlist' = RemFirst, pc'[t] = "woken", OthersStay(t),
           errcode' = errcode, ret' = ret
    PROVE  Abs!Next
<1>1. /\ Len(waitlist) >= 1 /\ FirstOf(waitlist, 1) = {t} /\ WaitSem(t)
      /\ RemFirst = SubSeq(waitlist, 1 + 1, Len(waitlist))
  BY Waiting
<1>2. Proper(waitlist, Task, Prio) /\ t \in Members(waitlist)
  BY <1>1 DEF IInv, TypeOK, CountMatchesWaiters, Proper
<1>3. Members(waitlist') = Members(waitlist) \ {t}
  <2>1. 1 \in 0..Len(waitlist)
    BY <1>1, <1>2 DEF Proper
  <2>2. waitlist' = SubSeq(waitlist, 1 + 1, Len(waitlist))
    BY <1>1
  <2>3. Members(waitlist') = Without(Members(waitlist), FirstOf(waitlist, 1))
    BY ONLY <1>2, <2>1, <2>2, DropFirstMembers
  <2> QED BY <1>1, <2>3 DEF Without
<1>4. ASSUME NEW u \in Members(waitlist) PROVE Prio[u] <= Prio[t]
  <2>1. PICK i \in 1..Len(waitlist) : u = waitlist[i]
    BY <1>2 DEF Members, Proper
  <2>2. 1 \in DOMAIN waitlist /\ i \in DOMAIN waitlist /\ 1 <= i
    BY <1>1, <1>2 DEF Proper
  <2> QED BY <1>2, <2>1, <2>2 DEF Proper, Descending
<1>5. Value = 0 /\ Value' = 0
  BY DEF Value, IInv, TypeOK
<1>6. Res(t) = "none" /\ Res(t)' = "OK" /\ \A u \in Task \ {t} : Res(u)' = Res(u)
  BY <1>1 DEF Res, OthersStay, IInv, Stages, Stage, WaitSem, WaitLabel
<1>7. Abs!Return(t, "OK")
  BY <1>6, ResultOf DEF Abs!Return, Res
<1>8. Abs!Grant(t)
  BY <1>2, <1>3, <1>4, <1>5, <1>7 DEF Abs!Grant, Value
<1> QED BY <1>8 DEF Abs!Next

\* A post that nobody waits for
LEMMA PostAbs ==
    ASSUME IInv, semcount >= 0, semcount' = semcount + 1, posts' = posts + 1,
           UNCHANGED <<waitlist, errcode, ret>>,
           \A u \in Task : pc'[u] = "woken" <=> pc[u] = "woken"
    PROVE  Abs!Next
<1>1. Members(waitlist) = {}
  BY DEF IInv, TypeOK, CountMatchesWaiters, Members
<1>2. Value' = Value + 1
  BY DEF Value, IInv, TypeOK
<1>3. \A u \in Task : Res(u)' = Res(u)
  BY DEF Res
<1>4. Abs!Post
  BY <1>1, <1>2, <1>3 DEF Abs!Post, Value, Res
<1> QED BY <1>4 DEF Abs!Next

\* A post in the slow path is Grant if somebody waits and Post otherwise.
LEMMA PostSlowAbs ==
    ASSUME IInv, NEW t \in Task, nxsem_post_slow(t)
    PROVE  Abs!Next
<1> USE NxSemAssumption
<1>1. semcount < SEM_VALUE_MAX /\ pc[t] = "postslow"
  BY DEF nxsem_post_slow, IInv, Room, TypeOK
<1>2. semcount' = semcount + 1 /\ posts' = posts + 1 /\ UNCHANGED <<errcode, ret>>
  BY <1>1 DEF nxsem_post_slow, IInv, TypeOK
<1>3. CASE semcount < 0
  <2>1. waitlist' = RemFirst /\ pc' = Awaken([pc EXCEPT ![t] = "run"])
    BY <1>1, <1>3 DEF nxsem_post_slow, IInv, TypeOK
  <2>2. waitlist # <<>> /\ waitlist[1] \in Task
    BY <1>3, Waiting
  <2>3. pc' = [[pc EXCEPT ![t] = "run"] EXCEPT ![waitlist[1]] = "woken"]
    BY <2>1, <2>2 DEF Awaken
  <2>4. PICK w \in Task : w = waitlist[1]
    BY <2>2
  <2>5. pc' = [[pc EXCEPT ![t] = "run"] EXCEPT ![w] = "woken"] /\ pc \in [Task -> Label]
    BY <2>3, <2>4 DEF IInv, TypeOK
  <2>6. pc'[w] = "woken"
    BY <2>5
  <2>7. OthersStay(w)
    BY <1>1, <2>5 DEF OthersStay
  <2>8. waitlist' = RemFirst
    BY <2>1
  <2>9. w \in Task /\ w = waitlist[1]
    BY <2>4
  <2> QED BY ONLY IInv, <1>2, <1>3, <2>6, <2>7, <2>8, <2>9, GrantAbs
<1>4. CASE semcount >= 0
  <2>1. waitlist' = waitlist /\ pc' = [pc EXCEPT ![t] = "run"]
    BY <1>1, <1>4 DEF nxsem_post_slow, Goto, IInv, TypeOK
  <2>2. \A u \in Task : pc'[u] = "woken" <=> pc[u] = "woken"
    BY <1>1, <2>1 DEF IInv, TypeOK
  <2> QED BY <1>2, <1>4, <2>1, <2>2, PostAbs
<1> QED BY <1>3, <1>4 DEF IInv, TypeOK

\* So is a post by an interrupt handler.
LEMMA PostIsrAbs ==
    ASSUME IInv, PostIsr
    PROVE  Abs!Next
<1> USE NxSemAssumption
<1>1. posts < MaxPosts /\ posts' = posts + 1 /\ UNCHANGED <<errcode, ret>>
  BY DEF PostIsr
<1>2. CASE semcount < 0
  <2>1. semcount' = semcount + 1 /\ waitlist' = RemFirst /\ pc' = Awaken(pc)
    BY <1>2 DEF PostIsr
  <2>2. waitlist # <<>> /\ waitlist[1] \in Task
    BY <1>2, Waiting
  <2>3. PICK w \in Task : w = waitlist[1]
    BY <2>2
  <2>4. pc'[w] = "woken"
    BY <2>1, <2>2, <2>3 DEF Awaken, IInv, TypeOK
  <2>5. OthersStay(w)
    BY <2>1, <2>2, <2>3 DEF OthersStay, Awaken, IInv, TypeOK
  <2>6. waitlist' = RemFirst /\ semcount' = semcount + 1
    BY <2>1
  <2>7. w \in Task /\ w = waitlist[1]
    BY <2>3
  <2> QED BY ONLY IInv, <1>1, <1>2, <2>4, <2>5, <2>6, <2>7, GrantAbs
<1>3. CASE semcount >= 0
  <2>1. semcount + 1 <= SEM_VALUE_MAX /\ semcount \in Int
    BY <1>1 DEF IInv, TypeOK, Room
  <2>2. semcount' = semcount + 1 /\ UNCHANGED <<waitlist, pc>>
    BY <1>3, <2>1 DEF PostIsr, Wrap
  <2> QED BY <1>1, <1>3, <2>2, PostAbs
<1> QED BY <1>2, <1>3 DEF IInv, TypeOK

\* A successful exchange of nxsem_post is Post, a failed one is not seen.
LEMMA PostCasAbs ==
    ASSUME IInv, NEW t \in Task, post_cas(t)
    PROVE  Abs!Next \/ UNCHANGED Abs!vars
<1>1. CASE semcount = old[t]
  <2>1. semcount >= 0 /\ semcount + 1 <= SEM_VALUE_MAX
    BY <1>1, NxSemAssumption DEF IInv, TypeOK, Room, Stages, Stage, post_cas
  <2>2. semcount' = semcount + 1
    BY <1>1, <2>1, NxSemAssumption DEF post_cas, Wrap, IInv, TypeOK
  <2>3. \A u \in Task : pc'[u] = "woken" <=> pc[u] = "woken"
    BY <1>1 DEF post_cas, Goto, IInv, TypeOK
  <2> QED BY <1>1, <2>1, <2>2, <2>3, PostAbs DEF post_cas
<1>2. CASE semcount # old[t]
  <2>1. Value' = Value /\ Members(waitlist') = Members(waitlist) /\ posts' = posts
    BY <1>2 DEF Value, post_cas
  <2>2. \A u \in Task : Res(u)' = Res(u)
    BY <1>2 DEF post_cas, Goto, Res, IInv, TypeOK
  <2> QED BY <2>1, <2>2, Stutters
<1> QED BY <1>1, <1>2

\* nxsem_reset hands out counts to the first tasks of the wait list.
LEMMA ResetAbs ==
    ASSUME IInv, NEW t \in Task, NEW c \in ResetCounts, nxsem_reset(t, c)
    PROVE  Abs!Next
<1> USE NxSemAssumption
<1> DEFINE n == IF semcount >= 0 THEN 0
                ELSE IF c < -semcount THEN c ELSE -semcount
<1>1. /\ semcount' = IF semcount + n < 0 THEN semcount + n ELSE c - n
      /\ waitlist' = SubSeq(waitlist, n + 1, Len(waitlist))
      /\ pc' = [u \in Task |-> IF u \in FirstOf(waitlist, n) THEN "woken" ELSE pc[u]]
      /\ UNCHANGED <<errcode, ret, posts>> /\ "reset" \in Calls[t]
  BY DEF nxsem_reset, FirstOf
<1>2. /\ Proper(waitlist, Task, Prio)
      /\ Len(waitlist) = IF semcount < 0 THEN -semcount ELSE 0
      /\ semcount \in Int /\ c \in Nat
  BY DEF IInv, TypeOK, CountMatchesWaiters, Proper
<1>3. /\ n \in 0..Len(waitlist) /\ Value' = c - n
      /\ n = c \/ (n = Len(waitlist) /\ n <= c)
  BY <1>1, <1>2 DEF Value
<1>4. PICK m \in 0..Len(waitlist) : m = n
  BY <1>3
<1>5. PICK g : g = FirstOf(waitlist, m)
  OBVIOUS
<1>6. waitlist \in Seq(Task) /\ Distinct(waitlist)
  BY <1>2 DEF Proper
<1>7. Cardinality(g) = m
  BY <1>5, <1>6, CardFirstOf
<1>8. Members(waitlist') = Members(waitlist) \ g
  <2>1. waitlist' = SubSeq(waitlist, m + 1, Len(waitlist))
    BY <1>1, <1>4
  <2>2. Members(waitlist') = Without(Members(waitlist), FirstOf(waitlist, m))
    BY ONLY <1>2, <1>4, <2>1, DropFirstMembers
  <2> QED BY <1>5, <2>2 DEF Without
<1>9. g \in SUBSET Members(waitlist)
  BY <1>5, <1>6 DEF FirstOf, Members
<1>10. Cardinality(g) = c \/ (g = Members(waitlist) /\ Cardinality(g) <= c)
  <2>1. m = Len(waitlist) => g = Members(waitlist)
    BY <1>5, <1>6 DEF FirstOf, Members
  <2> QED BY <1>3, <1>4, <1>7, <2>1
<1>11. ASSUME NEW x \in g, NEW u \in Members(waitlist) \ g PROVE Prio[u] <= Prio[x]
  <2>1. PICK i \in 1..m : x = waitlist[i]
    BY <1>5 DEF FirstOf
  <2>2. PICK j \in 1..Len(waitlist) : u = waitlist[j]
    BY <1>6 DEF Members
  <2>3. j \notin 1..m
    BY <1>5, <2>2 DEF FirstOf
  <2>4. i \in DOMAIN waitlist /\ j \in DOMAIN waitlist /\ i <= j
    BY <1>4, <1>6, <2>1, <2>2, <2>3
  <2> QED BY <1>2, <2>1, <2>2, <2>4 DEF Proper, Descending
<1>12. \A u \in Task : Res(u)' = IF u \in g THEN "OK" ELSE Res(u)
  <2> SUFFICES ASSUME NEW u \in Task PROVE Res(u)' = IF u \in g THEN "OK" ELSE Res(u)
    OBVIOUS
  <2>1. pc'[u] = IF u \in g THEN "woken" ELSE pc[u]
    BY <1>1, <1>4, <1>5
  <2>2. u \in g => errcode[u] = "OK"
    BY <1>9 DEF IInv, CountMatchesWaiters, Stages, Stage
  <2> QED BY <1>1, <2>1, <2>2 DEF Res
<1>13. Value' = c - Cardinality(g) /\ posts' = posts
  BY <1>1, <1>3, <1>4, <1>7
<1>14. Abs!Reset(c)
  <2>1. [u \in Task |-> Res(u)]' =
            [u \in Task |-> IF u \in g THEN "OK" ELSE [v \in Task |-> Res(v)][u]]
    BY <1>12
  <2> HIDE DEF n
  <2>2. \A x \in g, u \in Members(waitlist) \ g : Prio[u] <= Prio[x]
    BY <1>11
  <2>3. Abs!Cardinality(g) = Cardinality(g)
    BY SameCardinality
  <2> QED BY ONLY <1>8, <1>9, <1>10, <1>13, <2>1, <2>2, <2>3 DEF Abs!Reset, Value, Res
<1> QED BY <1>1, <1>14 DEF Abs!Next

\* The reads of the fast paths are not seen.
LEMMA WaitReadAbs ==
    ASSUME IInv, NEW t \in Task, wait_read(t) \/ post_read(t) \/ destroy_read(t)
    PROVE  UNCHANGED Abs!vars
<1>1. semcount' = semcount /\ ret' = ret
  BY DEF wait_read, post_read, destroy_read
<1>2. Acts(t)
  BY DEF Acts, wait_read, post_read, destroy_read, Goto, IInv, TypeOK
<1> QED BY <1>1, <1>2, LookAbs

\* A successful exchange of a wait is Take, a failed one is not seen.
LEMMA CasAbs ==
    ASSUME IInv, NEW t \in Task, wait_cas(t) \/ try_cas(t)
    PROVE  Abs!Next \/ UNCHANGED Abs!vars
<1>1. Acts(t)
  BY DEF Acts, wait_cas, try_cas, Return, Goto, IInv, TypeOK
<1>2. ret[t] = "none" /\ old[t] >= 1
  BY DEF wait_cas, try_cas, IInv, Stages, Stage, WaitLabel
<1>3. CASE semcount = old[t]
  <2>1. semcount >= 1 /\ semcount' = semcount - 1 /\ ret'[t] = "OK"
    BY <1>2, <1>3 DEF wait_cas, try_cas, Return, IInv, TypeOK
  <2> QED BY <1>1, <1>2, <2>1, TakeAbs
<1>4. CASE semcount # old[t]
  <2>1. semcount' = semcount /\ ret' = ret
    BY <1>4 DEF wait_cas, try_cas
  <2> QED BY <1>1, <2>1, LookAbs
<1> QED BY <1>3, <1>4

\* nxsem_trywait that finds no count is Fail.
LEMMA TryReadAbs ==
    ASSUME IInv, NEW t \in Task, try_read(t)
    PROVE  Abs!Next \/ UNCHANGED Abs!vars
<1>1. Acts(t)
  BY DEF Acts, try_read, Return, Goto, IInv, TypeOK
<1>2. ret[t] = "none" /\ semcount' = semcount
  BY DEF try_read, IInv, Stages, Stage, WaitLabel
<1>3. CASE semcount < 1
  <2>1. ret'[t] \in {"EAGAIN", "ETIMEDOUT"}
    BY <1>3 DEF try_read, Return, IInv, TypeOK
  <2> QED BY <1>1, <1>2, <1>3, <2>1, FailAbs
<1>4. CASE ~(semcount < 1)
  BY <1>1, <1>2, <1>4, LookAbs DEF try_read, IInv, TypeOK
<1> QED BY <1>3, <1>4

\* nxsem_wait_slow is Take or Begin.
LEMMA WaitSlowAbs ==
    ASSUME IInv, NEW t \in Task, nxsem_wait_slow(t)
    PROVE  Abs!Next
<1>1. /\ ret[t] = "none" /\ pc[t] = "waitslow" /\ ~WaitSem(t) /\ pc[t] # "woken"
      /\ posts' = posts
  BY DEF nxsem_wait_slow, IInv, Stages, Stage, WaitLabel, WaitSem
<1>2. CASE semcount > 0
  <2>1. /\ semcount' = semcount - 1 /\ Return(t, "OK")
        /\ UNCHANGED <<waitlist, errcode, posts>>
    BY <1>2 DEF nxsem_wait_slow, IInv, TypeOK
  <2>2. Acts(t) /\ ret'[t] = "OK"
    BY <1>1, <2>1 DEF Acts, Return, Goto, IInv, TypeOK
  <2>3. semcount >= 1
    BY <1>2 DEF IInv, TypeOK
  <2> QED BY <1>1, <2>1, <2>2, <2>3, TakeAbs
<1>3. CASE ~(semcount > 0)
  <2>1. semcount <= 0 /\ Block(t, "blocked")
    BY <1>3 DEF nxsem_wait_slow, IInv, TypeOK
  <2> QED BY <1>1, <2>1, BlockAbs
<1> QED BY <1>2, <1>3

\* nxsem_tickwait is Take, Fail or Begin.
LEMMA TickWaitAbs ==
    ASSUME IInv, NEW t \in Task, nxsem_tickwait(t)
    PROVE  Abs!Next
<1>1. /\ ret[t] = "none" /\ pc[t] = "tick" /\ ~WaitSem(t) /\ pc[t] # "woken"
      /\ posts' = posts
  BY DEF nxsem_tickwait, IInv, Stages, Stage, WaitLabel, WaitSem
<1>2. CASE /\ semcount >= 1 /\ semcount' = semcount - 1 /\ Return(t, "OK")
           /\ UNCHANGED <<waitlist, errcode>>
  <2>1. Acts(t) /\ ret'[t] = "OK"
    BY <1>1, <1>2 DEF Acts, Return, Goto, IInv, TypeOK
  <2> QED BY <1>1, <1>2, <2>1, TakeAbs
<1>3. CASE /\ semcount < 1 /\ semcount' = semcount /\ Return(t, "ETIMEDOUT")
           /\ UNCHANGED <<waitlist, errcode>>
  <2>1. Acts(t) /\ ret'[t] \in {"EAGAIN", "ETIMEDOUT"}
    BY <1>1, <1>3 DEF Acts, Return, Goto, IInv, TypeOK
  <2> QED BY <1>1, <1>3, <2>1, FailAbs
<1>4. CASE semcount < 1 /\ Block(t, "timedblocked")
  <2>1. semcount <= 0
    BY <1>4 DEF IInv, TypeOK
  <2> QED BY <1>1, <1>4, <2>1, BlockAbs
<1> QED BY <1>2, <1>3, <1>4 DEF nxsem_tickwait

\* That a woken task resumes is not seen: its wait ended before.
LEMMA WaitResumeAbs ==
    ASSUME IInv, NEW t \in Task, wait_resume(t)
    PROVE  UNCHANGED Abs!vars
<1>1. Value' = Value /\ Members(waitlist') = Members(waitlist) /\ posts' = posts
  BY DEF Value, wait_resume
<1>2. \A u \in Task : Res(u)' = Res(u)
  BY DEF Res, wait_resume, Return, Goto, IInv, TypeOK
<1> QED BY <1>1, <1>2, Stutters

\* A timeout or a signal is Cancel; a timeout that comes too late is not seen.
LEMMA TimeoutAbs ==
    ASSUME IInv, NEW t \in Task, nxsem_timeout(t) \/ Signal(t)
    PROVE  Abs!Next \/ UNCHANGED Abs!vars
<1>1. CASE nxsem_timeout(t) /\ WaitSem(t)
  BY <1>1, WaitIrqAbs DEF nxsem_timeout
<1>2. CASE Signal(t)
  BY <1>2, WaitIrqAbs DEF Signal
<1>3. CASE nxsem_timeout(t) /\ ~WaitSem(t)
  <2>1. UNCHANGED <<semcount, waitlist, pc, errcode, ret, posts>>
    BY <1>3 DEF nxsem_timeout
  <2> QED BY <2>1, Stutters DEF Value, Res
<1> QED BY <1>1, <1>2, <1>3

\* nxsem_destroy is Destroy once its exchange succeeds.
LEMMA DestroyCasAbs ==
    ASSUME IInv, NEW t \in Task, destroy_cas(t)
    PROVE  Abs!Next \/ UNCHANGED Abs!vars
<1>1. Acts(t) /\ ret' = ret
  BY DEF Acts, destroy_cas, Goto, IInv, TypeOK
<1>2. "destroy" \in Calls[t] /\ old[t] >= 0
  BY DEF destroy_cas, IInv, Stages, Stage
<1>3. CASE semcount' = semcount
  BY <1>1, <1>3, LookAbs
<1>4. CASE semcount = old[t] /\ semcount' = 1
  <2>1. Members(waitlist) = {}
    BY <1>2, <1>4 DEF IInv, TypeOK, CountMatchesWaiters, Members
  <2>2. Value' = 1 /\ waitlist' = waitlist /\ posts' = posts
    BY <1>1, <1>4 DEF Value, Acts
  <2>3. \A u \in Task : Res(u)' = Res(u)
    BY <1>1 DEF Acts, Res
  <2>4. Abs!Destroy
    BY <1>2, <2>1, <2>2, <2>3 DEF Abs!Destroy, Value, Res
  <2> QED BY <2>4 DEF Abs!Next
<1> QED BY <1>3, <1>4 DEF destroy_cas

\* Every step is an abstract step or not seen.
LEMMA NextAbs ==
    ASSUME IInv, [Next]_vars
    PROVE  [Abs!Next]_(Abs!vars)
<1>1. CASE UNCHANGED vars
  BY <1>1, Stutters DEF vars, Value, Res
<1>2. ASSUME NEW t \in Task, NEW l \in {"wait", "try", "tick", "post", "destroy"}, Call(t, l)
      PROVE  Abs!Next \/ UNCHANGED Abs!vars
  BY <1>2, CallAbs
<1>3. ASSUME NEW t \in Task, TaskStep(t) PROVE Abs!Next \/ UNCHANGED Abs!vars
  BY <1>3, WaitReadAbs, CasAbs, WaitSlowAbs, WaitResumeAbs, TryReadAbs, TickWaitAbs,
     PostCasAbs, PostSlowAbs, DestroyCasAbs DEF TaskStep
<1>4. ASSUME NEW t \in Task, nxsem_timeout(t) \/ Signal(t)
      PROVE  Abs!Next \/ UNCHANGED Abs!vars
  BY <1>4, TimeoutAbs
<1>5. ASSUME NEW t \in Task, NEW c \in ResetCounts, nxsem_reset(t, c)
      PROVE  Abs!Next \/ UNCHANGED Abs!vars
  BY <1>5, ResetAbs
<1>6. CASE PostIsr
  BY <1>6, PostIsrAbs
<1> QED BY <1>1, <1>2, <1>3, <1>4, <1>5, <1>6 DEF Next

\* nxsem_wait, nxsem_post and the other operations, with all interleavings of
\* their fast paths, implement the abstract semaphore: no count is lost or
\* made, and a post goes to a waiting task of the highest priority.
THEOREM SemRefinement ==
    ASSUME NoOverflow
    PROVE  Spec => ImplementsAbsSem
<1>1. Init => Abs!Init
  BY InitAbs
<1>2. IInv /\ [Next]_vars => [Abs!Next]_(Abs!vars)
  BY NextAbs
<1> QED BY <1>1, <1>2, SemInvariant, PTL DEF Spec, ImplementsAbsSem, Abs!Spec
=============================================================================
