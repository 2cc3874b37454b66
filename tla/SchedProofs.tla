---------------------------- MODULE SchedProofs ----------------------------
(***************************************************************************)
(* The scheduler, for any number of tasks and priorities: every task is in *)
(* the one list that its state names, the lists are in order, the CPU      *)
(* executes the head of the ready-to-run list, and no pending task is      *)
(* forgotten.                                                              *)
(***************************************************************************)
EXTENDS Sched, TaskListProofs

-----------------------------------------------------------------------------
(* The inductive invariant *)

\* The tasks that compete for the CPU
Ready(k) == Members(k.readytorun) \cup Members(k.pending)

Sorted(k) ==
    /\ Proper(k.readytorun, Tcb, k.prio)
    /\ Proper(k.pending, Tcb, k.prio)
    /\ Proper(k.waiting, Tcb, k.prio)

\* The idle task is always ready, below all others, and never locks.
IdleReady(k) ==
    /\ Idle \in Members(k.readytorun) /\ k.prio[Idle] = 0 /\ k.lock[Idle] = 0
    /\ \A t \in Task : k.prio[t] \in Prio

\* A task's state names its list, and the head of the ready-to-run list runs;
\* the tasks of the set out are between two lists.
Named(k, out) ==
    /\ out \subseteq Task
    /\ \A t \in out : t \notin Members(k.readytorun) /\ t \notin Members(k.pending)
                      /\ t \notin Members(k.waiting)
    /\ \A t \in Tcb \ out :
        /\ t \in Members(k.readytorun) <=> Runnable(k, t)
        /\ t \in Members(k.pending) <=> k.state[t] = "PENDING"
        /\ t \in Members(k.waiting) <=> k.state[t] = "WAIT_SEM"
        /\ k.state[t] # "INVALID"
        /\ k.state[t] = "RUNNING" <=> t = k.readytorun[1]

Consistent(k, out) == k \in SchedRecord /\ Sorted(k) /\ IdleReady(k) /\ Named(k, out)

\* What the values that a task holds in the middle of a call are good for
Calls ==
    /\ pc[Idle] = "run"
    /\ \A t \in Task :
        /\ pc[t] = "merge" => sched.lock[t] = 0
        /\ pc[t] = "yield" => arg[t][2] \in Prio
        /\ pc[t] = "param" => arg[t] \in Task \X Prio

Locals ==
    /\ pc \in [Tcb -> {"run", "merge", "yield", "param", "leave"}]
    /\ arg \in [Tcb -> Tcb \X (0..MaxPrio)]
    /\ timeslice \in [Tcb -> 0..RRInterval]

IInv ==
    /\ Consistent(sched, {}) /\ cpu = this_task(sched)
    /\ Locals /\ Calls /\ PendingOnlyIfLocked

-----------------------------------------------------------------------------
(* Facts about a consistent record *)

LEMMA Fields ==
    ASSUME NEW k \in SchedRecord
    PROVE  /\ k.readytorun \in Seq(Tcb) /\ k.pending \in Seq(Task) /\ k.waiting \in Seq(Task)
           /\ k.state \in [Tcb -> TaskState]
           /\ k.prio \in [Tcb -> 0..MaxPrio] /\ k.prio \in [Tcb -> Int]
           /\ k.lock \in [Tcb -> 0..MaxLock] /\ k.ret \in BOOLEAN
<1>1. /\ k.readytorun \in Seq(Tcb) /\ k.pending \in Seq(Task) /\ k.waiting \in Seq(Task)
      /\ k.state \in [Tcb -> TaskState]
      /\ k.prio \in [Tcb -> 0..MaxPrio]
      /\ k.lock \in [Tcb -> 0..MaxLock] /\ k.ret \in BOOLEAN
  BY DEF SchedRecord
<1>2. k.prio \in [Tcb -> Int]
  BY ONLY <1>1, SchedAssumption
<1> QED BY <1>1, <1>2

LEMMA SeqOver ==
    ASSUME NEW S, NEW T, NEW list \in Seq(S), Members(list) \subseteq T
    PROVE  list \in Seq(T)
BY DEF Members

LEMMA NoMembers ==
    ASSUME NEW S, NEW list \in Seq(S)
    PROVE  Members(list) = {} <=> list = <<>>
<1>1. CASE list = <<>>
  BY <1>1 DEF Members
<1>2. CASE list # <<>>
  <2>1. 1 \in DOMAIN list
    BY <1>2
  <2> QED BY <1>2, <2>1 DEF Members
<1> QED BY <1>1, <1>2

LEMMA SameEmpty ==
    ASSUME NEW S, NEW l1 \in Seq(S), NEW l2 \in Seq(S), Members(l1) = Members(l2)
    PROVE  l1 = <<>> <=> l2 = <<>>
BY NoMembers

\* The head of the ready-to-run list has the highest priority in it; if it is
\* not the idle task, there is another one after it.
LEMMA Heads ==
    ASSUME NEW k, NEW out, Consistent(k, out)
    PROVE  /\ k.readytorun # <<>>
           /\ this_task(k) \in Tcb \ out /\ this_task(k) \in Members(k.readytorun)
           /\ \A t \in Members(k.readytorun) : k.prio[t] <= k.prio[this_task(k)]
           /\ this_task(k) # Idle =>
                /\ Len(k.readytorun) >= 2
                /\ k.readytorun[2] \in Tcb \ out /\ k.readytorun[2] \in Members(k.readytorun)
                /\ k.readytorun[2] # this_task(k)
                /\ k.prio[k.readytorun[2]] <= k.prio[this_task(k)]
<1> DEFINE rtr == k.readytorun
           n == Len(k.readytorun)
<1>1. /\ n \in Nat /\ DOMAIN rtr = 1..n
      /\ \A i \in 1..n : rtr[i] \in Tcb /\ k.prio[rtr[i]] \in Int
      /\ \A i, j \in 1..n : rtr[i] = rtr[j] => i = j
      /\ \A i, j \in 1..n : i <= j => k.prio[rtr[j]] <= k.prio[rtr[i]]
  <2>1. k.prio \in [Tcb -> Int] /\ Proper(k.readytorun, Tcb, k.prio)
    BY Fields DEF Consistent, Sorted
  <2> QED BY <2>1, ProperFacts, Zenon
<1>2. PICK i \in 1..n : rtr[i] = Idle
  BY <1>1 DEF Consistent, IdleReady, Members
<1>3. rtr \in Seq(Tcb) /\ rtr # <<>>
  BY <1>2, Fields DEF Consistent
<1>4. \A t \in Members(rtr) : t \in Tcb \ out
  BY <1>1 DEF Consistent, Named, Members
<1> HIDE DEF n, rtr
<1>5. 1 \in 1..n /\ rtr[1] \in Members(rtr)
  <2>1. 1 \in 1..n
    BY ONLY <1>1, <1>2
  <2> QED BY <2>1, <1>1 DEF Members
<1>6. \A t \in Members(rtr) : k.prio[t] <= k.prio[rtr[1]]
  <2>1. \A j \in 1..n : 1 <= j
    BY <1>1
  <2>2. \A j \in 1..n : k.prio[rtr[j]] <= k.prio[rtr[1]]
    BY <1>1, <1>5, <2>1, Zenon
  <2> QED BY <1>1, <2>2 DEF Members
<1>7. ASSUME rtr[1] # Idle
      PROVE  /\ n >= 2
             /\ rtr[2] \in Tcb \ out /\ rtr[2] \in Members(rtr) /\ rtr[2] # rtr[1]
             /\ k.prio[rtr[2]] <= k.prio[rtr[1]]
  <2>1. n >= 2 /\ 2 \in 1..n
    BY ONLY <1>1, <1>2, <1>7
  <2>2. rtr[2] \in Members(rtr)
    BY <1>1, <2>1 DEF Members
  <2>3. rtr[2] # rtr[1]
    BY ONLY <1>1, <1>5, <2>1
  <2> QED BY <1>4, <1>6, <2>1, <2>2, <2>3
<1> QED BY <1>3, <1>4, <1>5, <1>6, <1>7 DEF rtr, n, this_task

\* The return value of the last list operation is not part of the lists.
LEMMA RetOnly ==
    ASSUME NEW k, NEW out, Consistent(k, out), NEW b \in BOOLEAN,
           NEW r, r = [k EXCEPT !.ret = b]
    PROVE  /\ Consistent(r, out) /\ r.ret = b
           /\ r.readytorun = k.readytorun /\ r.pending = k.pending /\ r.waiting = k.waiting
           /\ r.state = k.state /\ r.prio = k.prio /\ r.lock = k.lock
<1>1. /\ r \in SchedRecord /\ r.ret = b
      /\ r.readytorun = k.readytorun /\ r.pending = k.pending /\ r.waiting = k.waiting
      /\ r.state = k.state /\ r.prio = k.prio /\ r.lock = k.lock
  BY DEF Consistent, SchedRecord
<1> QED BY <1>1 DEF Consistent, Sorted, IdleReady, Named, Runnable

-----------------------------------------------------------------------------
(* The list operations *)

\* A task that is in no list becomes ready.  If its priority is higher than that
\* of the running task it takes over, or has to wait in the pending list because
\* preemption is disabled.
LEMMA AddReady ==
    ASSUME NEW k, NEW t \in Task, Consistent(k, {t}),
           NEW r, r = nxsched_add_readytorun(k, t)
    PROVE  /\ Consistent(r, {}) /\ r.prio = k.prio /\ r.lock = k.lock
           /\ Ready(r) = Ready(k) \cup {t}
           /\ r.ret <=> this_task(r) # this_task(k)
           /\ this_task(r) \in {this_task(k), t}
           /\ islocked(k, this_task(k)) => this_task(r) = this_task(k)
           /\ ~islocked(k, this_task(k)) => r.pending = k.pending
<1> DEFINE h == this_task(k)
           rtr == nxsched_add_prioritized(k.readytorun, k.prio, t)
           pen == nxsched_add_prioritized(k.pending, k.prio, t)
<1>k. /\ k \in SchedRecord /\ Sorted(k) /\ IdleReady(k) /\ Named(k, {t})
      /\ t \in Tcb /\ t # Idle
  BY SchedAssumption DEF Consistent, Tcb
<1>f. /\ k.readytorun \in Seq(Tcb) /\ k.pending \in Seq(Task) /\ k.waiting \in Seq(Task)
      /\ k.state \in [Tcb -> TaskState]
      /\ k.prio \in [Tcb -> 0..MaxPrio] /\ k.prio \in [Tcb -> Int]
      /\ k.lock \in [Tcb -> 0..MaxLock] /\ k.ret \in BOOLEAN
  BY <1>k, Fields
<1>h. /\ k.readytorun # <<>> /\ h \in Tcb /\ h # t /\ h \in Members(k.readytorun)
      /\ h = k.readytorun[1]
  BY Heads DEF this_task
<1>t. /\ t \notin Members(k.readytorun) /\ t \notin Members(k.pending)
      /\ t \notin Members(k.waiting)
  BY <1>k DEF Named
<1>e. /\ rtr = nxsched_add_prioritized(k.readytorun, k.prio, t)
      /\ pen = nxsched_add_prioritized(k.pending, k.prio, t)
  OBVIOUS
<1>r. r = IF islocked(k, h) /\ k.prio[h] < k.prio[t]
          THEN [k EXCEPT !.pending = pen, !.state = [k.state EXCEPT ![t] = "PENDING"],
                         !.ret = FALSE]
          ELSE IF rtr[1] = t
          THEN [k EXCEPT !.readytorun = rtr,
                         !.state = [k.state EXCEPT ![t] = "RUNNING", ![rtr[2]] = "READYTORUN"],
                         !.ret = TRUE]
          ELSE [k EXCEPT !.readytorun = rtr, !.state = [k.state EXCEPT ![t] = "READYTORUN"],
                         !.ret = FALSE]
  BY <1>k DEF nxsched_add_readytorun, SchedRecord
<1>q. k.prio \in [Tcb -> Int] /\ t \in Tcb
  BY <1>f, <1>k
<1> HIDE DEF h, rtr, pen
<1>1. /\ Proper(rtr, Tcb, k.prio) /\ Members(rtr) = Members(k.readytorun) \cup {t}
      /\ rtr \in Seq(Tcb)
  <2>1. Proper(k.readytorun, Tcb, k.prio)
    BY <1>k DEF Sorted
  <2>2. Proper(rtr, Tcb, k.prio) /\ Members(rtr) = Members(k.readytorun) \cup {t}
    BY ONLY <1>q, <1>t, <1>e, <2>1, AddPrioritized
  <2> QED BY <2>2 DEF Proper
<1>2. /\ Proper(pen, Tcb, k.prio) /\ Members(pen) = Members(k.pending) \cup {t}
      /\ pen \in Seq(Task)
  <2>1. Proper(k.pending, Tcb, k.prio)
    BY <1>k DEF Sorted
  <2>2. Proper(pen, Tcb, k.prio) /\ Members(pen) = Members(k.pending) \cup {t}
    BY ONLY <1>q, <1>t, <1>e, <2>1, AddPrioritized
  <2>3. Members(k.pending) \subseteq Task
    BY <1>f DEF Members
  <2>4. pen \in Seq(Tcb) /\ Members(pen) \subseteq Task
    BY <2>2, <2>3 DEF Proper
  <2> QED BY <2>2, <2>4, SeqOver
<1>3. IF k.prio[t] <= k.prio[h] THEN rtr[1] = h ELSE rtr[1] = t /\ rtr[2] = h
  <2>1. Proper(k.readytorun, Tcb, k.prio)
    BY <1>k DEF Sorted
  <2> QED BY ONLY <1>q, <1>h, <1>e, <2>1, AddHead
<1>p. k.prio[t] \in Int /\ k.prio[h] \in Int
  BY <1>k, <1>f, <1>h
<1>4. CASE islocked(k, h) /\ k.prio[h] < k.prio[t]
  <2>1. /\ r.readytorun = k.readytorun /\ r.pending = pen /\ r.waiting = k.waiting
        /\ r.state = [k.state EXCEPT ![t] = "PENDING"]
        /\ r.prio = k.prio /\ r.lock = k.lock /\ r.ret = FALSE
        /\ r \in SchedRecord
    <3>1. r = [k EXCEPT !.pending = pen, !.state = [k.state EXCEPT ![t] = "PENDING"],
                        !.ret = FALSE]
      BY <1>r, <1>4
    <3>2. [k.state EXCEPT ![t] = "PENDING"] \in [Tcb -> TaskState]
      BY <1>f DEF TaskState
    <3> QED BY ONLY <1>k, <1>2, <3>1, <3>2 DEF SchedRecord
  <2>2. Sorted(r) /\ IdleReady(r)
    BY <2>1, <1>2, <1>k DEF Sorted, IdleReady
  <2>3. Named(r, {})
    <3> SUFFICES ASSUME NEW u \in Tcb
                 PROVE  /\ u \in Members(r.readytorun) <=> Runnable(r, u)
                        /\ u \in Members(r.pending) <=> r.state[u] = "PENDING"
                        /\ u \in Members(r.waiting) <=> r.state[u] = "WAIT_SEM"
                        /\ r.state[u] # "INVALID"
                        /\ r.state[u] = "RUNNING" <=> u = r.readytorun[1]
      BY DEF Named
    <3>1. CASE u = t
      BY <3>1, <2>1, <1>2, <1>t, <1>f, <1>h DEF Runnable
    <3>2. CASE u # t
      BY <3>2, <2>1, <1>2, <1>f, <1>k DEF Named, Runnable
    <3> QED BY <3>1, <3>2
  <2>4. Ready(r) = Ready(k) \cup {t}
    BY <2>1, <1>2 DEF Ready
  <2> QED BY <2>1, <2>2, <2>3, <2>4, <1>4 DEF Consistent, this_task, h
<1>5. CASE ~(islocked(k, h) /\ k.prio[h] < k.prio[t]) /\ rtr[1] = t
  <2>0. ~islocked(k, h) /\ rtr[2] = h
    BY ONLY <1>5, <1>3, <1>p, <1>h
  <2>1. /\ r.readytorun = rtr /\ r.pending = k.pending /\ r.waiting = k.waiting
        /\ r.state = [k.state EXCEPT ![t] = "RUNNING", ![h] = "READYTORUN"]
        /\ r.prio = k.prio /\ r.lock = k.lock /\ r.ret = TRUE
        /\ r \in SchedRecord
    <3>1. r = [k EXCEPT !.readytorun = rtr,
                        !.state = [k.state EXCEPT ![t] = "RUNNING", ![h] = "READYTORUN"],
                        !.ret = TRUE]
      BY <1>r, <1>5, <2>0
    <3>2. [k.state EXCEPT ![t] = "RUNNING", ![h] = "READYTORUN"] \in [Tcb -> TaskState]
      BY <1>f DEF TaskState
    <3> QED BY ONLY <1>k, <1>1, <3>1, <3>2 DEF SchedRecord
  <2>2. Sorted(r) /\ IdleReady(r)
    BY <2>1, <1>1, <1>k DEF Sorted, IdleReady
  <2>3. Named(r, {})
    <3> SUFFICES ASSUME NEW u \in Tcb
                 PROVE  /\ u \in Members(r.readytorun) <=> Runnable(r, u)
                        /\ u \in Members(r.pending) <=> r.state[u] = "PENDING"
                        /\ u \in Members(r.waiting) <=> r.state[u] = "WAIT_SEM"
                        /\ r.state[u] # "INVALID"
                        /\ r.state[u] = "RUNNING" <=> u = r.readytorun[1]
      BY DEF Named
    <3>1. CASE u = t
      BY <3>1, <2>1, <1>1, <1>5, <1>t, <1>f, <1>h DEF Runnable
    <3>2. CASE u = h
      BY <3>2, <2>1, <1>1, <1>5, <1>f, <1>h, <1>k DEF Named, Runnable
    <3>3. CASE u # t /\ u # h
      BY <3>3, <2>1, <1>1, <1>5, <1>f, <1>h, <1>k DEF Named, Runnable
    <3> QED BY <3>1, <3>2, <3>3
  <2>4. Ready(r) = Ready(k) \cup {t}
    BY <2>1, <1>1 DEF Ready
  <2> QED BY <2>0, <2>1, <2>2, <2>3, <2>4, <1>5, <1>h DEF Consistent, this_task, h
<1>6. CASE ~(islocked(k, h) /\ k.prio[h] < k.prio[t]) /\ rtr[1] # t
  <2>0. rtr[1] = h
    BY <1>3, <1>6
  <2>1. /\ r.readytorun = rtr /\ r.pending = k.pending /\ r.waiting = k.waiting
        /\ r.state = [k.state EXCEPT ![t] = "READYTORUN"]
        /\ r.prio = k.prio /\ r.lock = k.lock /\ r.ret = FALSE
        /\ r \in SchedRecord
    <3>1. r = [k EXCEPT !.readytorun = rtr, !.state = [k.state EXCEPT ![t] = "READYTORUN"],
                        !.ret = FALSE]
      BY <1>r, <1>6
    <3>2. [k.state EXCEPT ![t] = "READYTORUN"] \in [Tcb -> TaskState]
      BY <1>f DEF TaskState
    <3> QED BY ONLY <1>k, <1>1, <3>1, <3>2 DEF SchedRecord
  <2>2. Sorted(r) /\ IdleReady(r)
    BY <2>1, <1>1, <1>k DEF Sorted, IdleReady
  <2>3. Named(r, {})
    <3> SUFFICES ASSUME NEW u \in Tcb
                 PROVE  /\ u \in Members(r.readytorun) <=> Runnable(r, u)
                        /\ u \in Members(r.pending) <=> r.state[u] = "PENDING"
                        /\ u \in Members(r.waiting) <=> r.state[u] = "WAIT_SEM"
                        /\ r.state[u] # "INVALID"
                        /\ r.state[u] = "RUNNING" <=> u = r.readytorun[1]
      BY DEF Named
    <3>1. CASE u = t
      BY <3>1, <2>1, <2>0, <1>1, <1>t, <1>f, <1>h DEF Runnable
    <3>2. CASE u # t
      BY <3>2, <2>1, <2>0, <1>1, <1>f, <1>h, <1>k DEF Named, Runnable
    <3> QED BY <3>1, <3>2
  <2>4. Ready(r) = Ready(k) \cup {t}
    BY <2>1, <1>1 DEF Ready
  <2> QED BY <2>0, <2>1, <2>2, <2>3, <2>4, <1>h DEF Consistent, this_task, h
<1> QED BY <1>4, <1>5, <1>6

\* A task is taken off the list that holds it.
LEMMA UnlinkStep ==
    ASSUME NEW k, NEW t \in Task, Consistent(k, {}), NEW u, u = Unlink(k, t)
    PROVE  /\ u \in SchedRecord /\ u.state = k.state
           /\ u.prio = k.prio /\ u.lock = k.lock /\ u.ret = k.ret
           /\ Sorted(u)
           /\ Members(u.readytorun) = Members(k.readytorun) \ {t}
           /\ Members(u.pending) = Members(k.pending) \ {t}
           /\ Members(u.waiting) = Members(k.waiting) \ {t}
           /\ u.readytorun[1] = IF this_task(k) = t THEN k.readytorun[2] ELSE this_task(k)
           /\ k.state[t] # "PENDING" => u.pending = k.pending
<1> DEFINE a == dq_rem(k.readytorun, t)
           b == dq_rem(k.pending, t)
           c == dq_rem(k.waiting, t)
<1>k. /\ k \in SchedRecord /\ Sorted(k) /\ IdleReady(k) /\ Named(k, {})
      /\ t \in Tcb /\ t # Idle
  BY SchedAssumption DEF Consistent, Tcb
<1>f. /\ k.readytorun \in Seq(Tcb) /\ k.pending \in Seq(Task) /\ k.waiting \in Seq(Task)
      /\ k.prio \in [Tcb -> Int]
  BY <1>k, Fields
<1>p. /\ Proper(k.readytorun, Tcb, k.prio) /\ Proper(k.pending, Tcb, k.prio)
      /\ Proper(k.waiting, Tcb, k.prio)
  BY <1>k DEF Sorted
<1>u. u = [k EXCEPT !.readytorun = IF Runnable(k, t) THEN a ELSE k.readytorun,
                    !.pending = IF k.state[t] = "PENDING" THEN b ELSE k.pending,
                    !.waiting = IF k.state[t] = "WAIT_SEM" THEN c ELSE k.waiting]
  BY <1>k DEF Unlink, SchedRecord
<1>e. a = dq_rem(k.readytorun, t) /\ b = dq_rem(k.pending, t) /\ c = dq_rem(k.waiting, t)
  OBVIOUS
<1>n. /\ t \in Members(k.readytorun) <=> Runnable(k, t)
      /\ t \in Members(k.pending) <=> k.state[t] = "PENDING"
      /\ t \in Members(k.waiting) <=> k.state[t] = "WAIT_SEM"
  BY <1>k DEF Named
<1>l. Runnable(k, t) => Len(k.readytorun) >= 2
  <2> SUFFICES ASSUME Runnable(k, t) PROVE this_task(k) # Idle
    BY Heads
  <2>1. k.prio[t] <= k.prio[this_task(k)]
    BY <1>n, Heads
  <2>2. k.prio[t] \in 1..MaxPrio /\ k.prio[Idle] = 0
    BY <1>k DEF IdleReady, Prio
  <2> QED BY <2>1, <2>2, SchedAssumption
<1> HIDE DEF a, b, c
<1> DEFINE A == IF Runnable(k, t) THEN a ELSE k.readytorun
           B == IF k.state[t] = "PENDING" THEN b ELSE k.pending
           C == IF k.state[t] = "WAIT_SEM" THEN c ELSE k.waiting
<1>1. /\ Proper(A, Tcb, k.prio) /\ Members(A) = Members(k.readytorun) \ {t}
      /\ A[1] = IF this_task(k) = t THEN k.readytorun[2] ELSE this_task(k)
  <2>1. CASE Runnable(k, t)
    <3>1. Proper(a, Tcb, k.prio) /\ Members(a) = Members(k.readytorun) \ {t}
      BY ONLY <2>1, <1>n, <1>p, <1>e, DqRem
    <3>2. a[1] = IF t = k.readytorun[1] THEN k.readytorun[2] ELSE k.readytorun[1]
      BY ONLY <2>1, <1>n, <1>p, <1>e, <1>l, RemHead
    <3> QED BY <2>1, <3>1, <3>2 DEF this_task
  <2>2. CASE ~Runnable(k, t)
    <3>1. t \notin Members(k.readytorun) /\ this_task(k) # t
      BY <2>2, <1>n, Heads
    <3> QED BY <2>2, <3>1, <1>p DEF this_task
  <2> QED BY <2>1, <2>2
<1>2. Proper(B, Tcb, k.prio) /\ Members(B) = Members(k.pending) \ {t}
  <2>1. CASE k.state[t] = "PENDING"
    <3>1. Proper(b, Tcb, k.prio) /\ Members(b) = Members(k.pending) \ {t}
      BY ONLY <2>1, <1>n, <1>p, <1>e, DqRem
    <3> QED BY <2>1, <3>1
  <2>2. CASE k.state[t] # "PENDING"
    BY <2>2, <1>n, <1>p
  <2> QED BY <2>1, <2>2
<1>3. Proper(C, Tcb, k.prio) /\ Members(C) = Members(k.waiting) \ {t}
  <2>1. CASE k.state[t] = "WAIT_SEM"
    <3>1. Proper(c, Tcb, k.prio) /\ Members(c) = Members(k.waiting) \ {t}
      BY ONLY <2>1, <1>n, <1>p, <1>e, DqRem
    <3> QED BY <2>1, <3>1
  <2>2. CASE k.state[t] # "WAIT_SEM"
    BY <2>2, <1>n, <1>p
  <2> QED BY <2>1, <2>2
<1>u2. u = [k EXCEPT !.readytorun = A, !.pending = B, !.waiting = C]
       /\ (k.state[t] # "PENDING" => B = k.pending)
  BY <1>u
<1> HIDE DEF A, B, C
<1>4. A \in Seq(Tcb) /\ B \in Seq(Task) /\ C \in Seq(Task)
  <2>1. Members(k.pending) \subseteq Task /\ Members(k.waiting) \subseteq Task
    BY <1>f DEF Members
  <2>2. /\ A \in Seq(Tcb) /\ B \in Seq(Tcb) /\ C \in Seq(Tcb)
        /\ Members(B) \subseteq Task /\ Members(C) \subseteq Task
    BY <1>1, <1>2, <1>3, <2>1 DEF Proper
  <2> QED BY <2>2, SeqOver
<1>5. /\ u \in SchedRecord /\ u.state = k.state
      /\ u.prio = k.prio /\ u.lock = k.lock /\ u.ret = k.ret
      /\ u.readytorun = A /\ u.pending = B /\ u.waiting = C
  BY ONLY <1>k, <1>u2, <1>4 DEF SchedRecord
<1> QED BY <1>1, <1>2, <1>3, <1>5, <1>u2 DEF Sorted

\* r is the record k without the task t, whose state is not valid any more.
TakenOff(k, t, r) ==
    LET u == Unlink(k, t)
    IN  /\ r \in SchedRecord /\ r.state = [k.state EXCEPT ![t] = "INVALID"]
        /\ r.readytorun = u.readytorun /\ r.pending = u.pending /\ r.waiting = u.waiting
        /\ r.prio = u.prio /\ r.lock = u.lock

\* A task that is not the running one is taken off its list.
LEMMA RemoveOther ==
    ASSUME NEW k, NEW t \in Task, Consistent(k, {}), this_task(k) # t,
           NEW r, TakenOff(k, t, r)
    PROVE  /\ Consistent(r, {t}) /\ r.prio = k.prio /\ r.lock = k.lock
           /\ Ready(r) = Ready(k) \ {t}
           /\ this_task(r) = this_task(k)
           /\ k.state[t] # "PENDING" => r.pending = k.pending
<1> DEFINE u == Unlink(k, t)
<1>u. /\ u \in SchedRecord /\ u.state = k.state
      /\ u.prio = k.prio /\ u.lock = k.lock /\ u.ret = k.ret
      /\ Sorted(u)
      /\ Members(u.readytorun) = Members(k.readytorun) \ {t}
      /\ Members(u.pending) = Members(k.pending) \ {t}
      /\ Members(u.waiting) = Members(k.waiting) \ {t}
      /\ u.readytorun[1] = this_task(k)
      /\ k.state[t] # "PENDING" => u.pending = k.pending
  BY UnlinkStep
<1>t. /\ r \in SchedRecord /\ r.state = [k.state EXCEPT ![t] = "INVALID"]
      /\ r.readytorun = u.readytorun /\ r.pending = u.pending /\ r.waiting = u.waiting
      /\ r.prio = u.prio /\ r.lock = u.lock
  BY DEF TakenOff
<1> HIDE DEF u
<1>k. /\ k \in SchedRecord /\ IdleReady(k) /\ Named(k, {}) /\ t \in Tcb /\ t # Idle
      /\ k.state \in [Tcb -> TaskState]
  BY Fields, SchedAssumption DEF Consistent, Tcb
<1>1. Sorted(r) /\ IdleReady(r)
  BY <1>t, <1>u, <1>k DEF Sorted, IdleReady
<1>2. Named(r, {t})
  <2>1. ASSUME NEW v \in Tcb \ {t}
        PROVE  /\ v \in Members(r.readytorun) <=> Runnable(r, v)
               /\ v \in Members(r.pending) <=> r.state[v] = "PENDING"
               /\ v \in Members(r.waiting) <=> r.state[v] = "WAIT_SEM"
               /\ r.state[v] # "INVALID"
               /\ r.state[v] = "RUNNING" <=> v = r.readytorun[1]
    BY <1>t, <1>u, <1>k DEF Named, Runnable, this_task
  <2> QED BY <1>t, <1>u, <2>1 DEF Named
<1> QED BY <1>1, <1>2, <1>t, <1>u DEF Consistent, Ready, this_task

LEMMA RemoveBlocked ==
    ASSUME NEW k, NEW t \in Task, Consistent(k, {}), this_task(k) # t,
           NEW r, r = nxsched_remove_blocked(k, t)
    PROVE  /\ Consistent(r, {t}) /\ r.prio = k.prio /\ r.lock = k.lock
           /\ Ready(r) = Ready(k) \ {t}
           /\ this_task(r) = this_task(k)
           /\ k.state[t] # "PENDING" => r.pending = k.pending
<1> DEFINE u == Unlink(k, t)
<1>1. u = Unlink(k, t) /\ r = [u EXCEPT !.state = [u.state EXCEPT ![t] = "INVALID"]]
      /\ u \in SchedRecord /\ u.state = k.state /\ k.state \in [Tcb -> TaskState]
      /\ u.ret \in BOOLEAN
  <2>1. u \in SchedRecord /\ u.state = k.state
    BY UnlinkStep
  <2>2. r = [u EXCEPT !.state = [u.state EXCEPT ![t] = "INVALID"]]
    BY <2>1 DEF nxsched_remove_blocked, SchedRecord
  <2> QED BY <2>1, <2>2, Fields
<1> HIDE DEF u
<1>2. [u.state EXCEPT ![t] = "INVALID"] \in [Tcb -> TaskState]
  BY <1>1 DEF TaskState
<1>3. /\ r.state = [k.state EXCEPT ![t] = "INVALID"] /\ r.ret = u.ret
      /\ r.readytorun = u.readytorun /\ r.pending = u.pending /\ r.waiting = u.waiting
      /\ r.prio = u.prio /\ r.lock = u.lock /\ r \in SchedRecord
  BY ONLY <1>1, <1>2 DEF SchedRecord
<1>4. TakenOff(k, t, r)
  BY <1>1, <1>3 DEF TakenOff
<1> QED BY <1>4, RemoveOther

\* A ready or pending task leaves; if it was the running one, the next one runs.
LEMMA RemoveReady ==
    ASSUME NEW k, NEW t \in Task, Consistent(k, {}),
           NEW r, r = nxsched_remove_readytorun(k, t)
    PROVE  /\ Consistent(r, {t}) /\ r.prio = k.prio /\ r.lock = k.lock
           /\ Ready(r) = Ready(k) \ {t}
           /\ r.ret <=> this_task(k) = t
           /\ this_task(r) = IF this_task(k) = t THEN k.readytorun[2] ELSE this_task(k)
           /\ k.state[t] # "PENDING" => r.pending = k.pending
<1> DEFINE u == Unlink(k, t)
           n == k.readytorun[2]
<1>k. /\ k \in SchedRecord /\ IdleReady(k) /\ Named(k, {}) /\ t \in Tcb /\ t # Idle
      /\ k.state \in [Tcb -> TaskState]
  BY Fields, SchedAssumption DEF Consistent, Tcb
<1>u. /\ u \in SchedRecord /\ u.state = k.state
      /\ u.prio = k.prio /\ u.lock = k.lock /\ u.ret = k.ret
      /\ Sorted(u)
      /\ Members(u.readytorun) = Members(k.readytorun) \ {t}
      /\ Members(u.pending) = Members(k.pending) \ {t}
      /\ Members(u.waiting) = Members(k.waiting) \ {t}
      /\ u.readytorun[1] = IF this_task(k) = t THEN n ELSE this_task(k)
      /\ k.state[t] # "PENDING" => u.pending = k.pending
  BY UnlinkStep
<1>e. u = Unlink(k, t)
  OBVIOUS
<1>r. r = IF Runnable(k, t) /\ this_task(k) = t
          THEN [u EXCEPT !.state = [u.state EXCEPT ![n] = "RUNNING", ![t] = "INVALID"],
                         !.ret = TRUE]
          ELSE [u EXCEPT !.state = [u.state EXCEPT ![t] = "INVALID"], !.ret = FALSE]
  BY <1>u DEF nxsched_remove_readytorun, SchedRecord
<1> HIDE DEF u
<1>1. CASE this_task(k) # t
  <2>1. r = [u EXCEPT !.state = [u.state EXCEPT ![t] = "INVALID"], !.ret = FALSE]
    BY <1>r, <1>1
  <2>2. [u.state EXCEPT ![t] = "INVALID"] \in [Tcb -> TaskState]
    BY <1>u, <1>k DEF TaskState
  <2>3. /\ r.state = [k.state EXCEPT ![t] = "INVALID"] /\ r.ret = FALSE
        /\ r.readytorun = u.readytorun /\ r.pending = u.pending /\ r.waiting = u.waiting
        /\ r.prio = u.prio /\ r.lock = u.lock /\ r \in SchedRecord
    BY ONLY <1>u, <2>1, <2>2 DEF SchedRecord
  <2>4. /\ Consistent(r, {t}) /\ r.prio = k.prio /\ r.lock = k.lock
        /\ Ready(r) = Ready(k) \ {t} /\ this_task(r) = this_task(k)
        /\ k.state[t] # "PENDING" => r.pending = k.pending
    <3>1. TakenOff(k, t, r)
      BY <1>e, <2>3 DEF TakenOff
    <3> QED BY <1>1, <3>1, RemoveOther
  <2> QED BY <1>1, <2>3, <2>4
<1>2. CASE this_task(k) = t
  <2>h. /\ n \in Tcb /\ n # t /\ n \in Members(k.readytorun) /\ Runnable(k, t)
        /\ t = k.readytorun[1] /\ k.state[t] = "RUNNING"
    BY <1>2, <1>k, Heads DEF Named, this_task
  <2> HIDE DEF n
  <2>1. r = [u EXCEPT !.state = [u.state EXCEPT ![n] = "RUNNING", ![t] = "INVALID"],
                      !.ret = TRUE]
    BY <1>r, <1>2, <2>h
  <2>2. [u.state EXCEPT ![n] = "RUNNING", ![t] = "INVALID"] \in [Tcb -> TaskState]
    BY <1>u, <1>k DEF TaskState
  <2>3. /\ r.state = [k.state EXCEPT ![n] = "RUNNING", ![t] = "INVALID"] /\ r.ret = TRUE
        /\ r.readytorun = u.readytorun /\ r.pending = u.pending /\ r.waiting = u.waiting
        /\ r.prio = u.prio /\ r.lock = u.lock /\ r \in SchedRecord
    BY ONLY <1>u, <2>1, <2>2 DEF SchedRecord
  <2>4. Sorted(r) /\ IdleReady(r)
    BY <2>3, <1>u, <1>k DEF Sorted, IdleReady
  <2>5. Named(r, {t})
    <3>1. ASSUME NEW v \in Tcb \ {t}
          PROVE  /\ v \in Members(r.readytorun) <=> Runnable(r, v)
                 /\ v \in Members(r.pending) <=> r.state[v] = "PENDING"
                 /\ v \in Members(r.waiting) <=> r.state[v] = "WAIT_SEM"
                 /\ r.state[v] # "INVALID"
                 /\ r.state[v] = "RUNNING" <=> v = r.readytorun[1]
      <4>0. /\ v \in Members(k.readytorun) <=> Runnable(k, v)
            /\ v \in Members(k.pending) <=> k.state[v] = "PENDING"
            /\ v \in Members(k.waiting) <=> k.state[v] = "WAIT_SEM"
            /\ k.state[v] # "INVALID"
            /\ k.state[v] # "RUNNING"
        BY <1>k, <2>h DEF Named
      <4>1. CASE v = n
        BY <4>0, <4>1, <2>3, <2>h, <1>u, <1>k, <1>2 DEF Runnable
      <4>2. CASE v # n
        BY <4>0, <4>2, <2>3, <2>h, <1>u, <1>k, <1>2 DEF Runnable
      <4> QED BY <4>1, <4>2
    <3> QED BY <1>u, <2>3, <3>1 DEF Named
  <2>6. k.state[t] # "PENDING"
    BY <2>h
  <2> QED BY <1>2, <1>u, <2>3, <2>4, <2>5, <2>6 DEF Consistent, Ready, this_task, n
<1> QED BY <1>1, <1>2

\* The pending tasks join the ready-to-run list, unless preemption is disabled.
LEMMA MergePending ==
    ASSUME NEW k, NEW out, Consistent(k, out), NEW r, r = nxsched_merge_pending(k)
    PROVE  /\ Consistent(r, out) /\ r.prio = k.prio /\ r.lock = k.lock
           /\ Ready(r) = Ready(k)
           /\ r.ret <=> this_task(r) # this_task(k)
           /\ this_task(r) = this_task(k) \/ this_task(r) \in Members(k.pending)
           /\ IF islocked(k, this_task(k))
              THEN r.pending = k.pending /\ this_task(r) = this_task(k)
              ELSE r.pending = <<>>
<1> DEFINE h == this_task(k)
           rtr == Merge(k.pending, k.readytorun, k.prio)
           s == [t \in Tcb |-> IF t = rtr[1] THEN "RUNNING"
                               ELSE IF t = h \/ t \in Members(k.pending)
                                    THEN "READYTORUN" ELSE k.state[t]]
<1>k. k \in SchedRecord /\ Sorted(k) /\ IdleReady(k) /\ Named(k, out)
  BY DEF Consistent
<1>f. /\ k.readytorun \in Seq(Tcb) /\ k.pending \in Seq(Task) /\ k.waiting \in Seq(Task)
      /\ k.state \in [Tcb -> TaskState] /\ k.prio \in [Tcb -> Int]
  BY <1>k, Fields
<1>h. /\ k.readytorun # <<>> /\ h \in Tcb \ out /\ h \in Members(k.readytorun)
      /\ h = k.readytorun[1]
  BY Heads DEF this_task
<1>r. r = IF islocked(k, h) THEN [k EXCEPT !.ret = FALSE]
          ELSE [k EXCEPT !.readytorun = rtr, !.pending = <<>>, !.state = s,
                         !.ret = (rtr[1] # h)]
  BY DEF nxsched_merge_pending
<1>e. rtr = Merge(k.pending, k.readytorun, k.prio)
      /\ s = [t \in Tcb |-> IF t = rtr[1] THEN "RUNNING"
                            ELSE IF t = h \/ t \in Members(k.pending)
                                 THEN "READYTORUN" ELSE k.state[t]]
  OBVIOUS
<1> HIDE DEF h, rtr, s
<1>m. Members(k.pending) \subseteq Task /\ Members(k.readytorun) \subseteq Tcb
  BY <1>f DEF Members
<1>x. \A t \in Members(k.pending) : t \notin Members(k.readytorun)
  BY <1>k, <1>m DEF Named, Tcb, Runnable
<1>1. CASE islocked(k, h)
  <2>1. r = [k EXCEPT !.ret = FALSE]
    BY <1>r, <1>1
  <2>2. /\ Consistent(r, out) /\ r.ret = FALSE
        /\ r.readytorun = k.readytorun /\ r.pending = k.pending /\ r.waiting = k.waiting
        /\ r.state = k.state /\ r.prio = k.prio /\ r.lock = k.lock
    BY <2>1, RetOnly
  <2> QED BY <2>2, <1>1 DEF Ready, this_task, h
<1>2. CASE ~islocked(k, h)
  <2>1. /\ Proper(rtr, Tcb, k.prio)
        /\ Members(rtr) = Members(k.pending) \cup Members(k.readytorun)
        /\ rtr # <<>> => rtr[1] \in Members(k.pending) \/ rtr[1] = k.readytorun[1]
    <3>1. Proper(k.pending, Tcb, k.prio) /\ Proper(k.readytorun, Tcb, k.prio)
          /\ k.prio \in [Tcb -> Int]
      BY <1>k, <1>f DEF Sorted
    <3> QED BY ONLY <3>1, <1>x, <1>e, MergeLists
  <2>2. rtr \in Seq(Tcb) /\ rtr # <<>> /\ rtr[1] \in Members(rtr)
    <3>1. rtr \in Seq(Tcb)
      BY <2>1 DEF Proper
    <3>2. rtr # <<>>
      <4>1. Members(rtr) # {} /\ Members(<<>>) = {}
        <5>1. Members(<<>>) = {}
          BY DEF Members
        <5> QED BY <5>1, <2>1, <1>h
      <4> QED BY <4>1
    <3> QED BY <3>1, <3>2 DEF Members
  <2>3. rtr[1] = h \/ rtr[1] \in Members(k.pending)
    BY <2>1, <2>2, <1>h
  <2>4. s \in [Tcb -> TaskState]
    BY <1>e, <1>f DEF TaskState
  <2>5. /\ r.readytorun = rtr /\ r.pending = <<>> /\ r.waiting = k.waiting /\ r.state = s
        /\ r.prio = k.prio /\ r.lock = k.lock /\ r.ret = (rtr[1] # h)
        /\ r \in SchedRecord
    <3>1. r = [k EXCEPT !.readytorun = rtr, !.pending = <<>>, !.state = s,
                        !.ret = (rtr[1] # h)]
      BY <1>r, <1>2
    <3>2. <<>> \in Seq(Task) /\ (rtr[1] # h) \in BOOLEAN
      OBVIOUS
    <3> QED BY ONLY <1>k, <2>2, <2>4, <3>1, <3>2 DEF SchedRecord
  <2>6. Sorted(r)
    <3>1. Proper(<<>>, Tcb, k.prio)
      BY DEF Proper, Distinct, Descending
    <3> QED BY <3>1, <2>1, <2>5, <1>k DEF Sorted
  <2>7. IdleReady(r)
    BY <2>1, <2>5, <1>k DEF IdleReady
  <2>8. Named(r, out)
    <3>1. ASSUME NEW v \in Tcb \ out
          PROVE  /\ v \in Members(r.readytorun) <=> Runnable(r, v)
                 /\ v \in Members(r.pending) <=> r.state[v] = "PENDING"
                 /\ v \in Members(r.waiting) <=> r.state[v] = "WAIT_SEM"
                 /\ r.state[v] # "INVALID"
                 /\ r.state[v] = "RUNNING" <=> v = r.readytorun[1]
      <4>0. /\ v \in Members(k.readytorun) <=> Runnable(k, v)
            /\ v \in Members(k.pending) <=> k.state[v] = "PENDING"
            /\ v \in Members(k.waiting) <=> k.state[v] = "WAIT_SEM"
            /\ k.state[v] # "INVALID"
            /\ k.state[v] = "RUNNING" <=> v = h
        BY <1>k, <1>h DEF Named
      <4>1. s[v] = IF v = rtr[1] THEN "RUNNING"
                   ELSE IF v = h \/ v \in Members(k.pending)
                        THEN "READYTORUN" ELSE k.state[v]
        BY <1>e
      <4>2. Members(<<>>) = {}
        BY DEF Members
      <4>3. CASE v = rtr[1]
        BY <4>0, <4>1, <4>2, <4>3, <2>1, <2>2, <2>3, <2>5, <1>h DEF Runnable
      <4>4. CASE v # rtr[1]
        BY <4>0, <4>1, <4>2, <4>4, <2>1, <2>5, <1>h DEF Runnable
      <4> QED BY <4>3, <4>4
    <3>2. Members(<<>>) = {}
      BY DEF Members
    <3>3. \A v \in out : v \notin Members(r.readytorun) /\ v \notin Members(r.pending)
                         /\ v \notin Members(r.waiting)
      BY <3>2, <2>1, <2>5, <1>k DEF Named
    <3> QED BY <3>1, <3>3, <1>k DEF Named
  <2>9. Ready(r) = Ready(k)
    <3>1. Members(<<>>) = {}
      BY DEF Members
    <3> QED BY <3>1, <2>1, <2>5 DEF Ready
  <2> QED BY <2>3, <2>5, <2>6, <2>7, <2>8, <2>9, <1>2 DEF Consistent, this_task, h
<1> QED BY <1>1, <1>2

MergedIfAny(r, m) == m = IF r.pending # <<>> THEN nxsched_merge_pending(r) ELSE r

\* k without t, the pending tasks merged in if there are any; r is the record in
\* between, whose ret says whether the running task was taken off.
Removed(k, t, r, m) ==
    /\ Consistent(m, {t}) /\ m.prio = k.prio /\ m.lock = k.lock
    /\ Ready(m) = Ready(k) \ {t}
    /\ m.pending # <<>> => islocked(m, this_task(m))
    /\ this_task(k) # t =>
        /\ m.ret <=> this_task(m) # this_task(k)
        /\ ~r.ret
        /\ islocked(k, this_task(k)) => this_task(m) = this_task(k)
    /\ this_task(k) = t => r.ret

\* What nxsched_remove_self, nxsched_suspend and nxtask_terminate do
LEMMA RemoveAndMerge ==
    ASSUME NEW k, NEW t \in Task, Consistent(k, {}),
           NEW r, r = nxsched_remove_readytorun(k, t),
           NEW m, MergedIfAny(r, m)
    PROVE  Removed(k, t, r, m)
<1>1. /\ Consistent(r, {t}) /\ r.prio = k.prio /\ r.lock = k.lock
      /\ Ready(r) = Ready(k) \ {t}
      /\ r.ret <=> this_task(k) = t
      /\ this_task(r) = IF this_task(k) = t THEN k.readytorun[2] ELSE this_task(k)
  BY RemoveReady
<1>2. CASE r.pending = <<>>
  BY <1>1, <1>2 DEF MergedIfAny, Removed
<1>3. CASE r.pending # <<>>
  <2>1. m = nxsched_merge_pending(r)
    BY <1>3 DEF MergedIfAny
  <2>2. /\ Consistent(m, {t}) /\ m.prio = r.prio /\ m.lock = r.lock
        /\ Ready(m) = Ready(r)
        /\ m.ret <=> this_task(m) # this_task(r)
        /\ IF islocked(r, this_task(r))
           THEN m.pending = r.pending /\ this_task(m) = this_task(r)
           ELSE m.pending = <<>>
    BY <1>1, <2>1, MergePending
  <2> QED BY <1>1, <2>2 DEF islocked, Removed
<1> QED BY <1>2, <1>3

-----------------------------------------------------------------------------
(* A task between two lists *)

\* A task that is inactive or stopped is in none of the lists.
LEMMA TakeOut ==
    ASSUME NEW k, NEW t \in Task, Consistent(k, {}), k.state[t] \in {"INACTIVE", "STOPPED"}
    PROVE  Consistent(k, {t})
BY DEF Consistent, Named, Tcb, Runnable

\* r is the record k with the priority of the task t set to p.
GivenPrio(k, t, p, r) == r = [k EXCEPT !.prio = [k.prio EXCEPT ![t] = p]]

\* Its priority may change: no list depends on it.
LEMMA PrioOut ==
    ASSUME NEW k, NEW t \in Task, Consistent(k, {t}), NEW p \in Prio,
           NEW r, GivenPrio(k, t, p, r)
    PROVE  /\ Consistent(r, {t}) /\ r.lock = k.lock /\ r.ret = k.ret /\ Ready(r) = Ready(k)
           /\ r.readytorun = k.readytorun /\ r.pending = k.pending /\ r.state = k.state
<1>k. k \in SchedRecord /\ Sorted(k) /\ IdleReady(k) /\ Named(k, {t}) /\ t # Idle
      /\ k.prio \in [Tcb -> 0..MaxPrio] /\ t \in Tcb
  BY Fields, SchedAssumption DEF Consistent, Tcb
<1>1. [k.prio EXCEPT ![t] = p] \in [Tcb -> 0..MaxPrio]
  BY <1>k, SchedAssumption DEF Prio
<1>2. /\ r \in SchedRecord /\ r.prio = [k.prio EXCEPT ![t] = p]
      /\ r.readytorun = k.readytorun /\ r.pending = k.pending /\ r.waiting = k.waiting
      /\ r.state = k.state /\ r.lock = k.lock /\ r.ret = k.ret
  BY ONLY <1>1, <1>k, GivenPrio(k, t, p, r) DEF SchedRecord, GivenPrio
<1>3. \A u \in Tcb \ {t} : r.prio[u] = k.prio[u]
  BY <1>2, <1>k
<1>4. Sorted(r)
  <2>1. ASSUME NEW list, Proper(list, Tcb, k.prio), t \notin Members(list)
        PROVE  Proper(list, Tcb, r.prio)
    <3>1. \A u \in Members(list) : u \in Tcb /\ r.prio[u] = k.prio[u]
      BY <2>1, <1>3 DEF Proper, Members
    <3> QED BY ONLY <2>1, <3>1, ProperOver
  <2> QED BY <2>1, <1>2, <1>k DEF Sorted, Named
<1>5. IdleReady(r)
  BY <1>2, <1>3, <1>k, SchedAssumption DEF IdleReady, Tcb
<1>6. Named(r, {t})
  BY <1>2, <1>k DEF Named, Runnable
<1> QED BY <1>2, <1>4, <1>5, <1>6 DEF Consistent, Ready

\* r is the record k with the task t stopped or released.
Parked(k, t, r) ==
    /\ r \in SchedRecord
    /\ r.readytorun = k.readytorun /\ r.pending = k.pending /\ r.waiting = k.waiting
    /\ r.state[t] \in {"INACTIVE", "STOPPED"} /\ r.prio[t] \in Prio
    /\ \A u \in Tcb \ {t} : r.state[u] = k.state[u] /\ r.prio[u] = k.prio[u]
                            /\ r.lock[u] = k.lock[u]

LEMMA Park ==
    ASSUME NEW k, NEW t \in Task, Consistent(k, {t}), NEW r, Parked(k, t, r)
    PROVE  Consistent(r, {}) /\ Ready(r) = Ready(k) /\ this_task(r) = this_task(k)
<1>k. k \in SchedRecord /\ Sorted(k) /\ IdleReady(k) /\ Named(k, {t}) /\ t # Idle
      /\ t \in Tcb /\ Idle \in Tcb
  BY SchedAssumption DEF Consistent, Tcb
<1>1. Sorted(r)
  <2>1. ASSUME NEW list, Proper(list, Tcb, k.prio), t \notin Members(list)
        PROVE  Proper(list, Tcb, r.prio)
    <3>1. \A u \in Members(list) : u \in Tcb /\ r.prio[u] = k.prio[u]
      BY <2>1 DEF Proper, Members, Parked
    <3> QED BY ONLY <2>1, <3>1, ProperOver
  <2> QED BY <2>1, <1>k DEF Sorted, Named, Parked
<1>2. IdleReady(r)
  BY <1>k DEF IdleReady, Parked, Tcb
<1>3. Named(r, {})
  <2> SUFFICES ASSUME NEW v \in Tcb
               PROVE  /\ v \in Members(r.readytorun) <=> Runnable(r, v)
                      /\ v \in Members(r.pending) <=> r.state[v] = "PENDING"
                      /\ v \in Members(r.waiting) <=> r.state[v] = "WAIT_SEM"
                      /\ r.state[v] # "INVALID"
                      /\ r.state[v] = "RUNNING" <=> v = r.readytorun[1]
    BY DEF Named
  <2>1. CASE v = t
    <3>1. t # k.readytorun[1]
      BY Heads DEF this_task
    <3> QED BY <2>1, <3>1, <1>k DEF Named, Parked, Runnable
  <2>2. CASE v # t
    BY <2>2, <1>k DEF Named, Parked, Runnable
  <2> QED BY <2>1, <2>2
<1> QED BY <1>1, <1>2, <1>3 DEF Consistent, Parked, Ready, this_task

\* r is the record k with the task t waiting for the semaphore.
Waits(k, t, r) ==
    r = [k EXCEPT !.state = [k.state EXCEPT ![t] = "WAIT_SEM"],
                  !.waiting = nxsched_add_prioritized(k.waiting, k.prio, t)]

\* It may start to wait for a semaphore.
LEMMA StartWaiting ==
    ASSUME NEW k, NEW t \in Task, Consistent(k, {t}), NEW r, Waits(k, t, r)
    PROVE  /\ Consistent(r, {}) /\ Ready(r) = Ready(k) /\ r.prio = k.prio /\ r.lock = k.lock
           /\ r.ret = k.ret /\ this_task(r) = this_task(k) /\ r.pending = k.pending
           /\ r.state[t] = "WAIT_SEM"
<1> DEFINE w == nxsched_add_prioritized(k.waiting, k.prio, t)
           s == [k.state EXCEPT ![t] = "WAIT_SEM"]
<1>k. k \in SchedRecord /\ Sorted(k) /\ IdleReady(k) /\ Named(k, {t}) /\ t # Idle
      /\ k.prio \in [Tcb -> Int] /\ t \in Tcb
      /\ k.state \in [Tcb -> TaskState] /\ k.waiting \in Seq(Task)
  BY Fields, SchedAssumption DEF Consistent, Tcb
<1>h. t # k.readytorun[1]
  BY Heads DEF this_task
<1>e. w = nxsched_add_prioritized(k.waiting, k.prio, t)
      /\ r = [k EXCEPT !.state = s, !.waiting = w]
  BY DEF Waits
<1>1. s \in [Tcb -> TaskState] /\ s[t] = "WAIT_SEM" /\ \A u \in Tcb \ {t} : s[u] = k.state[u]
  BY <1>k DEF TaskState
<1> HIDE DEF w, s
<1>2. Proper(w, Tcb, k.prio) /\ Members(w) = Members(k.waiting) \cup {t}
  <2>1. Proper(k.waiting, Tcb, k.prio) /\ t \notin Members(k.waiting)
        /\ k.prio \in [Tcb -> Int] /\ t \in Tcb
    BY <1>k DEF Sorted, Named
  <2> QED BY ONLY <1>e, <2>1, AddPrioritized
<1>3. w \in Seq(Task)
  <2>1. Members(k.waiting) \subseteq Task
    BY <1>k DEF Members
  <2>2. w \in Seq(Tcb) /\ Members(w) \subseteq Task
    BY <1>2, <2>1 DEF Proper
  <2> QED BY <2>2, SeqOver
<1>4. /\ r \in SchedRecord /\ r.prio = k.prio /\ r.waiting = w /\ r.state = s
      /\ r.readytorun = k.readytorun /\ r.pending = k.pending
      /\ r.lock = k.lock /\ r.ret = k.ret
  BY ONLY <1>e, <1>1, <1>3, <1>k DEF SchedRecord
<1>5. Sorted(r) /\ IdleReady(r)
  BY <1>2, <1>4, <1>k DEF Sorted, IdleReady
<1>6. Named(r, {})
  <2> SUFFICES ASSUME NEW v \in Tcb
               PROVE  /\ v \in Members(r.readytorun) <=> Runnable(r, v)
                      /\ v \in Members(r.pending) <=> r.state[v] = "PENDING"
                      /\ v \in Members(r.waiting) <=> r.state[v] = "WAIT_SEM"
                      /\ r.state[v] # "INVALID"
                      /\ r.state[v] = "RUNNING" <=> v = r.readytorun[1]
    BY DEF Named
  <2>1. CASE v = t
    BY <2>1, <1>1, <1>2, <1>4, <1>h, <1>k DEF Named, Runnable
  <2>2. CASE v # t
    BY <2>2, <1>1, <1>2, <1>4, <1>k DEF Named, Runnable
  <2> QED BY <2>1, <2>2
<1> QED BY <1>1, <1>4, <1>5, <1>6 DEF Consistent, Ready, this_task

-----------------------------------------------------------------------------
(* Priorities *)

\* A task is in one list at most.
LEMMA Apart ==
    ASSUME NEW k, NEW out, Consistent(k, out), NEW t \in Members(k.readytorun)
    PROVE  t \notin Members(k.pending) /\ t \notin Members(k.waiting) /\ t \in Tcb \ out
<1>1. t \in Tcb
  BY Fields DEF Members, Consistent
<1> QED BY <1>1 DEF Consistent, Named, Runnable

\* m is what a change of the priority of one task makes of the record k: the
\* same tasks are ready, the return value says whether to switch, and pending
\* tasks are there only if the running task is locked, or were left over by one
\* that is about to merge them.
Reordered(k, m) ==
    /\ Consistent(m, {}) /\ m.lock = k.lock /\ Ready(m) = Ready(k)
    /\ m.ret <=> this_task(m) # this_task(k)
    /\ m.pending # <<>> => \/ islocked(m, this_task(m))
                           \/ k.pending # <<>> /\ ~islocked(k, this_task(k))

LEMMA Reprioritize ==
    ASSUME NEW k, NEW t \in Task, Consistent(k, {}), Runnable(k, t), NEW p \in Prio,
           NEW m, m = nxsched_reprioritize_rtr(k, t, p)
    PROVE  /\ Reordered(k, m)
           /\ this_task(k) # t /\ islocked(k, this_task(k)) => this_task(m) = this_task(k)
<1> DEFINE r == nxsched_remove_readytorun(k, t)
           q == [r EXCEPT !.prio = [r.prio EXCEPT ![t] = p]]
           a == nxsched_add_readytorun(q, t)
           sw == (r.ret # a.ret)
           x == IF sw /\ a.pending # <<>> THEN nxsched_merge_pending(a) ELSE a
<1>r. /\ Consistent(r, {t}) /\ r.lock = k.lock
      /\ Ready(r) = Ready(k) \ {t}
      /\ r.ret <=> this_task(k) = t
      /\ this_task(r) = IF this_task(k) = t THEN k.readytorun[2] ELSE this_task(k)
      /\ r.pending = k.pending
  <2>1. k.state[t] # "PENDING"
    BY DEF Runnable
  <2> QED BY <2>1, RemoveReady
<1>q. /\ Consistent(q, {t}) /\ q.lock = r.lock /\ Ready(q) = Ready(r)
      /\ this_task(q) = this_task(r) /\ q.pending = r.pending /\ q.ret = r.ret
  <2>1. GivenPrio(r, t, p, q)
    BY DEF GivenPrio
  <2>2. Consistent(r, {t}) /\ t \in Task /\ p \in Prio
    BY <1>r
  <2> HIDE DEF q, r
  <2>3. /\ Consistent(q, {t}) /\ q.lock = r.lock /\ q.ret = r.ret /\ Ready(q) = Ready(r)
        /\ q.readytorun = r.readytorun /\ q.pending = r.pending
    BY ONLY <2>1, <2>2, PrioOut
  <2> QED BY ONLY <2>3 DEF this_task
<1>a. /\ Consistent(a, {}) /\ a.lock = q.lock
      /\ Ready(a) = Ready(q) \cup {t}
      /\ a.ret <=> this_task(a) # this_task(q)
      /\ this_task(a) \in {this_task(q), t}
      /\ islocked(q, this_task(q)) => this_task(a) = this_task(q)
      /\ ~islocked(q, this_task(q)) => a.pending = q.pending
  <2> HIDE DEF q
  <2> QED BY <1>q, AddReady
<1>m. m = [x EXCEPT !.ret = sw]
  <2>1. m = IF sw /\ a.pending # <<>>
            THEN [nxsched_merge_pending(a) EXCEPT !.ret = sw]
            ELSE [a EXCEPT !.ret = sw]
    <3>1. r \in SchedRecord
      BY <1>r DEF Consistent
    <3> QED BY <3>1 DEF nxsched_reprioritize_rtr, SchedRecord
  <2> QED BY <2>1
<1>b. sw \in BOOLEAN
  OBVIOUS
<1>t. t \in Ready(k)
  BY DEF Consistent, Named, Ready, Tcb
<1>e. /\ sw <=> (r.ret # a.ret)
      /\ x = IF sw /\ a.pending # <<>> THEN nxsched_merge_pending(a) ELSE a
      /\ r.ret \in BOOLEAN /\ a.ret \in BOOLEAN
  <2>1. r \in SchedRecord /\ a \in SchedRecord
    BY <1>r, <1>a DEF Consistent
  <2> QED BY <2>1, Fields
<1> HIDE DEF r, q, a, sw, x
<1>x. /\ Consistent(x, {}) /\ x.lock = a.lock /\ Ready(x) = Ready(a)
      /\ this_task(x) = this_task(a) \/ this_task(x) \in Members(a.pending)
      /\ ~sw => x = a
      /\ sw => (x.pending # <<>> => islocked(x, this_task(x)))
      /\ islocked(a, this_task(a)) => this_task(x) = this_task(a)
  <2>1. CASE ~sw
    BY <2>1, <1>e, <1>a
  <2>2. CASE sw /\ a.pending = <<>>
    BY <2>2, <1>e, <1>a
  <2>3. CASE sw /\ a.pending # <<>>
    <3>1. x = nxsched_merge_pending(a)
      BY <2>3, <1>e
    <3>2. /\ Consistent(x, {}) /\ x.prio = a.prio /\ x.lock = a.lock
          /\ Ready(x) = Ready(a)
          /\ this_task(x) = this_task(a) \/ this_task(x) \in Members(a.pending)
          /\ IF islocked(a, this_task(a))
             THEN x.pending = a.pending /\ this_task(x) = this_task(a)
             ELSE x.pending = <<>>
      BY <3>1, <1>a, MergePending
    <3> QED BY <2>3, <3>2 DEF islocked
  <2> QED BY <2>1, <2>2, <2>3
<1>y. /\ Consistent(m, {}) /\ m.ret = sw /\ m.lock = x.lock /\ m.pending = x.pending
      /\ this_task(m) = this_task(x) /\ Ready(m) = Ready(x)
  BY <1>m, <1>b, <1>x, RetOnly DEF this_task, Ready
<1>1. Ready(m) = Ready(k) /\ m.lock = k.lock
  BY <1>r, <1>q, <1>a, <1>x, <1>y, <1>t
<1>2. sw <=> this_task(m) # this_task(k)
  <2>1. CASE this_task(k) = t
    <3>1. sw <=> this_task(a) = this_task(q)
      BY <2>1, <1>e, <1>r, <1>a
    <3>2. this_task(q) # t
      BY <1>q, Heads
    <3>3. CASE ~sw
      BY <3>1, <3>3, <2>1, <1>a, <1>x, <1>y
    <3>4. CASE sw
      <4>1. islocked(q, this_task(q)) => this_task(x) = this_task(q)
        BY <3>1, <3>4, <1>x, <1>a DEF islocked
      <4>2. t \notin Members(q.pending)
        BY <1>q DEF Consistent, Named
      <4> QED BY <4>1, <4>2, <3>1, <3>2, <3>4, <2>1, <1>a, <1>x, <1>y
    <3> QED BY <3>3, <3>4
  <2>2. CASE this_task(k) # t
    <3>1. (sw <=> this_task(a) # this_task(k)) /\ this_task(q) = this_task(k)
      BY <2>2, <1>e, <1>r, <1>q, <1>a
    <3>2. CASE ~sw
      BY <3>1, <3>2, <1>x, <1>y
    <3>3. CASE sw
      <4>1. this_task(a) = t /\ a.pending = q.pending
        BY <3>1, <3>3, <1>a
      <4>2. this_task(q) \notin Members(q.pending)
        <5>1. this_task(q) \in Members(q.readytorun)
          BY <1>q, Heads
        <5> QED BY <5>1, <1>q, Apart
      <4> QED BY <4>1, <4>2, <3>1, <3>3, <2>2, <1>x, <1>y
    <3> QED BY <3>2, <3>3
  <2> QED BY <2>1, <2>2
<1>3. this_task(k) # t /\ islocked(k, this_task(k)) => this_task(m) = this_task(k)
  <2> SUFFICES ASSUME this_task(k) # t, islocked(k, this_task(k))
               PROVE  this_task(m) = this_task(k)
    OBVIOUS
  <2>1. this_task(a) = this_task(k) /\ ~sw
    BY <1>r, <1>q, <1>a, <1>e DEF islocked
  <2> QED BY <2>1, <1>x, <1>y
<1>4. m.pending # <<>> => \/ islocked(m, this_task(m))
                          \/ k.pending # <<>> /\ ~islocked(k, this_task(k))
  <2>1. CASE sw
    BY <2>1, <1>x, <1>y DEF islocked
  <2>2. CASE ~sw
    <3>1. m.pending = a.pending /\ this_task(m) = this_task(k)
          /\ this_task(m) = this_task(a) /\ m.lock = k.lock
      BY <2>2, <1>1, <1>2, <1>x, <1>y
    <3>2. CASE islocked(k, this_task(k))
      BY <3>1, <3>2 DEF islocked
    <3>3. CASE ~islocked(k, this_task(k)) /\ ~islocked(q, this_task(q))
      BY <3>1, <3>3, <1>a, <1>q, <1>r
    <3>4. CASE ~islocked(k, this_task(k)) /\ islocked(q, this_task(q))
      <4>1. this_task(k) = this_task(q)
        BY <3>1, <3>4, <1>a
      <4> QED BY <3>4, <4>1, <1>r, <1>q DEF islocked
    <3> QED BY <3>2, <3>3, <3>4
  <2> QED BY <2>1, <2>2
<1> QED BY <1>1, <1>2, <1>3, <1>4, <1>y DEF Reordered

\* r differs from k in the order of the lists and the priority of a task only.
Resorted(k, t, r) ==
    /\ r \in SchedRecord /\ Sorted(r)
    /\ r.prio[t] \in Prio /\ \A u \in Tcb \ {t} : r.prio[u] = k.prio[u]
    /\ r.lock = k.lock /\ r.state = k.state /\ r.ret = FALSE
    /\ Members(r.readytorun) = Members(k.readytorun)
    /\ Members(r.pending) = Members(k.pending)
    /\ Members(r.waiting) = Members(k.waiting)
    /\ this_task(r) = this_task(k)

LEMMA SamePlaces ==
    ASSUME NEW k, Consistent(k, {}), NEW t \in Task, NEW r, Resorted(k, t, r)
    PROVE  Reordered(k, r) /\ this_task(r) = this_task(k)
<1>r. /\ r \in SchedRecord /\ Sorted(r)
      /\ r.prio[t] \in Prio /\ \A u \in Tcb \ {t} : r.prio[u] = k.prio[u]
      /\ r.lock = k.lock /\ r.state = k.state /\ r.ret = FALSE
      /\ Members(r.readytorun) = Members(k.readytorun)
      /\ Members(r.pending) = Members(k.pending)
      /\ Members(r.waiting) = Members(k.waiting)
      /\ this_task(r) = this_task(k)
  BY DEF Resorted
<1>k. k \in SchedRecord /\ IdleReady(k) /\ Named(k, {}) /\ Idle # t /\ Idle \in Tcb
  BY SchedAssumption DEF Consistent, Tcb
<1>1. IdleReady(r)
  BY <1>r, <1>k DEF IdleReady, Tcb
<1>2. Named(r, {})
  BY <1>r, <1>k DEF Named, Runnable, this_task
<1>3. r.pending # <<>> => k.pending # <<>>
  BY <1>r, <1>k, SameEmpty, Fields
<1> QED BY <1>r, <1>1, <1>2, <1>3 DEF Consistent, Reordered, Ready, islocked

\* The running task is given another priority.
LEMMA RunningSet ==
    ASSUME NEW k, NEW t \in Task, Consistent(k, {}), this_task(k) = t, NEW p \in Prio,
           NEW m, m = nxsched_running_setpriority(k, t, p)
    PROVE  Reordered(k, m) /\ (islocked(k, t) => this_task(m) = t)
<1> DEFINE n == MovedAside(k.readytorun, k.prio, p)
           moved == SubSeq(k.readytorun, 2, n + 1)
           rest == [i \in 1..(Len(k.readytorun) - n) |->
                        IF i = 1 THEN k.readytorun[1] ELSE k.readytorun[i + n]]
           pen == Merge(moved, k.pending, k.prio)
           s == [u \in Tcb |-> IF u \in Members(moved) THEN "PENDING" ELSE k.state[u]]
           prio2 == [k.prio EXCEPT ![t] = p]
           prio3 == [k.prio EXCEPT ![k.readytorun[1]] = p]
<1>k. /\ k \in SchedRecord /\ Sorted(k) /\ IdleReady(k) /\ Named(k, {})
      /\ t \in Tcb /\ t # Idle /\ p \in Int /\ p \in 0..MaxPrio /\ p >= 1
  BY SchedAssumption DEF Consistent, Tcb, Prio
<1>f. /\ k.readytorun \in Seq(Tcb) /\ k.pending \in Seq(Task) /\ k.waiting \in Seq(Task)
      /\ k.state \in [Tcb -> TaskState]
      /\ k.prio \in [Tcb -> 0..MaxPrio] /\ k.prio \in [Tcb -> Int]
      /\ k.lock \in [Tcb -> 0..MaxLock]
  BY <1>k, Fields
<1>h. /\ t = k.readytorun[1] /\ t \in Members(k.readytorun)
      /\ Len(k.readytorun) >= 2 /\ k.readytorun[2] \in Tcb
  BY <1>k, Heads DEF this_task
<1>p. /\ Proper(k.readytorun, Tcb, k.prio) /\ Proper(k.pending, Tcb, k.prio)
      /\ Proper(k.waiting, Tcb, k.prio)
  BY <1>k DEF Sorted
<1>e. /\ n = MovedAside(k.readytorun, k.prio, p)
      /\ moved = SubSeq(k.readytorun, 2, n + 1)
      /\ rest = [i \in 1..(Len(k.readytorun) - n) |->
                    IF i = 1 THEN k.readytorun[1] ELSE k.readytorun[i + n]]
      /\ pen = Merge(moved, k.pending, k.prio)
      /\ prio3 = [k.prio EXCEPT ![k.readytorun[1]] = p]
  OBVIOUS
<1>s. s = [u \in Tcb |-> IF u \in Members(moved) THEN "PENDING" ELSE k.state[u]]
  OBVIOUS
<1>z. /\ prio2 = prio3 /\ prio2 \in [Tcb -> 0..MaxPrio] /\ prio2[t] = p
      /\ \A u \in Tcb \ {t} : prio2[u] = k.prio[u]
  BY <1>f, <1>h, <1>k
<1>m. m = IF p > k.prio[k.readytorun[2]]
          THEN [k EXCEPT !.prio = prio2, !.ret = FALSE]
          ELSE IF islocked(k, t)
          THEN [k EXCEPT !.readytorun = rest, !.pending = pen, !.state = s,
                         !.prio = prio2, !.ret = FALSE]
          ELSE nxsched_reprioritize_rtr(k, t, p)
  BY <1>k DEF nxsched_running_setpriority, SchedRecord
<1> HIDE DEF n, moved, rest, pen, s, prio2, prio3
<1>o. ASSUME NEW list, Proper(list, Tcb, k.prio), t \notin Members(list)
      PROVE  Proper(list, Tcb, prio2)
  <2>1. \A u \in Members(list) : u \in Tcb /\ prio2[u] = k.prio[u]
    BY <1>o, <1>z DEF Proper, Members
  <2> QED BY ONLY <1>o, <2>1, ProperOver
<1>w. Proper(k.waiting, Tcb, prio2) /\ t \notin Members(k.pending)
  <2>1. t \notin Members(k.waiting) /\ t \notin Members(k.pending)
    BY <1>h, Apart
  <2> QED BY <2>1, <1>o, <1>p
<1>y. k.prio[k.readytorun[2]] \in Int
  BY <1>f, <1>h
<1>1. CASE p > k.prio[k.readytorun[2]]
  <2>0. m = [k EXCEPT !.prio = prio2, !.ret = FALSE]
    BY <1>1, <1>m
  <2>1. /\ m \in SchedRecord /\ m.prio = prio2 /\ m.ret = FALSE /\ m.lock = k.lock
        /\ m.readytorun = k.readytorun /\ m.pending = k.pending /\ m.waiting = k.waiting
        /\ m.state = k.state
    BY ONLY <2>0, <1>z, <1>k DEF SchedRecord
  <2>2. Proper(k.readytorun, Tcb, prio2)
    <3>1. k.prio[k.readytorun[2]] <= p
      BY <1>1, <1>y, <1>k
    <3>2. Proper(k.readytorun, Tcb, prio3)
      BY ONLY <3>1, <1>e, <1>f, <1>k, <1>p, <1>h, HeadPrio
    <3> QED BY <3>2, <1>z
  <2>3. Proper(k.pending, Tcb, prio2)
    BY <1>o, <1>p, <1>w
  <2>4. Sorted(m)
    BY <2>1, <2>2, <2>3, <1>w DEF Sorted
  <2>5. this_task(m) = this_task(k)
    BY <2>1 DEF this_task
  <2>6. Resorted(k, t, m)
    BY <2>1, <2>4, <2>5, <1>z DEF Resorted
  <2> QED BY <2>5, <2>6, SamePlaces
<1>2. CASE ~(p > k.prio[k.readytorun[2]]) /\ islocked(k, t)
  <2>0. m = [k EXCEPT !.readytorun = rest, !.pending = pen, !.state = s,
                      !.prio = prio2, !.ret = FALSE]
    BY <1>2, <1>m
  <2>1. /\ Proper(moved, Tcb, k.prio) /\ \A u \in Members(moved) : k.prio[u] >= p
        /\ Proper(rest, Tcb, prio3) /\ rest # <<>> /\ rest[1] = k.readytorun[1]
        /\ k.readytorun[1] \notin Members(moved)
        /\ Members(moved) \subseteq Members(k.readytorun)
        /\ Members(rest) = Members(k.readytorun) \ Members(moved)
    <3>1. p <= k.prio[k.readytorun[2]]
      BY <1>2, <1>y, <1>k
    <3>2. /\ k.prio \in [Tcb -> Int] /\ p \in Int /\ Proper(k.readytorun, Tcb, k.prio)
          /\ Len(k.readytorun) >= 2
      BY <1>f, <1>k, <1>p, <1>h
    <3>3. SplitAside(k.readytorun, k.prio, p, n, moved, rest, prio3)
      BY <1>e DEF SplitAside
    <3> QED BY ONLY <3>1, <3>2, <3>3, Aside
  <2>2. Members(moved) \subseteq Task
    <3> SUFFICES ASSUME NEW u \in Members(moved) PROVE u \in Task
      OBVIOUS
    <3>1. u \in Tcb /\ k.prio[u] >= p
      BY <2>1 DEF Proper, Members
    <3>2. k.prio[Idle] = 0
      BY <1>k DEF IdleReady
    <3> QED BY <3>1, <3>2, <1>k DEF Tcb
  <2>3. \A u \in Members(moved) : u \notin Members(k.pending)
    BY <2>1, Apart
  <2>4. Proper(pen, Tcb, k.prio) /\ Members(pen) = Members(moved) \cup Members(k.pending)
    <3>1. k.prio \in [Tcb -> Int] /\ pen = Merge(moved, k.pending, k.prio)
      BY <1>e, <1>f
    <3> QED BY ONLY <2>1, <2>3, <3>1, <1>p, MergeLists
  <2>5. Proper(pen, Tcb, prio2)
    BY <2>1, <2>4, <1>h, <1>w, <1>o
  <2>6. rest \in Seq(Tcb) /\ pen \in Seq(Task)
    <3>0. Members(k.pending) \subseteq Task
      BY <1>f DEF Members
    <3>1. Members(pen) \subseteq Task
      BY <2>2, <2>4, <3>0
    <3>2. rest \in Seq(Tcb) /\ pen \in Seq(Tcb)
      BY <2>1, <2>4 DEF Proper
    <3> QED BY <3>1, <3>2, SeqOver
  <2>7. s \in [Tcb -> TaskState]
    BY <1>s, <1>f DEF TaskState
  <2>8. /\ m \in SchedRecord /\ m.prio = prio2 /\ m.ret = FALSE /\ m.lock = k.lock
        /\ m.readytorun = rest /\ m.pending = pen /\ m.waiting = k.waiting /\ m.state = s
    BY ONLY <2>0, <2>6, <2>7, <1>z, <1>k DEF SchedRecord
  <2>9. Sorted(m)
    BY <2>1, <2>5, <2>8, <1>w, <1>z DEF Sorted
  <2>10. IdleReady(m)
    <3>1. Idle \in Members(rest)
      BY <2>1, <2>2, <1>k, SchedAssumption DEF IdleReady
    <3> QED BY <3>1, <2>8, <1>z, <1>k DEF IdleReady, Tcb
  <2>11. Named(m, {})
    <3> SUFFICES ASSUME NEW v \in Tcb
                 PROVE  /\ v \in Members(m.readytorun) <=> Runnable(m, v)
                        /\ v \in Members(m.pending) <=> m.state[v] = "PENDING"
                        /\ v \in Members(m.waiting) <=> m.state[v] = "WAIT_SEM"
                        /\ m.state[v] # "INVALID"
                        /\ m.state[v] = "RUNNING" <=> v = m.readytorun[1]
      BY DEF Named
    <3>1. CASE v \in Members(moved)
      <4>1. m.state[v] = "PENDING"
        BY <3>1, <2>8, <1>s
      <4>2. v \in Members(k.readytorun)
        BY <3>1, <2>1
      <4>3. v \notin Members(k.waiting) /\ v # k.readytorun[1]
        BY <4>2, <3>1, <2>1, Apart
      <4> QED BY <4>1, <4>3, <3>1, <2>1, <2>4, <2>8 DEF Runnable
    <3>2. CASE v \notin Members(moved)
      <4>1. m.state[v] = k.state[v]
        BY <3>2, <2>8, <1>s
      <4> QED BY <4>1, <3>2, <2>1, <2>4, <2>8, <1>k DEF Named, Runnable
    <3> QED BY <3>1, <3>2
  <2>12. Ready(m) = Ready(k) /\ this_task(m) = t
    BY <2>1, <2>4, <2>8, <1>h DEF Ready, this_task
  <2> QED BY <2>8, <2>9, <2>10, <2>11, <2>12, <1>2 DEF Reordered, Consistent, islocked
<1>3. CASE ~(p > k.prio[k.readytorun[2]]) /\ ~islocked(k, t)
  <2>1. m = nxsched_reprioritize_rtr(k, t, p)
    BY <1>3, <1>m
  <2>2. Runnable(k, t)
    BY <1>k, <1>h DEF Named
  <2> QED BY <2>1, <2>2, <1>3, Reprioritize
<1> QED BY <1>1, <1>2, <1>3

\* A task that is not ready to run is given another priority.
LEMMA BlockedSet ==
    ASSUME NEW k, NEW t \in Task, Consistent(k, {}), ~Runnable(k, t), NEW p \in Prio,
           NEW m, m = nxsched_blocked_setpriority(k, t, p)
    PROVE  Reordered(k, m) /\ this_task(m) = this_task(k)
<1> DEFINE prio2 == [k.prio EXCEPT ![t] = p]
           b == nxsched_add_prioritized(dq_rem(k.pending, t), prio2, t)
           c == nxsched_add_prioritized(dq_rem(k.waiting, t), prio2, t)
           B == IF k.state[t] = "PENDING" THEN b ELSE k.pending
           C == IF k.state[t] = "WAIT_SEM" THEN c ELSE k.waiting
<1>k. /\ k \in SchedRecord /\ Sorted(k) /\ IdleReady(k) /\ Named(k, {})
      /\ t \in Tcb /\ t # Idle /\ p \in Int /\ p \in 0..MaxPrio
  BY SchedAssumption DEF Consistent, Tcb, Prio
<1>f. /\ k.readytorun \in Seq(Tcb) /\ k.pending \in Seq(Task) /\ k.waiting \in Seq(Task)
      /\ k.prio \in [Tcb -> 0..MaxPrio] /\ k.prio \in [Tcb -> Int]
  BY <1>k, Fields
<1>p. /\ Proper(k.readytorun, Tcb, k.prio) /\ Proper(k.pending, Tcb, k.prio)
      /\ Proper(k.waiting, Tcb, k.prio)
  BY <1>k DEF Sorted
<1>n. /\ t \notin Members(k.readytorun)
      /\ t \in Members(k.pending) <=> k.state[t] = "PENDING"
      /\ t \in Members(k.waiting) <=> k.state[t] = "WAIT_SEM"
  BY <1>k DEF Named
<1>e. prio2 = [k.prio EXCEPT ![t] = p]
  OBVIOUS
<1>b. b = nxsched_add_prioritized(dq_rem(k.pending, t), prio2, t)
  OBVIOUS
<1>c. c = nxsched_add_prioritized(dq_rem(k.waiting, t), prio2, t)
  OBVIOUS
<1>z. /\ prio2 \in [Tcb -> 0..MaxPrio] /\ prio2[t] = p
      /\ \A u \in Tcb \ {t} : prio2[u] = k.prio[u]
  BY <1>f, <1>k
<1>m. m = [k EXCEPT !.pending = B, !.waiting = C, !.prio = prio2, !.ret = FALSE]
  BY <1>k DEF nxsched_blocked_setpriority, SchedRecord
<1> HIDE DEF b, c, prio2
<1>o. ASSUME NEW list, Proper(list, Tcb, k.prio), t \notin Members(list)
      PROVE  Proper(list, Tcb, prio2)
  <2>1. \A u \in Members(list) : u \in Tcb /\ prio2[u] = k.prio[u]
    BY <1>o, <1>z DEF Proper, Members
  <2> QED BY ONLY <1>o, <2>1, ProperOver
<1>q. k.prio \in [Tcb -> Int] /\ p \in Int
  BY <1>f, <1>k
<1>1. Proper(B, Tcb, prio2) /\ Members(B) = Members(k.pending)
  <2>1. CASE k.state[t] = "PENDING"
    <3>1. t \in Members(k.pending)
      BY <2>1, <1>n
    <3>2. Proper(b, Tcb, prio2) /\ Members(b) = Members(k.pending)
      BY ONLY <3>1, <1>q, <1>p, <1>e, <1>b, Requeued
    <3> QED BY <2>1, <3>2
  <2>2. CASE k.state[t] # "PENDING"
    BY <2>2, <1>n, <1>p, <1>o
  <2> QED BY <2>1, <2>2
<1>2. Proper(C, Tcb, prio2) /\ Members(C) = Members(k.waiting)
  <2>1. CASE k.state[t] = "WAIT_SEM"
    <3>1. t \in Members(k.waiting)
      BY <2>1, <1>n
    <3>2. Proper(c, Tcb, prio2) /\ Members(c) = Members(k.waiting)
      BY ONLY <3>1, <1>q, <1>p, <1>e, <1>c, Requeued
    <3> QED BY <2>1, <3>2
  <2>2. CASE k.state[t] # "WAIT_SEM"
    BY <2>2, <1>n, <1>p, <1>o
  <2> QED BY <2>1, <2>2
<1> HIDE DEF B, C
<1>3. B \in Seq(Task) /\ C \in Seq(Task)
  <2>1. Members(k.pending) \subseteq Task /\ Members(k.waiting) \subseteq Task
    BY <1>f DEF Members
  <2>2. /\ B \in Seq(Tcb) /\ C \in Seq(Tcb)
        /\ Members(B) \subseteq Task /\ Members(C) \subseteq Task
    BY <1>1, <1>2, <2>1 DEF Proper
  <2> QED BY <2>2, SeqOver
<1>4. /\ m \in SchedRecord /\ m.prio = prio2 /\ m.ret = FALSE /\ m.lock = k.lock
      /\ m.readytorun = k.readytorun /\ m.pending = B /\ m.waiting = C
      /\ m.state = k.state
  BY ONLY <1>m, <1>3, <1>z, <1>k DEF SchedRecord
<1>5. Sorted(m)
  BY <1>1, <1>2, <1>4, <1>n, <1>p, <1>o DEF Sorted
<1>6. Resorted(k, t, m)
  BY <1>1, <1>2, <1>4, <1>5, <1>z DEF Resorted, this_task
<1> QED BY <1>6, SamePlaces

\* Whatever a task is doing, its priority can be changed, and that never takes the
\* CPU away from a task that has disabled preemption.
LEMMA SetPriority ==
    ASSUME NEW k, NEW t \in Task, Consistent(k, {}), NEW p \in Prio,
           NEW m, m = nxsched_set_priority(k, t, p)
    PROVE  /\ Reordered(k, m)
           /\ islocked(k, this_task(k)) => this_task(m) = this_task(k)
<1>k. Named(k, {}) /\ t \in Tcb
  BY DEF Consistent, Tcb
<1>1. CASE k.state[t] = "RUNNING"
  <2>1. m = nxsched_running_setpriority(k, t, p)
    BY <1>1 DEF nxsched_set_priority
  <2>2. this_task(k) = t
    BY <1>1, <1>k DEF Named, this_task
  <2> QED BY <2>1, <2>2, RunningSet
<1>2. CASE k.state[t] = "READYTORUN"
  <2>1. m = nxsched_reprioritize_rtr(k, t, p)
    BY <1>2 DEF nxsched_set_priority
  <2>2. this_task(k) # t /\ Runnable(k, t)
    BY <1>2, <1>k DEF Named, this_task, Runnable
  <2> QED BY <2>1, <2>2, Reprioritize
<1>3. CASE k.state[t] \notin {"RUNNING", "READYTORUN"}
  <2>1. m = nxsched_blocked_setpriority(k, t, p)
    BY <1>3 DEF nxsched_set_priority
  <2>2. ~Runnable(k, t)
    BY <1>3 DEF Runnable
  <2> QED BY <2>1, <2>2, BlockedSet
<1> QED BY <1>1, <1>2, <1>3

-----------------------------------------------------------------------------
(* What every step does *)

\* LockedTaskKeepsCpu and HandoverToHighest, of one step
KeepsCpu == islocked(sched, cpu) /\ cpu' # cpu => Blocked(sched', cpu)

HandsOver ==
    Blocked(sched', cpu) /\ Runnable(sched, cpu) =>
        \/ islocked(sched', cpu')
        \/ \A t \in Task : Runnable(sched', t) \/ sched'.state[t] = "PENDING"
                                => sched'.prio[t] <= sched'.prio[cpu']

StepOK == IInv' /\ KeepsCpu /\ HandsOver

\* The CPU executes a task that is ready, and if it is in the middle of a call
\* it is not the idle task.
LEMMA Executing ==
    ASSUME IInv
    PROVE  /\ Consistent(sched, {}) /\ cpu = this_task(sched) /\ cpu \in Tcb
           /\ cpu \in Ready(sched) /\ Runnable(sched, cpu)
           /\ pc[cpu] # "run" \/ cpu # Idle => cpu \in Task
<1>1. Consistent(sched, {}) /\ cpu = this_task(sched) /\ pc[Idle] = "run"
  BY DEF IInv, Calls
<1>2. cpu \in Tcb /\ cpu \in Members(sched.readytorun)
  BY <1>1, Heads
<1> QED BY <1>1, <1>2 DEF Consistent, Named, Ready, Tcb

\* A ready task is not blocked.
LEMMA ReadyNotBlocked ==
    ASSUME NEW k, Consistent(k, {}), NEW t \in Ready(k)
    PROVE  ~Blocked(k, t)
<1>1. CASE t \in Members(k.readytorun)
  <2>1. t \in Tcb
    BY <1>1, Apart
  <2> QED BY <1>1, <2>1 DEF Consistent, Named, Blocked, Runnable
<1>2. CASE t \in Members(k.pending)
  <2>1. t \in Tcb
    BY <1>2, Fields DEF Consistent, Members, Tcb
  <2> QED BY <1>2, <2>1 DEF Consistent, Named, Blocked, Runnable
<1> QED BY <1>1, <1>2 DEF Ready

\* Once the pending tasks are merged, the head of the ready-to-run list has the
\* highest priority of all the tasks that compete for the CPU.
LEMMA HighestRuns ==
    ASSUME NEW k, Consistent(k, {}), k.pending # <<>> => islocked(k, this_task(k))
    PROVE  \/ islocked(k, this_task(k))
           \/ \A t \in Task : Runnable(k, t) \/ k.state[t] = "PENDING"
                                => k.prio[t] <= k.prio[this_task(k)]
<1> SUFFICES ASSUME k.pending = <<>>, NEW t \in Task,
                    Runnable(k, t) \/ k.state[t] = "PENDING"
             PROVE  k.prio[t] <= k.prio[this_task(k)]
  OBVIOUS
<1>1. t \notin Members(k.pending)
  BY DEF Members
<1>2. t \in Members(k.readytorun)
  BY <1>1 DEF Consistent, Named, Tcb
<1> QED BY <1>2, Heads

\* A step that leaves the lists alone
LEMMA ListsKept ==
    ASSUME IInv, UNCHANGED <<sched, cpu>>
    PROVE  KeepsCpu /\ HandsOver
BY DEF KeepsCpu, HandsOver, Blocked, Runnable

LEMMA LocalsKept ==
    ASSUME IInv, UNCHANGED <<pc, arg, timeslice>>, sched'.lock = sched.lock
    PROVE  Locals' /\ Calls'
BY DEF IInv, Locals, Calls

\* A task goes to another place of a call, or to another call.
LEMMA Moves ==
    ASSUME IInv, NEW t \in Task, NEW a \in Tcb \X (0..MaxPrio),
           NEW label \in {"run", "merge", "yield", "param", "leave"},
           Goto(t, label, a), timeslice' \in [Tcb -> 0..RRInterval],
           \A u \in Task \ {t} : sched'.lock[u] = sched.lock[u],
           label = "merge" => sched'.lock[t] = 0,
           label = "yield" => a[2] \in Prio,
           label = "param" => a \in Task \X Prio
    PROVE  /\ Locals' /\ Calls' /\ pc'[t] = label
           /\ \A u \in Tcb \ {t} : pc'[u] = pc[u]
<1>1. Locals /\ Calls /\ t \in Tcb /\ Idle \in Tcb /\ Idle # t
  BY SchedAssumption DEF IInv, Tcb
<1>2. pc \in [Tcb -> {"run", "merge", "yield", "param", "leave"}]
      /\ arg \in [Tcb -> Tcb \X (0..MaxPrio)]
  BY <1>1 DEF Locals
<1>3. pc' = [pc EXCEPT ![t] = label] /\ arg' = [arg EXCEPT ![t] = a]
  BY DEF Goto
<1>4. /\ pc'[t] = label /\ arg'[t] = a
      /\ \A u \in Tcb \ {t} : pc'[u] = pc[u] /\ arg'[u] = arg[u]
  BY <1>1, <1>2, <1>3
<1>5. Locals'
  BY <1>2, <1>3 DEF Locals
<1>6. Calls'
  <2>1. pc'[Idle] = "run"
    BY <1>1, <1>4 DEF Calls
  <2>2. ASSUME NEW u \in Task
        PROVE  /\ pc'[u] = "merge" => sched'.lock[u] = 0
               /\ pc'[u] = "yield" => arg'[u][2] \in Prio
               /\ pc'[u] = "param" => arg'[u] \in Task \X Prio
    <3>1. CASE u = t
      BY <3>1, <1>4
    <3>2. CASE u # t
      <4>1. u \in Tcb
        BY DEF Tcb
      <4> QED BY <3>2, <4>1, <1>4, <1>1 DEF Calls
    <3> QED BY <3>1, <3>2
  <2> QED BY <2>1, <2>2 DEF Calls
<1> QED BY <1>4, <1>5, <1>6

\* The CPU goes to the head of the ready-to-run list, if the return value is
\* honest or the switch is unconditional.
LEMMA SwitchTo ==
    ASSUME NEW m, Consistent(m, {}), cpu = this_task(sched),
           Switch(m) \/ (IfSwitchNeeded(m) /\ (~m.ret => this_task(m) = this_task(sched)))
    PROVE  /\ Consistent(sched', {}) /\ cpu' = this_task(sched') /\ cpu' = this_task(m)
           /\ Ready(sched') = Ready(m) /\ sched'.pending = m.pending
           /\ sched'.lock = m.lock /\ sched'.state = m.state
<1>1. sched' = [m EXCEPT !.ret = FALSE] /\ cpu' = this_task(m)
  BY DEF Switch, IfSwitchNeeded
<1>2. /\ Consistent(sched', {}) /\ sched'.readytorun = m.readytorun
      /\ sched'.pending = m.pending /\ sched'.lock = m.lock /\ sched'.state = m.state
  BY <1>1, RetOnly
<1> QED BY <1>1, <1>2 DEF this_task, Ready

-----------------------------------------------------------------------------
(* The invariant holds initially *)

LEMMA InitIInv == Init => IInv
<1> SUFFICES ASSUME Init PROVE IInv
  OBVIOUS
<1>a. /\ Idle \in Tcb /\ \A t \in Tcb : t # Idle <=> t \in Task
      /\ 0 \in 0..MaxPrio /\ 1 \in 0..MaxPrio /\ 1 \in Prio /\ 0 \in 0..MaxLock
      /\ RRInterval \in 0..RRInterval
  BY SchedAssumption DEF Tcb, Prio
<1> DEFINE s == [t \in Tcb |-> IF t = Idle THEN "RUNNING" ELSE "INACTIVE"]
           q == [t \in Tcb |-> IF t = Idle THEN 0 ELSE 1]
           l == [t \in Tcb |-> 0]
<1>1. s \in [Tcb -> TaskState] /\ q \in [Tcb -> 0..MaxPrio] /\ l \in [Tcb -> 0..MaxLock]
  BY <1>a DEF TaskState
<1>2. /\ \A t \in Tcb : s[t] = IF t = Idle THEN "RUNNING" ELSE "INACTIVE"
      /\ \A t \in Tcb : q[t] = IF t = Idle THEN 0 ELSE 1
      /\ \A t \in Tcb : l[t] = 0
  OBVIOUS
<1>3. sched = [readytorun |-> <<Idle>>, pending |-> <<>>, waiting |-> <<>>,
               state |-> s, prio |-> q, lock |-> l, ret |-> FALSE]
  BY DEF Init
<1> HIDE DEF s, q, l
<1>4. <<Idle>> \in Seq(Tcb) /\ <<>> \in Seq(Task) /\ <<>> \in Seq(Tcb)
  BY <1>a
<1>5. /\ sched \in SchedRecord
      /\ sched.readytorun = <<Idle>> /\ sched.pending = <<>> /\ sched.waiting = <<>>
      /\ sched.state = s /\ sched.prio = q /\ sched.lock = l
  BY ONLY <1>1, <1>3, <1>4 DEF SchedRecord
<1>6. Members(<<Idle>>) = {Idle} /\ <<Idle>>[1] = Idle
  BY DEF Members
<1>7. Members(<<>>) = {}
  BY DEF Members
<1>8. Sorted(sched)
  <2>1. Proper(<<>>, Tcb, q)
    BY <1>4 DEF Proper, Distinct, Descending
  <2>2. Proper(<<Idle>>, Tcb, q)
    BY <1>4, <1>2, <1>a DEF Proper, Distinct, Descending
  <2> QED BY <2>1, <2>2, <1>5 DEF Sorted
<1>9. IdleReady(sched)
  BY <1>a, <1>2, <1>5, <1>6, SchedAssumption DEF IdleReady, Tcb
<1>10. Named(sched, {})
  <2> SUFFICES ASSUME NEW t \in Tcb
               PROVE  /\ t \in Members(sched.readytorun) <=> Runnable(sched, t)
                      /\ t \in Members(sched.pending) <=> sched.state[t] = "PENDING"
                      /\ t \in Members(sched.waiting) <=> sched.state[t] = "WAIT_SEM"
                      /\ sched.state[t] # "INVALID"
                      /\ sched.state[t] = "RUNNING" <=> t = sched.readytorun[1]
    BY DEF Named
  <2> QED BY <1>2, <1>5, <1>6, <1>7 DEF Runnable
<1>11. cpu = this_task(sched)
  BY <1>5, <1>6 DEF Init, this_task
<1>12. Locals /\ Calls
  BY <1>a DEF Init, Locals, Calls, NoArg, Tcb
<1>13. PendingOnlyIfLocked
  BY <1>5 DEF PendingOnlyIfLocked
<1> QED BY <1>5, <1>8, <1>9, <1>10, <1>11, <1>12, <1>13 DEF IInv, Consistent

-----------------------------------------------------------------------------
(* The preemption lock *)

\* The lock count of a task is changed.
LEMMA LockSet ==
    ASSUME NEW k, NEW t \in Task, Consistent(k, {}), NEW n \in 0..MaxLock,
           NEW r, r = [k EXCEPT !.lock = [k.lock EXCEPT ![t] = n]]
    PROVE  /\ Consistent(r, {}) /\ this_task(r) = this_task(k) /\ Ready(r) = Ready(k)
           /\ r.pending = k.pending /\ r.state = k.state
           /\ r.lock[t] = n /\ \A u \in Tcb \ {t} : r.lock[u] = k.lock[u]
<1>k. /\ k \in SchedRecord /\ Sorted(k) /\ IdleReady(k) /\ Named(k, {})
      /\ t \in Tcb /\ t # Idle /\ Idle \in Tcb /\ k.lock \in [Tcb -> 0..MaxLock]
  BY Fields, SchedAssumption DEF Consistent, Tcb
<1> DEFINE l == [k.lock EXCEPT ![t] = n]
<1>1. l \in [Tcb -> 0..MaxLock] /\ l[t] = n /\ \A u \in Tcb \ {t} : l[u] = k.lock[u]
  BY <1>k
<1>2. r = [k EXCEPT !.lock = l]
  OBVIOUS
<1> HIDE DEF l
<1>3. /\ r \in SchedRecord /\ r.lock = l /\ r.prio = k.prio /\ r.state = k.state
      /\ r.readytorun = k.readytorun /\ r.pending = k.pending /\ r.waiting = k.waiting
  BY ONLY <1>k, <1>1, <1>2 DEF SchedRecord
<1>4. Sorted(r) /\ IdleReady(r) /\ Named(r, {})
  BY <1>k, <1>1, <1>3 DEF Sorted, IdleReady, Named, Runnable
<1> QED BY <1>1, <1>3, <1>4 DEF Consistent, Ready, this_task

LEMMA LockStep ==
    ASSUME IInv, sched_lock
    PROVE  StepOK
<1> USE DEF sched_lock
<1>i. /\ Consistent(sched, {}) /\ cpu = this_task(sched) /\ cpu \in Task
      /\ cpu \in Ready(sched)
  BY Executing
<1>l. sched.lock[cpu] \in 0..MaxLock /\ sched.lock[cpu] + 1 \in 0..MaxLock
      /\ sched.lock \in [Tcb -> 0..MaxLock] /\ cpu \in Tcb
  <2>1. sched.lock \in [Tcb -> 0..MaxLock] /\ cpu \in Tcb
    BY <1>i, Fields DEF Consistent, Tcb
  <2> QED BY <2>1, <1>i, SchedAssumption
<1>1. sched' = [sched EXCEPT !.lock = [sched.lock EXCEPT ![cpu] = sched.lock[cpu] + 1]]
  <2>1. sched' = [sched EXCEPT !.lock =
            [sched.lock EXCEPT ![this_task(sched)] = sched.lock[this_task(sched)] + 1]]
    OBVIOUS
  <2> QED BY ONLY <2>1, <1>i
<1>2. /\ Consistent(sched', {}) /\ this_task(sched') = this_task(sched)
      /\ Ready(sched') = Ready(sched) /\ sched'.pending = sched.pending
      /\ sched'.state = sched.state
      /\ sched'.lock[cpu] = sched.lock[cpu] + 1
      /\ \A u \in Tcb \ {cpu} : sched'.lock[u] = sched.lock[u]
  BY <1>1, <1>i, <1>l, LockSet
<1>3. Locals' /\ Calls'
  <2>1. \A t \in Task \ {cpu} : sched'.lock[t] = sched.lock[t]
    BY <1>2 DEF Tcb
  <2>2. pc' = pc /\ arg' = arg /\ timeslice' = timeslice /\ pc[cpu] = "run"
    OBVIOUS
  <2>3. Locals /\ Calls
    BY DEF IInv
  <2> QED BY <2>1, <2>2, <2>3 DEF Locals, Calls
<1>4. islocked(sched', cpu)
  BY <1>2, <1>l DEF islocked
<1>5. IInv'
  BY <1>2, <1>3, <1>4, <1>i DEF IInv, PendingOnlyIfLocked
<1>6. KeepsCpu /\ HandsOver
  BY <1>2 DEF KeepsCpu, HandsOver, Blocked, Runnable
<1> QED BY <1>5, <1>6 DEF StepOK

LEMMA UnlockStep ==
    ASSUME IInv, sched_unlock
    PROVE  StepOK
<1> USE DEF sched_unlock
<1>c. Consistent(sched, {}) /\ cpu = this_task(sched) /\ cpu \in Tcb
      /\ sched.lock \in [Tcb -> 0..MaxLock]
  BY Executing, Fields DEF Consistent
<1>d. sched.lock[cpu] > 0
  BY <1>c
<1>i. cpu \in Task
  BY <1>c, <1>d DEF Consistent, IdleReady, Tcb
<1>l. sched.lock[cpu] - 1 \in 0..MaxLock
  BY <1>c, <1>d, SchedAssumption
<1>1. sched' = [sched EXCEPT !.lock = [sched.lock EXCEPT ![cpu] = sched.lock[cpu] - 1]]
  <2>1. sched' = [sched EXCEPT !.lock =
            [sched.lock EXCEPT ![this_task(sched)] = sched.lock[this_task(sched)] - 1]]
    OBVIOUS
  <2> QED BY ONLY <2>1, <1>c
<1>2. /\ Consistent(sched', {}) /\ this_task(sched') = this_task(sched)
      /\ Ready(sched') = Ready(sched) /\ sched'.pending = sched.pending
      /\ sched'.state = sched.state
      /\ sched'.lock[cpu] = sched.lock[cpu] - 1
      /\ \A u \in Tcb \ {cpu} : sched'.lock[u] = sched.lock[u]
  BY <1>1, <1>c, <1>i, <1>l, LockSet
<1> DEFINE label == IF sched.lock[cpu] = 1 THEN "merge" ELSE "run"
<1>3. Locals' /\ Calls' /\ pc'[cpu] = label
  <2>1. \A t \in Task \ {cpu} : sched'.lock[t] = sched.lock[t]
    BY <1>2 DEF Tcb
  <2>2. Goto(cpu, label, NoArg) /\ timeslice' \in [Tcb -> 0..RRInterval]
    BY <1>c DEF IInv, Locals
  <2>3. NoArg \in Tcb \X (0..MaxPrio)
    BY SchedAssumption DEF NoArg, Tcb
  <2>4. label = "merge" => sched'.lock[cpu] = 0
    <3>1. sched.lock[cpu] = 1 => sched'.lock[cpu] = 0
      BY <1>2
    <3> QED BY <3>1
  <2>5. label \in {"run", "merge"}
    OBVIOUS
  <2> HIDE DEF label
  <2> QED BY <2>1, <2>2, <2>3, <2>4, <2>5, <1>i, Moves
<1>4. sched.lock[cpu] = 1 \/ islocked(sched', cpu)
  BY <1>2, <1>c, <1>d, <1>l DEF islocked
<1>5. IInv'
  BY <1>2, <1>3, <1>4, <1>c, <1>i DEF IInv, PendingOnlyIfLocked
<1>6. KeepsCpu /\ HandsOver
  BY <1>2 DEF KeepsCpu, HandsOver, Blocked, Runnable
<1> QED BY <1>5, <1>6 DEF StepOK

LEMMA UnlockMergeStep ==
    ASSUME IInv, sched_unlock_merge
    PROVE  StepOK
<1> USE DEF sched_unlock_merge
<1>i. /\ Consistent(sched, {}) /\ cpu = this_task(sched) /\ cpu \in Task
      /\ cpu \in Ready(sched)
  BY Executing
<1>l. ~islocked(sched, cpu)
  BY <1>i DEF IInv, Calls, islocked
<1>1. /\ Consistent(sched', {}) /\ cpu' = this_task(sched')
      /\ Ready(sched') = Ready(sched) /\ sched'.pending = <<>> /\ sched'.lock = sched.lock
  <2>1. CASE sched.pending = <<>>
    BY <2>1, <1>i
  <2>2. CASE sched.pending # <<>>
    <3> DEFINE m == nxsched_merge_pending(sched)
    <3>1. m = nxsched_merge_pending(sched) /\ IfSwitchNeeded(m)
      BY <2>2
    <3> HIDE DEF m
    <3>2. /\ Consistent(m, {}) /\ m.lock = sched.lock /\ Ready(m) = Ready(sched)
          /\ m.ret <=> this_task(m) # this_task(sched)
          /\ IF islocked(sched, this_task(sched))
             THEN m.pending = sched.pending /\ this_task(m) = this_task(sched)
             ELSE m.pending = <<>>
      BY <3>1, <1>i, MergePending
    <3>3. m.pending = <<>>
      BY <3>2, <1>l, <1>i
    <3> QED BY <3>1, <3>2, <3>3, <1>i, SwitchTo
  <2> QED BY <2>1, <2>2
<1>2. Locals' /\ Calls'
  <2>1. \A t \in Task \ {cpu} : sched'.lock[t] = sched.lock[t]
    BY <1>1
  <2>2. Goto(cpu, "run", NoArg) /\ timeslice' \in [Tcb -> 0..RRInterval]
    BY DEF IInv, Locals
  <2>3. NoArg \in Tcb \X (0..MaxPrio)
    BY SchedAssumption DEF NoArg, Tcb
  <2> QED BY <2>1, <2>2, <2>3, <1>i, Moves
<1>3. IInv'
  BY <1>1, <1>2 DEF IInv, PendingOnlyIfLocked
<1>4. ~Blocked(sched', cpu)
  BY <1>1, <1>i, ReadyNotBlocked
<1> QED BY <1>3, <1>4, <1>l DEF StepOK, KeepsCpu, HandsOver

-----------------------------------------------------------------------------
(* Changes of priority *)

LEMMA YieldStep ==
    ASSUME IInv, sched_yield
    PROVE  StepOK
<1> USE DEF sched_yield
<1>i. Consistent(sched, {}) /\ cpu = this_task(sched) /\ cpu \in Task /\ cpu \in Tcb
  BY Executing
<1>1. sched' = sched /\ cpu' = cpu /\ timeslice' = timeslice
  OBVIOUS
<1>2. sched.prio[cpu] \in Prio
  BY <1>i DEF Consistent, IdleReady
<1> DEFINE a == <<cpu, sched.prio[cpu]>>
<1>3. a \in Tcb \X (0..MaxPrio) /\ a[2] \in Prio /\ Goto(cpu, "yield", a)
  BY <1>i, <1>2, SchedAssumption DEF Prio
<1> HIDE DEF a
<1>4. Locals' /\ Calls' /\ \A u \in Tcb \ {cpu} : pc'[u] = pc[u]
  <2>1. timeslice' \in [Tcb -> 0..RRInterval]
    BY <1>1 DEF IInv, Locals
  <2>2. \A u \in Task \ {cpu} : sched'.lock[u] = sched.lock[u]
    BY <1>1
  <2> QED BY <2>1, <2>2, <1>3, <1>i, Moves
<1>5. PendingOnlyIfLocked'
  <2>1. PendingOnlyIfLocked /\ pc[cpu] # "merge"
    BY DEF IInv
  <2> QED BY <2>1, <1>1, <1>4 DEF PendingOnlyIfLocked, Tcb
<1>6. IInv'
  BY <1>1, <1>4, <1>5, <1>i DEF IInv
<1> QED BY <1>6, <1>1, ListsKept DEF StepOK

\* A call that ends with nxsched_set_priority
LEMMA SetPriorityStep ==
    ASSUME IInv, cpu \in Task, pc[cpu] # "merge", NEW t \in Task, NEW p \in Prio,
           IfSwitchNeeded(nxsched_set_priority(sched, t, p)),
           NEW label \in {"run", "leave"}, Goto(cpu, label, NoArg), timeslice' = timeslice
    PROVE  StepOK
<1>i. Consistent(sched, {}) /\ cpu = this_task(sched) /\ cpu \in Ready(sched)
  BY Executing
<1> DEFINE m == nxsched_set_priority(sched, t, p)
<1>e. m = nxsched_set_priority(sched, t, p) /\ IfSwitchNeeded(m)
  OBVIOUS
<1> HIDE DEF m
<1>1. Reordered(sched, m) /\ (islocked(sched, cpu) => this_task(m) = cpu)
  BY <1>e, <1>i, SetPriority
<1>2. /\ Consistent(m, {}) /\ m.lock = sched.lock /\ Ready(m) = Ready(sched)
      /\ m.ret <=> this_task(m) # this_task(sched)
      /\ m.pending # <<>> => \/ islocked(m, this_task(m))
                             \/ sched.pending # <<>> /\ ~islocked(sched, this_task(sched))
  BY <1>1 DEF Reordered
<1>3. /\ Consistent(sched', {}) /\ cpu' = this_task(sched') /\ cpu' = this_task(m)
      /\ Ready(sched') = Ready(m) /\ sched'.pending = m.pending
      /\ sched'.lock = m.lock
  BY <1>e, <1>2, <1>i, SwitchTo
<1>4. Locals' /\ Calls' /\ \A u \in Tcb \ {cpu} : pc'[u] = pc[u]
  <2>1. \A u \in Task \ {cpu} : sched'.lock[u] = sched.lock[u]
    BY <1>2, <1>3
  <2>2. timeslice' \in [Tcb -> 0..RRInterval]
    BY DEF IInv, Locals
  <2>3. NoArg \in Tcb \X (0..MaxPrio)
    BY SchedAssumption DEF NoArg, Tcb
  <2> QED BY <2>1, <2>2, <2>3, Moves
<1>5. PendingOnlyIfLocked'
  <2> SUFFICES ASSUME m.pending # <<>>, ~islocked(m, this_task(m))
               PROVE  \E u \in Task : pc'[u] = "merge"
    BY <1>3 DEF PendingOnlyIfLocked, islocked
  <2>1. PICK u \in Task : pc[u] = "merge"
    BY <1>2 DEF IInv, PendingOnlyIfLocked
  <2> QED BY <2>1, <1>4 DEF Tcb
<1>6. ~Blocked(sched', cpu)
  BY <1>2, <1>3, <1>i, ReadyNotBlocked
<1>7. IInv'
  BY <1>3, <1>4, <1>5 DEF IInv
<1> QED BY <1>1, <1>3, <1>6, <1>7 DEF StepOK, KeepsCpu, HandsOver

LEMMA YieldSetStep ==
    ASSUME IInv, sched_yield_set
    PROVE  StepOK
<1>1. /\ pc[cpu] = "yield" /\ IfSwitchNeeded(nxsched_set_priority(sched, cpu, arg[cpu][2]))
      /\ Goto(cpu, "run", NoArg) /\ timeslice' = timeslice
  BY DEF sched_yield_set
<1>2. cpu \in Task
  BY <1>1, Executing
<1>3. arg[cpu][2] \in Prio
  BY <1>1, <1>2 DEF IInv, Calls
<1> QED BY <1>1, <1>2, <1>3, SetPriorityStep

LEMMA SetParamStep ==
    ASSUME IInv, NEW u \in Task, NEW p \in Prio, nxsched_set_param(u, p)
    PROVE  StepOK
<1> USE DEF nxsched_set_param
<1>i. Consistent(sched, {}) /\ cpu = this_task(sched) /\ cpu \in Task /\ cpu \in Tcb
  BY Executing
<1>l. sched.lock[cpu] \in 0..MaxLock /\ sched.lock[cpu] + 1 \in 0..MaxLock
  <2>1. sched.lock \in [Tcb -> 0..MaxLock]
    BY <1>i, Fields DEF Consistent
  <2> QED BY <2>1, <1>i, SchedAssumption
<1>1. sched' = [sched EXCEPT !.lock = [sched.lock EXCEPT ![cpu] = sched.lock[cpu] + 1]]
  OBVIOUS
<1>2. /\ Consistent(sched', {}) /\ this_task(sched') = this_task(sched)
      /\ Ready(sched') = Ready(sched) /\ sched'.pending = sched.pending
      /\ sched'.state = sched.state
      /\ sched'.lock[cpu] = sched.lock[cpu] + 1
      /\ \A v \in Tcb \ {cpu} : sched'.lock[v] = sched.lock[v]
  BY <1>1, <1>i, <1>l, LockSet
<1> DEFINE a == <<u, p>>
<1>3. a \in Tcb \X (0..MaxPrio) /\ a \in Task \X Prio /\ Goto(cpu, "param", a)
  BY SchedAssumption DEF Prio, Tcb
<1> HIDE DEF a
<1>4. Locals' /\ Calls'
  <2>1. \A v \in Task \ {cpu} : sched'.lock[v] = sched.lock[v]
    BY <1>2 DEF Tcb
  <2>2. timeslice' \in [Tcb -> 0..RRInterval]
    BY DEF IInv, Locals
  <2> QED BY <2>1, <2>2, <1>3, <1>i, Moves
<1>5. islocked(sched', cpu) /\ cpu' = cpu
  BY <1>2, <1>l DEF islocked
<1>6. IInv'
  BY <1>2, <1>4, <1>5, <1>i DEF IInv, PendingOnlyIfLocked
<1>7. KeepsCpu /\ HandsOver
  BY <1>2, <1>5 DEF KeepsCpu, HandsOver, Blocked, Runnable
<1> QED BY <1>6, <1>7 DEF StepOK

LEMMA SetParamApplyStep ==
    ASSUME IInv, nxsched_set_param_apply
    PROVE  StepOK
<1>1. /\ pc[cpu] = "param"
      /\ IfSwitchNeeded(nxsched_set_priority(sched, arg[cpu][1], arg[cpu][2]))
      /\ Goto(cpu, "leave", NoArg) /\ timeslice' = timeslice
  BY DEF nxsched_set_param_apply
<1>2. cpu \in Task
  BY <1>1, Executing
<1>3. arg[cpu][1] \in Task /\ arg[cpu][2] \in Prio
  BY <1>1, <1>2 DEF IInv, Calls
<1> QED BY <1>1, <1>2, <1>3, SetPriorityStep

LEMMA RoundRobinStep ==
    ASSUME IInv, nxsched_process_roundrobin
    PROVE  StepOK
<1> USE DEF nxsched_process_roundrobin
<1> DEFINE t == this_task(sched)
           left == IF timeslice[t] > 0 THEN timeslice[t] - 1 ELSE 0
           expired == left = 0 /\ ~islocked(sched, t)
<1>i. /\ Consistent(sched, {}) /\ cpu = t /\ t \in Task /\ t \in Tcb /\ t \in Ready(sched)
      /\ Runnable(sched, t)
  BY Executing, SchedAssumption
<1>1. timeslice' \in [Tcb -> 0..RRInterval]
  <2>1. timeslice \in [Tcb -> 0..RRInterval]
    BY DEF IInv, Locals
  <2>2. left \in 0..RRInterval /\ RRInterval \in 0..RRInterval
    BY <2>1, <1>i, SchedAssumption
  <2>3. timeslice' = [timeslice EXCEPT ![t] = IF expired THEN RRInterval ELSE left]
    OBVIOUS
  <2> HIDE DEF t, left, expired
  <2> QED BY <2>1, <2>2, <2>3
<1>2. pc' = pc /\ arg' = arg
  OBVIOUS
<1>3. ASSUME sched'.lock = sched.lock
      PROVE  Locals' /\ Calls'
  BY <1>1, <1>2, <1>3 DEF IInv, Locals, Calls
<1>4. CASE UNCHANGED <<sched, cpu>>
  <2>1. IInv'
    BY <1>4, <1>2, <1>3 DEF IInv, PendingOnlyIfLocked
  <2> QED BY <2>1, <1>4, ListsKept DEF StepOK
<1>5. CASE expired /\ Switch(nxsched_reprioritize_rtr(sched, t, sched.prio[t]))
  <2> DEFINE p == sched.prio[t]
             m == nxsched_reprioritize_rtr(sched, t, p)
  <2>e. m = nxsched_reprioritize_rtr(sched, t, p) /\ Switch(m) /\ ~islocked(sched, t)
    BY <1>5
  <2>p. p \in Prio
    BY <1>i DEF Consistent, IdleReady
  <2>c. t = this_task(sched)
    OBVIOUS
  <2> HIDE DEF m, t, p
  <2>1. Reordered(sched, m)
    BY <2>e, <2>p, <1>i, Reprioritize
  <2>2. /\ Consistent(m, {}) /\ m.lock = sched.lock /\ Ready(m) = Ready(sched)
        /\ m.pending # <<>> => islocked(m, this_task(m)) \/ sched.pending # <<>>
    BY <2>1 DEF Reordered
  <2>3. /\ Consistent(sched', {}) /\ cpu' = this_task(sched') /\ cpu' = this_task(m)
        /\ Ready(sched') = Ready(m) /\ sched'.pending = m.pending
        /\ sched'.lock = m.lock
    BY <2>e, <2>c, <2>2, <1>i, SwitchTo
  <2>4. PendingOnlyIfLocked'
    <3> SUFFICES ASSUME m.pending # <<>>, ~islocked(m, this_task(m))
                 PROVE  \E u \in Task : pc'[u] = "merge"
      BY <2>3 DEF PendingOnlyIfLocked, islocked
    <3> QED BY <2>2, <2>e, <2>c, <1>2 DEF IInv, PendingOnlyIfLocked
  <2>5. ~Blocked(sched', cpu)
    BY <2>2, <2>3, <1>i, ReadyNotBlocked
  <2>6. IInv'
    BY <2>2, <2>3, <2>4, <1>3 DEF IInv
  <2> QED BY <2>5, <2>6, <2>e, <1>i DEF StepOK, KeepsCpu, HandsOver
<1> QED BY <1>4, <1>5

-----------------------------------------------------------------------------
(* Blocking and waking *)

\* The running task gives up the CPU: after that, r is the record.
LEMMA GiveUp ==
    ASSUME IInv, NEW r, Consistent(r, {}), r.pending # <<>> => islocked(r, this_task(r)),
           Blocked(r, cpu), Switch(r), Locals', Calls'
    PROVE  StepOK
<1>1. /\ Consistent(sched', {}) /\ cpu' = this_task(sched') /\ cpu' = this_task(r)
      /\ sched'.pending = r.pending /\ sched'.lock = r.lock /\ sched'.state = r.state
  BY Executing, SwitchTo
<1>2. sched'.pending # <<>> => islocked(sched', this_task(sched'))
  BY <1>1 DEF islocked
<1>3. IInv'
  BY <1>1, <1>2 DEF IInv, PendingOnlyIfLocked
<1>4. Blocked(sched', cpu)
  BY <1>1 DEF Blocked
<1>5. \/ islocked(sched', cpu')
      \/ \A t \in Task : Runnable(sched', t) \/ sched'.state[t] = "PENDING"
                            => sched'.prio[t] <= sched'.prio[cpu']
  BY <1>1, <1>2, HighestRuns
<1> QED BY <1>3, <1>4, <1>5 DEF StepOK, KeepsCpu, HandsOver

LEMMA WaitStep ==
    ASSUME IInv, Wait
    PROVE  StepOK
<1> USE DEF Wait
<1>i. Consistent(sched, {}) /\ cpu = this_task(sched) /\ cpu \in Task
  BY Executing
<1> DEFINE r == nxsched_remove_readytorun(sched, cpu)
           k == nxsched_remove_self(sched, cpu)
           w == [k EXCEPT !.state = [k.state EXCEPT ![cpu] = "WAIT_SEM"],
                          !.waiting = nxsched_add_prioritized(k.waiting, k.prio, cpu)]
<1>1. Switch(w)
  OBVIOUS
<1>r. r = nxsched_remove_readytorun(sched, cpu)
  OBVIOUS
<1>k. MergedIfAny(r, k)
  BY DEF MergedIfAny, nxsched_remove_self
<1>w. Waits(k, cpu, w)
  BY DEF Waits
<1> HIDE DEF r, k, w
<1>2. /\ Consistent(k, {cpu}) /\ k.lock = sched.lock
      /\ k.pending # <<>> => islocked(k, this_task(k))
  <2>1. Removed(sched, cpu, r, k)
    BY <1>r, <1>k, <1>i, RemoveAndMerge
  <2> QED BY ONLY <2>1 DEF Removed
<1>3. /\ Consistent(w, {}) /\ w.lock = k.lock /\ this_task(w) = this_task(k)
      /\ w.pending = k.pending /\ w.state[cpu] = "WAIT_SEM"
  BY <1>w, <1>2, <1>i, StartWaiting
<1>4. Blocked(w, cpu) /\ (w.pending # <<>> => islocked(w, this_task(w)))
  BY <1>2, <1>3 DEF Blocked, islocked
<1>5. Locals' /\ Calls'
  <2>1. sched'.lock = sched.lock
    <3>1. sched'.lock = w.lock
      BY <1>1, <1>3, <1>i, SwitchTo
    <3> QED BY <3>1, <1>2, <1>3
  <2>2. UNCHANGED <<pc, arg, timeslice>>
    OBVIOUS
  <2> QED BY <2>1, <2>2, LocalsKept
<1> QED BY <1>1, <1>3, <1>4, <1>5, GiveUp

\* k is the record while t is made ready: the lists of the other tasks are the ones
\* that the running task knows.
Incoming(k, t) ==
    /\ Consistent(k, {t}) /\ k.lock = sched.lock /\ this_task(k) = this_task(sched)
    /\ k.pending = sched.pending /\ Ready(sched) \subseteq Ready(k) \cup {t}

LEMMA AddStep ==
    ASSUME IInv, NEW t \in Task, NEW k, Incoming(k, t),
           NEW a, a = nxsched_add_readytorun(k, t), Switch(a) \/ IfSwitchNeeded(a),
           UNCHANGED <<pc, arg, timeslice>>
    PROVE  StepOK
<1>i. Consistent(sched, {}) /\ cpu = this_task(sched) /\ cpu \in Ready(sched)
  BY Executing
<1>k. /\ Consistent(k, {t}) /\ k.lock = sched.lock /\ this_task(k) = this_task(sched)
      /\ k.pending = sched.pending /\ Ready(sched) \subseteq Ready(k) \cup {t}
  BY DEF Incoming
<1>1. /\ Consistent(a, {}) /\ a.lock = k.lock /\ Ready(a) = Ready(k) \cup {t}
      /\ a.ret <=> this_task(a) # this_task(k)
      /\ islocked(k, this_task(k)) => this_task(a) = this_task(k)
      /\ ~islocked(k, this_task(k)) => a.pending = k.pending
  BY <1>k, AddReady
<1>2. /\ Consistent(sched', {}) /\ cpu' = this_task(sched') /\ cpu' = this_task(a)
      /\ Ready(sched') = Ready(a) /\ sched'.pending = a.pending
      /\ sched'.lock = a.lock
  BY <1>1, <1>k, <1>i, SwitchTo
<1>3. Locals' /\ Calls'
  BY <1>1, <1>2, <1>k, LocalsKept
<1>4. PendingOnlyIfLocked'
  <2>1. CASE islocked(sched, cpu)
    BY <2>1, <1>1, <1>2, <1>k, <1>i DEF PendingOnlyIfLocked, islocked
  <2>2. CASE ~islocked(sched, cpu)
    <3>1. sched'.pending = sched.pending
      BY <2>2, <1>1, <1>2, <1>k, <1>i DEF islocked
    <3> QED BY <2>2, <3>1, <1>i DEF IInv, PendingOnlyIfLocked
  <2> QED BY <2>1, <2>2
<1>5. ~Blocked(sched', cpu)
  BY <1>1, <1>2, <1>k, <1>i, ReadyNotBlocked
<1>6. islocked(sched, cpu) => cpu' = cpu
  BY <1>1, <1>2, <1>k, <1>i DEF islocked
<1>7. IInv'
  BY <1>2, <1>3, <1>4 DEF IInv
<1> QED BY <1>5, <1>6, <1>7 DEF StepOK, KeepsCpu, HandsOver

LEMMA WakeStep ==
    ASSUME IInv, NEW t \in Task, NEW isr \in BOOLEAN, Wake(t, isr)
    PROVE  StepOK
<1>i. Consistent(sched, {}) /\ cpu = this_task(sched) /\ cpu \in Ready(sched)
  BY Executing
<1> DEFINE k == nxsched_remove_blocked(sched, t)
           a == nxsched_add_readytorun(k, t)
<1>k. k = nxsched_remove_blocked(sched, t)
  OBVIOUS
<1>a. a = nxsched_add_readytorun(k, t)
  OBVIOUS
<1>1. /\ t \in Members(sched.waiting) /\ (Switch(a) \/ IfSwitchNeeded(a))
      /\ UNCHANGED <<pc, arg, timeslice>>
  BY DEF Wake
<1> HIDE DEF k, a
<1>2. sched.state[t] = "WAIT_SEM"
  BY <1>1, <1>i DEF Consistent, Named, Tcb
<1>3. this_task(sched) # t
  BY <1>2, <1>i, Executing DEF Runnable
<1>4. Incoming(k, t)
  BY <1>k, <1>2, <1>3, <1>i, RemoveBlocked DEF Incoming
<1> QED BY <1>1, <1>4, <1>a, AddStep

LEMMA ContinueStep ==
    ASSUME IInv, NEW t \in Task, NEW isr \in BOOLEAN, Continue(t, isr)
    PROVE  StepOK
<1>i. Consistent(sched, {}) /\ cpu = this_task(sched) /\ cpu \in Ready(sched)
  BY Executing
<1> DEFINE a == nxsched_add_readytorun(sched, t)
<1>a. a = nxsched_add_readytorun(sched, t)
  OBVIOUS
<1>1. /\ sched.state[t] = "STOPPED" /\ (Switch(a) \/ IfSwitchNeeded(a))
      /\ UNCHANGED <<pc, arg, timeslice>>
  BY DEF Continue
<1> HIDE DEF a
<1>2. Incoming(sched, t)
  BY <1>1, <1>i, TakeOut DEF Incoming
<1> QED BY <1>1, <1>2, <1>a, AddStep

-----------------------------------------------------------------------------
(* The life of a task *)

\* r is the record k with the task t in state s, in no list.
Shelved(k, t, s, r) ==
    /\ r \in SchedRecord
    /\ r.readytorun = k.readytorun /\ r.pending = k.pending /\ r.waiting = k.waiting
    /\ r.state = [k.state EXCEPT ![t] = s] /\ r.prio = k.prio /\ r.lock = k.lock

LEMMA Shelve ==
    ASSUME NEW k, NEW t \in Task, Consistent(k, {t}), NEW s \in {"INACTIVE", "STOPPED"},
           NEW r, Shelved(k, t, s, r)
    PROVE  /\ Consistent(r, {}) /\ Ready(r) = Ready(k) /\ this_task(r) = this_task(k)
           /\ r.pending = k.pending /\ r.lock = k.lock /\ Blocked(r, t)
<1>k. /\ k.state \in [Tcb -> TaskState] /\ t \in Tcb /\ k.prio[t] \in Prio
  BY Fields DEF Consistent, Tcb, IdleReady
<1>1. r.state[t] = s /\ \A u \in Tcb \ {t} : r.state[u] = k.state[u]
  BY <1>k DEF Shelved
<1>2. Parked(k, t, r)
  BY <1>1, <1>k DEF Parked, Shelved
<1> QED BY <1>1, <1>2, Park DEF Shelved, Blocked

\* A task that exits or is deleted is released.
LEMMA Released ==
    ASSUME NEW k, NEW t \in Task, Consistent(k, {t}), NEW r, r = Release(k, t)
    PROVE  /\ Consistent(r, {}) /\ Ready(r) = Ready(k) /\ this_task(r) = this_task(k)
           /\ r.pending = k.pending /\ r.ret = FALSE /\ Blocked(r, t)
           /\ \A u \in Tcb \ {t} : r.lock[u] = k.lock[u]
<1>k. /\ k \in SchedRecord /\ t \in Tcb
      /\ k.state \in [Tcb -> TaskState] /\ k.prio \in [Tcb -> 0..MaxPrio]
      /\ k.lock \in [Tcb -> 0..MaxLock]
  BY Fields DEF Consistent, Tcb
<1>a. 1 \in 0..MaxPrio /\ 1 \in Prio /\ 0 \in 0..MaxLock
  BY SchedAssumption DEF Prio
<1> DEFINE s == [k.state EXCEPT ![t] = "INACTIVE"]
           q == [k.prio EXCEPT ![t] = 1]
           l == [k.lock EXCEPT ![t] = 0]
<1>1. /\ s \in [Tcb -> TaskState] /\ s[t] = "INACTIVE"
      /\ \A u \in Tcb \ {t} : s[u] = k.state[u]
  BY <1>k DEF TaskState
<1>2. q \in [Tcb -> 0..MaxPrio] /\ q[t] \in Prio /\ \A u \in Tcb \ {t} : q[u] = k.prio[u]
  BY <1>k, <1>a
<1>3. l \in [Tcb -> 0..MaxLock] /\ \A u \in Tcb \ {t} : l[u] = k.lock[u]
  BY <1>k, <1>a
<1>4. r = [k EXCEPT !.state = s, !.prio = q, !.lock = l, !.ret = FALSE]
  BY DEF Release
<1> HIDE DEF s, q, l
<1>5. /\ r \in SchedRecord /\ r.state = s /\ r.prio = q /\ r.lock = l /\ r.ret = FALSE
      /\ r.readytorun = k.readytorun /\ r.pending = k.pending /\ r.waiting = k.waiting
  BY ONLY <1>k, <1>1, <1>2, <1>3, <1>4 DEF SchedRecord
<1>6. Parked(k, t, r)
  BY <1>1, <1>2, <1>3, <1>5 DEF Parked
<1> QED BY <1>1, <1>3, <1>5, <1>6, Park DEF Blocked

\* What the released task held is gone with it.
LEMMA LocalsReleased ==
    ASSUME IInv, NEW t \in Task, ReleaseLocals(t),
           \A u \in Task \ {t} : sched'.lock[u] = sched.lock[u]
    PROVE  Locals' /\ Calls'
<1>1. /\ Goto(t, "run", NoArg) /\ timeslice' = [timeslice EXCEPT ![t] = RRInterval]
      /\ timeslice \in [Tcb -> 0..RRInterval]
  BY DEF ReleaseLocals, IInv, Locals
<1>2. timeslice' \in [Tcb -> 0..RRInterval]
  BY <1>1, SchedAssumption DEF Tcb
<1>3. NoArg \in Tcb \X (0..MaxPrio)
  BY SchedAssumption DEF NoArg, Tcb
<1> QED BY <1>1, <1>2, <1>3, Moves

LEMMA ActivateStep ==
    ASSUME IInv, NEW t \in Task, NEW p \in Prio, nxtask_activate(t, p)
    PROVE  StepOK
<1>i. Consistent(sched, {}) /\ cpu = this_task(sched) /\ cpu \in Ready(sched)
  BY Executing
<1> DEFINE q == [sched EXCEPT !.prio = [sched.prio EXCEPT ![t] = p]]
           k == nxsched_remove_blocked(q, t)
           a == nxsched_add_readytorun(k, t)
<1>k. k = nxsched_remove_blocked(q, t)
  OBVIOUS
<1>a. a = nxsched_add_readytorun(k, t)
  OBVIOUS
<1>q. GivenPrio(sched, t, p, q)
  BY DEF GivenPrio
<1>1. /\ sched.state[t] = "INACTIVE" /\ IfSwitchNeeded(a)
      /\ UNCHANGED <<pc, arg, timeslice>>
  BY DEF nxtask_activate
<1> HIDE DEF q, k, a
<1>2. Consistent(sched, {t})
  BY <1>1, <1>i, TakeOut
<1>3. /\ Consistent(q, {t}) /\ q.lock = sched.lock /\ Ready(q) = Ready(sched)
      /\ q.readytorun = sched.readytorun /\ q.pending = sched.pending
      /\ q.state = sched.state
  BY <1>2, <1>q, PrioOut
<1>4. Consistent(q, {})
  <2>1. q.prio[t] \in Prio /\ q \in SchedRecord
    BY <1>3 DEF Consistent, IdleReady
  <2>2. Parked(q, t, q)
    BY <2>1, <1>1, <1>3 DEF Parked
  <2> QED BY <2>2, <1>3, Park
<1>5. this_task(q) = this_task(sched) /\ this_task(q) # t
  <2>1. this_task(q) # t
    BY <1>3, Heads
  <2> QED BY <2>1, <1>3 DEF this_task
<1>6. Incoming(k, t)
  BY <1>k, <1>1, <1>3, <1>4, <1>5, RemoveBlocked DEF Incoming
<1> QED BY <1>1, <1>6, <1>a, AddStep

LEMMA ExitStep ==
    ASSUME IInv, nxtask_exit
    PROVE  StepOK
<1> USE DEF nxtask_exit
<1>i. Consistent(sched, {}) /\ cpu = this_task(sched) /\ cpu \in Task
  BY Executing
<1> DEFINE r == nxsched_remove_readytorun(sched, cpu)
           m == nxsched_remove_self(sched, cpu)
           x == Release(m, cpu)
<1>r. r = nxsched_remove_readytorun(sched, cpu)
  OBVIOUS
<1>m. MergedIfAny(r, m)
  BY DEF MergedIfAny, nxsched_remove_self
<1>x. x = Release(m, cpu) /\ Switch(x) /\ ReleaseLocals(cpu)
  OBVIOUS
<1> HIDE DEF r, m, x
<1>1. /\ Consistent(m, {cpu}) /\ m.lock = sched.lock
      /\ m.pending # <<>> => islocked(m, this_task(m))
  <2>1. Removed(sched, cpu, r, m)
    BY <1>r, <1>m, <1>i, RemoveAndMerge
  <2> QED BY ONLY <2>1 DEF Removed
<1>2. /\ Consistent(x, {}) /\ this_task(x) = this_task(m) /\ x.pending = m.pending
      /\ Blocked(x, cpu) /\ \A u \in Tcb \ {cpu} : x.lock[u] = m.lock[u]
  <2>1. cpu \in Task /\ Consistent(m, {cpu}) /\ x = Release(m, cpu)
    BY <1>1, <1>i, <1>x
  <2> QED BY ONLY <2>1, Released
<1>3. x.pending # <<>> => islocked(x, this_task(x))
  <2>1. this_task(m) \in Tcb \ {cpu}
    BY <1>1, Heads
  <2> QED BY <2>1, <1>1, <1>2 DEF islocked
<1>4. Locals' /\ Calls'
  <2>1. sched'.lock = x.lock
    BY <1>2, <1>x, <1>i, SwitchTo
  <2>2. \A u \in Task \ {cpu} : sched'.lock[u] = sched.lock[u]
    BY <2>1, <1>1, <1>2 DEF Tcb
  <2> QED BY <2>2, <1>x, <1>i, LocalsReleased
<1> QED BY <1>2, <1>3, <1>4, <1>x, GiveUp

LEMMA TerminateStep ==
    ASSUME IInv, NEW t \in Task, nxtask_terminate(t)
    PROVE  StepOK
<1>i. Consistent(sched, {}) /\ cpu = this_task(sched) /\ cpu \in Ready(sched)
  BY Executing
<1> DEFINE r == nxsched_remove_readytorun(sched, t)
           m == IF r.pending # <<>> THEN nxsched_merge_pending(r) ELSE r
<1>r. r = nxsched_remove_readytorun(sched, t)
  OBVIOUS
<1>m. MergedIfAny(r, m)
  BY DEF MergedIfAny
<1>x. /\ t # cpu /\ sched' = Release(m, t)
      /\ cpu' = IF m.ret THEN this_task(m) ELSE cpu
      /\ ReleaseLocals(t)
  BY DEF nxtask_terminate
<1> HIDE DEF r, m
<1>1. /\ Consistent(m, {t}) /\ m.lock = sched.lock /\ Ready(m) = Ready(sched) \ {t}
      /\ m.pending # <<>> => islocked(m, this_task(m))
      /\ m.ret <=> this_task(m) # this_task(sched)
      /\ islocked(sched, this_task(sched)) => this_task(m) = this_task(sched)
  <2>1. t \in Task /\ Consistent(sched, {}) /\ this_task(sched) # t
    BY <1>i, <1>x
  <2>2. Removed(sched, t, r, m)
    BY ONLY <2>1, <1>r, <1>m, RemoveAndMerge
  <2> QED BY ONLY <2>1, <2>2 DEF Removed
<1>2. /\ Consistent(sched', {}) /\ this_task(sched') = this_task(m)
      /\ Ready(sched') = Ready(m) /\ sched'.pending = m.pending
      /\ \A u \in Tcb \ {t} : sched'.lock[u] = m.lock[u]
  <2>1. t \in Task /\ Consistent(m, {t}) /\ sched' = Release(m, t)
    BY <1>1, <1>x
  <2> QED BY ONLY <2>1, Released
<1>3. cpu' = this_task(sched')
  BY <1>1, <1>2, <1>x, <1>i
<1>4. PendingOnlyIfLocked'
  <2>1. this_task(m) \in Tcb \ {t}
    BY <1>1, Heads
  <2> QED BY <2>1, <1>1, <1>2 DEF islocked, PendingOnlyIfLocked
<1>5. Locals' /\ Calls'
  <2>1. \A u \in Task \ {t} : sched'.lock[u] = sched.lock[u]
    BY <1>1, <1>2 DEF Tcb
  <2> QED BY <2>1, <1>x, LocalsReleased
<1>6. IInv'
  BY <1>2, <1>3, <1>4, <1>5 DEF IInv
<1>7. ~Blocked(sched', cpu)
  BY <1>1, <1>2, <1>i, <1>x, ReadyNotBlocked
<1>8. islocked(sched, cpu) => cpu' = cpu
  BY <1>1, <1>2, <1>3, <1>i
<1> QED BY <1>6, <1>7, <1>8 DEF StepOK, KeepsCpu, HandsOver

\* A task that waits is stopped.
LEMMA SuspendBlocked ==
    ASSUME IInv, NEW t \in Task, nxsched_suspend(t), Blocked(sched, t)
    PROVE  StepOK
<1>i. Consistent(sched, {}) /\ cpu = this_task(sched) /\ cpu \in Ready(sched)
      /\ Runnable(sched, cpu)
  BY Executing
<1> DEFINE r == nxsched_remove_blocked(sched, t)
<1>r. r = nxsched_remove_blocked(sched, t)
  OBVIOUS
<1>x. /\ sched' = [r EXCEPT !.state = [r.state EXCEPT ![t] = "STOPPED"]]
      /\ cpu' = cpu /\ UNCHANGED <<pc, arg, timeslice>>
  BY DEF nxsched_suspend
<1> HIDE DEF r
<1>1. t # cpu /\ sched.state[t] # "PENDING"
  BY <1>i DEF Blocked, Runnable
<1>2. /\ Consistent(r, {t}) /\ r.lock = sched.lock /\ Ready(r) = Ready(sched) \ {t}
      /\ this_task(r) = this_task(sched) /\ r.pending = sched.pending
  BY <1>r, <1>1, <1>i, RemoveBlocked
<1>3. Shelved(r, t, "STOPPED", sched')
  <2>1. r \in SchedRecord /\ r.state \in [Tcb -> TaskState]
    BY <1>2, Fields DEF Consistent
  <2>2. [r.state EXCEPT ![t] = "STOPPED"] \in [Tcb -> TaskState]
    BY <2>1 DEF TaskState
  <2> DEFINE s == [r.state EXCEPT ![t] = "STOPPED"]
  <2>3. sched' = [r EXCEPT !.state = s] /\ s \in [Tcb -> TaskState]
    BY <1>x, <2>2
  <2> HIDE DEF s
  <2>4. /\ sched' \in SchedRecord /\ sched'.state = s
        /\ sched'.readytorun = r.readytorun /\ sched'.pending = r.pending
        /\ sched'.waiting = r.waiting /\ sched'.prio = r.prio /\ sched'.lock = r.lock
    BY ONLY <2>1, <2>3 DEF SchedRecord
  <2> QED BY <2>4 DEF Shelved, s
<1>4. /\ Consistent(sched', {}) /\ Ready(sched') = Ready(r)
      /\ this_task(sched') = this_task(r)
      /\ sched'.pending = r.pending /\ sched'.lock = r.lock
  BY <1>2, <1>3, Shelve
<1>5. Locals' /\ Calls'
  BY <1>2, <1>4, <1>x, LocalsKept
<1>6. PendingOnlyIfLocked'
  BY <1>2, <1>4, <1>x DEF IInv, PendingOnlyIfLocked, islocked
<1>7. IInv'
  BY <1>2, <1>4, <1>5, <1>6, <1>x, <1>i DEF IInv
<1>8. ~Blocked(sched', cpu)
  BY <1>1, <1>2, <1>4, <1>i, ReadyNotBlocked
<1> QED BY <1>7, <1>8, <1>x DEF StepOK, KeepsCpu, HandsOver

\* A ready task, the running one perhaps, is stopped.
LEMMA SuspendReady ==
    ASSUME IInv, NEW t \in Task, nxsched_suspend(t), ~Blocked(sched, t)
    PROVE  StepOK
<1>i. Consistent(sched, {}) /\ cpu = this_task(sched) /\ cpu \in Ready(sched)
  BY Executing
<1> DEFINE r == nxsched_remove_readytorun(sched, t)
           m == IF r.pending # <<>> THEN nxsched_merge_pending(r) ELSE r
           b == r.ret \/ m.ret
           x == [m EXCEPT !.state = [m.state EXCEPT ![t] = "STOPPED"], !.ret = b]
<1>r. r = nxsched_remove_readytorun(sched, t)
  OBVIOUS
<1>m. MergedIfAny(r, m)
  BY DEF MergedIfAny
<1>b. b <=> r.ret \/ m.ret
  OBVIOUS
<1>c. b \in BOOLEAN
  OBVIOUS
<1>x. /\ IfSwitchNeeded(x) /\ UNCHANGED <<pc, arg, timeslice>>
  BY DEF nxsched_suspend
<1>y. x = [m EXCEPT !.state = [m.state EXCEPT ![t] = "STOPPED"], !.ret = b]
  OBVIOUS
<1> HIDE DEF r, m, b, x
<1>1. /\ Consistent(m, {t}) /\ m.lock = sched.lock /\ Ready(m) = Ready(sched) \ {t}
      /\ m.pending # <<>> => islocked(m, this_task(m))
      /\ this_task(sched) # t =>
            /\ m.ret <=> this_task(m) # this_task(sched)
            /\ ~r.ret
            /\ islocked(sched, this_task(sched)) => this_task(m) = this_task(sched)
      /\ this_task(sched) = t => r.ret
  <2>1. t \in Task /\ Consistent(sched, {})
    BY <1>i
  <2>2. Removed(sched, t, r, m)
    BY ONLY <2>1, <1>r, <1>m, RemoveAndMerge
  <2> QED BY ONLY <2>2 DEF Removed
<1>2. Shelved(m, t, "STOPPED", x) /\ x.ret = b
  <2>1. m \in SchedRecord /\ m.state \in [Tcb -> TaskState]
    BY <1>1, Fields DEF Consistent
  <2>2. [m.state EXCEPT ![t] = "STOPPED"] \in [Tcb -> TaskState]
    BY <2>1 DEF TaskState
  <2> DEFINE s == [m.state EXCEPT ![t] = "STOPPED"]
  <2>3. x = [m EXCEPT !.state = s, !.ret = b] /\ s \in [Tcb -> TaskState]
    BY <1>y, <2>2
  <2> HIDE DEF s
  <2>4. /\ x \in SchedRecord /\ x.state = s /\ x.ret = b
        /\ x.readytorun = m.readytorun /\ x.pending = m.pending
        /\ x.waiting = m.waiting /\ x.prio = m.prio /\ x.lock = m.lock
    BY ONLY <2>1, <2>3, <1>c DEF SchedRecord
  <2> QED BY <2>4 DEF Shelved, s
<1>3. /\ Consistent(x, {}) /\ Ready(x) = Ready(m) /\ this_task(x) = this_task(m)
      /\ x.pending = m.pending /\ x.lock = m.lock /\ Blocked(x, t)
  BY <1>1, <1>2, Shelve
<1>4. x.pending # <<>> => islocked(x, this_task(x))
  BY <1>1, <1>3 DEF islocked
<1>5. ~x.ret => this_task(x) = this_task(sched)
  BY <1>1, <1>2, <1>3, <1>b
<1>6. /\ Consistent(sched', {}) /\ cpu' = this_task(sched') /\ cpu' = this_task(x)
      /\ Ready(sched') = Ready(x) /\ sched'.pending = x.pending
      /\ sched'.lock = x.lock /\ sched'.state = x.state
  BY <1>3, <1>5, <1>x, <1>i, SwitchTo
<1>7. Locals' /\ Calls'
  BY <1>1, <1>3, <1>6, <1>x, LocalsKept
<1>8. CASE t = cpu
  <2>1. Switch(x)
    BY <1>8, <1>1, <1>2, <1>b, <1>x, <1>i DEF Switch, IfSwitchNeeded
  <2> QED BY <2>1, <1>8, <1>3, <1>4, <1>7, GiveUp
<1>9. CASE t # cpu
  <2>1. IInv'
    BY <1>4, <1>6, <1>7 DEF IInv, PendingOnlyIfLocked, islocked
  <2>2. ~Blocked(sched', cpu)
    BY <1>9, <1>1, <1>3, <1>6, <1>i, ReadyNotBlocked
  <2>3. islocked(sched, cpu) => cpu' = cpu
    BY <1>9, <1>1, <1>3, <1>6, <1>i
  <2> QED BY <2>1, <2>2, <2>3 DEF StepOK, KeepsCpu, HandsOver
<1> QED BY <1>8, <1>9

-----------------------------------------------------------------------------
(* The theorems *)

\* Every step keeps the invariant and does what the action properties ask.
LEMMA NextStep == ASSUME IInv, [Next]_vars PROVE StepOK
<1>1. ASSUME NEW t \in Task, nxsched_suspend(t)
      PROVE  StepOK
  BY <1>1, SuspendBlocked, SuspendReady
<1>2. CASE UNCHANGED vars
  <2>1. IInv'
    BY <1>2 DEF vars, IInv, Locals, Calls, PendingOnlyIfLocked
  <2>2. UNCHANGED <<sched, cpu>>
    BY <1>2 DEF vars
  <2> QED BY <2>1, <2>2, ListsKept DEF StepOK
<1>3. CASE Next
  BY <1>1, <1>3, LockStep, UnlockStep, UnlockMergeStep, YieldStep, YieldSetStep,
     SetParamStep, SetParamApplyStep, WaitStep, WakeStep, ContinueStep, TerminateStep,
     ActivateStep, ExitStep, RoundRobinStep DEF Next
<1> QED BY <1>2, <1>3

LEMMA Invariance == Spec => []IInv
<1>1. ASSUME IInv, [Next]_vars PROVE IInv'
  BY <1>1, NextStep DEF StepOK
<1> QED BY <1>1, InitIInv, PTL DEF Spec

\* What the invariant means for the properties
LEMMA Meaning ==
    ASSUME IInv
    PROVE  TypeOK /\ StateNamesList /\ ListsDescending /\ HeadIsExecuting
           /\ PendingOnlyIfLocked
<1>1. /\ sched \in SchedRecord /\ Sorted(sched) /\ Named(sched, {})
      /\ cpu = this_task(sched) /\ Locals /\ PendingOnlyIfLocked /\ cpu \in Tcb
  BY Executing DEF IInv, Consistent
<1>2. TypeOK
  BY <1>1 DEF TypeOK, Locals
<1>3. StateNamesList
  BY <1>1 DEF StateNamesList, Named, Sorted, Proper
<1>4. ListsDescending
  BY <1>1 DEF ListsDescending, Sorted, Proper
<1>5. HeadIsExecuting
  BY <1>1 DEF HeadIsExecuting, Named, this_task
<1> QED BY <1>1, <1>2, <1>3, <1>4, <1>5

\* Every variable of the scheduler keeps its type.
THEOREM SchedTypeCorrect == Spec => []TypeOK
BY Invariance, Meaning, PTL

\* Whatever sequence of locks, yields, waits, wake-ups, suspensions, exits and
\* timer ticks ran, task_state names the one list that holds the TCB, once.
THEOREM SchedStateNamesList == Spec => []StateNamesList
BY Invariance, Meaning, PTL

\* g_readytorun, g_pendingtasks and the wait list stay in descending priority
\* order, so the early exits of the insertion loops are right.
THEOREM SchedListsDescending == Spec => []ListsDescending
BY Invariance, Meaning, PTL

\* The CPU executes the head of the ready-to-run list and only that task is in state
\* RUNNING: each bool that asks for a context switch is right.
THEOREM SchedHeadIsExecuting == Spec => []HeadIsExecuting
BY Invariance, Meaning, PTL

\* No task is forgotten in g_pendingtasks: the running task has preemption disabled,
\* or some task is about to merge the list in sched_unlock.
THEOREM SchedPendingOnlyIfLocked == Spec => []PendingOnlyIfLocked
BY Invariance, Meaning, PTL

\* A task that has called sched_lock loses the CPU only by blocking, stopping or
\* exiting.
THEOREM SchedLockedTaskKeepsCpu == Spec => LockedTaskKeepsCpu
<1>1. ASSUME IInv, [Next]_vars
      PROVE  [islocked(sched, cpu) /\ cpu' # cpu => Blocked(sched', cpu)]_vars
  BY <1>1, NextStep DEF StepOK, KeepsCpu
<1> QED BY <1>1, Invariance, PTL DEF Spec, LockedTaskKeepsCpu

\* When the running task blocks, stops or exits, the CPU goes to a task of the
\* highest priority, the pending ones included, or to one that had disabled preemption.
THEOREM SchedHandoverToHighest == Spec => HandoverToHighest
<1>1. ASSUME IInv, [Next]_vars
      PROVE  [Blocked(sched', cpu) /\ Runnable(sched, cpu) =>
                \/ islocked(sched', cpu')
                \/ \A t \in Task : Runnable(sched', t) \/ sched'.state[t] = "PENDING"
                                        => sched'.prio[t] <= sched'.prio[cpu']]_vars
  BY <1>1, NextStep DEF StepOK, HandsOver
<1> QED BY <1>1, Invariance, PTL DEF Spec, HandoverToHighest
=============================================================================
