---------------------------- MODULE RwSemProofs ----------------------------
(***************************************************************************)
(* The reader-writer lock, for any number of tasks and any nesting: nobody *)
(* shares the lock with a writer, the counters are those of the locks that *)
(* tasks have, and a lock that is free has no sleeper, but for two cases.   *)
(***************************************************************************)
EXTENDS RwSem, TaskListProofs

-----------------------------------------------------------------------------
(* The inductive invariant *)

\* All locks that have to be released, each named by its task and its place
Locks == {x \in Task \X (1..MaxNest) : x[2] <= Len(held[x[1]])}

At(L) == {t \in Task : pc[t] \in L}
InCall == {"towait", "blocked", "woken", "dead"}

LocksCounted ==
    /\ \A t \in Task : Len(held[t]) <= MaxNest
    /\ reader + writer = Cardinality(Locks)

HolderAlone ==
    /\ holder = NoHolder => writer = 0 /\ \A t \in Task : ~Holds(t, "w")
    /\ holder # NoHolder =>
        /\ reader = 0 /\ writer > 0 /\ writer = Len(held[holder])
        /\ \A t \in Task \ {holder} : held[t] = <<>>

WaitersCounted ==
    /\ waiter = Cardinality(At(InCall))
    /\ At({"blocked"}) = Members(waitlist) \cup lost
    /\ Members(waitlist) \cap lost = {}
    /\ Distinct(waitlist) /\ Descending(waitlist, Prio)

\* The count of the semaphore is too low by the tasks that were lost, at most.
LostCounted == value + Cardinality(lost) >= 0

\* While the lock is free and its last release posted, there is a post for every
\* task that is on its way to nxsem_wait.
Posted ==
    reader = 0 /\ writer = 0 /\ ~silent =>
        waitlist = <<>> /\ value >= Cardinality(At({"towait"}))

\* A task that waits for a lock has room for it.
Room == \A t \in Task : pc[t] \in InCall => Len(held[t]) < MaxNest

IInv == TypeOK /\ LocksCounted /\ HolderAlone /\ WaitersCounted /\ LostCounted /\ Posted /\ Room

-----------------------------------------------------------------------------
(* Counting *)

\* A list without duplicates is as long as it has members.
LEMMA DistinctLen ==
    ASSUME NEW S, NEW list \in Seq(S), Distinct(list)
    PROVE  IsFiniteSet(Members(list)) /\ Cardinality(Members(list)) = Len(list)
<1>1. list \in Bijection(1..Len(list), Members(list))
  <2>1. list \in [1..Len(list) -> Members(list)]
    BY DEF Members
  <2>2. \A i, j \in 1..Len(list) : list[i] = list[j] => i = j
    BY DEF Distinct
  <2>3. \A x \in Members(list) : \E i \in 1..Len(list) : list[i] = x
    BY DEF Members
  <2> QED BY <2>1, <2>2, <2>3 DEF Bijection, Injection, Surjection, IsInjective
<1>2. Len(list) \in Nat /\ ExistsBijection(1..Len(list), Members(list))
  BY <1>1 DEF ExistsBijection
<1> QED BY <1>2, FS_CountingElements, FS_NatBijection

LEMMA AtFinite ==
    ASSUME NEW L
    PROVE  /\ IsFiniteSet(At(L)) /\ Cardinality(At(L)) \in Nat
           /\ Cardinality(At(L)) <= Cardinality(Task)
           /\ Cardinality(Task) \in Nat
BY RwSemAssumption, FS_Subset, FS_CardinalityType DEF At

LEMMA LocksFinite == IsFiniteSet(Locks) /\ Cardinality(Locks) \in Nat
<1>1. IsFiniteSet(Task) /\ IsFiniteSet(1..MaxNest)
  BY RwSemAssumption, FS_Interval
<1>2. IsFiniteSet(Task \X (1..MaxNest))
  BY <1>1, FS_Product
<1>3. Locks \in SUBSET (Task \X (1..MaxNest))
  BY DEF Locks
<1> QED BY <1>2, <1>3, FS_Subset, FS_CardinalityType

\* A task that moves from a label outside of L to one inside of it
LEMMA Enters ==
    ASSUME NEW L, NEW t \in Task, NEW l \in L, pc \in [Task -> Label], pc[t] \notin L,
           pc' = [pc EXCEPT ![t] = l]
    PROVE  Cardinality(At(L)') = Cardinality(At(L)) + 1
<1>1. At(L)' = At(L) \cup {t} /\ t \notin At(L)
  BY DEF At
<1> QED BY <1>1, AtFinite, FS_AddElement

LEMMA Leaves ==
    ASSUME NEW L, NEW t \in Task, NEW l, l \notin L, pc \in [Task -> Label], pc[t] \in L,
           pc' = [pc EXCEPT ![t] = l]
    PROVE  Cardinality(At(L)') = Cardinality(At(L)) - 1
<1>1. At(L)' = At(L) \ {t} /\ t \in At(L)
  BY DEF At
<1> QED BY <1>1, AtFinite, FS_RemoveElement

LEMMA Stays ==
    ASSUME NEW L, NEW t \in Task, NEW l, l \in L <=> pc[t] \in L, pc \in [Task -> Label],
           pc' = [pc EXCEPT ![t] = l]
    PROVE  At(L)' = At(L)
BY DEF At

\* One more lock is taken.
LEMMA TakeCounts ==
    ASSUME TypeOK, NEW t \in Task, NEW m \in {"r", "w"}, Len(held[t]) < MaxNest,
           held' = [held EXCEPT ![t] = Append(@, m)]
    PROVE  Cardinality(Locks') = Cardinality(Locks) + 1
<1> DEFINE n == Len(held[t]) + 1
<1>0. n \in 1..MaxNest
  BY RwSemAssumption DEF TypeOK
<1>1. /\ Len(held'[t]) = n /\ Len(held[t]) = n - 1
      /\ \A u \in Task \ {t} : held'[u] = held[u]
  BY DEF TypeOK
<1> HIDE DEF n
<1>2. \A u \in Task, i \in 1..MaxNest :
        i <= Len(held'[u]) <=> i <= Len(held[u]) \/ (u = t /\ i = n)
  <2> TAKE u \in Task, i \in 1..MaxNest
  <2>1. CASE u = t
    BY <2>1, <1>0, <1>1
  <2>2. CASE u # t
    BY <2>2, <1>1
  <2> QED BY <2>1, <2>2
<1>3. Locks' = Locks \cup {<<t, n>>}
  <2>1. \A u \in Task, i \in 1..MaxNest :
            <<u, i>> \in Locks' <=> <<u, i>> \in Locks \cup {<<t, n>>}
    BY <1>2 DEF Locks
  <2>2. Locks' \subseteq Task \X (1..MaxNest)
        /\ Locks \cup {<<t, n>>} \subseteq Task \X (1..MaxNest)
    BY <1>0 DEF Locks
  <2> QED BY <2>1, <2>2
<1>4. <<t, n>> \notin Locks
  <2>1. ~(n <= Len(held[t]))
    BY <1>0, <1>1
  <2> QED BY <2>1 DEF Locks
<1> QED BY <1>3, <1>4, LocksFinite, FS_AddElement

\* What is left of a sequence of locks when one of them is released
Left(s, r) ==
    /\ r \in Seq({"r", "w"}) /\ Len(r) = Len(s) - 1
    /\ Members(r) \subseteq Members(s)

LEMMA Without1 ==
    ASSUME NEW s \in Seq({"r", "w"}), NEW i \in 1..Len(s), NEW r, r = RemoveAt(s, i)
    PROVE  Left(s, r)
<1>1. r \in Seq({"r", "w"}) /\ Len(r) = Len(s) - 1
  BY DEF RemoveAt
<1>2. \A j \in 1..(Len(s) - 1) : r[j] = IF j < i THEN s[j] ELSE s[j + 1]
  BY DEF RemoveAt
<1>3. Members(r) \subseteq Members(s)
  <2>1. \A j \in 1..(Len(s) - 1) : \E k \in 1..Len(s) : r[j] = s[k]
    <3> TAKE j \in 1..(Len(s) - 1)
    <3>1. j \in 1..Len(s) /\ j + 1 \in 1..Len(s)
      OBVIOUS
    <3> QED BY <3>1, <1>2
  <2>2. DOMAIN r = 1..(Len(s) - 1) /\ DOMAIN s = 1..Len(s)
    BY <1>1
  <2> QED BY <2>1, <2>2 DEF Members
<1> QED BY <1>1, <1>3 DEF Left

\* One lock less
LEMMA ReleaseCounts ==
    ASSUME TypeOK, LocksCounted, NEW t \in Task, held[t] # <<>>,
           Len(held'[t]) = Len(held[t]) - 1,
           \A u \in Task \ {t} : held'[u] = held[u]
    PROVE  Cardinality(Locks') = Cardinality(Locks) - 1 /\ Cardinality(Locks) >= 1
<1> DEFINE n == Len(held[t])
<1>0. n \in 1..MaxNest
  BY RwSemAssumption DEF TypeOK, LocksCounted
<1>1. Len(held'[t]) = n - 1 /\ Len(held[t]) = n
  OBVIOUS
<1> HIDE DEF n
<1>2. \A u \in Task, i \in 1..MaxNest :
        i <= Len(held'[u]) <=> i <= Len(held[u]) /\ ~(u = t /\ i = n)
  <2> TAKE u \in Task, i \in 1..MaxNest
  <2>1. CASE u = t
    BY <2>1, <1>0, <1>1
  <2>2. CASE u # t
    BY <2>2
  <2> QED BY <2>1, <2>2
<1>3. Locks' = Locks \ {<<t, n>>}
  <2>1. \A u \in Task, i \in 1..MaxNest :
            <<u, i>> \in Locks' <=> <<u, i>> \in Locks \ {<<t, n>>}
    BY <1>2 DEF Locks
  <2>2. Locks' \subseteq Task \X (1..MaxNest) /\ Locks \subseteq Task \X (1..MaxNest)
    BY DEF Locks
  <2> QED BY <2>1, <2>2
<1>4. <<t, n>> \in Locks
  <2>1. n <= Len(held[t])
    BY <1>0, <1>1
  <2> QED BY <1>0, <2>1 DEF Locks
<1>5. Cardinality(Locks) # 0
  BY <1>4, LocksFinite, FS_EmptySet
<1>6. Cardinality(Locks \ {<<t, n>>}) = Cardinality(Locks) - 1
  BY <1>4, LocksFinite, FS_RemoveElement
<1> QED BY <1>3, <1>5, <1>6, LocksFinite

\* With both counters at zero no task has a lock.
LEMMA FreeIsUnheld ==
    ASSUME TypeOK, LocksCounted
    PROVE  reader = 0 /\ writer = 0 <=> \A t \in Task : held[t] = <<>>
<1>1. Locks = {} <=> reader = 0 /\ writer = 0
  BY LocksFinite, FS_EmptySet DEF TypeOK, LocksCounted
<1>2. Locks = {} <=> \A t \in Task : held[t] = <<>>
  <2>1. ASSUME NEW t \in Task, held[t] # <<>>
        PROVE  <<t, 1>> \in Locks
    BY <2>1, RwSemAssumption DEF TypeOK, Locks
  <2>2. ASSUME NEW x \in Locks
        PROVE  x[1] \in Task /\ held[x[1]] # <<>>
    <3>1. x[1] \in Task /\ x[2] \in 1..MaxNest /\ x[2] <= Len(held[x[1]])
      BY DEF Locks
    <3> QED BY <3>1
  <2> QED BY <2>1, <2>2
<1> QED BY <1>1, <1>2
-----------------------------------------------------------------------------
(* The locks *)

LockTypes ==
    /\ reader \in Nat /\ writer \in Nat /\ holder \in Task \cup {NoHolder}
    /\ held \in [Task -> Seq({"r", "w"})]

\* A task that may take the lock takes it.
LEMMA TakeStep ==
    ASSUME IInv, NEW t \in Task, NEW m \in {"r", "w"}, Len(held[t]) < MaxNest,
           MayTake(t, m), Take(t, m)
    PROVE  LockTypes' /\ LocksCounted' /\ HolderAlone' /\ ~(reader' = 0 /\ writer' = 0)
<1> USE RwSemAssumption DEF IInv
<1>h. /\ held' = [held EXCEPT ![t] = Append(@, m)]
      /\ held'[t] = Append(held[t], m) /\ Len(held'[t]) = Len(held[t]) + 1
      /\ \A u \in Task \ {t} : held'[u] = held[u]
      /\ held' \in [Task -> Seq({"r", "w"})]
      /\ held[t] \in Seq({"r", "w"})
  BY DEF Take, TypeOK
<1>c. Cardinality(Locks') = Cardinality(Locks) + 1
  BY <1>h, TakeCounts
<1>n. reader \in Nat /\ writer \in Nat
  BY DEF TypeOK
<1>r. \/ reader' = reader + 1 /\ writer' = writer
      \/ reader' = reader /\ writer' = writer + 1
  BY DEF Take
<1>1. LockTypes'
  BY <1>h, <1>r, <1>n DEF LockTypes, Take, TypeOK
<1>2. LocksCounted' /\ ~(reader' = 0 /\ writer' = 0)
  <2>1. \A u \in Task : Len(held'[u]) <= MaxNest
    BY <1>h DEF LocksCounted
  <2>2. reader + writer = Cardinality(Locks)
    BY DEF LocksCounted
  <2>3. Cardinality(Locks) \in Nat
    BY LocksFinite
  <2>4. reader' + writer' = Cardinality(Locks') /\ ~(reader' = 0 /\ writer' = 0)
    BY ONLY <1>c, <1>r, <1>n, <2>2, <2>3
  <2> QED BY <2>1, <2>4 DEF LocksCounted
<1>3. HolderAlone'
  <2>1. CASE holder = t
    <3>1. writer' = writer + 1 /\ reader' = reader /\ holder' = t
      BY <2>1 DEF Take
    <3>2. /\ reader = 0 /\ writer > 0 /\ writer = Len(held[t])
          /\ \A u \in Task \ {t} : held[u] = <<>>
      BY <2>1 DEF HolderAlone
    <3> QED BY <1>h, <1>n, <3>1, <3>2 DEF HolderAlone
  <2>2. CASE holder # t /\ m = "r"
    <3>1. reader' = reader + 1 /\ writer' = writer /\ holder' = holder
      BY <2>2 DEF Take
    <3>2. holder = NoHolder
      BY <2>2, <1>n DEF MayTake, HolderAlone
    <3>3. writer = 0 /\ \A u \in Task : ~Holds(u, "w")
      BY <3>2 DEF HolderAlone
    <3>4. ~("w" \in Members(held'[t]))
      <4>1. "w" \notin Members(held[t])
        BY <3>3 DEF Holds
      <4> QED BY <4>1, <1>h, <2>2 DEF Members
    <3>5. \A u \in Task : ~Holds(u, "w")'
      BY <1>h, <3>3, <3>4 DEF Holds
    <3> QED BY <3>1, <3>2, <3>3, <3>5 DEF HolderAlone
  <2>3. CASE holder # t /\ m = "w"
    <3>1. reader' = reader /\ writer' = writer + 1 /\ holder' = t
      BY <2>3 DEF Take
    <3>2. reader = 0 /\ writer = 0
      BY <2>3 DEF MayTake
    <3>3. \A u \in Task : held[u] = <<>>
      BY <3>2, FreeIsUnheld
    <3>4. Len(held'[t]) = 1
      <4>1. held[t] = <<>> /\ held'[t] = Append(held[t], "w")
        BY <1>h, <2>3, <3>3
      <4> QED BY <4>1
    <3> QED BY <1>h, <3>1, <3>2, <3>3, <3>4 DEF HolderAlone
  <2> QED BY <2>1, <2>2, <2>3
<1> QED BY <1>1, <1>2, <1>3

\* What a release does to the locks of its task
LEMMA ReleasedHeld ==
    ASSUME TypeOK, LocksCounted, NEW t \in Task, NEW m \in {"r", "w"}, Released(t, m)
    PROVE  /\ held' \in [Task -> Seq({"r", "w"})]
           /\ Holds(t, m) /\ held[t] # <<>>
           /\ Len(held'[t]) = Len(held[t]) - 1 /\ Len(held[t]) \in Nat \ {0}
           /\ Members(held'[t]) \subseteq Members(held[t])
           /\ \A u \in Task \ {t} : held'[u] = held[u]
           /\ \A u \in Task : Len(held'[u]) <= MaxNest
           /\ Cardinality(Locks') = Cardinality(Locks) - 1 /\ Cardinality(Locks) >= 1
<1>1. PICK i \in 1..Len(held[t]) :
        /\ held[t][i] = m
        /\ held' = [held EXCEPT ![t] = RemoveAt(@, i)]
  BY DEF Released
<1>2. held[t] \in Seq({"r", "w"})
  BY DEF TypeOK
<1>3. held'[t] = RemoveAt(held[t], i) /\ \A u \in Task \ {t} : held'[u] = held[u]
  BY <1>1 DEF TypeOK
<1>4. /\ held'[t] \in Seq({"r", "w"}) /\ Len(held'[t]) = Len(held[t]) - 1
      /\ Members(held'[t]) \subseteq Members(held[t])
  <2>1. Left(held[t], held'[t])
    BY ONLY <1>2, <1>3, i \in 1..Len(held[t]), Without1
  <2> QED BY ONLY <2>1 DEF Left
<1>5. held' \in [Task -> Seq({"r", "w"})]
  BY <1>1, <1>3, <1>4 DEF TypeOK
<1>6. Holds(t, m) /\ held[t] # <<>> /\ Len(held[t]) \in Nat \ {0}
  BY <1>1, <1>2 DEF Holds, Members
<1>7. \A u \in Task : Len(held'[u]) <= MaxNest
  BY <1>2, <1>3, <1>4, RwSemAssumption DEF LocksCounted
<1>8. Cardinality(Locks') = Cardinality(Locks) - 1 /\ Cardinality(Locks) >= 1
  BY <1>3, <1>4, <1>6, ReleaseCounts
<1> QED BY <1>3, <1>4, <1>5, <1>6, <1>7, <1>8

\* The holder of the write lock releases one of its locks.
LEMMA DropWriterStep ==
    ASSUME IInv, NEW t \in Task, NEW m \in {"r", "w"}, Released(t, m), holder = t,
           DropWriter
    PROVE  LockTypes' /\ LocksCounted' /\ HolderAlone'
<1> USE RwSemAssumption DEF IInv
<1>h. /\ held' \in [Task -> Seq({"r", "w"})]
      /\ Len(held'[t]) = Len(held[t]) - 1 /\ Len(held[t]) \in Nat \ {0}
      /\ \A u \in Task \ {t} : held'[u] = held[u]
      /\ \A u \in Task : Len(held'[u]) <= MaxNest
      /\ Cardinality(Locks') = Cardinality(Locks) - 1 /\ Cardinality(Locks) >= 1
  BY ReleasedHeld
<1>o. /\ reader = 0 /\ writer > 0 /\ writer = Len(held[t])
      /\ \A u \in Task \ {t} : held[u] = <<>>
  BY DEF HolderAlone
<1>n. reader \in Nat /\ writer \in Nat
  BY DEF TypeOK
<1>w. writer \in Nat /\ writer > 0 /\ writer = Len(held[t])
  BY <1>o, <1>n
<1>v. writer \in Nat /\ writer > 0
  BY <1>w
<1>d. /\ writer' = writer - 1 /\ reader' = reader
      /\ holder' = IF writer - 1 <= 0 THEN NoHolder ELSE t
  BY DEF DropWriter
<1>1. LockTypes'
  BY <1>h, <1>o, <1>n, <1>d DEF LockTypes
<1>2. LocksCounted'
  BY <1>h, <1>n, <1>d, LocksFinite DEF LocksCounted
<1>3. HolderAlone'
  <2>1. CASE writer <= 1
    <3>a. held'[t] \in Seq({"r", "w"}) /\ Len(held'[t]) = Len(held[t]) - 1
      BY <1>h
    <3>0. held'[t] = <<>>
      BY ONLY <3>a, <1>w, <2>1
    <3>1. \A u \in Task : held'[u] = <<>>
      BY <1>h, <1>o, <3>0
    <3>2. \A u \in Task : ~Holds(u, "w")'
      BY <3>1 DEF Holds, Members
    <3>3. holder' = NoHolder /\ writer' = 0
      <4>1. writer - 1 = 0 /\ writer - 1 <= 0
        BY ONLY <1>v, <2>1
      <4> QED BY <4>1, <1>d
    <3> QED BY <3>2, <3>3 DEF HolderAlone
  <2>2. CASE writer > 1
    <3>0. writer - 1 > 0
      BY <1>w, <2>2
    <3>1. holder' = t /\ writer' > 0 /\ Len(held[t]) > 1
      <4>1. ~(writer - 1 <= 0) /\ writer > 1
        BY <3>0, <1>w
      <4> QED BY <4>1, <3>0, <1>d, <1>w
    <3> QED BY <1>h, <1>o, <1>d, <3>1 DEF HolderAlone
  <2> QED BY <2>1, <2>2, <1>w
<1> QED BY <1>1, <1>2, <1>3

\* A reader releases its lock.
LEMMA DropReaderStep ==
    ASSUME IInv, NEW t \in Task, Released(t, "r"), holder # t,
           reader' = reader - 1, UNCHANGED <<writer, holder>>
    PROVE  LockTypes' /\ LocksCounted' /\ HolderAlone'
<1> USE RwSemAssumption DEF IInv
<1>h. /\ held' \in [Task -> Seq({"r", "w"})]
      /\ held[t] # <<>>
      /\ Members(held'[t]) \subseteq Members(held[t])
      /\ \A u \in Task \ {t} : held'[u] = held[u]
      /\ \A u \in Task : Len(held'[u]) <= MaxNest
      /\ Cardinality(Locks') = Cardinality(Locks) - 1 /\ Cardinality(Locks) >= 1
  BY ReleasedHeld
<1>n. reader \in Nat /\ writer \in Nat
  BY DEF TypeOK
<1>o. holder = NoHolder /\ writer = 0 /\ \A u \in Task : ~Holds(u, "w")
  BY <1>h DEF HolderAlone
<1>r. reader + writer = Cardinality(Locks)
  BY DEF LocksCounted
<1>1. LockTypes'
  BY <1>h, <1>n, <1>o, <1>r DEF LockTypes
<1>2. LocksCounted'
  BY <1>h, <1>n, <1>r, LocksFinite DEF LocksCounted
<1>3. HolderAlone'
  BY <1>h, <1>o DEF HolderAlone, Holds
<1> QED BY <1>1, <1>2, <1>3
-----------------------------------------------------------------------------
(* The waiting tasks *)

WaitTypes ==
    /\ waiter \in 0..Cardinality(Task) /\ value \in Int /\ value <= SemMax
    /\ waitlist \in Seq(Task) /\ pc \in [Task -> Label] /\ lost \subseteq Task

LEMMA LostFinite ==
    ASSUME IInv
    PROVE  IsFiniteSet(lost) /\ Cardinality(lost) \in Nat
BY RwSemAssumption, FS_Subset, FS_CardinalityType DEF IInv, TypeOK

\* All tasks that are blocked, in the wait list or lost, or about to wait are
\* counted.
LEMMA WaitersInCall ==
    ASSUME IInv
    PROVE  /\ Len(waitlist) \in Nat /\ waiter \in Nat
           /\ Cardinality(At({"towait"})) \in Nat
           /\ Cardinality(At({"towait"})) + Len(waitlist) + Cardinality(lost) <= waiter
<1> DEFINE A == At({"towait"})
           B == At({"blocked"})
           C == At(InCall)
           M == Members(waitlist)
<1>1. IsFiniteSet(M) /\ Cardinality(M) = Len(waitlist) /\ Len(waitlist) \in Nat
  <2>1. waitlist \in Seq(Task) /\ Distinct(waitlist)
    BY DEF IInv, TypeOK, WaitersCounted
  <2> QED BY <2>1, DistinctLen
<1>2. A \cup B \in SUBSET C /\ A \cap B = {}
  BY DEF At, InCall
<1>3. IsFiniteSet(A) /\ IsFiniteSet(B) /\ IsFiniteSet(C)
      /\ Cardinality(A) \in Nat /\ Cardinality(B) \in Nat /\ Cardinality(C) \in Nat
  BY AtFinite
<1>4. waiter = Cardinality(C) /\ B = M \cup lost /\ M \cap lost = {}
  BY DEF IInv, WaitersCounted
<1>l. IsFiniteSet(lost) /\ Cardinality(lost) \in Nat
  BY LostFinite
<1> HIDE DEF A, B, C, M
<1>b. Cardinality(B) = Cardinality(M) + Cardinality(lost)
  <2>1. Cardinality(M \cup lost) = Cardinality(M) + Cardinality(lost) - Cardinality(M \cap lost)
    BY <1>1, <1>l, FS_Union
  <2>2. Cardinality(M \cap lost) = 0
    BY <1>4, FS_EmptySet
  <2> QED BY <1>1, <1>4, <1>l, <2>1, <2>2
<1>5. Cardinality(A \cup B) = Cardinality(A) + Cardinality(B)
  <2>1. Cardinality(A \cup B) = Cardinality(A) + Cardinality(B) - Cardinality(A \cap B)
    BY <1>3, FS_Union
  <2>2. Cardinality(A \cap B) = 0
    BY <1>2, FS_EmptySet
  <2> QED BY <1>3, <2>1, <2>2
<1>6. Cardinality(A \cup B) <= Cardinality(C)
  BY <1>2, <1>3, FS_Subset
<1>7. Cardinality(A) + Len(waitlist) + Cardinality(lost) <= Cardinality(C)
  BY <1>1, <1>3, <1>l, <1>b, <1>5, <1>6
<1>8. waiter \in Nat /\ Cardinality(A) + Len(waitlist) + Cardinality(lost) <= waiter
  BY <1>3, <1>4, <1>7, Zenon
<1> QED BY <1>1, <1>3, <1>8 DEF A

\* The posts of a release reach every task that waits or is about to.
LEMMA UpWaitStep ==
    ASSUME IInv, up_wait, waiter' = waiter, lost' = lost
    PROVE  /\ WaitTypes' /\ WaitersCounted' /\ LostCounted'
           /\ waitlist' = <<>> /\ value' >= Cardinality(At({"towait"}))'
<1> USE RwSemAssumption
<1> DEFINE b == Len(waitlist)
           a == Cardinality(At({"towait"}))
           d == Cardinality(lost)
<1>1. b \in Nat /\ a \in Nat /\ d \in Nat /\ waiter \in Nat /\ a + b + d <= waiter
  BY WaitersInCall, LostFinite
<1>2. Smaller(waiter, Len(waitlist)) = Len(waitlist)
  <2> HIDE DEF a, d
  <2>1. b <= waiter
    BY <1>1
  <2> QED BY <2>1, <1>1 DEF Smaller
<1>t. /\ waitlist \in Seq(Task) /\ pc \in [Task -> Label] /\ value \in Int /\ value <= SemMax
      /\ waiter \in 0..Cardinality(Task) /\ lost \subseteq Task
      /\ At({"blocked"}) = Members(waitlist) \cup lost /\ Members(waitlist) \cap lost = {}
      /\ value + d >= 0
  BY DEF IInv, TypeOK, WaitersCounted, LostCounted
<1>3. /\ waitlist' = SubSeq(waitlist, Len(waitlist) + 1, Len(waitlist))
      /\ pc' = [t \in Task |-> IF t \in Members(SubSeq(waitlist, 1, Len(waitlist)))
                               THEN "woken" ELSE pc[t]]
      /\ value' = Smaller(SemMax, value + (waiter - Len(waitlist)))
  BY <1>2 DEF up_wait
<1>4. waitlist' = <<>> /\ SubSeq(waitlist, 1, Len(waitlist)) = waitlist
  BY <1>3, <1>t
<1>5. pc' = [t \in Task |-> IF t \in Members(waitlist) THEN "woken" ELSE pc[t]]
  BY <1>3, <1>4
<1>b. \A t \in Task : t \in Members(waitlist) \cup lost <=> pc[t] = "blocked"
  BY <1>t DEF At
<1>6. /\ At(InCall)' = At(InCall) /\ At({"towait"})' = At({"towait"})
      /\ At({"blocked"})' = lost
  BY <1>5, <1>b, <1>t DEF At, InCall
<1>7. value' \in Int /\ value' <= SemMax /\ value' >= a /\ value' + d >= 0
  <2>1. a <= SemMax
    <3>1. a <= Cardinality(Task) /\ Cardinality(Task) \in Nat
      BY AtFinite
    <3> HIDE DEF a
    <3> QED BY <3>1, <1>1
  <2> DEFINE v == value + (waiter - b)
  <2>2. value' = Smaller(SemMax, v)
    BY <1>3
  <2>3. value \in Int /\ SemMax \in Nat /\ value + d >= 0
    BY <1>t
  <2> HIDE DEF a, d, b
  <2>4. v \in Int /\ v >= a
    BY <1>1, <2>3
  <2> HIDE DEF v
  <2> QED BY <1>1, <2>1, <2>2, <2>3, <2>4 DEF Smaller
<1>8. pc' \in [Task -> Label]
  BY <1>5, <1>t DEF Label
<1>9. WaitersCounted'
  <2>1. waiter' = Cardinality(At(InCall)')
    BY <1>6 DEF IInv, WaitersCounted
  <2>2. Members(waitlist') = {} /\ Distinct(waitlist') /\ Descending(waitlist', Prio)
    BY <1>4 DEF Members, Distinct, Descending
  <2> QED BY <1>6, <2>1, <2>2 DEF WaitersCounted
<1>10. LostCounted'
  BY <1>7 DEF LostCounted
<1> QED BY <1>4, <1>6, <1>7, <1>8, <1>9, <1>10, <1>t DEF WaitTypes

-----------------------------------------------------------------------------
(* The steps *)

LEMMA Together ==
    ASSUME LockTypes', LocksCounted', HolderAlone', WaitTypes', WaitersCounted',
           LostCounted', Posted', Room', mode' \in [Task -> {"r", "w"}], silent' \in BOOLEAN
    PROVE  IInv'
BY DEF IInv, TypeOK, LockTypes, WaitTypes

\* Nobody starts to wait, and the tasks that wait keep the locks that they have.
LEMMA SameRoom ==
    ASSUME IInv, \A u \in Task : pc'[u] \in InCall => pc[u] \in InCall /\ held'[u] = held[u]
    PROVE  Room'
BY DEF IInv, Room

\* Steps that leave the locks alone
LEMMA SameLocks ==
    ASSUME IInv, UNCHANGED <<reader, writer, holder, held>>
    PROVE  LockTypes' /\ LocksCounted' /\ HolderAlone'
BY DEF IInv, TypeOK, LockTypes, LocksCounted, Locks, HolderAlone, Holds

LEMMA InitIInv == ASSUME Init PROVE IInv
<1> USE RwSemAssumption DEF Init, init_rwsem
<1>1. Cardinality(Task) \in Nat
  BY FS_CardinalityType
<1>s. silent \in BOOLEAN
  BY Zenon
<1>2. TypeOK
  BY <1>1, <1>s DEF TypeOK, Label
<1>3. LocksCounted
  <2>1. Locks = {}
    BY DEF Locks
  <2> QED BY <2>1, FS_EmptySet DEF LocksCounted
<1>4. HolderAlone
  BY DEF HolderAlone, Holds, Members
<1>5. At(InCall) = {} /\ At({"towait"}) = {} /\ At({"blocked"}) = {}
  BY DEF At, InCall
<1>6. WaitersCounted
  BY <1>5, FS_EmptySet DEF WaitersCounted, Members, Distinct, Descending
<1>7. Posted
  <2>1. Cardinality(At({"towait"})) = 0 /\ value = 0 /\ waitlist = <<>>
    BY <1>5, FS_EmptySet
  <2> QED BY <2>1 DEF Posted
<1>8. Room
  BY DEF Room, InCall
<1>9. LostCounted
  BY FS_EmptySet DEF LostCounted
<1> QED BY <1>2, <1>3, <1>4, <1>6, <1>7, <1>8, <1>9 DEF IInv

LEMMA TryLockStep ==
    ASSUME IInv, NEW t \in Task, NEW m \in {"r", "w"}, down_trylock(t, m)
    PROVE  IInv'
<1>1. LockTypes' /\ LocksCounted' /\ HolderAlone' /\ ~(reader' = 0 /\ writer' = 0)
  BY TakeStep DEF down_trylock
<1>2. WaitTypes' /\ WaitersCounted' /\ LostCounted' /\ mode' \in [Task -> {"r", "w"}]
      /\ silent' \in BOOLEAN
  <2>1. UNCHANGED <<waiter, value, waitlist, pc, mode, silent, lost>>
    BY DEF down_trylock
  <2> QED BY <2>1 DEF IInv, TypeOK, WaitTypes, WaitersCounted, LostCounted, At
<1>3. Posted'
  BY <1>1 DEF Posted
<1>4. Room'
  BY SameRoom DEF down_trylock, Take, IInv, TypeOK, InCall
<1> QED BY <1>1, <1>2, <1>3, <1>4, Together

LEMMA DownStep ==
    ASSUME IInv, NEW t \in Task, NEW m \in {"r", "w"}, down(t, m)
    PROVE  IInv'
<1>1. CASE MayTake(t, m)
  <2>1. LockTypes' /\ LocksCounted' /\ HolderAlone' /\ ~(reader' = 0 /\ writer' = 0)
    BY <1>1, TakeStep DEF down, MayCall
  <2>2. WaitTypes' /\ WaitersCounted' /\ LostCounted' /\ mode' \in [Task -> {"r", "w"}]
        /\ silent' \in BOOLEAN
    BY <1>1 DEF down, IInv, TypeOK, WaitTypes, WaitersCounted, LostCounted, At
  <2>3. Posted'
    BY <2>1 DEF Posted
  <2>4. Room'
    BY <1>1, SameRoom DEF down, Take, IInv, TypeOK, InCall
  <2> QED BY <2>1, <2>2, <2>3, <2>4, Together
<1>2. CASE ~MayTake(t, m)
  <2>0. /\ pc[t] = "run" /\ pc' = [pc EXCEPT ![t] = "towait"] /\ waiter' = waiter + 1
        /\ mode' = [mode EXCEPT ![t] = m]
        /\ UNCHANGED <<reader, writer, holder, held, value, waitlist, silent, lost>>
        /\ pc \in [Task -> Label] /\ waiter \in Nat
    BY <1>2 DEF down, Goto, IInv, TypeOK
  <2>1. LockTypes' /\ LocksCounted' /\ HolderAlone'
    BY <2>0, SameLocks
  <2>2. Cardinality(At(InCall)') = Cardinality(At(InCall)) + 1
    BY <2>0, Enters DEF InCall
  <2>3. At({"blocked"})' = At({"blocked"})
    BY <2>0, Stays
  <2>4. WaitersCounted' /\ LostCounted' /\ silent' \in BOOLEAN
    BY <2>0, <2>2, <2>3 DEF IInv, TypeOK, WaitersCounted, LostCounted
  <2>5. WaitTypes' /\ mode' \in [Task -> {"r", "w"}]
    <3>1. waiter' \in 0..Cardinality(Task)
      <4>1. At(InCall)' \in SUBSET Task
        BY DEF At
      <4>2. Cardinality(At(InCall)') <= Cardinality(Task) /\ Cardinality(Task) \in Nat
        BY <4>1, RwSemAssumption, FS_Subset, FS_CardinalityType
      <4> QED BY <4>2, <2>0, <2>4 DEF WaitersCounted
    <3> QED BY <2>0, <3>1 DEF IInv, TypeOK, WaitTypes, Label
  <2>6. Posted'
    <3>1. ~(reader = 0 /\ writer = 0)
      BY <1>2 DEF MayTake
    <3> QED BY <2>0, <3>1 DEF Posted
  <2>7. Room'
    BY <2>0 DEF Room, IInv, down, MayCall
  <2> QED BY <2>1, <2>4, <2>5, <2>6, <2>7, Together
<1> QED BY <1>1, <1>2

\* nxsem_wait takes a count that was left over, or blocks.
LEMMA DownWaitStep ==
    ASSUME IInv, NEW t \in Task, down_wait(t)
    PROVE  IInv'
<1> USE RwSemAssumption
<1>0. /\ pc[t] = "towait" /\ waiter' = waiter /\ mode' = mode
      /\ UNCHANGED <<reader, writer, holder, held, silent, lost>>
      /\ pc \in [Task -> Label] /\ value \in Int /\ value <= SemMax
      /\ waitlist \in Seq(Task) /\ waiter \in 0..Cardinality(Task)
      /\ lost \subseteq Task /\ silent \in BOOLEAN
      /\ mode \in [Task -> {"r", "w"}]
  BY DEF down_wait, IInv, TypeOK
<1>1. LockTypes' /\ LocksCounted' /\ HolderAlone' /\ silent' \in BOOLEAN
  BY <1>0, SameLocks
<1>2. CASE value > 0
  <2>0. value' = value - 1 /\ pc' = [pc EXCEPT ![t] = "woken"] /\ waitlist' = waitlist
    BY <1>2 DEF down_wait, Goto
  <2>1. At(InCall)' = At(InCall) /\ At({"blocked"})' = At({"blocked"})
    BY <2>0, <1>0, Stays DEF InCall
  <2>2. WaitersCounted'
    BY <2>0, <2>1, <1>0 DEF IInv, WaitersCounted
  <2>l. LostCounted'
    <3>1. Cardinality(lost) \in Nat
      BY LostFinite
    <3> QED BY <3>1, <2>0, <1>0, <1>2 DEF LostCounted
  <2>3. WaitTypes'
    BY <2>0, <1>0, <1>2 DEF WaitTypes, Label
  <2>4. Posted'
    <3>1. Cardinality(At({"towait"})') = Cardinality(At({"towait"})) - 1
      <4>1. "woken" \notin {"towait"} /\ pc[t] \in {"towait"}
        BY <1>0
      <4> QED BY ONLY <4>1, <2>0, <1>0, t \in Task, Leaves
    <3>2. Cardinality(At({"towait"})) \in Nat
      BY AtFinite
    <3> DEFINE a == Cardinality(At({"towait"}))
    <3>3. value >= a => value' >= a'
      <4> HIDE DEF a
      <4>1. a \in Nat /\ a' = a - 1
        BY <3>1, <3>2 DEF a
      <4> QED BY <4>1, <1>0, <2>0
    <3>4. reader = 0 /\ writer = 0 /\ ~silent => waitlist = <<>> /\ value >= a
      BY DEF Posted, IInv
    <3>5. reader' = 0 /\ writer' = 0 /\ ~silent' => waitlist' = <<>> /\ value' >= a'
      <4> HIDE DEF a
      <4> QED BY <2>0, <1>0, <3>3, <3>4
    <3> QED BY <3>5 DEF Posted
  <2>5. Room'
    BY <1>0, <2>0, SameRoom DEF InCall
  <2> QED BY <1>0, <1>1, <2>2, <2>l, <2>3, <2>4, <2>5, Together
<1>3. CASE ~(value > 0)
  <2>0. /\ waitlist' = nxsched_add_prioritized(waitlist, Prio, t)
        /\ pc' = [pc EXCEPT ![t] = "blocked"] /\ value' = value
    BY <1>3 DEF down_wait, Goto
  <2>l. Proper(waitlist', Task, Prio) /\ Members(waitlist') = Members(waitlist) \cup {t}
    <3>1. Proper(waitlist, Task, Prio)
      BY DEF IInv, TypeOK, WaitersCounted, Proper
    <3>2. t \notin Members(waitlist)
      BY <1>0 DEF IInv, WaitersCounted, At
    <3>3. Prio \in [Task -> Int]
      OBVIOUS
    <3> QED BY ONLY <2>0, <3>1, <3>2, <3>3, t \in Task, AddPrioritized
  <2>1. At(InCall)' = At(InCall) /\ At({"blocked"})' = At({"blocked"}) \cup {t}
    BY <2>0, <1>0 DEF At, InCall
  <2>n. t \notin lost
    BY <1>0 DEF IInv, WaitersCounted, At
  <2>2. WaitersCounted' /\ LostCounted'
    BY <2>0, <2>l, <2>1, <2>n, <1>0 DEF IInv, WaitersCounted, LostCounted, Proper
  <2>3. WaitTypes'
    BY <2>0, <2>l, <1>0 DEF WaitTypes, Label, Proper
  <2>4. Posted'
    <3>1. t \in At({"towait"}) /\ IsFiniteSet(At({"towait"}))
          /\ Cardinality(At({"towait"})) \in Nat
      BY <1>0, AtFinite DEF At
    <3>2. Cardinality(At({"towait"})) # 0
      BY <3>1, FS_EmptySet
    <3>3. ~(value >= Cardinality(At({"towait"})))
      BY <3>1, <3>2, <1>0, <1>3
    <3> QED BY <1>0, <3>3 DEF IInv, Posted
  <2>5. Room'
    BY <1>0, <2>0, SameRoom DEF InCall
  <2> QED BY <1>0, <1>1, <2>2, <2>3, <2>4, <2>5, Together
<1> QED BY <1>2, <1>3

\* A task that was woken takes the lock, or goes back to wait.
LEMMA RetryStep ==
    ASSUME IInv, NEW t \in Task, down_retry(t)
    PROVE  IInv'
<1>0. /\ pc[t] = "woken" /\ UNCHANGED <<value, waitlist, mode, silent, lost>>
      /\ pc \in [Task -> Label] /\ value \in Int /\ value <= SemMax
      /\ waitlist \in Seq(Task) /\ waiter \in 0..Cardinality(Task)
      /\ mode \in [Task -> {"r", "w"}] /\ mode[t] \in {"r", "w"}
      /\ lost \subseteq Task /\ silent \in BOOLEAN
  BY DEF down_retry, IInv, TypeOK
<1>l. LostCounted' /\ silent' \in BOOLEAN
  BY <1>0 DEF IInv, LostCounted
<1>r. Len(held[t]) < MaxNest
  BY <1>0 DEF IInv, Room, InCall
<1>1. CASE MayTake(t, mode[t])
  <2>0. /\ Take(t, mode[t]) /\ waiter' = waiter - 1 /\ pc' = [pc EXCEPT ![t] = "run"]
    BY <1>1 DEF down_retry, Goto
  <2>1. LockTypes' /\ LocksCounted' /\ HolderAlone' /\ ~(reader' = 0 /\ writer' = 0)
    BY <1>0, <1>r, <1>1, <2>0, TakeStep
  <2>2. Cardinality(At(InCall)') = Cardinality(At(InCall)) - 1
    <3>1. "run" \notin InCall /\ pc[t] \in InCall
      BY <1>0 DEF InCall
    <3> QED BY <1>0, <2>0, <3>1, Leaves
  <2>3. At({"blocked"})' = At({"blocked"})
    BY <1>0, <2>0, Stays
  <2>4. WaitersCounted'
    BY <1>0, <2>0, <2>2, <2>3 DEF IInv, WaitersCounted
  <2>5. WaitTypes'
    <3>1. Cardinality(At(InCall)) \in Nat /\ Cardinality(At(InCall)) # 0
      <4>1. t \in At(InCall)
        BY <1>0 DEF At, InCall
      <4> QED BY <4>1, AtFinite, FS_EmptySet
    <3>2. waiter' \in 0..Cardinality(Task)
      BY <1>0, <2>0, <3>1, AtFinite DEF IInv, WaitersCounted
    <3> QED BY <1>0, <2>0, <3>2 DEF WaitTypes, Label
  <2>6. Posted'
    BY <2>1 DEF Posted
  <2>7. Room'
    BY <1>0, <2>0, SameRoom DEF Take, IInv, TypeOK, InCall
  <2> QED BY <1>0, <1>l, <2>1, <2>4, <2>5, <2>6, <2>7, Together
<1>2. CASE ~MayTake(t, mode[t])
  <2>0. /\ pc' = [pc EXCEPT ![t] = "towait"]
        /\ UNCHANGED <<reader, writer, waiter, holder, held>>
    BY <1>2 DEF down_retry, Goto
  <2>1. LockTypes' /\ LocksCounted' /\ HolderAlone'
    BY <2>0, SameLocks
  <2>2. At(InCall)' = At(InCall) /\ At({"blocked"})' = At({"blocked"})
    BY <1>0, <2>0, Stays DEF InCall
  <2>3. WaitersCounted'
    BY <1>0, <2>0, <2>2 DEF IInv, WaitersCounted
  <2>4. WaitTypes'
    BY <1>0, <2>0 DEF WaitTypes, Label
  <2>5. Posted'
    <3>1. ~(reader = 0 /\ writer = 0)
      BY <1>0, <1>2 DEF MayTake
    <3> QED BY <2>0, <3>1 DEF Posted
  <2>6. Room'
    BY <1>0, <2>0, SameRoom DEF InCall
  <2> QED BY <1>0, <1>l, <2>1, <2>3, <2>4, <2>5, <2>6, Together
<1> QED BY <1>1, <1>2

\* A task leaves the wait list, or its way to it, before it was posted for.  Nobody
\* is lost with it unless it is deleted.
LEMMA LeaveStep ==
    ASSUME IInv, NEW t \in Task, t \notin lost, NEW l \in {"woken", "dead"},
           pc[t] \in {"towait", "blocked", "woken"},
           waitlist' \in Seq(Task), Distinct(waitlist'), Descending(waitlist', Prio),
           lost \subseteq lost', lost' \ lost \subseteq Members(waitlist) \ {t},
           Members(waitlist') = (Members(waitlist) \ {t}) \ lost',
           value' = value - Cardinality(lost' \ lost),
           pc' = [pc EXCEPT ![t] = l],
           UNCHANGED <<reader, writer, waiter, holder, mode, held, silent>>
    PROVE  IInv'
<1> DEFINE dropped == lost' \ lost
<1>a. /\ lost' = lost \cup dropped /\ dropped \subseteq Members(waitlist) \ {t}
      /\ value' = value - Cardinality(dropped)
  OBVIOUS
<1> HIDE DEF dropped
<1>0. /\ pc \in [Task -> Label] /\ value \in Int /\ value <= SemMax
      /\ waitlist \in Seq(Task) /\ waiter \in 0..Cardinality(Task)
      /\ mode \in [Task -> {"r", "w"}] /\ lost \subseteq Task /\ silent \in BOOLEAN
      /\ At({"blocked"}) = Members(waitlist) \cup lost /\ Members(waitlist) \cap lost = {}
  BY DEF IInv, TypeOK, WaitersCounted
<1>1. LockTypes' /\ LocksCounted' /\ HolderAlone'
  BY SameLocks
<1>2. At(InCall)' = At(InCall)
  BY <1>0 DEF At, InCall
<1>3. At({"blocked"})' = At({"blocked"}) \ {t}
  BY <1>0 DEF At
<1>d. /\ dropped \subseteq Task /\ lost \cap dropped = {}
      /\ IsFiniteSet(dropped) /\ Cardinality(dropped) \in Nat
      /\ IsFiniteSet(lost) /\ Cardinality(lost) \in Nat
  <2>1. Members(waitlist) \subseteq Task
    BY <1>0 DEF Members
  <2>2. dropped \subseteq Task /\ lost \cap dropped = {}
    BY <2>1, <1>0, <1>a
  <2> QED BY <2>2, LostFinite, RwSemAssumption, FS_Subset, FS_CardinalityType
<1>5. WaitersCounted'
  <2>1. At({"blocked"})' = Members(waitlist') \cup lost'
    BY <1>0, <1>3, <1>a
  <2>2. Members(waitlist') \cap lost' = {}
    BY <1>0
  <2> QED BY <1>2, <2>1, <2>2 DEF IInv, WaitersCounted
<1>6. WaitTypes' /\ silent' \in BOOLEAN
  <2>1. value' \in Int /\ value' <= SemMax
    BY <1>0, <1>a, <1>d, RwSemAssumption
  <2> QED BY <1>0, <1>a, <1>d, <2>1 DEF WaitTypes, Label
<1>l. LostCounted'
  <2>1. Cardinality(lost \cup dropped) = Cardinality(lost) + Cardinality(dropped)
    <3>1. Cardinality(lost \cup dropped)
            = Cardinality(lost) + Cardinality(dropped) - Cardinality(lost \cap dropped)
      BY <1>d, FS_Union
    <3>2. Cardinality(lost \cap dropped) = 0
      BY <1>d, FS_EmptySet
    <3> QED BY <1>d, <3>1, <3>2
  <2>2. value + Cardinality(lost) >= 0
    BY DEF IInv, LostCounted
  <2> QED BY <1>0, <1>a, <1>d, <2>1, <2>2 DEF LostCounted
<1>7. Posted'
  <2>1. At({"towait"})' \in SUBSET At({"towait"})
    BY <1>0 DEF At
  <2> DEFINE a == Cardinality(At({"towait"}))
             b == Cardinality(At({"towait"})')
  <2>2. a \in Nat /\ b \in Nat /\ b <= a
    BY <2>1, AtFinite, FS_Subset, FS_CardinalityType
  <2>3. waitlist = <<>> => dropped = {} /\ waitlist' = <<>>
    <3>1. waitlist = <<>> => Members(waitlist) = {}
      BY DEF Members
    <3>2. ASSUME waitlist' # <<>> PROVE waitlist'[1] \in Members(waitlist')
      BY <3>2 DEF Members
    <3> QED BY <3>1, <3>2, <1>a
  <2>4. waitlist = <<>> => value' = value
    <3>1. dropped = {} => Cardinality(dropped) = 0
      BY FS_EmptySet
    <3> QED BY <3>1, <2>3, <1>0, <1>a
  <2>5. waitlist = <<>> /\ value >= a => value' >= b
    <3> HIDE DEF a, b
    <3> QED BY <1>0, <2>2, <2>4
  <2> QED BY <2>3, <2>5 DEF IInv, Posted
<1>8. Room'
  BY <1>0, SameRoom DEF InCall
<1> QED BY <1>0, <1>1, <1>5, <1>6, <1>l, <1>7, <1>8, Together

\* What dq_rem leaves of the wait list
LEMMA WithoutTask ==
    ASSUME IInv, NEW t \in Task, pc[t] = "blocked", t \notin lost
    PROVE  /\ dq_rem(waitlist, t) \in Seq(Task) /\ Distinct(dq_rem(waitlist, t))
           /\ Descending(dq_rem(waitlist, t), Prio)
           /\ Members(dq_rem(waitlist, t)) = Members(waitlist) \ {t}
<1>1. Proper(waitlist, Task, Prio)
  BY DEF IInv, TypeOK, WaitersCounted, Proper
<1>2. t \in Members(waitlist)
  BY DEF IInv, WaitersCounted, At
<1> DEFINE rest == dq_rem(waitlist, t)
<1>r. rest = dq_rem(waitlist, t)
  OBVIOUS
<1> HIDE DEF rest
<1>3. Proper(rest, Task, Prio) /\ Members(rest) = Members(waitlist) \ {t}
  BY ONLY <1>1, <1>2, <1>r, DqRem
<1> QED BY <1>3, <1>r DEF Proper

LEMMA SignalStep ==
    ASSUME IInv, NEW t \in Task, signal(t)
    PROVE  IInv'
<1>1. /\ pc[t] = "blocked" /\ t \notin lost /\ waitlist' = dq_rem(waitlist, t)
      /\ pc' = [pc EXCEPT ![t] = "woken"]
      /\ UNCHANGED <<reader, writer, waiter, holder, value, mode, held, silent, lost>>
  BY DEF signal, Goto
<1>2. /\ waitlist' \in Seq(Task) /\ Distinct(waitlist') /\ Descending(waitlist', Prio)
      /\ Members(waitlist') = Members(waitlist) \ {t}
  BY <1>1, WithoutTask
<1>3. value' = value - Cardinality(lost' \ lost) /\ lost' \ lost = {}
  <2>1. lost' \ lost = {}
    BY <1>1
  <2>2. value \in Int /\ Cardinality(lost' \ lost) = 0
    BY <2>1, FS_EmptySet DEF IInv, TypeOK
  <2> QED BY <1>1, <2>1, <2>2
<1>4. Members(waitlist') = (Members(waitlist) \ {t}) \ lost'
  BY <1>1, <1>2 DEF IInv, WaitersCounted
<1> QED BY <1>1, <1>2, <1>3, <1>4, LeaveStep

\* The task itself leaves the list, and all others are dropped from it.
LEMMA DeleteStep ==
    ASSUME IInv, NEW t \in Task, nxtask_delete(t)
    PROVE  IInv'
<1>0. /\ pc[t] \in {"towait", "blocked", "woken"} /\ t \notin lost
      /\ pc' = [pc EXCEPT ![t] = "dead"]
      /\ UNCHANGED <<reader, writer, waiter, holder, mode, held, silent>>
  BY DEF nxtask_delete, Goto
<1>1. CASE pc[t] = "blocked"
  <2> DEFINE others == dq_rem(waitlist, t)
  <2>1. waitlist' = <<>> /\ value' = value - Len(others) /\ lost' = lost \cup Members(others)
    BY <1>1 DEF nxtask_delete
  <2>2. /\ others \in Seq(Task) /\ Distinct(others)
        /\ Members(others) = Members(waitlist) \ {t}
    BY <1>0, <1>1, WithoutTask
  <2>3. Cardinality(Members(others)) = Len(others)
    BY ONLY <2>2, DistinctLen
  <2> HIDE DEF others
  <2>4. lost' \ lost = Members(others)
    BY <2>1, <2>2 DEF IInv, WaitersCounted
  <2>5. value' = value - Cardinality(lost' \ lost)
    BY <2>1, <2>3, <2>4
  <2>6. /\ waitlist' \in Seq(Task) /\ Distinct(waitlist') /\ Descending(waitlist', Prio)
        /\ Members(waitlist') = (Members(waitlist) \ {t}) \ lost'
    <3>1. Members(waitlist') = {}
      BY <2>1 DEF Members
    <3> QED BY <2>1, <2>2, <3>1 DEF Distinct, Descending
  <2> QED BY <1>0, <2>1, <2>2, <2>4, <2>5, <2>6, LeaveStep
<1>2. CASE pc[t] # "blocked"
  <2>1. UNCHANGED <<value, waitlist, lost>>
    BY <1>2 DEF nxtask_delete
  <2>2. t \notin Members(waitlist) /\ Members(waitlist) \cap lost = {}
    BY <1>2 DEF IInv, WaitersCounted, At
  <2>3. /\ waitlist' \in Seq(Task) /\ Distinct(waitlist') /\ Descending(waitlist', Prio)
    BY <2>1 DEF IInv, TypeOK, WaitersCounted
  <2>4. Members(waitlist') = (Members(waitlist) \ {t}) \ lost' /\ lost' \ lost = {}
    BY <2>1, <2>2
  <2>5. value' = value - Cardinality(lost' \ lost)
    <3>1. value \in Int /\ Cardinality(lost' \ lost) = 0
      BY <2>4, FS_EmptySet DEF IInv, TypeOK
    <3> QED BY <2>1, <3>1
  <2> QED BY <1>0, <2>1, <2>3, <2>4, <2>5, LeaveStep
<1> QED BY <1>1, <1>2

\* The posts of a release leave the tasks that wait the room that they had.
LEMMA UpRoom ==
    ASSUME IInv, NEW t \in Task, pc[t] = "run", up_wait,
           \A u \in Task \ {t} : held'[u] = held[u]
    PROVE  Room'
<1>1. pc' = [u \in Task |->
               IF u \in Members(SubSeq(waitlist, 1, Smaller(waiter, Len(waitlist))))
               THEN "woken" ELSE pc[u]]
  BY DEF up_wait
<1> DEFINE W == Members(SubSeq(waitlist, 1, Smaller(waiter, Len(waitlist))))
<1>2. W \subseteq At({"blocked"})
  <2> DEFINE n == Smaller(waiter, Len(waitlist))
  <2>1. Len(waitlist) \in Nat /\ waiter \in Nat
    BY WaitersInCall
  <2>2. n \in 0..Len(waitlist)
    BY <2>1 DEF Smaller
  <2>3. waitlist \in Seq(Task) /\ Members(waitlist) \subseteq At({"blocked"})
    BY DEF IInv, TypeOK, WaitersCounted
  <2> HIDE DEF n
  <2>4. Members(SubSeq(waitlist, 1, n)) \subseteq Members(waitlist)
    BY <2>2, <2>3 DEF Members
  <2> QED BY <2>3, <2>4 DEF n
<1>3. \A u \in Task : pc'[u] \in InCall => pc[u] \in InCall
  BY <1>1, <1>2 DEF At, InCall
<1>4. pc'[t] \notin InCall
  BY <1>1, <1>2 DEF At, InCall
<1> QED BY <1>3, <1>4, SameRoom

LEMMA UpReadStep ==
    ASSUME IInv, NEW t \in Task, up_read(t)
    PROVE  IInv'
<1>0. /\ pc[t] = "run" /\ Released(t, "r") /\ UNCHANGED <<waiter, mode, lost>>
      /\ mode \in [Task -> {"r", "w"}]
  BY DEF up_read, IInv, TypeOK
<1>h. \A u \in Task \ {t} : held'[u] = held[u]
  BY <1>0, ReleasedHeld DEF IInv
<1>1. CASE holder = t
  <2>0. DropWriter /\ silent' = TRUE /\ UNCHANGED <<value, waitlist, pc>>
    BY <1>1 DEF up_read
  <2>1. LockTypes' /\ LocksCounted' /\ HolderAlone'
    BY <1>0, <1>1, <2>0, DropWriterStep
  <2>2. WaitTypes' /\ WaitersCounted' /\ LostCounted'
    BY <1>0, <2>0 DEF IInv, TypeOK, WaitTypes, WaitersCounted, LostCounted, At
  <2>3. Posted'
    BY <2>0 DEF Posted
  <2>4. Room'
    BY <1>0, <1>h, <2>0, SameRoom DEF InCall
  <2> QED BY <1>0, <2>0, <2>1, <2>2, <2>3, <2>4, Together
<1>2. CASE holder # t
  <2>0. reader' = reader - 1 /\ up_wait /\ silent' = FALSE /\ UNCHANGED <<writer, holder>>
    BY <1>2 DEF up_read
  <2>1. LockTypes' /\ LocksCounted' /\ HolderAlone'
    BY <1>0, <1>2, <2>0, DropReaderStep
  <2>2. /\ WaitTypes' /\ WaitersCounted' /\ LostCounted'
        /\ waitlist' = <<>> /\ value' >= Cardinality(At({"towait"}))'
    BY <1>0, <2>0, UpWaitStep
  <2>3. Posted'
    BY <2>2 DEF Posted
  <2>4. Room'
    BY <1>0, <1>h, <2>0, UpRoom
  <2> QED BY <1>0, <2>0, <2>1, <2>2, <2>3, <2>4, Together
<1> QED BY <1>1, <1>2

LEMMA UpWriteStep ==
    ASSUME IInv, NEW t \in Task, up_write(t)
    PROVE  IInv'
<1>0. /\ pc[t] = "run" /\ Released(t, "w") /\ DropWriter /\ up_wait /\ silent' = FALSE
      /\ UNCHANGED <<waiter, mode, lost>> /\ mode \in [Task -> {"r", "w"}]
  BY DEF up_write, IInv, TypeOK
<1>h. /\ \A u \in Task \ {t} : held'[u] = held[u]
      /\ Holds(t, "w") /\ held[t] # <<>>
  BY <1>0, ReleasedHeld DEF IInv
<1>1. holder = t
  BY <1>h DEF IInv, HolderAlone
<1>2. LockTypes' /\ LocksCounted' /\ HolderAlone'
  BY <1>0, <1>1, DropWriterStep
<1>3. /\ WaitTypes' /\ WaitersCounted' /\ LostCounted'
      /\ waitlist' = <<>> /\ value' >= Cardinality(At({"towait"}))'
  BY <1>0, UpWaitStep
<1>4. Posted'
  BY <1>3 DEF Posted
<1>5. Room'
  BY <1>0, <1>h, UpRoom
<1> QED BY <1>0, <1>2, <1>3, <1>4, <1>5, Together

LEMMA NextIInv == ASSUME IInv, [Next]_vars PROVE IInv'
<1>1. ASSUME NEW t \in Task, NEW m \in {"r", "w"}, down_trylock(t, m) \/ down(t, m)
      PROVE  IInv'
  BY <1>1, TryLockStep, DownStep
<1>2. ASSUME NEW t \in Task,
             \/ down_wait(t) \/ down_retry(t) \/ up_read(t) \/ up_write(t)
             \/ signal(t) \/ nxtask_delete(t)
      PROVE  IInv'
  BY <1>2, DownWaitStep, RetryStep, UpReadStep, UpWriteStep, SignalStep, DeleteStep
<1>3. CASE UNCHANGED vars
  BY <1>3 DEF vars, IInv, TypeOK, LocksCounted, Locks, HolderAlone, Holds,
              WaitersCounted, LostCounted, At, Posted, Room
<1> QED BY <1>1, <1>2, <1>3 DEF Next

LEMMA Invariance == Spec => []IInv
BY InitIInv, NextIInv, PTL DEF Spec

-----------------------------------------------------------------------------
(* What the invariant says *)

\* The counters of the lock never leave their range: the assertions of up_read
\* and up_write hold, and at most SEM_VALUE_MAX posts are kept.
THEOREM RwSemTypeCorrect == Spec => []TypeOK
<1>1. IInv => TypeOK
  BY DEF IInv
<1> QED BY <1>1, Invariance, PTL

\* While a task has a write lock no other task has a lock of any kind.
THEOREM RwSemExcludes == Spec => []Exclusion
<1>1. ASSUME IInv PROVE Exclusion
  <2> SUFFICES ASSUME NEW t \in Task, NEW u \in Task, t # u, held[t] # <<>>, Holds(u, "w")
               PROVE  FALSE
    BY DEF Exclusion
  <2>1. held[u] # <<>>
    BY DEF Holds, Members
  <2>2. holder # NoHolder
    BY <1>1 DEF IInv, HolderAlone
  <2> QED BY <1>1, <2>1, <2>2 DEF IInv, HolderAlone
<1> QED BY <1>1, Invariance, PTL

\* reader, writer and waiter agree with the locks that tasks have and with the
\* tasks that are in a call.
THEOREM RwSemCounts == Spec => []CountersMatch
<1>1. ASSUME IInv PROVE CountersMatch
  <2>1. writer > 0 <=> holder # NoHolder
    BY <1>1 DEF IInv, TypeOK, HolderAlone
  <2>2. holder # NoHolder => writer = Len(held[holder])
    BY <1>1 DEF IInv, HolderAlone
  <2>3. (\A t \in Task : held[t] = <<>>) => reader = 0 /\ writer = 0
    BY <1>1, FreeIsUnheld DEF IInv
  <2>4. At(InCall) = {t \in Task : pc[t] # "run"}
    BY <1>1 DEF IInv, TypeOK, At, InCall, Label
  <2> QED BY <1>1, <2>1, <2>2, <2>3, <2>4 DEF IInv, WaitersCounted, CountersMatch
<1> QED BY <1>1, Invariance, PTL

\* The posts of the last release reach every task that waits: nobody sleeps
\* while the lock is free, unless the last release was that of a converted read
\* lock, or the task was dropped from the wait list with a deleted one.
THEOREM RwSemWakesAll == Spec => []NoStrandedWaiter
<1>1. ASSUME IInv PROVE NoStrandedWaiter
  <2>1. Members(<<>>) = {}
    BY DEF Members
  <2> QED BY <1>1, <2>1 DEF IInv, Posted, WaitersCounted, At, NoStrandedWaiter
<1> QED BY <1>1, Invariance, PTL
=============================================================================
