--------------------------- MODULE TaskListProofs ---------------------------
(***************************************************************************)
(* What the operations on prioritized task lists return, for lists of any  *)
(* length over any set of tasks.                                           *)
(***************************************************************************)
EXTENDS TaskList, WellFoundedInduction, FiniteSetTheorems, TLAPS

\* A non-empty set of natural numbers has a least element: what stands in for
\* induction over the positions of a list.
LEMMA LeastNat ==
    ASSUME NEW T, T \subseteq Nat, T # {}
    PROVE  \E m \in T : \A n \in T : m <= n
<1> DEFINE Less == OpToRel(<, Nat)
<1>1. IsWellFoundedOn(Less, Nat)
  BY NatLessThanWellFounded, Zenon
<1>2. \A m, n \in Nat : m < n => <<m, n>> \in Less
  BY DEF OpToRel
<1> HIDE DEF Less
<1>3. PICK m \in T : \A n \in T : ~(<<n, m>> \in Less)
  BY <1>1, WFMin, Zenon
<1>4. ASSUME NEW n \in T PROVE m <= n
  <2>1. m \in Nat /\ n \in Nat
    BY <1>3
  <2>2. ~(<<n, m>> \in Less)
    BY <1>3, Zenon
  <2>3. ~(n < m)
    BY <2>1, <2>2, <1>2, Zenon
  <2> QED BY <2>1, <2>3
<1> QED BY <1>3, <1>4, Zenon

\* The search loop stops at a boundary: no task before it is overtaken, and
\* the one after it, if any, is.  It is there in every list, sorted or not.
LEMMA AheadBoundary ==
    ASSUME NEW S, NEW list \in Seq(S), NEW prio \in [S -> Int], NEW p \in Int
    PROVE  LET k == Ahead(list, prio, p)
           IN  /\ k \in 0..Len(list)
               /\ \A i \in 1..k : p <= prio[list[i]]
               /\ k < Len(list) => prio[list[k + 1]] < p
<1> DEFINE Stop(k) == /\ \A i \in 1..k : p <= prio[list[i]]
                      /\ k < Len(list) => prio[list[k + 1]] < p
           T == {k \in 0..Len(list) : k < Len(list) => prio[list[k + 1]] < p}
<1>1. T \subseteq Nat /\ T # {}
  <2>1. Len(list) \in T
    OBVIOUS
  <2> QED BY <2>1
<1>2. PICK m \in T : \A n \in T : m <= n
  <2> HIDE DEF T
  <2> QED BY <1>1, LeastNat, Zenon
<1>3. ASSUME NEW i \in 1..m PROVE p <= prio[list[i]]
  <2>1. i - 1 \in 0..Len(list) /\ i - 1 < Len(list)
    BY <1>2
  <2>2. i - 1 \notin T
    <3>1. ~(m <= i - 1)
      BY <1>2
    <3> HIDE DEF T
    <3> QED BY <3>1, <1>2
  <2>3. ~(prio[list[(i - 1) + 1]] < p)
    BY <2>1, <2>2
  <2>4. list[i] \in S /\ (i - 1) + 1 = i
    BY <2>1
  <2> QED BY <2>3, <2>4
<1>4. \E k \in 0..Len(list) : Stop(k)
  BY <1>2, <1>3
<1>5. Ahead(list, prio, p) = CHOOSE k \in 0..Len(list) : Stop(k)
  BY DEF Ahead
<1> QED
  <2> HIDE DEF Stop
  <2>1. Ahead(list, prio, p) \in 0..Len(list) /\ Stop(Ahead(list, prio, p))
    BY <1>4, <1>5, Zenon
  <2> QED BY <2>1 DEF Stop

\* A list as the scheduler keeps them: no task twice, in descending order
Proper(list, S, prio) == list \in Seq(S) /\ Distinct(list) /\ Descending(list, prio)

\* An insertion adds the task, and keeps the list without duplicates and in
\* descending order.
LEMMA AddPrioritized ==
    ASSUME NEW S, NEW list, NEW prio \in [S -> Int], NEW t \in S,
           Proper(list, S, prio), t \notin Members(list),
           NEW l, l = nxsched_add_prioritized(list, prio, t)
    PROVE  /\ Proper(l, S, prio)
           /\ Len(l) = Len(list) + 1
           /\ Members(l) = Members(list) \cup {t}
<1> USE DEF Proper
<1> DEFINE k == Ahead(list, prio, prio[t])
<1>k. /\ k \in 0..Len(list)
      /\ \A i \in 1..k : prio[t] <= prio[list[i]]
      /\ k < Len(list) => prio[list[k + 1]] < prio[t]
  BY AheadBoundary
<1>l. l = [i \in 1..(Len(list) + 1) |->
            IF i <= k THEN list[i] ELSE IF i = k + 1 THEN t ELSE list[i - 1]]
  BY DEF nxsched_add_prioritized
<1> HIDE DEF k
<1>1. l \in Seq(S) /\ Len(l) = Len(list) + 1
  BY <1>k, <1>l
<1>2. Members(l) = Members(list) \cup {t}
  <2>1. ASSUME NEW x \in Members(l) PROVE x \in Members(list) \cup {t}
    BY <1>k, <1>l, <1>1 DEF Members
  <2>2. t \in Members(l)
    <3>1. k + 1 \in DOMAIN l /\ l[k + 1] = t
      BY <1>k, <1>l
    <3> QED BY <3>1 DEF Members
  <2>3. ASSUME NEW i \in DOMAIN list PROVE list[i] \in Members(l)
    <3>1. CASE i <= k
      <4>1. i \in DOMAIN l /\ l[i] = list[i]
        BY <3>1, <1>k, <1>l
      <4> QED BY <4>1 DEF Members
    <3>2. CASE i > k
      <4>1. i + 1 \in DOMAIN l /\ l[i + 1] = list[i]
        BY <3>2, <1>k, <1>l
      <4> QED BY <4>1 DEF Members
    <3> QED BY <3>1, <3>2, <1>k
  <2> QED BY <2>1, <2>2, <2>3 DEF Members
<1>3. Descending(l, prio)
  <2> SUFFICES ASSUME NEW i \in DOMAIN l, NEW j \in DOMAIN l, i <= j
               PROVE  prio[l[j]] <= prio[l[i]]
    BY DEF Descending
  <2>a. i \in 1..(Len(list) + 1) /\ j \in 1..(Len(list) + 1)
    BY <1>l
  <2>b. \A x, y \in 1..Len(list) : x <= y => prio[list[y]] <= prio[list[x]]
    BY DEF Descending
  <2>c. \A x \in 1..Len(list) : list[x] \in S /\ prio[list[x]] \in Int
    OBVIOUS
  <2>0. /\ i \in 1..(Len(list) + 1) /\ j \in 1..(Len(list) + 1)
        /\ \A x, y \in 1..Len(list) : x <= y => prio[list[y]] <= prio[list[x]]
        /\ \A x \in 1..Len(list) : list[x] \in S /\ prio[list[x]] \in Int
        /\ prio[t] \in Int
    BY <2>a, <2>b, <2>c
  <2>1. CASE j <= k
    <3>1. l[i] = list[i] /\ l[j] = list[j] /\ i \in 1..Len(list) /\ j \in 1..Len(list)
      BY <2>1, <2>0, <1>k, <1>l
    <3> QED BY <3>1, <2>0
  <2>2. CASE j = k + 1
    BY <2>2, <2>0, <1>k, <1>l
  <2>3. CASE j > k + 1
    <3>a. l[j] = list[j - 1] /\ j - 1 \in 1..Len(list) /\ k + 1 <= j - 1
          /\ k + 1 \in 1..Len(list)
      BY <2>3, <2>0, <1>k, <1>l
    <3>b. prio[list[j - 1]] <= prio[list[k + 1]] /\ prio[list[k + 1]] < prio[t]
      BY <3>a, <2>0, <1>k
    <3>1. l[j] = list[j - 1] /\ prio[list[j - 1]] <= prio[list[k + 1]]
          /\ prio[list[k + 1]] < prio[t]
      BY <3>a, <3>b
    <3>2. CASE i <= k
      BY <3>1, <3>2, <2>3, <2>0, <1>k, <1>l
    <3>3. CASE i = k + 1
      BY <3>1, <3>3, <2>3, <2>0, <1>k, <1>l
    <3>4. CASE i > k + 1
      <4>1. l[i] = list[i - 1] /\ i - 1 \in 1..Len(list) /\ i - 1 <= j - 1
        BY <3>4, <2>0, <1>k, <1>l
      <4> QED BY <4>1, <3>a, <2>0
    <3> QED BY <3>2, <3>3, <3>4, <2>0, <1>k
  <2> QED BY <2>1, <2>2, <2>3, <2>0, <1>k
<1>4. Distinct(l)
  <2> SUFFICES ASSUME NEW i \in DOMAIN l, NEW j \in DOMAIN l, l[i] = l[j]
               PROVE  i = j
    BY DEF Distinct
  <2>1. \A x \in 1..Len(list) : list[x] # t
    BY DEF Members
  <2>2. \A x, y \in 1..Len(list) : list[x] = list[y] => x = y
    BY DEF Distinct
  <2>3. i \in 1..(Len(list) + 1) /\ j \in 1..(Len(list) + 1)
    BY <1>l
  <2> DEFINE Old(x) == IF x <= k THEN x ELSE x - 1
  <2>4. \A x \in 1..(Len(list) + 1) :
          \/ x = k + 1 /\ l[x] = t
          \/ x # k + 1 /\ Old(x) \in 1..Len(list) /\ l[x] = list[Old(x)]
    BY <1>k, <1>l
  <2>5. i = k + 1 <=> j = k + 1
    BY <2>1, <2>3, <2>4
  <2>6. CASE i # k + 1
    <3>1. Old(i) = Old(j)
      BY <2>2, <2>3, <2>4, <2>5, <2>6
    <3> QED BY <3>1, <2>3, <2>5, <2>6, <1>k
  <2> QED BY <2>5, <2>6
<1> QED BY <1>1, <1>2, <1>3, <1>4

\* Unlinking a task that is in the list once takes that task and no other.
LEMMA DqRem ==
    ASSUME NEW S, NEW list, NEW prio, NEW t \in Members(list),
           Proper(list, S, prio),
           NEW l, l = dq_rem(list, t)
    PROVE  /\ Proper(l, S, prio)
           /\ Len(l) = Len(list) - 1
           /\ Members(l) = Members(list) \ {t}
<1> USE DEF Proper
<1> DEFINE k == CHOOSE i \in DOMAIN list : list[i] = t
<1>k. k \in 1..Len(list) /\ list[k] = t
  BY DEF Members
<1>l. l = [i \in 1..(Len(list) - 1) |-> IF i < k THEN list[i] ELSE list[i + 1]]
  BY DEF dq_rem
<1>d. \A x, y \in 1..Len(list) : list[x] = list[y] => x = y
  BY DEF Distinct
<1> HIDE DEF k
<1>1. l \in Seq(S) /\ Len(l) = Len(list) - 1
  BY <1>k, <1>l
<1>2. Members(l) = Members(list) \ {t}
  <2>1. ASSUME NEW i \in DOMAIN l PROVE l[i] \in Members(list) \ {t}
    BY <1>k, <1>l, <1>d DEF Members
  <2>2. ASSUME NEW i \in DOMAIN list, list[i] # t PROVE list[i] \in Members(l)
    <3>1. CASE i < k
      <4>1. i \in DOMAIN l /\ l[i] = list[i]
        BY <3>1, <1>k, <1>l
      <4> QED BY <4>1 DEF Members
    <3>2. CASE i > k
      <4>1. i - 1 \in DOMAIN l /\ l[i - 1] = list[i]
        BY <3>2, <1>k, <1>l
      <4> QED BY <4>1 DEF Members
    <3> QED BY <3>1, <3>2, <2>2, <1>k
  <2> QED BY <2>1, <2>2 DEF Members
<1>3. Distinct(l)
  BY <1>k, <1>l, <1>d DEF Distinct
<1>4. Descending(l, prio)
  BY <1>k, <1>l DEF Descending
<1> QED BY <1>1, <1>2, <1>3, <1>4

FirstOf(list, n) == {list[i] : i \in 1..n}
Without(A, B) == A \ B

\* Taking the first n tasks off a list leaves the others, in the same order.
LEMMA DropFirst ==
    ASSUME NEW S, NEW list, NEW prio, NEW n \in 0..Len(list),
           Proper(list, S, prio),
           NEW l, l = SubSeq(list, n + 1, Len(list))
    PROVE  Proper(l, S, prio) /\ Len(l) = Len(list) - n
<1> USE DEF Proper
<1>1. /\ l \in Seq(S) /\ Len(l) = Len(list) - n
      /\ \A i \in 1..(Len(list) - n) : l[i] = list[n + i]
      /\ DOMAIN l = 1..(Len(list) - n)
  OBVIOUS
<1>n. \A i \in DOMAIN l : n + i \in 1..Len(list) /\ l[i] = list[n + i]
  BY <1>1
<1>i. DOMAIN l \subseteq Nat /\ n \in Nat
  BY <1>1
<1>2. Distinct(l)
  <2>1. \A x, y \in 1..Len(list) : list[x] = list[y] => x = y
    BY DEF Distinct
  <2> SUFFICES ASSUME NEW i \in DOMAIN l, NEW j \in DOMAIN l, l[i] = l[j]
               PROVE  i = j
    BY DEF Distinct
  <2>2. /\ n + i \in 1..Len(list) /\ n + j \in 1..Len(list)
        /\ l[i] = list[n + i] /\ l[j] = list[n + j]
    BY <1>n
  <2>3. n + i = n + j
    BY ONLY l[i] = l[j], <2>1, <2>2
  <2> QED BY ONLY <2>3, <1>i, i \in DOMAIN l, j \in DOMAIN l
<1>3. Descending(l, prio)
  <2>1. \A x, y \in 1..Len(list) : x <= y => prio[list[y]] <= prio[list[x]]
    BY DEF Descending
  <2> SUFFICES ASSUME NEW i \in DOMAIN l, NEW j \in DOMAIN l, i <= j
               PROVE  prio[l[j]] <= prio[l[i]]
    BY DEF Descending
  <2>2. /\ n + i \in 1..Len(list) /\ n + j \in 1..Len(list)
        /\ l[i] = list[n + i] /\ l[j] = list[n + j]
    BY <1>n
  <2>3. n + i <= n + j
    BY ONLY i <= j, <1>i, i \in DOMAIN l, j \in DOMAIN l
  <2> QED BY ONLY <2>1, <2>2, <2>3
<1> QED BY <1>1, <1>2, <1>3

\* What is left after the first n tasks has none of them as a member.
LEMMA DropFirstMembers ==
    ASSUME NEW S, NEW list, NEW prio, NEW n \in 0..Len(list),
           Proper(list, S, prio),
           NEW l, l = SubSeq(list, n + 1, Len(list))
    PROVE  Members(l) = Without(Members(list), FirstOf(list, n))
<1> USE DEF Proper
<1>1. /\ \A i \in 1..(Len(list) - n) : l[i] = list[n + i]
      /\ DOMAIN l = 1..(Len(list) - n)
  OBVIOUS
<1>2. \A x, y \in 1..Len(list) : list[x] = list[y] => x = y
  BY DEF Distinct
<1>3. ASSUME NEW i \in DOMAIN l
      PROVE  l[i] \in Members(list) /\ l[i] \notin FirstOf(list, n)
  BY <1>1, <1>2 DEF Members, FirstOf
<1>4. ASSUME NEW i \in DOMAIN list, list[i] \notin FirstOf(list, n)
      PROVE  list[i] \in Members(l)
  <2>1. i - n \in DOMAIN l /\ l[i - n] = list[i]
    BY <1>1, <1>4 DEF FirstOf
  <2> QED BY <2>1 DEF Members
<1> QED BY <1>3, <1>4 DEF Members, Without

\* The first n tasks of a list without duplicates are n tasks.
LEMMA CardFirstOf ==
    ASSUME NEW S, NEW list \in Seq(S), Distinct(list), NEW n \in 0..Len(list)
    PROVE  Cardinality(FirstOf(list, n)) = n
<1> DEFINE f == [i \in 1..n |-> list[i]]
<1>1. f \in Bijection(1..n, FirstOf(list, n))
  BY DEF Bijection, Injection, IsInjective, Surjection, FirstOf, Distinct
<1>2. ExistsBijection(1..n, FirstOf(list, n))
  BY <1>1 DEF ExistsBijection
<1> QED BY <1>2, FS_CountingElements

-----------------------------------------------------------------------------
(* Merging two lists *)

\* A list of m entries and one of n entries, interleaved: A[i] entries of the
\* second one come before the entry i of the first one, and B[j] the other way.
Interleaved(n, m, A, B) ==
    /\ A \in [1..m -> 0..n] /\ B \in [1..n -> 0..m]
    /\ \A i \in 1..m, j \in 1..n : j <= A[i] <=> i > B[j]

\* Every entry has a place of its own, the order of each list is kept, and no
\* place is left over.
Places(n, m, A, B) ==
    /\ \A i, h \in 1..m : i < h => i + A[i] < h + A[h]
    /\ \A j, h \in 1..n : j < h => j + B[j] < h + B[h]
    /\ \A i \in 1..m, j \in 1..n : j + B[j] < i + A[i] <=> j <= A[i]
    /\ \A i \in 1..m, j \in 1..n : j + B[j] # i + A[i]
    /\ \A q \in 1..(n + m) : \/ \E i \in 1..m : i + A[i] = q
                             \/ \E j \in 1..n : j + B[j] = q

LEMMA Interleave ==
    ASSUME NEW n \in Nat, NEW m \in Nat, NEW A, NEW B, Interleaved(n, m, A, B)
    PROVE  Places(n, m, A, B)
<1> USE DEF Interleaved
<1>1. ASSUME NEW i \in 1..m, NEW h \in 1..m, i < h
      PROVE  i + A[i] < h + A[h]
  <2>1. A[i] \in 0..n /\ A[h] \in 0..n
    OBVIOUS
  <2>2. A[i] <= A[h]
    <3>1. CASE A[i] = 0
      BY <3>1, <2>1
    <3>2. CASE A[i] # 0
      <4>1. A[i] \in 1..n /\ A[i] <= A[i]
        BY <3>2, <2>1
      <4>2. i > B[A[i]] /\ B[A[i]] \in 0..m
        BY <4>1
      <4>3. h > B[A[i]]
        BY <4>2, <1>1
      <4> QED BY <4>1, <4>3
    <3> QED BY <3>1, <3>2
  <2> QED BY <1>1, <2>1, <2>2
<1>2. ASSUME NEW j \in 1..n, NEW h \in 1..n, j < h
      PROVE  j + B[j] < h + B[h]
  <2>1. B[j] \in 0..m /\ B[h] \in 0..m
    OBVIOUS
  <2>2. B[j] <= B[h]
    <3>1. CASE B[j] = 0
      BY <3>1, <2>1
    <3>2. CASE B[j] # 0
      <4>1. B[j] \in 1..m /\ ~(B[j] > B[j])
        BY <3>2, <2>1
      <4>2. ~(j <= A[B[j]]) /\ A[B[j]] \in 0..n
        BY <4>1
      <4>3. ~(h <= A[B[j]])
        BY <4>2, <1>2
      <4>4. ~(B[j] > B[h])
        BY <4>1, <4>3
      <4> QED BY <4>4, <2>1
    <3> QED BY <3>1, <3>2
  <2> QED BY <1>2, <2>1, <2>2
<1>3. ASSUME NEW i \in 1..m, NEW j \in 1..n
      PROVE  (j + B[j] < i + A[i] <=> j <= A[i]) /\ j + B[j] # i + A[i]
  <2>1. A[i] \in 0..n /\ B[j] \in 0..m /\ (j <= A[i] <=> i > B[j])
    OBVIOUS
  <2> QED BY <2>1
<1>4. ASSUME NEW q \in 1..(n + m), \A i \in 1..m : i + A[i] # q
      PROVE  \E j \in 1..n : j + B[j] = q
  <2> DEFINE T == {i \in 1..(m + 1) : i <= m => i + A[i] > q}
  <2>1. PICK h \in T : \A i \in T : h <= i
    <3>1. T \subseteq Nat /\ m + 1 \in T
      OBVIOUS
    <3> HIDE DEF T
    <3> QED BY <3>1, LeastNat, Zenon
  <2>2. h \in 1..(m + 1) /\ (h <= m => h + A[h] > q)
    OBVIOUS
  <2>3. h > 1 => (h - 1) + A[h - 1] < q
    <3> SUFFICES ASSUME h > 1 PROVE (h - 1) + A[h - 1] < q
      OBVIOUS
    <3>1. h - 1 \in 1..m /\ h - 1 \in 1..(m + 1) /\ h - 1 <= m /\ ~(h <= h - 1)
      BY <2>2
    <3>2. ~((h - 1) + A[h - 1] > q)
      BY <3>1, <2>1
    <3>3. A[h - 1] \in 0..n /\ (h - 1) + A[h - 1] # q
      BY <3>1, <1>4
    <3> QED BY <3>1, <3>2, <3>3
  <2> DEFINE j == q - (h - 1)
  <2>4. j \in 1..n
    <3>1. j <= n
      <4>1. CASE h = m + 1
        BY <4>1
      <4>2. CASE h <= m
        <5>1. h + A[h] > q /\ A[h] \in 0..n
          BY <2>2, <4>2
        <5> QED BY <5>1, <2>2
      <4> QED BY <4>1, <4>2, <2>2
    <3>2. j >= 1
      <4>1. CASE h = 1
        BY <4>1
      <4>2. CASE h > 1
        <5>1. (h - 1) + A[h - 1] < q /\ A[h - 1] \in 0..n
          BY <2>2, <2>3, <4>2
        <5> QED BY <5>1, <2>2
      <4> QED BY <4>1, <4>2, <2>2
    <3> QED BY <3>1, <3>2, <2>2
  <2>5. B[j] \in 0..m
    BY <2>4
  <2>6. h - 1 <= B[j]
    <3>1. CASE h = 1
      BY <3>1, <2>5
    <3>2. CASE h > 1
      <4>1. h - 1 \in 1..m /\ A[h - 1] \in 0..n
        BY <3>2, <2>2
      <4>2. ~(j <= A[h - 1])
        BY <4>1, <2>3, <3>2, <2>2
      <4>3. ~(h - 1 > B[j])
        BY <4>1, <4>2, <2>4
      <4> QED BY <4>3, <2>5, <4>1
    <3> QED BY <3>1, <3>2, <2>2
  <2>7. B[j] < h
    <3>1. CASE h = m + 1
      BY <3>1, <2>5
    <3>2. CASE h <= m
      <4>1. h \in 1..m /\ A[h] \in 0..n
        BY <3>2, <2>2
      <4>2. j <= A[h]
        BY <4>1, <2>2, <3>2
      <4>3. h > B[j]
        BY <4>1, <4>2, <2>4
      <4> QED BY <4>3, <2>5, <4>1
    <3> QED BY <3>1, <3>2, <2>2
  <2>8. j = q - (h - 1) /\ q \in Int /\ h \in Int
    BY <2>2
  <2> HIDE DEF j, T
  <2>9. B[j] = h - 1
    BY ONLY <2>5, <2>6, <2>7, <2>8, m \in Nat
  <2> QED BY <2>4, <2>8, <2>9
<1> QED BY <1>1, <1>2, <1>3, <1>4 DEF Places

\* In a descending list the search loop stops exactly behind the tasks that
\* are not overtaken.
LEMMA AheadOrder ==
    ASSUME NEW S, NEW list \in Seq(S), NEW prio \in [S -> Int], NEW p \in Int,
           Descending(list, prio)
    PROVE  /\ Ahead(list, prio, p) \in 0..Len(list)
           /\ \A i \in 1..Len(list) : i <= Ahead(list, prio, p) <=> p <= prio[list[i]]
<1> DEFINE k == Ahead(list, prio, p)
<1>1. /\ k \in 0..Len(list)
      /\ \A i \in 1..k : p <= prio[list[i]]
      /\ k < Len(list) => prio[list[k + 1]] < p
  BY AheadBoundary
<1> HIDE DEF k
<1>2. \A i, j \in 1..Len(list) : i <= j => prio[list[j]] <= prio[list[i]]
  BY DEF Descending
<1>3. ASSUME NEW i \in 1..Len(list), ~(i <= k) PROVE ~(p <= prio[list[i]])
  <2>1. k + 1 \in 1..Len(list) /\ k < Len(list) /\ k + 1 <= i
    BY <1>1, <1>3
  <2>2. prio[list[i]] <= prio[list[k + 1]] /\ prio[list[k + 1]] < p
    BY <1>1, <1>2, <2>1
  <2>3. prio[list[i]] \in Int /\ prio[list[k + 1]] \in Int
    BY <2>1
  <2> QED BY <2>2, <2>3
<1>4. ASSUME NEW i \in 1..Len(list), i <= k PROVE p <= prio[list[i]]
  BY <1>1, <1>4
<1> QED BY <1>1, <1>3, <1>4 DEF k

LEMMA ProperFacts ==
    ASSUME NEW S, NEW list, NEW prio \in [S -> Int], Proper(list, S, prio),
           NEW n, n = Len(list)
    PROVE  /\ n \in Nat /\ DOMAIN list = 1..n
           /\ \A i \in 1..n : list[i] \in S /\ prio[list[i]] \in Int
           /\ \A i, j \in 1..n : list[i] = list[j] => i = j
           /\ \A i, j \in 1..n : i <= j => prio[list[j]] <= prio[list[i]]
<1>1. n \in Nat /\ DOMAIN list = 1..n /\ list \in Seq(S)
  BY DEF Proper
<1>2. \A i \in 1..n : list[i] \in S /\ prio[list[i]] \in Int
  BY <1>1
<1>3. \A i, j \in 1..n : list[i] = list[j] => i = j
  BY <1>1 DEF Proper, Distinct
<1>4. \A i, j \in 1..n : i <= j => prio[list[j]] <= prio[list[i]]
  <2>1. \A i, j \in DOMAIN list : i <= j => prio[list[j]] <= prio[list[i]]
    BY DEF Proper, Descending
  <2> QED BY <1>1, <2>1, Zenon
<1> QED BY <1>1, <1>2, <1>3, <1>4, Zenon

\* l is list1 and list2, interleaved by priority: list2[i] is at i + A[i] and
\* list1[j] at j + B[j].
Merged(l, list1, list2, prio, A, B) ==
    LET n == Len(list1)
        m == Len(list2)
    IN  /\ Interleaved(n, m, A, B)
        /\ \A i \in 1..m, j \in 1..n : j <= A[i] <=> prio[list2[i]] < prio[list1[j]]
        /\ \A i \in 1..m : l[i + A[i]] = list2[i]
        /\ \A j \in 1..n : l[j + B[j]] = list1[j]

LEMMA MergePlaces ==
    ASSUME NEW S, NEW list1, NEW list2, NEW prio \in [S -> Int],
           Proper(list1, S, prio), Proper(list2, S, prio),
           NEW l, l = Merge(list1, list2, prio)
    PROVE  \E A, B : Merged(l, list1, list2, prio, A, B)
<1> DEFINE n == Len(list1)
           m == Len(list2)
<1>0. /\ list1 \in Seq(S) /\ list2 \in Seq(S) /\ n \in Nat /\ m \in Nat
      /\ DOMAIN list1 = 1..n /\ DOMAIN list2 = 1..m
      /\ \A j \in 1..n : list1[j] \in S /\ prio[list1[j]] \in Int
      /\ \A i \in 1..m : list2[i] \in S /\ prio[list2[i]] \in Int
  BY DEF Proper
<1> DEFINE A == [i \in 1..m |-> Ahead(list1, prio, prio[list2[i]] + 1)]
           B == [j \in 1..n |-> Ahead(list2, prio, prio[list1[j]])]
<1>1. ASSUME NEW i \in 1..m
      PROVE  /\ A[i] \in 0..n
             /\ \A j \in 1..n : j <= A[i] <=> prio[list2[i]] + 1 <= prio[list1[j]]
  <2>1. prio[list2[i]] + 1 \in Int
    BY <1>0
  <2> QED BY <1>0, <2>1, AheadOrder DEF Proper
<1>2. ASSUME NEW j \in 1..n
      PROVE  /\ B[j] \in 0..m
             /\ \A i \in 1..m : i <= B[j] <=> prio[list1[j]] <= prio[list2[i]]
  <2>1. prio[list1[j]] \in Int
    BY <1>0
  <2> QED BY <1>0, <2>1, AheadOrder DEF Proper
<1>3. A \in [1..m -> 0..n] /\ B \in [1..n -> 0..m]
  <2>1. A = [i \in 1..m |-> A[i]] /\ B = [j \in 1..n |-> B[j]]
    OBVIOUS
  <2> HIDE DEF A, B
  <2> QED BY <1>1, <1>2, <2>1
<1>p. /\ \A i \in 1..m : Place2(list1, list2, prio, i) = i + A[i]
      /\ \A j \in 1..n : Place1(list1, list2, prio, j) = j + B[j]
  BY DEF Place1, Place2
<1>m. /\ Len(list1) = n /\ Len(list2) = m
      /\ l = [q \in 1..(n + m) |->
              IF \E i \in 1..m : Place2(list1, list2, prio, i) = q
              THEN list2[CHOOSE i \in 1..m : Place2(list1, list2, prio, i) = q]
              ELSE list1[CHOOSE j \in 1..n : Place1(list1, list2, prio, j) = q]]
  BY <1>0 DEF Merge
<1> HIDE DEF A, B, n, m
<1>4. ASSUME NEW i \in 1..m, NEW j \in 1..n
      PROVE  /\ j <= A[i] <=> i > B[j]
             /\ j <= A[i] <=> prio[list2[i]] < prio[list1[j]]
  <2> DEFINE x == prio[list2[i]]
             y == prio[list1[j]]
  <2>1. x \in Int /\ y \in Int /\ A[i] \in Nat /\ B[j] \in Nat
    BY <1>0, <1>1, <1>2
  <2>2. (j <= A[i] <=> x + 1 <= y) /\ (i <= B[j] <=> y <= x)
    BY <1>1, <1>2
  <2>3. i \in Nat /\ j \in Nat
    BY <1>0
  <2> HIDE DEF x, y
  <2>4. (j <= A[i] <=> i > B[j]) /\ (j <= A[i] <=> x < y)
    BY ONLY <2>1, <2>2, <2>3
  <2> QED BY <2>4 DEF x, y
<1>5. /\ \A i, h \in 1..m : i < h => i + A[i] < h + A[h]
      /\ \A j, h \in 1..n : j < h => j + B[j] < h + B[h]
      /\ \A i \in 1..m, j \in 1..n : j + B[j] # i + A[i]
  <2>1. Interleaved(n, m, A, B)
    BY <1>3, <1>4 DEF Interleaved
  <2>2. n \in Nat /\ m \in Nat
    BY <1>0
  <2>3. Places(n, m, A, B)
    BY ONLY <2>1, <2>2, Interleave, Zenon
  <2> QED BY <2>3 DEF Places
<1>6. \A q \in 1..(n + m) :
        l[q] = IF \E i \in 1..m : i + A[i] = q
               THEN list2[CHOOSE i \in 1..m : i + A[i] = q]
               ELSE list1[CHOOSE j \in 1..n : j + B[j] = q]
  <2> SUFFICES ASSUME NEW q \in 1..(n + m)
               PROVE  l[q] = IF \E i \in 1..m : i + A[i] = q
                             THEN list2[CHOOSE i \in 1..m : i + A[i] = q]
                             ELSE list1[CHOOSE j \in 1..n : j + B[j] = q]
    OBVIOUS
  <2>2. /\ (CHOOSE i \in 1..m : Place2(list1, list2, prio, i) = q)
            = CHOOSE i \in 1..m : i + A[i] = q
        /\ (CHOOSE j \in 1..n : Place1(list1, list2, prio, j) = q)
            = CHOOSE j \in 1..n : j + B[j] = q
    BY <1>p
  <2>3. (\E i \in 1..m : Place2(list1, list2, prio, i) = q)
            <=> \E i \in 1..m : i + A[i] = q
    BY <1>p
  <2> QED BY <1>m, <2>2, <2>3
<1>7. ASSUME NEW i \in 1..m PROVE l[i + A[i]] = list2[i]
  <2>1. i + A[i] \in 1..(n + m)
    BY <1>0, <1>1
  <2>2. \A h \in 1..m : h + A[h] = i + A[i] => h = i
    <3> SUFFICES ASSUME NEW h \in 1..m, h + A[h] = i + A[i] PROVE h = i
      OBVIOUS
    <3>1. ~(h < i) /\ ~(i < h)
      <4>1. i + A[i] \in Int /\ h + A[h] \in Int
        BY <1>0, <1>1
      <4> QED BY <1>5, <4>1
    <3> QED BY <3>1, <1>0
  <2>3. (CHOOSE h \in 1..m : h + A[h] = i + A[i]) = i
    BY <2>2
  <2> QED BY <1>6, <2>1, <2>3
<1>8. ASSUME NEW j \in 1..n PROVE l[j + B[j]] = list1[j]
  <2>1. j + B[j] \in 1..(n + m)
    BY <1>0, <1>2
  <2>2. \A h \in 1..n : h + B[h] = j + B[j] => h = j
    <3> SUFFICES ASSUME NEW h \in 1..n, h + B[h] = j + B[j] PROVE h = j
      OBVIOUS
    <3>1. ~(h < j) /\ ~(j < h)
      <4>1. j + B[j] \in Int /\ h + B[h] \in Int
        BY <1>0, <1>2
      <4> QED BY <1>5, <4>1
    <3> QED BY <3>1, <1>0
  <2>3. (CHOOSE h \in 1..n : h + B[h] = j + B[j]) = j
    BY <2>2
  <2>4. ~\E i \in 1..m : i + A[i] = j + B[j]
    BY <1>5
  <2> QED BY <1>6, <2>1, <2>3, <2>4
<1>9. Merged(l, list1, list2, prio, A, B)
  BY <1>m, <1>3, <1>4, <1>7, <1>8 DEF Merged, Interleaved
<1> QED BY <1>9

\* A merge of two lists that share no task has the tasks of both, each once
\* and in descending order; it starts with a task of the first list or with
\* the head of the second one.
LEMMA MergeLists ==
    ASSUME NEW S, NEW list1, NEW list2, NEW prio \in [S -> Int],
           Proper(list1, S, prio), Proper(list2, S, prio),
           \A t \in Members(list1) : t \notin Members(list2),
           NEW l, l = Merge(list1, list2, prio)
    PROVE  /\ Proper(l, S, prio)
           /\ Len(l) = Len(list1) + Len(list2)
           /\ Members(l) = Members(list1) \cup Members(list2)
           /\ l # <<>> => l[1] \in Members(list1) \/ l[1] = list2[1]
<1> DEFINE n == Len(list1)
           m == Len(list2)
<1>1. PICK A, B : Merged(l, list1, list2, prio, A, B)
  BY MergePlaces, Zenon
<1>i. Interleaved(n, m, A, B) /\ A \in [1..m -> 0..n] /\ B \in [1..n -> 0..m]
  BY <1>1 DEF Merged, Interleaved
<1>2. /\ \A i \in 1..m, j \in 1..n : j <= A[i] <=> prio[list2[i]] < prio[list1[j]]
      /\ \A i \in 1..m : l[i + A[i]] = list2[i]
      /\ \A j \in 1..n : l[j + B[j]] = list1[j]
  BY <1>1 DEF Merged
<1>0. /\ n \in Nat /\ m \in Nat
      /\ DOMAIN list1 = 1..n /\ DOMAIN list2 = 1..m
      /\ \A j \in 1..n : list1[j] \in S /\ prio[list1[j]] \in Int
      /\ \A i \in 1..m : list2[i] \in S /\ prio[list2[i]] \in Int
      /\ \A i, j \in 1..n : list1[i] = list1[j] => i = j
      /\ \A i, j \in 1..m : list2[i] = list2[j] => i = j
      /\ \A i, j \in 1..n : i <= j => prio[list1[j]] <= prio[list1[i]]
      /\ \A i, j \in 1..m : i <= j => prio[list2[j]] <= prio[list2[i]]
  BY ProperFacts, Zenon
<1>d. DOMAIN l = 1..(n + m) /\ l = [q \in 1..(n + m) |-> l[q]]
  BY DEF Merge
<1>l. Len(list1) = n /\ Len(list2) = m
  OBVIOUS
<1> HIDE DEF n, m
<1>p. Places(n, m, A, B)
  <2>1. n \in Nat /\ m \in Nat
    BY <1>0
  <2> QED BY ONLY <1>i, <2>1, Interleave, Zenon
<1>3. /\ \A i \in 1..m : A[i] \in Nat /\ i + A[i] \in 1..(n + m)
      /\ \A j \in 1..n : B[j] \in Nat /\ j + B[j] \in 1..(n + m)
  <2>1. n \in Nat /\ m \in Nat
    BY <1>0
  <2>2. \A i \in 1..m : A[i] \in 0..n
    BY <1>i
  <2>3. \A j \in 1..n : B[j] \in 0..m
    BY <1>i
  <2> QED BY ONLY <2>1, <2>2, <2>3
<1>4. ASSUME NEW q \in 1..(n + m)
      PROVE  \/ \E i \in 1..m : q = i + A[i] /\ l[q] = list2[i]
             \/ \E j \in 1..n : q = j + B[j] /\ l[q] = list1[j]
  BY <1>2, <1>p DEF Places
<1>5. l \in Seq(S) /\ Len(l) = n + m
  <2>1. \A q \in 1..(n + m) : l[q] \in S
    BY <1>0, <1>4
  <2>2. n + m \in Nat
    BY <1>0
  <2> QED BY ONLY <1>d, <2>1, <2>2
<1>6. Members(l) = Members(list1) \cup Members(list2)
  <2>1. Members(l) = {l[q] : q \in 1..(n + m)}
    BY <1>d DEF Members
  <2>2. Members(list1) = {list1[j] : j \in 1..n} /\ Members(list2) = {list2[i] : i \in 1..m}
    BY <1>0 DEF Members
  <2>3. \A i \in 1..m : \E q \in 1..(n + m) : l[q] = list2[i]
    BY <1>2, <1>3
  <2>4. \A j \in 1..n : \E q \in 1..(n + m) : l[q] = list1[j]
    BY <1>2, <1>3
  <2> QED BY <2>1, <2>2, <2>3, <2>4, <1>4
<1>x. \A i \in 1..m, j \in 1..n : list1[j] # list2[i]
  <2>1. \A j \in 1..n : list1[j] \in Members(list1)
    BY <1>0 DEF Members
  <2>2. \A i \in 1..m : list2[i] \in Members(list2)
    BY <1>0 DEF Members
  <2> QED BY <2>1, <2>2
<1>7. Distinct(l)
  <2> SUFFICES ASSUME NEW q \in 1..(n + m), NEW r \in 1..(n + m), l[q] = l[r]
               PROVE  q = r
    BY <1>d DEF Distinct
  <2>1. ASSUME NEW i \in 1..m, q = i + A[i], l[q] = list2[i],
               NEW j \in 1..n, r = j + B[j], l[r] = list1[j]
        PROVE  FALSE
    BY <1>x, <2>1
  <2>2. ASSUME NEW i \in 1..m, r = i + A[i], l[r] = list2[i],
               NEW j \in 1..n, q = j + B[j], l[q] = list1[j]
        PROVE  FALSE
    BY <1>x, <2>2
  <2>3. ASSUME NEW i \in 1..m, q = i + A[i], l[q] = list2[i],
               NEW j \in 1..m, r = j + A[j], l[r] = list2[j]
        PROVE  q = r
    BY <1>0, <2>3
  <2>4. ASSUME NEW i \in 1..n, q = i + B[i], l[q] = list1[i],
               NEW j \in 1..n, r = j + B[j], l[r] = list1[j]
        PROVE  q = r
    BY <1>0, <2>4
  <2> QED BY <1>4, <2>1, <2>2, <2>3, <2>4
<1>8. Descending(l, prio)
  <2> SUFFICES ASSUME NEW q \in 1..(n + m), NEW r \in 1..(n + m), q <= r
               PROVE  prio[l[r]] <= prio[l[q]]
    BY <1>d DEF Descending
  <2>1. ASSUME NEW i \in 1..m, q = i + A[i], l[q] = list2[i],
               NEW j \in 1..n, r = j + B[j], l[r] = list1[j]
        PROVE  prio[l[r]] <= prio[l[q]]
    <3>1. ~(j + B[j] < i + A[i])
      BY <2>1, <1>3
    <3>2. ~(prio[list2[i]] < prio[list1[j]])
      BY <3>1, <1>2, <1>p DEF Places
    <3> QED BY <3>2, <2>1, <1>0
  <2>2. ASSUME NEW i \in 1..m, r = i + A[i], l[r] = list2[i],
               NEW j \in 1..n, q = j + B[j], l[q] = list1[j]
        PROVE  prio[l[r]] <= prio[l[q]]
    <3>1. j + B[j] < i + A[i]
      BY <2>2, <1>p, <1>3 DEF Places
    <3>2. prio[list2[i]] < prio[list1[j]]
      BY <3>1, <1>2, <1>p DEF Places
    <3> QED BY <3>2, <2>2, <1>0
  <2>3. ASSUME NEW i \in 1..m, q = i + A[i], l[q] = list2[i],
               NEW j \in 1..m, r = j + A[j], l[r] = list2[j]
        PROVE  prio[l[r]] <= prio[l[q]]
    <3>1. ~(j < i)
      BY <2>3, <1>p, <1>3 DEF Places
    <3>2. i <= j
      BY <3>1, <1>0
    <3>3. prio[list2[j]] <= prio[list2[i]]
      BY <3>2, <1>0, Zenon
    <3> QED BY <3>3, <2>3
  <2>4. ASSUME NEW i \in 1..n, q = i + B[i], l[q] = list1[i],
               NEW j \in 1..n, r = j + B[j], l[r] = list1[j]
        PROVE  prio[l[r]] <= prio[l[q]]
    <3>1. ~(j < i)
      BY <2>4, <1>p, <1>3 DEF Places
    <3>2. i <= j
      BY <3>1, <1>0
    <3>3. prio[list1[j]] <= prio[list1[i]]
      BY <3>2, <1>0, Zenon
    <3> QED BY <3>3, <2>4
  <2> QED BY <1>4, <2>1, <2>2, <2>3, <2>4
<1>9. l # <<>> => l[1] \in Members(list1) \/ l[1] = list2[1]
  <2> SUFFICES ASSUME l # <<>> PROVE l[1] \in Members(list1) \/ l[1] = list2[1]
    OBVIOUS
  <2>1. 1 \in 1..(n + m)
    BY <1>5, <1>0
  <2>2. ASSUME NEW i \in 1..m, 1 = i + A[i], l[1] = list2[i] PROVE l[1] = list2[1]
    <3>1. i = 1
      BY <2>2, <1>3
    <3> QED BY <2>2, <3>1
  <2>3. ASSUME NEW j \in 1..n, l[1] = list1[j] PROVE l[1] \in Members(list1)
    BY <2>3, <1>0 DEF Members
  <2> QED BY <1>4, <2>1, <2>2, <2>3
<1> QED BY <1>5, <1>6, <1>7, <1>8, <1>9, <1>l DEF Proper

-----------------------------------------------------------------------------
(* Lists under other priorities, and the tasks that a running task moves aside *)

\* A list stays proper as long as the priorities of its own tasks do not change.
LEMMA ProperOver ==
    ASSUME NEW S, NEW T, NEW list, NEW prio, NEW prio2, Proper(list, S, prio),
           \A t \in Members(list) : t \in T /\ prio2[t] = prio[t]
    PROVE  Proper(list, T, prio2)
<1>1. list \in Seq(S) /\ \A i \in DOMAIN list : list[i] \in T /\ prio2[list[i]] = prio[list[i]]
  BY DEF Proper, Members
<1>2. list \in Seq(T)
  BY <1>1
<1>3. Descending(list, prio2)
  BY <1>1 DEF Proper, Descending
<1> QED BY <1>2, <1>3 DEF Proper

\* The places 2 to n + 1 of a list are cut out, and the priority of its head is
\* lowered to one that is at least that of every task that stays.
CutOut(rtr, L, n, moved, rest) ==
    /\ DOMAIN moved = 1..n /\ \A i \in 1..n : moved[i] = rtr[i + 1]
    /\ DOMAIN rest = 1..(L - n) /\ rest[1] = rtr[1]
    /\ \A i \in 2..(L - n) : rest[i] = rtr[i + n]

LEMMA CutOutMoved ==
    ASSUME NEW rtr, NEW prio, NEW L \in Nat, NEW n \in 1..(L - 1), NEW moved, NEW rest,
           CutOut(rtr, L, n, moved, rest),
           \A i, j \in 1..L : rtr[i] = rtr[j] => i = j,
           \A i, j \in 1..L : i <= j => prio[rtr[j]] <= prio[rtr[i]]
    PROVE  Distinct(moved) /\ Descending(moved, prio)
<1>1. DOMAIN moved = 1..n /\ \A i \in 1..n : moved[i] = rtr[i + 1] /\ i + 1 \in 1..L
  BY DEF CutOut
<1>2. Distinct(moved)
  <2> SUFFICES ASSUME NEW i \in 1..n, NEW j \in 1..n, moved[i] = moved[j] PROVE i = j
    BY <1>1 DEF Distinct
  <2>1. i + 1 = j + 1
    BY <1>1, Zenon
  <2> QED BY <2>1
<1>3. Descending(moved, prio)
  <2> SUFFICES ASSUME NEW i \in 1..n, NEW j \in 1..n, i <= j
               PROVE  prio[moved[j]] <= prio[moved[i]]
    BY <1>1 DEF Descending
  <2>1. i + 1 <= j + 1
    OBVIOUS
  <2>2. prio[rtr[j + 1]] <= prio[rtr[i + 1]]
    BY <1>1, <2>1, Zenon
  <2> QED BY <2>2, <1>1
<1> QED BY <1>2, <1>3

LEMMA CutOutRest ==
    ASSUME NEW rtr, NEW prio2, NEW L \in Nat, NEW n \in 1..(L - 1), NEW moved, NEW rest,
           CutOut(rtr, L, n, moved, rest),
           \A i, j \in 1..L : rtr[i] = rtr[j] => i = j,
           \A i, j \in {1} \cup (n + 2)..L : i <= j => prio2[rtr[j]] <= prio2[rtr[i]]
    PROVE  Distinct(rest) /\ Descending(rest, prio2)
<1> DEFINE P(i) == IF i = 1 THEN 1 ELSE i + n
<1>1. DOMAIN rest = 1..(L - n) /\ \A i \in 1..(L - n) : rest[i] = rtr[P(i)]
  BY DEF CutOut
<1>2. \A i \in 1..(L - n) : P(i) \in {1} \cup (n + 2)..L /\ P(i) \in 1..L
  OBVIOUS
<1>3. \A i, j \in 1..(L - n) : (P(i) = P(j) => i = j) /\ (i <= j => P(i) <= P(j))
  OBVIOUS
<1> HIDE DEF P
<1>4. Distinct(rest)
  BY <1>1, <1>2, <1>3 DEF Distinct
<1>5. Descending(rest, prio2)
  <2> SUFFICES ASSUME NEW i \in 1..(L - n), NEW j \in 1..(L - n), i <= j
               PROVE  prio2[rest[j]] <= prio2[rest[i]]
    BY <1>1 DEF Descending
  <2>1. prio2[rtr[P(j)]] <= prio2[rtr[P(i)]]
    BY <1>2, <1>3, Zenon
  <2> QED BY <2>1, <1>1
<1> QED BY <1>4, <1>5

LEMMA CutOutMembers ==
    ASSUME NEW rtr, NEW L \in Nat, NEW n \in 1..(L - 1), NEW moved, NEW rest,
           CutOut(rtr, L, n, moved, rest), DOMAIN rtr = 1..L,
           \A i, j \in 1..L : rtr[i] = rtr[j] => i = j
    PROVE  /\ rtr[1] \notin Members(moved) /\ Members(moved) \subseteq Members(rtr)
           /\ Members(rest) = Members(rtr) \ Members(moved)
<1> DEFINE P(i) == IF i = 1 THEN 1 ELSE i + n
<1>1. DOMAIN rest = 1..(L - n) /\ \A i \in 1..(L - n) : rest[i] = rtr[P(i)]
  BY DEF CutOut
<1>2. DOMAIN moved = 1..n /\ \A i \in 1..n : moved[i] = rtr[i + 1]
  BY DEF CutOut
<1>3. /\ \A i \in 1..n : i + 1 \in 1..L /\ i + 1 # 1
      /\ \A i \in 1..(L - n) : P(i) \in 1..L
      /\ \A i \in 1..n, j \in 1..(L - n) : i + 1 # P(j)
      /\ 1 \in 1..L
  OBVIOUS
<1>4. \A h \in 1..L : (\E i \in 1..n : h = i + 1) \/ (\E j \in 1..(L - n) : h = P(j))
  <2> TAKE h \in 1..L
  <2>1. CASE h = 1
    BY <2>1
  <2>2. CASE h \in 2..(n + 1)
    <3>1. h - 1 \in 1..n /\ h = (h - 1) + 1
      BY <2>2
    <3> QED BY <3>1
  <2>3. CASE h \in (n + 2)..L
    <3>1. h - n \in 1..(L - n) /\ h - n # 1 /\ h = (h - n) + n
      BY <2>3
    <3> QED BY <3>1
  <2> QED BY <2>1, <2>2, <2>3
<1> HIDE DEF P
<1>5. /\ Members(moved) = {rtr[i + 1] : i \in 1..n}
      /\ Members(rest) = {rtr[P(i)] : i \in 1..(L - n)}
      /\ Members(rtr) = {rtr[i] : i \in 1..L}
  <2>1. Members(moved) = {moved[i] : i \in 1..n} /\ Members(rtr) = {rtr[i] : i \in 1..L}
        /\ Members(rest) = {rest[i] : i \in 1..(L - n)}
    BY <1>1, <1>2 DEF Members
  <2> QED BY ONLY <2>1, <1>1, <1>2
<1>6. rtr[1] \notin Members(moved) /\ Members(moved) \subseteq Members(rtr)
  BY <1>3, <1>5
<1>7. \A x \in Members(rest) : x \in Members(rtr) /\ x \notin Members(moved)
  BY <1>3, <1>5
<1>8. \A x \in Members(rtr) : x \in Members(moved) \/ x \in Members(rest)
  BY <1>4, <1>5
<1> QED BY <1>6, <1>7, <1>8

\* How many tasks a running task with preemption disabled moves aside when it
\* drops to priority p: none of them has a lower priority than p, and the ones
\* that stay have none that is higher.
LEMMA MovedAsideBounds ==
    ASSUME NEW S, NEW rtr, NEW prio \in [S -> Int], NEW p \in Int,
           Proper(rtr, S, prio), NEW L, L = Len(rtr), L >= 2, p <= prio[rtr[2]],
           NEW n, n = MovedAside(rtr, prio, p)
    PROVE  /\ n \in 1..(L - 1)
           /\ \A i \in 1..n : p <= prio[rtr[i + 1]]
           /\ \A i \in (n + 2)..L : prio[rtr[i]] <= p
<1> DEFINE tail == Tail(rtr)
           a == Ahead(tail, prio, p + 1)
<1>0. /\ L \in Nat /\ DOMAIN rtr = 1..L
      /\ \A i \in 1..L : rtr[i] \in S /\ prio[rtr[i]] \in Int
      /\ \A i, j \in 1..L : i <= j => prio[rtr[j]] <= prio[rtr[i]]
  BY ProperFacts, Zenon
<1>1. /\ tail \in Seq(S) /\ Len(tail) = L - 1 /\ DOMAIN tail = 1..(L - 1)
      /\ \A i \in 1..(L - 1) : tail[i] = rtr[i + 1]
  BY DEF Proper
<1>2. \A i \in 1..(L - 1) : i + 1 \in 1..L
  BY <1>0
<1>3. n = IF a = 0 THEN 1 ELSE a
  BY DEF MovedAside
<1>i. p + 1 \in Int
  OBVIOUS
<1> HIDE DEF tail
<1>4. Descending(tail, prio)
  <2>1. ASSUME NEW i \in 1..(L - 1), NEW j \in 1..(L - 1), i <= j
        PROVE  prio[tail[j]] <= prio[tail[i]]
    <3>1. i + 1 <= j + 1
      BY <1>0, <2>1
    <3>2. prio[rtr[j + 1]] <= prio[rtr[i + 1]]
      BY <3>1, <1>0, <1>2, Zenon
    <3> QED BY <3>2, <1>1
  <2> QED BY <1>1, <2>1 DEF Descending
<1>5. a \in 0..(L - 1) /\ \A i \in 1..(L - 1) : i <= a <=> p + 1 <= prio[rtr[i + 1]]
  <2>1. a \in 0..Len(tail) /\ \A i \in 1..Len(tail) : i <= a <=> p + 1 <= prio[tail[i]]
    BY <1>1, <1>4, <1>i, AheadOrder
  <2> QED BY <1>1, <2>1
<1> HIDE DEF a
<1>6. n \in 1..(L - 1) /\ a <= n /\ (n = a \/ n = 1)
  BY ONLY <1>0, <1>3, <1>5, L >= 2
<1>7. ASSUME NEW i \in 1..n PROVE p <= prio[rtr[i + 1]]
  <2>1. i \in 1..(L - 1) /\ prio[rtr[i + 1]] \in Int
    <3>1. i \in 1..(L - 1)
      BY ONLY <1>0, <1>6, i \in 1..n
    <3> QED BY <3>1, <1>0, <1>2
  <2>2. CASE i <= a
    BY ONLY <2>1, <2>2, <1>5, p \in Int
  <2>3. CASE ~(i <= a)
    <3>1. i + 1 = 2
      BY ONLY <2>3, <1>3, <1>5, <1>0, i \in 1..n
    <3> QED BY <3>1
  <2> QED BY <2>2, <2>3
<1>8. ASSUME NEW i \in (n + 2)..L PROVE prio[rtr[i]] <= p
  <2>1. i - 1 \in 1..(L - 1) /\ ~(i - 1 <= a) /\ (i - 1) + 1 = i
    BY ONLY <1>0, <1>5, <1>6, i \in (n + 2)..L
  <2>2. ~(p + 1 <= prio[rtr[i]]) /\ prio[rtr[i]] \in Int
    <3>1. ~(p + 1 <= prio[rtr[(i - 1) + 1]]) /\ prio[rtr[(i - 1) + 1]] \in Int
      BY ONLY <2>1, <1>0, <1>2, <1>5
    <3> QED BY <2>1, <3>1
  <2> QED BY ONLY <2>2, p \in Int
<1> QED BY <1>6, <1>7, <1>8

\* The list rtr is split into the tasks moved aside and the rest, and its head is
\* given the priority p.
SplitAside(rtr, prio, p, n, moved, rest, prio2) ==
    /\ n = MovedAside(rtr, prio, p) /\ moved = SubSeq(rtr, 2, n + 1)
    /\ rest = [i \in 1..(Len(rtr) - n) |-> IF i = 1 THEN rtr[1] ELSE rtr[i + n]]
    /\ prio2 = [prio EXCEPT ![rtr[1]] = p]

\* What is moved aside and what stays are proper lists, and share the tasks.
LEMMA Aside ==
    ASSUME NEW S, NEW rtr, NEW prio \in [S -> Int], NEW p \in Int,
           Proper(rtr, S, prio), Len(rtr) >= 2, p <= prio[rtr[2]],
           NEW n, NEW moved, NEW rest, NEW prio2,
           SplitAside(rtr, prio, p, n, moved, rest, prio2)
    PROVE  /\ Proper(moved, S, prio) /\ \A t \in Members(moved) : prio[t] >= p
           /\ Proper(rest, S, prio2) /\ rest # <<>> /\ rest[1] = rtr[1]
           /\ rtr[1] \notin Members(moved) /\ Members(moved) \subseteq Members(rtr)
           /\ Members(rest) = Members(rtr) \ Members(moved)
<1> USE DEF SplitAside
<1> DEFINE L == Len(rtr)
<1>0. /\ L \in Nat /\ DOMAIN rtr = 1..L
      /\ \A i \in 1..L : rtr[i] \in S /\ prio[rtr[i]] \in Int
      /\ \A i, j \in 1..L : rtr[i] = rtr[j] => i = j
      /\ \A i, j \in 1..L : i <= j => prio[rtr[j]] <= prio[rtr[i]]
  BY ProperFacts, Zenon
<1>1. /\ n \in 1..(L - 1)
      /\ \A i \in 1..n : p <= prio[rtr[i + 1]]
      /\ \A i \in (n + 2)..L : prio[rtr[i]] <= p
  BY MovedAsideBounds, Zenon
<1>2. moved \in Seq(S) /\ DOMAIN moved = 1..n /\ \A i \in 1..n : moved[i] = rtr[i + 1]
  BY <1>0, <1>1 DEF Proper
<1>3. L - n \in Nat /\ 1 \in 1..(L - n)
  BY ONLY <1>0, <1>1
<1>4. rest = [i \in 1..(L - n) |-> IF i = 1 THEN rtr[1] ELSE rtr[i + n]]
  OBVIOUS
<1> HIDE DEF L
<1>5. /\ DOMAIN rest = 1..(L - n) /\ rest[1] = rtr[1]
      /\ \A i \in 2..(L - n) : rest[i] = rtr[i + n]
  BY ONLY <1>3, <1>4
<1>6. rest \in Seq(S) /\ rest # <<>>
  <2>1. \A i \in 1..(L - n) : 1 \in 1..L /\ (i # 1 => i + n \in 1..L)
    BY ONLY <1>0, <1>1
  <2>2. \A i \in 1..(L - n) : (IF i = 1 THEN rtr[1] ELSE rtr[i + n]) \in S
    BY ONLY <1>0, <2>1
  <2> QED BY ONLY <1>3, <1>4, <2>2
<1>7. CutOut(rtr, L, n, moved, rest)
  BY ONLY <1>2, <1>5 DEF CutOut
<1>8. Distinct(moved) /\ Descending(moved, prio)
  BY ONLY <1>0, <1>1, <1>7, CutOutMoved
<1>9. Distinct(rest) /\ Descending(rest, prio2)
  <2>1. \A i \in 1..L : prio2[rtr[i]] = IF i = 1 THEN p ELSE prio[rtr[i]]
    BY ONLY <1>0, <1>1, prio2 = [prio EXCEPT ![rtr[1]] = p], prio \in [S -> Int]
  <2>2. ASSUME NEW i \in {1} \cup (n + 2)..L, NEW j \in {1} \cup (n + 2)..L, i <= j
        PROVE  prio2[rtr[j]] <= prio2[rtr[i]]
    <3>1. i \in 1..L /\ j \in 1..L /\ (j = 1 => i = 1)
      BY ONLY <1>0, <1>1, <2>2, i \in {1} \cup (n + 2)..L, j \in {1} \cup (n + 2)..L
    <3>2. CASE i = 1
      BY ONLY <2>1, <3>1, <3>2, <1>1, p \in Int, j \in {1} \cup (n + 2)..L
    <3>3. CASE i # 1
      <4>1. prio[rtr[j]] <= prio[rtr[i]]
        BY <1>0, <2>2, <3>1, Zenon
      <4> QED BY ONLY <2>1, <3>1, <3>3, <4>1
    <3> QED BY <3>2, <3>3
  <2> QED BY ONLY <1>0, <1>1, <1>7, <2>2, CutOutRest
<1>10. /\ rtr[1] \notin Members(moved) /\ Members(moved) \subseteq Members(rtr)
       /\ Members(rest) = Members(rtr) \ Members(moved)
  BY ONLY <1>0, <1>1, <1>7, CutOutMembers
<1>11. \A t \in Members(moved) : prio[t] >= p
  <2>1. \A i \in 1..n : i + 1 \in 1..L
    BY ONLY <1>0, <1>1
  <2>2. \A i \in 1..n : prio[moved[i]] >= p
    BY ONLY <1>0, <1>1, <1>2, <2>1, p \in Int
  <2> QED BY <1>2, <2>2 DEF Members
<1> QED BY <1>2, <1>5, <1>6, <1>8, <1>9, <1>10, <1>11 DEF Proper

-----------------------------------------------------------------------------
(* The head of a list *)

\* A task that is inserted becomes the head exactly if it has a higher priority
\* than the head, which then is the next one.
LEMMA AddHead ==
    ASSUME NEW S, NEW list, NEW prio \in [S -> Int], NEW t \in S,
           Proper(list, S, prio), list # <<>>,
           NEW l, l = nxsched_add_prioritized(list, prio, t)
    PROVE  IF prio[t] <= prio[list[1]]
           THEN l[1] = list[1]
           ELSE l[1] = t /\ l[2] = list[1]
<1> DEFINE n == Len(list)
           k == Ahead(list, prio, prio[t])
<1>1. n \in Nat /\ 1 \in 1..n /\ list \in Seq(S)
  BY DEF Proper
<1>2. prio[t] \in Int
  OBVIOUS
<1>3. k \in 0..n /\ (1 <= k <=> prio[t] <= prio[list[1]])
  BY <1>1, <1>2, AheadOrder DEF Proper
<1>4. l = [i \in 1..(n + 1) |->
            IF i <= k THEN list[i] ELSE IF i = k + 1 THEN t ELSE list[i - 1]]
  BY DEF nxsched_add_prioritized
<1> HIDE DEF n, k
<1>5. CASE 1 <= k
  BY ONLY <1>1, <1>3, <1>4, <1>5
<1>6. CASE ~(1 <= k)
  BY ONLY <1>1, <1>3, <1>4, <1>6
<1> QED BY <1>5, <1>6

\* Without its head a list starts with the next task; without another task it
\* keeps its head.
LEMMA RemHead ==
    ASSUME NEW S, NEW list, NEW prio, NEW t \in Members(list),
           Proper(list, S, prio), Len(list) >= 2,
           NEW l, l = dq_rem(list, t)
    PROVE  l[1] = IF t = list[1] THEN list[2] ELSE list[1]
<1> DEFINE n == Len(list)
           k == CHOOSE i \in DOMAIN list : list[i] = t
<1>1. n \in Nat /\ n >= 2 /\ DOMAIN list = 1..n
  BY DEF Proper
<1>2. k \in 1..n /\ list[k] = t
  BY <1>1 DEF Members
<1>3. \A i, j \in 1..n : list[i] = list[j] => i = j
  BY <1>1 DEF Proper, Distinct
<1>4. l = [i \in 1..(n - 1) |-> IF i < k THEN list[i] ELSE list[i + 1]]
  BY DEF dq_rem
<1> HIDE DEF n, k
<1>5. t = list[1] <=> k = 1
  <2>1. 1 \in 1..n
    BY ONLY <1>1
  <2> QED BY ONLY <1>2, <1>3, <2>1
<1>6. l[1] = IF 1 < k THEN list[1] ELSE list[2]
  BY ONLY <1>1, <1>4
<1> QED BY ONLY <1>2, <1>5, <1>6

\* The head of a list may take any priority that is not below that of the next.
LEMMA HeadPrio ==
    ASSUME NEW S, NEW list, NEW prio \in [S -> Int], NEW p \in Int,
           Proper(list, S, prio), Len(list) >= 2, prio[list[2]] <= p,
           NEW prio2, prio2 = [prio EXCEPT ![list[1]] = p]
    PROVE  Proper(list, S, prio2)
<1> DEFINE n == Len(list)
<1>0. /\ n \in Nat /\ DOMAIN list = 1..n
      /\ \A i \in 1..n : list[i] \in S /\ prio[list[i]] \in Int
      /\ \A i, j \in 1..n : list[i] = list[j] => i = j
      /\ \A i, j \in 1..n : i <= j => prio[list[j]] <= prio[list[i]]
  BY ProperFacts, Zenon
<1>n. n >= 2
  OBVIOUS
<1> HIDE DEF n
<1>1. \A i \in 1..n : prio2[list[i]] = IF i = 1 THEN p ELSE prio[list[i]]
  <2>1. 1 \in 1..n
    BY ONLY <1>0, <1>n
  <2> QED BY ONLY <1>0, <2>1, prio2 = [prio EXCEPT ![list[1]] = p], prio \in [S -> Int]
<1>2. ASSUME NEW i \in 1..n, NEW j \in 1..n, i <= j
      PROVE  prio2[list[j]] <= prio2[list[i]]
  <2>1. CASE i = 1 /\ j = 1
    BY ONLY <2>1, <1>1, p \in Int, i \in 1..n
  <2>2. CASE i = 1 /\ j # 1
    <3>1. 2 \in 1..n /\ 2 <= j
      BY ONLY <2>2, <1>0, <1>n, j \in 1..n
    <3>2. prio[list[j]] <= prio[list[2]] /\ prio[list[j]] \in Int /\ prio[list[2]] \in Int
      BY ONLY <3>1, <1>0, j \in 1..n
    <3>3. prio[list[j]] <= p
      BY ONLY <3>2, prio[list[2]] <= p, p \in Int
    <3> QED BY ONLY <2>2, <3>3, <1>1, i \in 1..n, j \in 1..n
  <2>3. CASE i # 1
    <3>1. j # 1
      BY ONLY <2>3, <1>0, <1>2, i \in 1..n, j \in 1..n
    <3>2. prio[list[j]] <= prio[list[i]]
      BY <1>0, <1>2, Zenon
    <3> QED BY ONLY <2>3, <3>1, <3>2, <1>1, i \in 1..n, j \in 1..n
  <2> QED BY <2>1, <2>2, <2>3
<1>3. Descending(list, prio2)
  BY <1>0, <1>2 DEF Descending
<1> QED BY <1>3 DEF Proper

\* A task that moves to the place that its new priority gives it in its list
LEMMA Requeued ==
    ASSUME NEW S, NEW list, NEW prio \in [S -> Int], NEW t \in Members(list),
           Proper(list, S, prio), NEW p \in Int,
           NEW prio2, prio2 = [prio EXCEPT ![t] = p],
           NEW l, l = nxsched_add_prioritized(dq_rem(list, t), prio2, t)
    PROVE  Proper(l, S, prio2) /\ Members(l) = Members(list)
<1> DEFINE d == dq_rem(list, t)
<1>e. d = dq_rem(list, t) /\ l = nxsched_add_prioritized(d, prio2, t)
  OBVIOUS
<1>s. t \in S /\ Members(list) \subseteq S
  BY DEF Proper, Members
<1> HIDE DEF d
<1>1. Proper(d, S, prio) /\ Members(d) = Members(list) \ {t}
  BY ONLY <1>e, t \in Members(list), Proper(list, S, prio), DqRem
<1>2. prio2 \in [S -> Int] /\ \A u \in Members(d) : u \in S /\ prio2[u] = prio[u]
  BY <1>1, <1>s
<1>3. Proper(d, S, prio2)
  BY ONLY <1>1, <1>2, ProperOver
<1>4. t \notin Members(d)
  BY <1>1
<1>5. Proper(l, S, prio2) /\ Members(l) = Members(d) \cup {t}
  BY ONLY <1>2, <1>3, <1>4, <1>e, <1>s, AddPrioritized
<1> QED BY <1>1, <1>5
=============================================================================
