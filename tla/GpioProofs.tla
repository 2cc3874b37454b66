----------------------------- MODULE GpioProofs -----------------------------
(***************************************************************************)
(* The interrupt pin, for any number of tasks, slots and pollers: the      *)
(* signal slots stay without holes, no interleaving of the stores of       *)
(* overlapping ioctls leaves an unused pin enabled, and no poller misses   *)
(* an interrupt.                                                           *)
(***************************************************************************)
EXTENDS Gpio, TaskListProofs, SequenceTheorems

Store == {"cb_clear", "cb_set", "cb_test", "irq_check", "irq_clear", "irq_set",
          "imr_clear", "imr_set", "attach_handler", "attach_null"}

-----------------------------------------------------------------------------
(* The inductive invariant *)

\* The slots in use come first, and no task has two.
Compact(g) ==
    /\ g \in [Slot -> Task \cup {None}]
    /\ \A i, j \in Slot : i <= j /\ g[j] # None => g[i] # None
    /\ \A i, j \in Slot : g[i] = g[j] /\ g[i] # None => i = j

Registered == {t \in Task : registered[t]}

Registry ==
    /\ Compact(gp_signals) /\ registered \in [Task -> BOOLEAN]
    /\ \A t \in Task : registered[t] <=> \E i \in Slot : gp_signals[i] = t
    /\ register_count = Cardinality(Registered)

Has(s, name) == \E i \in DOMAIN s : s[i] = name

\* The stores that a task has still to make if it disables the pin: only ones that
\* switch something off, a test of the callbacks after each store that clears one,
\* and in the end the store that detaches the handler.
Disabling(s) ==
    /\ \A i \in DOMAIN s :
        s[i] \in {"cb_clear", "irq_check", "irq_clear", "imr_clear", "attach_null"}
    /\ \A i \in DOMAIN s :
        s[i] = "cb_clear" => \E j \in DOMAIN s : i < j /\ s[j] = "irq_check"
    /\ \A i \in DOMAIN s : \E j \in DOMAIN s : i <= j /\ s[j] = "attach_null"

\* While nobody is registered, whatever is still on is about to be switched off.
Leftovers ==
    /\ callback => \E t \in Task : Has(todo[t], "attach_null")
    /\ exti => \E t \in Task : Has(todo[t], "cb_clear")
    /\ imr => \E t \in Task : Has(todo[t], "imr_clear")
    /\ irq /\ ~other => \E t \in Task : Has(todo[t], "irq_check") \/ Has(todo[t], "irq_clear")

Ioctls ==
    /\ callback \in BOOLEAN /\ exti \in BOOLEAN /\ other \in BOOLEAN
    /\ irq \in BOOLEAN /\ imr \in BOOLEAN
    /\ todo \in [Task -> Seq(Store)]
    /\ \A t \in Task : ~registered[t] => Disabling(todo[t])
    /\ register_count = 0 => Leftovers

Polling ==
    /\ int_count \in 0..MaxEdges /\ f_priv \in [Poller -> 0..MaxEdges]
    /\ level \in BOOLEAN /\ pending \in BOOLEAN /\ missed \in BOOLEAN /\ panic \in BOOLEAN
    /\ seen \in [Poller -> BOOLEAN]
    /\ fds \subseteq Poller /\ revents \subseteq Poller /\ reading \subseteq Poller
    /\ pending => int_count < MaxEdges
    /\ \A p \in Poller : f_priv[p] <= int_count
    /\ NoMissedInterrupt

IInv == Registry /\ Ioctls /\ Polling

registry == <<gp_signals, register_count, registered>>
ioctls == <<callback, exti, other, irq, imr, todo>>
polling == <<int_count, poll, level, pending, missed, panic>>

-----------------------------------------------------------------------------
(* The parts that a step leaves alone *)

LEMMA RegistryKept == ASSUME Registry, UNCHANGED registry PROVE Registry'
<1>1. gp_signals' = gp_signals /\ register_count' = register_count /\ registered' = registered
  BY DEF registry
<1>2. Registered' = Registered
  BY <1>1 DEF Registered
<1> QED BY <1>1, <1>2 DEF Registry

LEMMA IoctlsKept ==
    ASSUME Ioctls, UNCHANGED ioctls, UNCHANGED registry
    PROVE  Ioctls'
BY DEF Ioctls, Leftovers, ioctls, registry

LEMMA PollingKept == ASSUME Polling, UNCHANGED polling PROVE Polling'
BY DEF Polling, NoMissedInterrupt, polling, poll

-----------------------------------------------------------------------------
(* The slots and the count *)

LEMMA CountFacts ==
    ASSUME Registry
    PROVE  /\ register_count \in 0..Cardinality(Task) /\ register_count < 256
           /\ register_count = 0 <=> \A t \in Task : ~registered[t]
           /\ IsFiniteSet(Registered)
<1>1. IsFiniteSet(Task) /\ Cardinality(Task) < 256
  BY GpioAssumption
<1>2. Registered \in SUBSET Task
  BY DEF Registered
<1>3. IsFiniteSet(Registered) /\ Cardinality(Registered) <= Cardinality(Task)
  BY <1>1, <1>2, FS_Subset
<1>4. Cardinality(Registered) \in Nat /\ Cardinality(Task) \in Nat
  BY <1>1, <1>3, FS_CardinalityType
<1>5. Cardinality(Registered) = 0 <=> Registered = {}
  BY <1>3, FS_EmptySet
<1>6. register_count = Cardinality(Registered)
  BY DEF Registry
<1>7. Registered = {} <=> \A t \in Task : ~registered[t]
  BY DEF Registered
<1> QED BY ONLY <1>1, <1>3, <1>4, <1>5, <1>6, <1>7

\* A task that is not registered gets the first free slot.
LEMMA TakeSlot ==
    ASSUME Registry, NEW t \in Task, ~registered[t], take_slot(t)
    PROVE  /\ Compact(gp_signals')
           /\ \A u \in Task : (\E i \in Slot : gp_signals'[i] = u) <=> registered[u] \/ u = t
<1> DEFINE g == gp_signals
           mine == {i \in Slot : g[i] \in {None, t}}
           i == CHOOSE k \in mine : \A j \in mine : k <= j
<1>n. NSIGNALS \in Nat /\ None \notin Task
  BY GpioAssumption
<1>g. Compact(g) /\ \A k \in Slot : g[k] # t
  BY DEF Registry
<1>1. mine # {} /\ mine \subseteq Nat /\ gp_signals' = [g EXCEPT ![i] = t]
  BY <1>n DEF take_slot, Slot
<1>2. i \in mine /\ \A j \in mine : i <= j
  <2>1. \E k \in mine : \A j \in mine : k <= j
    BY <1>1, LeastNat
  <2> QED BY <2>1
<1>3. i \in Slot /\ g[i] = None /\ \A j \in Slot : g[j] = None => i <= j
  BY <1>2, <1>g
<1> HIDE DEF i, mine
<1> DEFINE h == gp_signals'
<1>4. h \in [Slot -> Task \cup {None}] /\ h[i] = t /\ \A k \in Slot \ {i} : h[k] = g[k]
  BY <1>1, <1>3, <1>g DEF Compact
<1> HIDE DEF h, g
<1>5. ASSUME NEW k \in Slot, NEW j \in Slot, k <= j, h[j] # None
      PROVE  h[k] # None
  <2>1. CASE k = i
    BY <2>1, <1>4, <1>n
  <2>2. CASE k # i
    <3>1. CASE j # i
      BY <2>2, <3>1, <1>4, <1>5, <1>g DEF Compact
    <3>2. CASE j = i
      <4>1. ~(i <= k)
        BY <2>2, <3>2, <1>5, <1>3, <1>n DEF Slot
      <4> QED BY <2>2, <4>1, <1>3, <1>4
    <3> QED BY <3>1, <3>2
  <2> QED BY <2>1, <2>2
<1>6. ASSUME NEW k \in Slot, NEW j \in Slot, h[k] = h[j], h[k] # None
      PROVE  k = j
  BY <1>6, <1>4, <1>g DEF Compact
<1>7. Compact(h)
  BY <1>4, <1>5, <1>6 DEF Compact
<1>8. ASSUME NEW u \in Task
      PROVE  (\E k \in Slot : h[k] = u) <=> registered[u] \/ u = t
  <2>1. registered[u] <=> \E k \in Slot : g[k] = u
    BY DEF Registry, g
  <2> QED BY <2>1, <1>3, <1>4, <1>n
<1> QED BY <1>7, <1>8 DEF h

\* The last slot in use moves into the one of a task that leaves.
LEMMA DropSlot ==
    ASSUME Registry, NEW t \in Task, registered[t], drop_slot(t)
    PROVE  /\ Compact(gp_signals')
           /\ \A u \in Task : (\E i \in Slot : gp_signals'[i] = u) <=> registered[u] /\ u # t
<1> DEFINE g == gp_signals
           i == CHOOSE k \in Slot : g[k] = t
           Last(k) == /\ \A l \in (i + 1)..k : g[l] # None
                      /\ k < NSIGNALS => g[k + 1] = None
           j == CHOOSE k \in i..NSIGNALS : Last(k)
           T == {k \in i..NSIGNALS : k < NSIGNALS => g[k + 1] = None}
<1>n. NSIGNALS \in Nat /\ None \notin Task
  BY GpioAssumption
<1>g. Compact(g)
  BY DEF Registry
<1>i. i \in Slot /\ g[i] = t
  BY DEF Registry
<1>h. gp_signals' = [g EXCEPT ![i] = g[j], ![j] = None]
  BY DEF drop_slot
<1> HIDE DEF i
<1>1. i \in Nat /\ 1 <= i /\ i <= NSIGNALS
  BY <1>i, <1>n DEF Slot
<1>2. \E k \in i..NSIGNALS : Last(k)
  <2>1. T \subseteq Nat /\ NSIGNALS \in T
    BY <1>1, <1>n
  <2>2. PICK k \in T : \A l \in T : k <= l
    BY <2>1, LeastNat
  <2>3. k \in i..NSIGNALS /\ (k < NSIGNALS => g[k + 1] = None)
    BY <2>2
  <2>4. ASSUME NEW l \in (i + 1)..k, g[l] = None
        PROVE  FALSE
    <3>1. /\ l - 1 \in i..NSIGNALS /\ ~(k <= l - 1) /\ (l - 1) + 1 = l
      BY <2>3, <2>4, <1>1, <1>n
    <3>2. l - 1 \in T
      BY <3>1, <2>4
    <3> QED BY <3>1, <3>2, <2>2
  <2> QED BY <2>3, <2>4
<1>3. j \in i..NSIGNALS /\ Last(j)
  BY <1>2
<1> HIDE DEF j, T
<1>4. /\ i \in Slot /\ j \in Slot /\ i <= j /\ g[i] = t /\ g[j] # None
      /\ \A k \in Slot : k <= j => g[k] # None
      /\ \A k \in Slot : ~(k <= j) => g[k] = None
  <2>1. j \in Slot /\ i <= j
    BY <1>3, <1>1, <1>n DEF Slot
  <2>2. g[j] # None
    <3>1. CASE i = j
      BY <3>1, <1>i, <1>n
    <3>2. CASE i # j
      <4>1. j \in (i + 1)..j
        BY <3>2, <2>1, <1>1, <1>3, <1>n
      <4> QED BY <4>1, <1>3
    <3> QED BY <3>1, <3>2
  <2>3. \A k \in Slot : k <= j => g[k] # None
    BY <2>1, <2>2, <1>g DEF Compact
  <2>4. ASSUME NEW k \in Slot, ~(k <= j), g[k] # None
        PROVE  FALSE
    <3>1. j + 1 \in Slot /\ j + 1 <= k /\ j < NSIGNALS
      BY <2>1, <2>4, <1>n DEF Slot
    <3>2. g[j + 1] = None
      BY <3>1, <1>3
    <3> QED BY <3>1, <3>2, <2>4, <1>g DEF Compact
  <2> QED BY <2>1, <2>2, <2>3, <2>4, <1>i
<1> DEFINE h == gp_signals'
<1>5. /\ h \in [Slot -> Task \cup {None}] /\ h[j] = None
      /\ i # j => h[i] = g[j]
      /\ \A k \in Slot \ {i, j} : h[k] = g[k]
  BY <1>4, <1>h, <1>g DEF Compact
<1> HIDE DEF h, g
<1>6. ASSUME NEW k \in Slot PROVE h[k] # None <=> k <= j /\ k # j
  <2>1. CASE k = j
    BY <2>1, <1>5
  <2>2. CASE k = i /\ k # j
    BY <2>2, <1>4, <1>5
  <2>3. CASE k # i /\ k # j
    BY <2>3, <1>4, <1>5
  <2> QED BY <2>1, <2>2, <2>3
<1>7. ASSUME NEW k \in Slot, NEW l \in Slot, k <= l, h[l] # None
      PROVE  h[k] # None
  <2>1. l <= j /\ l # j
    BY <1>6, <1>7
  <2>2. k <= j /\ k # j
    BY <2>1, <1>7, <1>4, <1>n DEF Slot
  <2> QED BY <2>2, <1>6
<1>8. ASSUME NEW k \in Slot, NEW l \in Slot, h[k] = h[l], h[k] # None
      PROVE  k = l
  BY <1>8, <1>4, <1>5, <1>g DEF Compact
<1>9. Compact(h)
  BY <1>5, <1>7, <1>8 DEF Compact
<1>10. ASSUME NEW u \in Task
       PROVE  (\E k \in Slot : h[k] = u) <=> registered[u] /\ u # t
  <2>1. registered[u] <=> \E k \in Slot : g[k] = u
    BY DEF Registry, g
  <2>2. ASSUME NEW k \in Slot, h[k] = u
        PROVE  registered[u] /\ u # t
    <3>1. PICK l \in Slot : g[l] = u /\ l # i
      BY <2>2, <1>4, <1>5, <1>n
    <3> QED BY <3>1, <2>1, <1>4, <1>g, <1>n DEF Compact
  <2>3. ASSUME NEW k \in Slot, g[k] = u, u # t
        PROVE  \E l \in Slot : h[l] = u
    BY <2>3, <1>4, <1>5
  <2> QED BY <2>1, <2>2, <2>3
<1> QED BY <1>9, <1>10 DEF h

-----------------------------------------------------------------------------
(* The stores that are left *)

LEMMA SeqFacts ==
    ASSUME NEW S, NEW s \in Seq(S), s # <<>>, NEW r, r = Tail(s), NEW n, n = Len(s)
    PROVE  /\ n \in Nat \ {0} /\ DOMAIN s = 1..n /\ r \in Seq(S) /\ DOMAIN r = 1..(n - 1)
           /\ \A i \in 1..(n - 1) : r[i] = s[i + 1]
OBVIOUS

\* A store is made: the others are left.
LEMMA StoreMade ==
    ASSUME NEW s \in Seq(Store), s # <<>>, NEW r, r = Tail(s)
    PROVE  /\ r \in Seq(Store)
           /\ \A name : Has(s, name) /\ s[1] # name => Has(r, name)
           /\ Disabling(s) => Disabling(r) /\ (Has(s, "cb_clear") => Has(r, "irq_check"))
<1> DEFINE n == Len(s)
<1>1. /\ n \in Nat \ {0} /\ DOMAIN s = 1..n /\ r \in Seq(Store) /\ DOMAIN r = 1..(n - 1)
      /\ \A i \in 1..(n - 1) : r[i] = s[i + 1]
  BY SeqFacts
<1> HIDE DEF n
<1>2. ASSUME NEW j \in 1..n, j # 1
      PROVE  j - 1 \in 1..(n - 1) /\ r[j - 1] = s[j]
  <2>1. j - 1 \in 1..(n - 1) /\ (j - 1) + 1 = j
    BY ONLY <1>1, <1>2
  <2> QED BY <2>1, <1>1
<1>3. ASSUME NEW i \in 1..(n - 1)
      PROVE  i + 1 \in 1..n /\ r[i] = s[i + 1]
  BY <1>1
<1>4. ASSUME NEW name, Has(s, name), s[1] # name
      PROVE  Has(r, name)
  <2>1. PICK j \in 1..n : s[j] = name
    BY <1>4, <1>1 DEF Has
  <2>2. j # 1
    BY <2>1, <1>4
  <2> QED BY <2>1, <2>2, <1>1, <1>2 DEF Has
<1>5. ASSUME Disabling(s)
      PROVE  Disabling(r)
  <2>1. ASSUME NEW i \in DOMAIN r
        PROVE  /\ r[i] \in {"cb_clear", "irq_check", "irq_clear", "imr_clear", "attach_null"}
               /\ r[i] = "cb_clear" => \E j \in DOMAIN r : i < j /\ r[j] = "irq_check"
    <3>1. i \in 1..(n - 1) /\ i + 1 \in DOMAIN s /\ r[i] = s[i + 1]
      BY <2>1, <1>1, <1>3
    <3>2. ASSUME r[i] = "cb_clear"
          PROVE  \E j \in DOMAIN r : i < j /\ r[j] = "irq_check"
      <4>1. PICK j \in DOMAIN s : i + 1 < j /\ s[j] = "irq_check"
        BY <3>1, <3>2, <1>5 DEF Disabling
      <4>2. j \in 1..n /\ j # 1 /\ i < j - 1
        BY <4>1, <3>1, <1>1
      <4> QED BY <4>1, <4>2, <1>1, <1>2
    <3> QED BY <3>1, <3>2, <1>5 DEF Disabling
  <2>2. ASSUME NEW i \in DOMAIN r
        PROVE  \E j \in DOMAIN r : i <= j /\ r[j] = "attach_null"
    <3>1. i \in 1..(n - 1) /\ i + 1 \in DOMAIN s
      BY <2>2, <1>1, <1>3
    <3>2. PICK j \in DOMAIN s : i + 1 <= j /\ s[j] = "attach_null"
      BY <3>1, <1>5 DEF Disabling
    <3>3. j \in 1..n /\ j # 1 /\ i <= j - 1
      BY <3>1, <3>2, <1>1
    <3> QED BY <3>2, <3>3, <1>1, <1>2
  <2> QED BY <2>1, <2>2 DEF Disabling
<1>6. ASSUME Disabling(s), Has(s, "cb_clear")
      PROVE  Has(r, "irq_check")
  <2>1. PICK i \in 1..n : s[i] = "cb_clear"
    BY <1>6, <1>1 DEF Has
  <2>2. PICK j \in 1..n : i < j /\ s[j] = "irq_check"
    BY <2>1, <1>6, <1>1 DEF Disabling
  <2>3. j # 1
    BY <2>2, <2>1, <1>1
  <2> QED BY <2>2, <2>3, <1>1, <1>2 DEF Has
<1> QED BY <1>1, <1>4, <1>5, <1>6

\* The test of the callbacks finds none: the interrupt is about to be disabled.
LEMMA StoreAdded ==
    ASSUME NEW s \in Seq(Store), s # <<>>, s[1] = "irq_check",
           NEW r, r = <<"irq_clear">> \o Tail(s)
    PROVE  /\ r \in Seq(Store) /\ Has(r, "irq_clear")
           /\ \A name : Has(s, name) /\ name # "irq_check" => Has(r, name)
           /\ Disabling(s) => Disabling(r)
<1> DEFINE n == Len(s)
<1>1. /\ n \in Nat \ {0} /\ DOMAIN s = 1..n
      /\ r \in Seq(Store) /\ DOMAIN r = 1..n
      /\ r[1] = "irq_clear" /\ \A i \in 1..n : i # 1 => r[i] = s[i]
  <2>1. n \in Nat \ {0} /\ DOMAIN s = 1..n
    BY SeqFacts
  <2>2. Tail(s) \in Seq(Store) /\ Len(Tail(s)) = n - 1
    OBVIOUS
  <2>3. <<"irq_clear">> \in Seq(Store) /\ Len(<<"irq_clear">>) = 1
    BY DEF Store
  <2>4. \A i \in 1..(n - 1) : Tail(s)[i] = s[i + 1]
    OBVIOUS
  <2>5. /\ r \in Seq(Store) /\ Len(r) = 1 + (n - 1)
        /\ \A i \in 1..(1 + (n - 1)) : r[i] = IF i <= 1 THEN <<"irq_clear">>[i] ELSE Tail(s)[i - 1]
    <3> DEFINE a == <<"irq_clear">>
               b == Tail(s)
    <3>1. a \in Seq(Store) /\ Len(a) = 1 /\ b \in Seq(Store) /\ Len(b) = n - 1 /\ r = a \o b
      BY <2>2, <2>3
    <3> HIDE DEF a, b, n
    <3>2. /\ r \in Seq(Store) /\ Len(r) = Len(a) + Len(b)
          /\ \A i \in 1..(Len(a) + Len(b)) : r[i] = IF i <= Len(a) THEN a[i] ELSE b[i - Len(a)]
      BY ONLY <3>1, ConcatProperties
    <3> QED BY <3>1, <3>2 DEF a, b
  <2> HIDE DEF n
  <2>6. 1 + (n - 1) = n /\ 1 \in 1..n
    BY <2>1
  <2>7. r[1] = "irq_clear"
    BY <2>5, <2>6
  <2>8. ASSUME NEW i \in 1..n, i # 1
        PROVE  r[i] = s[i]
    <3>1. i - 1 \in 1..(n - 1) /\ (i - 1) + 1 = i /\ ~(i <= 1)
      BY <2>1, <2>8
    <3> QED BY <3>1, <2>4, <2>5, <2>6
  <2> QED BY <2>1, <2>5, <2>6, <2>7, <2>8
<1> HIDE DEF n
<1>0. 1 \in 1..n
  BY <1>1
<1>2. ASSUME NEW name, Has(s, name), name # "irq_check"
      PROVE  Has(r, name)
  BY <1>1, <1>2 DEF Has
<1>3. ASSUME Disabling(s)
      PROVE  Disabling(r)
  <2>1. ASSUME NEW i \in 1..n
        PROVE  /\ r[i] \in {"cb_clear", "irq_check", "irq_clear", "imr_clear", "attach_null"}
               /\ r[i] = "cb_clear" => \E j \in 1..n : i < j /\ r[j] = "irq_check"
               /\ \E j \in 1..n : i <= j /\ r[j] = "attach_null"
    <3>1. r[i] \in {"cb_clear", "irq_check", "irq_clear", "imr_clear", "attach_null"}
      BY <1>1, <1>3 DEF Disabling
    <3>2. ASSUME r[i] = "cb_clear"
          PROVE  \E j \in 1..n : i < j /\ r[j] = "irq_check"
      <4>1. i # 1 /\ s[i] = "cb_clear"
        BY <3>2, <1>1
      <4>2. PICK j \in 1..n : i < j /\ s[j] = "irq_check"
        BY <4>1, <1>1, <1>3 DEF Disabling
      <4>3. j # 1
        BY <4>2, <1>1
      <4> QED BY <4>2, <4>3, <1>1
    <3>3. \E j \in 1..n : i <= j /\ r[j] = "attach_null"
      <4>1. PICK j \in 1..n : i <= j /\ s[j] = "attach_null"
        BY <1>1, <1>3 DEF Disabling
      <4>2. j # 1
        BY <4>1
      <4> QED BY <4>1, <4>2, <1>1
    <3> QED BY <3>1, <3>2, <3>3
  <2>2. DOMAIN r = 1..n
    BY <1>1
  <2> QED BY ONLY <2>1, <2>2 DEF Disabling
<1> QED BY <1>0, <1>1, <1>2, <1>3 DEF Has

\* What GPIOC_REGISTER and GPIOC_UNREGISTER have to do
LEMMA AllStores ==
    /\ attach("attach_handler") \o enable \in Seq(Store)
    /\ disable \o attach("attach_null") \in Seq(Store)
    /\ Disabling(disable \o attach("attach_null"))
    /\ \A name \in {"cb_clear", "irq_check", "imr_clear", "attach_null"} :
            Has(disable \o attach("attach_null"), name)
<1>1. /\ disable \in Seq(Store) /\ enable \in Seq(Store)
      /\ <<"attach_handler">> \in Seq(Store) /\ <<"attach_null">> \in Seq(Store)
  BY DEF disable, enable, Store
<1>2. attach("attach_handler") \in Seq(Store) /\ attach("attach_null") \in Seq(Store)
  BY <1>1 DEF attach
<1>3. /\ attach("attach_handler") \o enable \in Seq(Store)
      /\ disable \o attach("attach_null") \in Seq(Store)
  BY <1>1, <1>2
<1> DEFINE D == disable \o attach("attach_null")
           d == disable
           h == <<"attach_null">>
           a == d \o h
<1>4. /\ Len(d) = 3 /\ d[1] = "cb_clear" /\ d[2] = "irq_check" /\ d[3] = "imr_clear"
      /\ Len(h) = 1 /\ h[1] = "attach_null"
  BY DEF disable
<1>e. a = d \o h /\ D = d \o a /\ d \in Seq(Store) /\ h \in Seq(Store)
  BY <1>1 DEF attach
<1> HIDE DEF D, d, h, a
<1>a. /\ a \in Seq(Store) /\ Len(a) = 4 /\ a[1] = "cb_clear" /\ a[2] = "irq_check"
      /\ a[3] = "imr_clear" /\ a[4] = "attach_null"
  <2>1. /\ a \in Seq(Store) /\ Len(a) = Len(d) + Len(h)
        /\ \A i \in 1..(Len(d) + Len(h)) : a[i] = IF i <= Len(d) THEN d[i] ELSE h[i - Len(d)]
    BY ONLY <1>e, ConcatProperties
  <2> QED BY <2>1, <1>4
<1>5. /\ DOMAIN D = 1..7 /\ D[1] = "cb_clear" /\ D[2] = "irq_check" /\ D[3] = "imr_clear"
      /\ D[4] = "cb_clear" /\ D[5] = "irq_check" /\ D[6] = "imr_clear"
      /\ D[7] = "attach_null"
  <2>1. /\ D \in Seq(Store) /\ Len(D) = Len(d) + Len(a)
        /\ \A i \in 1..(Len(d) + Len(a)) : D[i] = IF i <= Len(d) THEN d[i] ELSE a[i - Len(d)]
    BY ONLY <1>e, <1>a, ConcatProperties
  <2> QED BY <2>1, <1>4, <1>a
<1>6. \A i \in 1..7 : i \in {1, 2, 3, 4, 5, 6, 7}
  OBVIOUS
<1>7. Disabling(D)
  BY <1>5, <1>6 DEF Disabling
<1>8. \A name \in {"cb_clear", "irq_check", "imr_clear", "attach_null"} : Has(D, name)
  BY <1>5 DEF Has
<1> QED BY <1>3, <1>7, <1>8 DEF D

-----------------------------------------------------------------------------
(* The steps of the ioctls *)

\* Task t makes its next store.
LEMMA NextStore ==
    ASSUME Ioctls, NEW t \in Task, todo[t] # <<>>, Done(t)
    PROVE  /\ todo' \in [Task -> Seq(Store)]
           /\ \A u \in Task : ~registered[u] => Disabling(todo'[u])
           /\ \A u \in Task : \A name : Has(todo[u], name) /\ (u = t => todo[t][1] # name)
                => Has(todo'[u], name)
           /\ \A u \in Task : ~registered[u] /\ Has(todo[u], "cb_clear")
                => Has(todo'[u], "irq_check")
<1> DEFINE s == todo[t]
           r == Tail(s)
<1>1. todo \in [Task -> Seq(Store)] /\ \A u \in Task : ~registered[u] => Disabling(todo[u])
  BY DEF Ioctls
<1>2. s \in Seq(Store) /\ s # <<>> /\ r = Tail(s)
  BY <1>1
<1>3. todo' = [todo EXCEPT ![t] = r]
  BY DEF Done
<1> HIDE DEF r
<1>4. /\ r \in Seq(Store)
      /\ \A name : Has(s, name) /\ s[1] # name => Has(r, name)
      /\ Disabling(s) => Disabling(r) /\ (Has(s, "cb_clear") => Has(r, "irq_check"))
  <2> HIDE DEF s
  <2> QED BY ONLY <1>2, StoreMade
<1>5. todo'[t] = r /\ \A u \in Task \ {t} : todo'[u] = todo[u]
  BY <1>1, <1>3
<1>6. todo' \in [Task -> Seq(Store)]
  BY ONLY <1>1, <1>3, <1>4, t \in Task
<1>7. \A u \in Task : ~registered[u] => Disabling(todo'[u])
  BY ONLY <1>1, <1>4, <1>5, t \in Task
<1>8. ASSUME NEW u \in Task, NEW name, Has(todo[u], name), u = t => todo[t][1] # name
      PROVE  Has(todo'[u], name)
  <2>1. CASE u = t
    BY ONLY <2>1, <1>4, <1>5, <1>8
  <2>2. CASE u # t
    BY ONLY <2>2, <1>5, <1>8, u \in Task
  <2> QED BY <2>1, <2>2
<1>9. ASSUME NEW u \in Task, ~registered[u], Has(todo[u], "cb_clear")
      PROVE  Has(todo'[u], "irq_check")
  <2>1. CASE u = t
    BY ONLY <2>1, <1>1, <1>4, <1>5, <1>9, t \in Task
  <2>2. CASE u # t
    <3>1. Disabling(todo[u])
      BY <1>1, <1>9
    <3>2. Has(todo[u], "irq_check")
      BY ONLY <3>1, <1>9 DEF Disabling, Has
    <3> QED BY ONLY <2>2, <3>2, <1>5, u \in Task
  <2> QED BY <2>1, <2>2
<1> QED BY ONLY <1>6, <1>7, <1>8, <1>9

\* A task that is not registered only switches things off.
LEMMA OnlyOff ==
    ASSUME Ioctls, NEW t \in Task, ~registered[t], todo[t] # <<>>
    PROVE  todo[t][1] \in {"cb_clear", "irq_check", "irq_clear", "imr_clear", "attach_null"}
<1>1. todo[t] \in Seq(Store) /\ Disabling(todo[t])
  BY DEF Ioctls
<1> DEFINE s == todo[t]
           n == Len(s)
           r == Tail(s)
<1>2. s \in Seq(Store) /\ s # <<>> /\ r = Tail(s) /\ n = Len(s)
  BY <1>1
<1>3. n \in Nat \ {0} /\ DOMAIN s = 1..n
  <2> HIDE DEF s, r, n
  <2> QED BY ONLY <1>2, SeqFacts
<1> HIDE DEF n
<1>4. 1 \in DOMAIN s
  BY <1>3
<1> QED BY ONLY <1>1, <1>4 DEF Disabling, s

LEMMA SetEventInv ==
    ASSUME IInv, NEW t \in Task, SetEvent(t)
    PROVE  IInv'
<1>r. Registry /\ Ioctls /\ Polling
  BY DEF IInv
<1>1. Registry' /\ Polling'
  BY <1>r, RegistryKept, PollingKept DEF SetEvent, dev, poll, registry, polling
<1>2. todo[t] # <<>> /\ registered' = registered /\ register_count' = register_count
      /\ callback' = callback /\ other' = other
  BY DEF SetEvent, Step, dev
<1>t. callback \in BOOLEAN /\ exti \in BOOLEAN /\ other \in BOOLEAN /\ irq \in BOOLEAN
      /\ imr \in BOOLEAN /\ (register_count = 0 => Leftovers)
  BY <1>r DEF Ioctls
<1>0. register_count = 0 => \A u \in Task : ~registered[u]
  BY <1>r, CountFacts
<1>3. CASE Done(t) /\ ~Step(t, "irq_check")
  <2>1. /\ todo' \in [Task -> Seq(Store)]
        /\ \A u \in Task : ~registered[u] => Disabling(todo'[u])
        /\ \A u \in Task : \A name : Has(todo[u], name) /\ (u = t => todo[t][1] # name)
             => Has(todo'[u], name)
    BY ONLY <1>r, <1>2, <1>3, t \in Task, NextStore
  <2>2. \/ Step(t, "cb_clear") /\ exti' = FALSE /\ UNCHANGED <<irq, imr>>
        \/ Step(t, "cb_set") /\ exti' = TRUE /\ UNCHANGED <<irq, imr>>
        \/ Step(t, "irq_set") /\ irq' = TRUE /\ UNCHANGED <<exti, imr>>
        \/ Step(t, "irq_clear") /\ irq' = FALSE /\ UNCHANGED <<exti, imr>>
        \/ Step(t, "imr_set") /\ imr' = TRUE /\ UNCHANGED <<exti, irq>>
        \/ Step(t, "imr_clear") /\ imr' = FALSE /\ UNCHANGED <<exti, irq>>
    BY <1>3 DEF SetEvent
  <2>3. exti' \in BOOLEAN /\ irq' \in BOOLEAN /\ imr' \in BOOLEAN
    BY <2>2, <1>t
  <2>4. ASSUME register_count = 0
        PROVE  Leftovers'
    <3>1. ~registered[t] /\ Leftovers
      BY <2>4, <1>0, <1>t
    <3>2. todo[t][1] \in {"cb_clear", "irq_check", "irq_clear", "imr_clear", "attach_null"}
      BY ONLY <3>1, <1>r, <1>2, t \in Task, OnlyOff
    <3>3. \/ todo[t][1] = "cb_clear" /\ exti' = FALSE /\ UNCHANGED <<irq, imr>>
          \/ todo[t][1] = "irq_clear" /\ irq' = FALSE /\ UNCHANGED <<exti, imr>>
          \/ todo[t][1] = "imr_clear" /\ imr' = FALSE /\ UNCHANGED <<exti, irq>>
      BY <3>2, <2>2 DEF Step
    <3> QED BY ONLY <3>1, <3>3, <2>1, <1>2 DEF Leftovers
  <2>5. Ioctls'
    BY ONLY <2>1, <2>3, <2>4, <1>2, <1>t DEF Ioctls
  <2> QED BY <1>1, <2>5 DEF IInv
<1>4. CASE Step(t, "irq_check") /\ (exti \/ other)
  <2>1. UNCHANGED <<exti, irq, imr>> /\ todo[t][1] = "irq_check"
    BY <1>4 DEF SetEvent, Step
  <2>2. todo' = [todo EXCEPT ![t] = <<>> \o Tail(todo[t])]
    BY <1>4 DEF SetEvent, Step
  <2>3. todo[t] \in Seq(Store)
    BY <1>r DEF Ioctls
  <2>4. <<>> \o Tail(todo[t]) = Tail(todo[t])
    BY <2>3, <1>2
  <2>5. Done(t)
    BY <2>2, <2>4 DEF Done
  <2>6. /\ todo' \in [Task -> Seq(Store)]
        /\ \A u \in Task : ~registered[u] => Disabling(todo'[u])
        /\ \A u \in Task : \A name : Has(todo[u], name) /\ (u = t => todo[t][1] # name)
             => Has(todo'[u], name)
        /\ \A u \in Task : ~registered[u] /\ Has(todo[u], "cb_clear")
             => Has(todo'[u], "irq_check")
    BY ONLY <1>r, <1>2, <2>5, t \in Task, NextStore
  <2>7. ASSUME register_count = 0
        PROVE  Leftovers'
    <3>1. Leftovers /\ \A u \in Task : ~registered[u]
      BY <2>7, <1>0, <1>t
    <3> QED BY ONLY <3>1, <2>1, <2>6, <1>2, <1>4 DEF Leftovers
  <2>8. Ioctls'
    BY ONLY <2>1, <2>6, <2>7, <1>2, <1>t DEF Ioctls
  <2> QED BY <1>1, <2>8 DEF IInv
<1>5. CASE Step(t, "irq_check") /\ ~(exti \/ other)
  <2> DEFINE s == todo[t]
             r == <<"irq_clear">> \o Tail(s)
  <2>1. UNCHANGED <<exti, irq, imr>> /\ s[1] = "irq_check"
    BY <1>5 DEF SetEvent, Step
  <2>2. todo' = [todo EXCEPT ![t] = r]
    BY <1>5 DEF SetEvent, Step
  <2>3. todo \in [Task -> Seq(Store)] /\ \A u \in Task : ~registered[u] => Disabling(todo[u])
    BY <1>r DEF Ioctls
  <2>4. s \in Seq(Store) /\ s # <<>> /\ r = <<"irq_clear">> \o Tail(s) /\ s = todo[t]
    BY <2>3, <1>2
  <2> HIDE DEF r, s
  <2>5. /\ r \in Seq(Store) /\ Has(r, "irq_clear")
        /\ \A name : Has(s, name) /\ name # "irq_check" => Has(r, name)
        /\ Disabling(s) => Disabling(r)
    BY ONLY <2>1, <2>4, StoreAdded
  <2>6. todo'[t] = r /\ \A u \in Task \ {t} : todo'[u] = todo[u]
    BY ONLY <2>2, <2>3, t \in Task
  <2>7. todo' \in [Task -> Seq(Store)]
    BY ONLY <2>2, <2>3, <2>5, t \in Task
  <2>8. \A u \in Task : ~registered[u] => Disabling(todo'[u])
    BY ONLY <2>3, <2>4, <2>5, <2>6, t \in Task
  <2>9. \A u \in Task : \A name : Has(todo[u], name) /\ name # "irq_check" => Has(todo'[u], name)
    BY ONLY <2>4, <2>5, <2>6, t \in Task
  <2>10. Has(todo'[t], "irq_clear")
    BY <2>5, <2>6
  <2>11. ASSUME register_count = 0
         PROVE  Leftovers'
    <3>1. Leftovers
      BY <2>11, <1>t
    <3> QED BY ONLY <3>1, <2>1, <2>9, <2>10, <1>2, t \in Task DEF Leftovers
  <2>12. Ioctls'
    BY ONLY <2>1, <2>7, <2>8, <2>11, <1>2, <1>t DEF Ioctls
  <2> QED BY <1>1, <2>12 DEF IInv
<1>6. Done(t) \/ Step(t, "irq_check")
  BY DEF SetEvent
<1> QED BY <1>3, <1>4, <1>5, <1>6

LEMMA AttachInv ==
    ASSUME IInv, NEW t \in Task, gpint_attach(t)
    PROVE  IInv'
<1>r. Registry /\ Ioctls /\ Polling
  BY DEF IInv
<1>1. Registry' /\ Polling'
  BY <1>r, RegistryKept, PollingKept DEF gpint_attach, dev, poll, registry, polling
<1>2. todo[t] # <<>> /\ Done(t) /\ registered' = registered /\ register_count' = register_count
      /\ exti' = exti /\ other' = other /\ irq' = irq /\ imr' = imr
      /\ \/ todo[t][1] = "attach_handler" /\ callback' = TRUE
         \/ todo[t][1] = "attach_null" /\ callback' = FALSE
  BY DEF gpint_attach, Step, dev
<1>t. callback \in BOOLEAN /\ exti \in BOOLEAN /\ other \in BOOLEAN /\ irq \in BOOLEAN
      /\ imr \in BOOLEAN /\ (register_count = 0 => Leftovers)
  BY <1>r DEF Ioctls
<1>3. /\ todo' \in [Task -> Seq(Store)]
      /\ \A u \in Task : ~registered[u] => Disabling(todo'[u])
      /\ \A u \in Task : \A name : Has(todo[u], name) /\ (u = t => todo[t][1] # name)
           => Has(todo'[u], name)
  BY ONLY <1>r, <1>2, t \in Task, NextStore
<1>4. ASSUME register_count = 0
      PROVE  Leftovers'
  <2>1. ~registered[t] /\ Leftovers
    BY <1>4, <1>r, <1>t, CountFacts
  <2>2. todo[t][1] \in {"cb_clear", "irq_check", "irq_clear", "imr_clear", "attach_null"}
    BY ONLY <2>1, <1>r, <1>2, t \in Task, OnlyOff
  <2>3. todo[t][1] = "attach_null" /\ callback' = FALSE
    BY <2>2, <1>2
  <2> QED BY ONLY <2>1, <2>3, <1>2, <1>3 DEF Leftovers
<1>5. Ioctls'
  BY ONLY <1>2, <1>3, <1>4, <1>t DEF Ioctls
<1> QED BY <1>1, <1>5 DEF IInv

\* Only a task that is registered enables the pin.
LEMMA EnableInv ==
    ASSUME IInv, NEW t \in Task, gpint_enable(t)
    PROVE  IInv'
<1>r. Registry /\ Ioctls /\ Polling
  BY DEF IInv
<1>1. Registry' /\ Polling'
  BY <1>r, RegistryKept, PollingKept DEF gpint_enable, dev, poll, registry, polling
<1>2. todo[t] # <<>> /\ todo[t][1] = "cb_test"
      /\ registered' = registered /\ register_count' = register_count
      /\ callback' = callback /\ exti' = exti /\ other' = other /\ irq' = irq /\ imr' = imr
      /\ (Done(t) \/ todo' = [todo EXCEPT ![t] = <<>>])
  BY DEF gpint_enable, Step, dev, chip
<1>t. callback \in BOOLEAN /\ exti \in BOOLEAN /\ other \in BOOLEAN /\ irq \in BOOLEAN
      /\ imr \in BOOLEAN /\ todo \in [Task -> Seq(Store)]
      /\ \A u \in Task : ~registered[u] => Disabling(todo[u])
  BY <1>r DEF Ioctls
<1>3. registered[t]
  <2>1. ASSUME ~registered[t] PROVE FALSE
    <3>1. todo[t][1] \in {"cb_clear", "irq_check", "irq_clear", "imr_clear", "attach_null"}
      BY ONLY <2>1, <1>r, <1>2, t \in Task, OnlyOff
    <3> QED BY <3>1, <1>2
  <2> QED BY <2>1
<1>4. register_count # 0
  BY <1>3, <1>r, CountFacts
<1>5. /\ todo' \in [Task -> Seq(Store)]
      /\ \A u \in Task : ~registered[u] => Disabling(todo'[u])
  <2>1. CASE Done(t)
    BY ONLY <2>1, <1>r, <1>2, t \in Task, NextStore
  <2>2. CASE todo' = [todo EXCEPT ![t] = <<>>]
    BY <2>2, <1>3, <1>t
  <2> QED BY <2>1, <2>2, <1>2
<1>6. Ioctls'
  BY ONLY <1>2, <1>4, <1>5, <1>t DEF Ioctls
<1> QED BY <1>1, <1>6 DEF IInv

LEMMA RegisterInv ==
    ASSUME IInv, NEW t \in Task, gpioc_register(t)
    PROVE  IInv'
<1>r. Registry /\ Ioctls /\ Polling
  BY DEF IInv
<1>1. Polling'
  BY <1>r, PollingKept DEF gpioc_register, poll, polling
<1>2. ~registered[t] /\ take_slot(t) /\ register_count' = (register_count + 1) % 256
      /\ registered' = [registered EXCEPT ![t] = TRUE]
      /\ callback' = callback /\ exti' = exti /\ other' = other /\ irq' = irq /\ imr' = imr
  BY DEF gpioc_register, chip
<1>t. registered \in [Task -> BOOLEAN] /\ register_count = Cardinality(Registered)
  BY <1>r DEF Registry
<1>3. registered' \in [Task -> BOOLEAN] /\ \A u \in Task : registered'[u] <=> registered[u] \/ u = t
  BY <1>2, <1>t
<1>4. /\ Compact(gp_signals')
      /\ \A u \in Task : (\E i \in Slot : gp_signals'[i] = u) <=> registered[u] \/ u = t
  BY ONLY <1>r, <1>2, t \in Task, TakeSlot
<1>5. Registered' = Registered \cup {t} /\ t \notin Registered
  BY <1>2, <1>3 DEF Registered
<1>6. register_count' = Cardinality(Registered') /\ register_count' # 0
  <2>1. IsFiniteSet(Registered) /\ register_count \in Nat
    BY <1>r, <1>t, CountFacts, FS_CardinalityType
  <2>2. Cardinality(Registered \cup {t}) = register_count + 1 /\ IsFiniteSet(Registered \cup {t})
    BY <2>1, <1>t, <1>5, FS_AddElement
  <2>3. Registered \cup {t} \in SUBSET Task
    BY DEF Registered
  <2>4. Cardinality(Registered \cup {t}) <= Cardinality(Task) /\ Cardinality(Task) < 256
        /\ Cardinality(Task) \in Nat
    BY <2>3, FS_Subset, FS_CardinalityType, GpioAssumption
  <2>5. register_count + 1 < 256
    BY ONLY <2>1, <2>2, <2>4
  <2>6. register_count' = register_count + 1
    BY ONLY <2>1, <2>5, <1>2
  <2> QED BY <2>1, <2>2, <2>6, <1>5
<1>7. Registry'
  BY <1>3, <1>4, <1>6 DEF Registry
<1> DEFINE R == attach("attach_handler") \o enable
           s == IF register_count > 0 THEN <<>> ELSE R
<1>8. todo' = [todo EXCEPT ![t] = s]
  BY DEF gpioc_register
<1>9. s \in Seq(Store)
  <2>1. R \in Seq(Store) /\ <<>> \in Seq(Store)
    BY AllStores
  <2> QED BY <2>1
<1> HIDE DEF s
<1>10. /\ callback \in BOOLEAN /\ exti \in BOOLEAN /\ other \in BOOLEAN
       /\ irq \in BOOLEAN /\ imr \in BOOLEAN /\ todo \in [Task -> Seq(Store)]
       /\ \A u \in Task : ~registered[u] => Disabling(todo[u])
  BY <1>r DEF Ioctls
<1>11. /\ todo' \in [Task -> Seq(Store)]
       /\ \A u \in Task \ {t} : todo'[u] = todo[u]
  BY <1>8, <1>9, <1>10
<1>12. Ioctls'
  BY ONLY <1>2, <1>3, <1>6, <1>10, <1>11 DEF Ioctls
<1> QED BY <1>1, <1>7, <1>12 DEF IInv

LEMMA UnregisterInv ==
    ASSUME IInv, NEW t \in Task, gpioc_unregister(t)
    PROVE  IInv'
<1>r. Registry /\ Ioctls /\ Polling
  BY DEF IInv
<1>1. Polling'
  BY <1>r, PollingKept DEF gpioc_unregister, poll, polling
<1>2. registered[t] /\ drop_slot(t) /\ register_count' = (register_count - 1) % 256
      /\ registered' = [registered EXCEPT ![t] = FALSE]
      /\ callback' = callback /\ exti' = exti /\ other' = other /\ irq' = irq /\ imr' = imr
  BY DEF gpioc_unregister, chip
<1>t. registered \in [Task -> BOOLEAN] /\ register_count = Cardinality(Registered)
  BY <1>r DEF Registry
<1>3. registered' \in [Task -> BOOLEAN] /\ \A u \in Task : registered'[u] <=> registered[u] /\ u # t
  BY <1>2, <1>t
<1>4. /\ Compact(gp_signals')
      /\ \A u \in Task : (\E i \in Slot : gp_signals'[i] = u) <=> registered[u] /\ u # t
  BY ONLY <1>r, <1>2, t \in Task, DropSlot
<1>5. Registered' = Registered \ {t} /\ t \in Registered
  BY <1>2, <1>3 DEF Registered
<1>6. register_count' = Cardinality(Registered') /\ register_count' \in Nat
  <2>1. IsFiniteSet(Registered) /\ register_count \in Nat /\ register_count < 256
        /\ register_count # 0
    BY <1>r, <1>t, <1>2, CountFacts, FS_CardinalityType
  <2>2. Cardinality(Registered \ {t}) = register_count - 1
    BY <2>1, <1>t, <1>5, FS_RemoveElement
  <2>3. register_count' = register_count - 1
    BY ONLY <2>1, <1>2
  <2> QED BY <2>1, <2>2, <2>3, <1>5
<1>7. Registry'
  BY <1>3, <1>4, <1>6 DEF Registry
<1> DEFINE D == disable \o attach("attach_null")
           s == IF register_count' > 0 THEN <<>> ELSE D
<1>8. todo' = [todo EXCEPT ![t] = s]
  BY DEF gpioc_unregister
<1>9. /\ s \in Seq(Store) /\ Disabling(s)
      /\ register_count' = 0 => \A name \in {"cb_clear", "irq_check", "imr_clear", "attach_null"} :
                                    Has(s, name)
  <2>1. /\ D \in Seq(Store) /\ Disabling(D)
        /\ \A name \in {"cb_clear", "irq_check", "imr_clear", "attach_null"} : Has(D, name)
    BY AllStores
  <2>2. <<>> \in Seq(Store) /\ DOMAIN <<>> = {}
    OBVIOUS
  <2>3. Disabling(<<>>)
    BY ONLY <2>2 DEF Disabling
  <2> HIDE DEF D
  <2>4. CASE register_count' > 0
    BY ONLY <2>2, <2>3, <2>4, <1>6 DEF s
  <2>5. CASE ~(register_count' > 0)
    BY ONLY <2>1, <2>5 DEF s
  <2> QED BY <2>4, <2>5
<1> HIDE DEF s
<1>10. /\ callback \in BOOLEAN /\ exti \in BOOLEAN /\ other \in BOOLEAN
       /\ irq \in BOOLEAN /\ imr \in BOOLEAN /\ todo \in [Task -> Seq(Store)]
       /\ \A u \in Task : ~registered[u] => Disabling(todo[u])
  BY <1>r DEF Ioctls
<1>11. /\ todo' \in [Task -> Seq(Store)] /\ todo'[t] = s
       /\ \A u \in Task \ {t} : todo'[u] = todo[u]
  BY <1>8, <1>9, <1>10
<1>12. \A u \in Task : ~registered'[u] => Disabling(todo'[u])
  BY ONLY <1>3, <1>9, <1>10, <1>11
<1>13. register_count' = 0 => Leftovers'
  BY ONLY <1>9, <1>11, t \in Task DEF Leftovers
<1>14. Ioctls'
  BY ONLY <1>2, <1>10, <1>11, <1>12, <1>13 DEF Ioctls
<1> QED BY <1>1, <1>7, <1>14 DEF IInv

\* A button that is disabled leaves the interrupt enabled only for the pin, whose
\* callback is then about to be cleared, and the callbacks tested again after it.
LEMMA ButtonInv ==
    ASSUME IInv, NEW on \in BOOLEAN, btn_enable(on)
    PROVE  IInv'
<1>r. Registry /\ Ioctls /\ Polling
  BY DEF IInv
<1>1. Registry' /\ Polling'
  BY <1>r, RegistryKept, PollingKept DEF btn_enable, dev, poll, registry, polling
<1>2. registered' = registered /\ register_count' = register_count /\ todo' = todo
      /\ callback' = callback /\ exti' = exti /\ other' = on /\ imr' = imr
      /\ irq' = (on \/ (exti /\ irq))
  BY DEF btn_enable, dev
<1>t. callback \in BOOLEAN /\ exti \in BOOLEAN /\ other \in BOOLEAN /\ irq \in BOOLEAN
      /\ imr \in BOOLEAN /\ (register_count = 0 => Leftovers)
      /\ \A u \in Task : ~registered[u] => Disabling(todo[u])
  BY <1>r DEF Ioctls
<1>3. irq' \in BOOLEAN /\ other' \in BOOLEAN
  BY <1>2, <1>t
<1>4. ASSUME register_count = 0
      PROVE  Leftovers'
  <2>1. Leftovers /\ \A u \in Task : Disabling(todo[u])
    BY <1>4, <1>r, <1>t, CountFacts
  <2>2. ASSUME NEW u \in Task, Has(todo[u], "cb_clear")
        PROVE  Has(todo[u], "irq_check")
    <3>1. Disabling(todo[u])
      BY <2>1
    <3> QED BY ONLY <3>1, <2>2 DEF Disabling, Has
  <2>3. irq' /\ ~other' => exti
    BY <1>2, <1>t
  <2> QED BY ONLY <2>1, <2>2, <2>3, <1>2 DEF Leftovers
<1>5. Ioctls'
  BY <1>2, <1>3, <1>4, <1>r, <1>t DEF Ioctls
<1> QED BY <1>1, <1>5 DEF IInv

-----------------------------------------------------------------------------
(* The steps of the pin and of the pollers *)

LEMMA PinKeeps ==
    ASSUME IInv, UNCHANGED registry, UNCHANGED ioctls, Polling'
    PROVE  IInv'
BY RegistryKept, IoctlsKept DEF IInv

LEMMA EdgeInv ==
    ASSUME IInv, rising_edge \/ falling_edge
    PROVE  IInv'
<1>1. UNCHANGED registry /\ UNCHANGED ioctls
  BY DEF rising_edge, falling_edge, dev, chip, registry, ioctls
<1>2. Polling /\ imr \in BOOLEAN
  BY DEF IInv, Ioctls
<1>3. UNCHANGED <<f_priv, fds, revents, seen, reading, int_count, panic>>
  BY DEF rising_edge, falling_edge, poll
<1>4. CASE rising_edge
  <2>1. /\ int_count < MaxEdges /\ level' = TRUE /\ pending' = (pending \/ imr)
        /\ missed' = ~imr
    BY <1>4 DEF rising_edge
  <2>2. pending' \in BOOLEAN /\ missed' \in BOOLEAN /\ (pending' \/ missed')
    BY <2>1, <1>2 DEF Polling
  <2>3. Polling'
    BY <1>2, <1>3, <2>1, <2>2 DEF Polling, NoMissedInterrupt
  <2> QED BY <1>1, <2>3, PinKeeps
<1>5. CASE falling_edge
  <2>1. level' = FALSE /\ pending' = pending /\ missed' = missed
    BY <1>5 DEF falling_edge
  <2>2. Polling'
    BY <1>2, <1>3, <2>1 DEF Polling, NoMissedInterrupt
  <2> QED BY <1>1, <2>2, PinKeeps
<1> QED BY <1>4, <1>5

\* Every poller has read an earlier count, so that the new one differs from all.
LEMMA InterruptInv ==
    ASSUME IInv, multiisr
    PROVE  IInv'
<1>1. UNCHANGED registry /\ UNCHANGED ioctls
  BY DEF multiisr, dev, chip, registry, ioctls
<1>2. Polling /\ MaxEdges \in Nat
  BY GpioAssumption DEF IInv
<1>3. /\ UNCHANGED <<f_priv, fds, seen, reading, level>> /\ pending' = FALSE /\ pending
  BY DEF multiisr
<1>4. CASE gpio_handler /\ UNCHANGED <<missed, panic>>
  <2>1. int_count' = int_count + 1 /\ revents' = revents \cup fds
    BY <1>4 DEF gpio_handler
  <2>2. int_count' \in 0..MaxEdges /\ \A p \in Poller : f_priv[p] <= int_count' /\ int_count' # f_priv[p]
    BY <1>2, <1>3, <2>1 DEF Polling
  <2>3. Polling'
    BY <1>2, <1>3, <1>4, <2>1, <2>2 DEF Polling, NoMissedInterrupt
  <2> QED BY <1>1, <2>3, PinKeeps
<1>5. CASE missed' = TRUE /\ UNCHANGED <<int_count, revents>> /\ panic' \in BOOLEAN
  <2>1. Polling'
    BY <1>2, <1>3, <1>5 DEF Polling, NoMissedInterrupt
  <2> QED BY <1>1, <2>1, PinKeeps
<1> QED BY <1>2, <1>4, <1>5 DEF multiisr, Polling

LEMMA ReadInv ==
    ASSUME IInv, NEW p \in Poller, gpio_read(p) \/ gpint_read(p)
    PROVE  IInv'
<1>1. UNCHANGED registry /\ UNCHANGED ioctls
  BY DEF gpio_read, gpint_read, dev, chip, registry, ioctls
<1>2. Polling /\ MaxEdges \in Nat
  BY GpioAssumption DEF IInv
<1>3. UNCHANGED <<fds, revents, int_count, level, pending, missed, panic>>
  BY DEF gpio_read, gpint_read
<1>4. CASE gpio_read(p)
  <2>1. /\ p \notin fds /\ reading' = reading \cup {p} /\ seen' = seen
        /\ f_priv' = [f_priv EXCEPT ![p] = int_count]
    BY <1>4 DEF gpio_read, Free
  <2>2. Polling'
    BY <1>2, <1>3, <2>1 DEF Polling, NoMissedInterrupt
  <2> QED BY <1>1, <2>2, PinKeeps
<1>5. CASE gpint_read(p)
  <2>1. /\ reading' = reading \ {p} /\ f_priv' = f_priv
        /\ seen' = [seen EXCEPT ![p] = level]
    BY <1>5 DEF gpint_read
  <2>2. Polling'
    BY <1>2, <1>3, <2>1 DEF Polling, NoMissedInterrupt
  <2> QED BY <1>1, <2>2, PinKeeps
<1> QED BY <1>4, <1>5

LEMMA PollInv ==
    ASSUME IInv, NEW p \in Poller, gpio_poll_setup(p) \/ gpio_poll_teardown(p)
    PROVE  IInv'
<1>1. UNCHANGED registry /\ UNCHANGED ioctls
  BY DEF gpio_poll_setup, gpio_poll_teardown, dev, chip, registry, ioctls
<1>2. Polling
  BY DEF IInv
<1>3. UNCHANGED <<f_priv, int_count, seen, reading, level, pending, missed, panic>>
  BY DEF gpio_poll_setup, gpio_poll_teardown
<1>4. CASE gpio_poll_setup(p)
  <2>1. /\ fds' = fds \cup {p}
        /\ revents' = IF int_count # f_priv[p] THEN revents \cup {p} ELSE revents
    BY <1>4 DEF gpio_poll_setup
  <2>2. Polling'
    BY <1>2, <1>3, <2>1 DEF Polling, NoMissedInterrupt
  <2> QED BY <1>1, <2>2, PinKeeps
<1>5. CASE gpio_poll_teardown(p)
  <2>1. fds' = fds \ {p} /\ revents' = revents \ {p}
    BY <1>5 DEF gpio_poll_teardown
  <2>2. Polling'
    BY <1>2, <1>3, <2>1 DEF Polling, NoMissedInterrupt
  <2> QED BY <1>1, <2>2, PinKeeps
<1> QED BY <1>4, <1>5

-----------------------------------------------------------------------------
LEMMA InitIInv == Init => IInv
<1> SUFFICES ASSUME Init PROVE IInv
  OBVIOUS
<1>n. NSIGNALS \in Nat /\ MaxEdges \in Nat /\ None \notin Task
  BY GpioAssumption
<1>1. Registry
  <2>1. Compact(gp_signals)
    BY DEF Init, Compact
  <2>2. registered \in [Task -> BOOLEAN] /\ \A t \in Task : ~registered[t]
    BY DEF Init
  <2>3. \A t \in Task : \A i \in Slot : gp_signals[i] # t
    BY <1>n DEF Init
  <2>4. Registered = {}
    BY <2>2 DEF Registered
  <2>5. register_count = Cardinality(Registered)
    BY <2>4, FS_EmptySet DEF Init
  <2> QED BY <2>1, <2>2, <2>3, <2>5 DEF Registry
<1>2. Ioctls
  <2>1. \A t \in Task : todo[t] = <<>>
    BY DEF Init
  <2>2. DOMAIN <<>> = {} /\ todo \in [Task -> Seq(Store)]
    BY DEF Init
  <2>3. Disabling(<<>>)
    BY ONLY <2>2 DEF Disabling
  <2>4. ~callback /\ ~exti /\ ~imr /\ ~irq
    BY DEF Init
  <2>5. callback \in BOOLEAN /\ exti \in BOOLEAN /\ other \in BOOLEAN /\ irq \in BOOLEAN
        /\ imr \in BOOLEAN
    BY DEF Init
  <2> QED BY ONLY <2>1, <2>2, <2>3, <2>4, <2>5 DEF Ioctls, Leftovers
<1>3. Polling
  <2>1. /\ int_count = 0 /\ 0 \in 0..MaxEdges /\ f_priv \in [Poller -> 0..MaxEdges]
        /\ \A p \in Poller : f_priv[p] <= int_count
    BY <1>n DEF Init
  <2>2. seen \in [Poller -> BOOLEAN] /\ \A p \in Poller : seen[p]
    BY DEF Init
  <2>3. fds = {} /\ revents = {} /\ reading = {} /\ level \in BOOLEAN
        /\ pending \in BOOLEAN /\ ~pending /\ missed \in BOOLEAN /\ panic \in BOOLEAN
    BY DEF Init
  <2>4. NoMissedInterrupt
    BY ONLY <2>2, <2>3 DEF NoMissedInterrupt
  <2> QED BY ONLY <2>1, <2>2, <2>3, <2>4 DEF Polling
<1> QED BY <1>1, <1>2, <1>3 DEF IInv

LEMMA NextIInv == IInv /\ [Next]_vars => IInv'
<1> SUFFICES ASSUME IInv, [Next]_vars PROVE IInv'
  OBVIOUS
<1>1. CASE UNCHANGED vars
  <2>1. UNCHANGED registry /\ UNCHANGED ioctls /\ UNCHANGED polling
    BY <1>1 DEF vars, dev, chip, registry, ioctls, polling
  <2> QED BY <2>1, PinKeeps, PollingKept DEF IInv
<1>2. ASSUME NEW t \in Task, gpioc_register(t) PROVE IInv'
  BY <1>2, RegisterInv
<1>3. ASSUME NEW t \in Task, gpioc_unregister(t) PROVE IInv'
  BY <1>3, UnregisterInv
<1>4. ASSUME NEW t \in Task, SetEvent(t) PROVE IInv'
  BY <1>4, SetEventInv
<1>5. ASSUME NEW t \in Task, gpint_attach(t) PROVE IInv'
  BY <1>5, AttachInv
<1>6. ASSUME NEW t \in Task, gpint_enable(t) PROVE IInv'
  BY <1>6, EnableInv
<1>7. ASSUME NEW on \in BOOLEAN, btn_enable(on) PROVE IInv'
  BY <1>7, ButtonInv
<1>8. CASE rising_edge \/ falling_edge
  BY <1>8, EdgeInv
<1>9. CASE multiisr
  BY <1>9, InterruptInv
<1>10. ASSUME NEW p \in Poller, gpio_read(p) \/ gpint_read(p) PROVE IInv'
  BY <1>10, ReadInv
<1>11. ASSUME NEW p \in Poller, gpio_poll_setup(p) \/ gpio_poll_teardown(p) PROVE IInv'
  BY <1>11, PollInv
<1> QED BY <1>1, <1>2, <1>3, <1>4, <1>5, <1>6, <1>7, <1>8, <1>9, <1>10, <1>11 DEF Next

LEMMA Invariance == Spec => []IInv
BY InitIInv, NextIInv, PTL DEF Spec

-----------------------------------------------------------------------------
(* The theorems *)

\* Every variable keeps its type; register_count, which GPIOC_REGISTER and
\* GPIOC_UNREGISTER step modulo 256, never wraps.
THEOREM GpioTypeCorrect == Spec => []TypeOK
<1>1. IInv => TypeOK
  <2> SUFFICES ASSUME IInv PROVE TypeOK
    OBVIOUS
  <2>1. register_count \in 0..Cardinality(Task)
    BY CountFacts DEF IInv
  <2>2. gp_signals \in [Slot -> Task \cup {None}] /\ registered \in [Task -> BOOLEAN]
    BY DEF IInv, Registry, Compact
  <2>3. callback \in BOOLEAN /\ exti \in BOOLEAN /\ other \in BOOLEAN /\ irq \in BOOLEAN
        /\ imr \in BOOLEAN /\ todo \in [Task -> Seq(Store)]
    BY DEF IInv, Ioctls
  <2>4. /\ int_count \in 0..MaxEdges /\ f_priv \in [Poller -> 0..MaxEdges]
        /\ level \in BOOLEAN /\ pending \in BOOLEAN /\ missed \in BOOLEAN /\ panic \in BOOLEAN
        /\ seen \in [Poller -> BOOLEAN]
        /\ fds \subseteq Poller /\ revents \subseteq Poller /\ reading \subseteq Poller
    BY DEF IInv, Polling
  <2>5. {callback, exti, other, irq, imr, level, pending, missed, panic} \subseteq BOOLEAN
    BY ONLY <2>3, <2>4
  <2> QED BY <2>1, <2>2, <2>3, <2>4, <2>5 DEF TypeOK, Store
<1> QED BY <1>1, Invariance, PTL

\* gpio_handler signals every registered task exactly once and nobody else: the
\* slots have no hole before a task's slot, and no task has two.
THEOREM GpioRegistrantsSignalled == Spec => []RegistrantsSignalled
<1>1. IInv => RegistrantsSignalled
  <2> SUFFICES ASSUME IInv, NEW t \in Task
               PROVE  Cardinality({i \in Slot : gp_signals[i] = t
                                        /\ \A j \in 1..i : gp_signals[j] # None})
                        = IF registered[t] THEN 1 ELSE 0
    BY DEF RegistrantsSignalled
  <2> DEFINE reached == {i \in Slot : gp_signals[i] = t /\ \A j \in 1..i : gp_signals[j] # None}
  <2>1. /\ Compact(gp_signals)
        /\ registered[t] <=> \E i \in Slot : gp_signals[i] = t
    BY DEF IInv, Registry
  <2>2. NSIGNALS \in Nat /\ t # None
    BY GpioAssumption
  <2>3. CASE registered[t]
    <3>1. PICK i \in Slot : gp_signals[i] = t
      BY <2>1, <2>3
    <3>2. \A j \in 1..i : j \in Slot /\ j <= i
      BY <2>2 DEF Slot
    <3>3. \A j \in 1..i : gp_signals[j] # None
      BY <3>1, <3>2, <2>1, <2>2 DEF Compact
    <3>4. reached = {i}
      BY <3>1, <3>3, <2>1, <2>2 DEF Compact
    <3>5. Cardinality({i}) = 1
      BY FS_Singleton
    <3> QED BY <3>4, <3>5, <2>3
  <2>4. CASE ~registered[t]
    <3>1. reached = {}
      BY <2>1, <2>4
    <3>2. Cardinality({}) = 0
      BY FS_EmptySet
    <3> QED BY <3>1, <3>2, <2>4
  <2> QED BY <2>3, <2>4
<1> QED BY <1>1, Invariance, PTL

\* Whatever order the stores of overlapping GPIOC_REGISTER and GPIOC_UNREGISTER
\* calls come in, a pin that nobody uses is off, down to the shared interrupt.
THEOREM GpioUnusedIsQuiet == Spec => []UnusedIsQuiet
<1>1. IInv => UnusedIsQuiet
  <2> SUFFICES ASSUME IInv, register_count = 0, \A t \in Task : todo[t] = <<>>
               PROVE  ~callback /\ ~exti /\ ~imr /\ (irq => other)
    BY DEF UnusedIsQuiet
  <2>1. Leftovers /\ other \in BOOLEAN
    BY DEF IInv, Ioctls
  <2>2. \A t \in Task : \A name : ~Has(todo[t], name)
    <3>1. DOMAIN <<>> = {}
      OBVIOUS
    <3> QED BY <3>1 DEF Has
  <2> QED BY ONLY <2>1, <2>2 DEF Leftovers
<1> QED BY <1>1, Invariance, PTL

\* A poll reports every interrupt since the task's last read, and a task that has
\* read a low pin learns of the edge after it: gpio_read takes the count first.
THEOREM GpioNoMissedInterrupt == Spec => []NoMissedInterrupt
<1>1. IInv => NoMissedInterrupt
  BY DEF IInv, Polling
<1> QED BY <1>1, Invariance, PTL
=============================================================================
