---------------------------- MODULE WQueueProofs ----------------------------
(***************************************************************************)
(* The work queue, for any number of workers, works and tasks, any delays  *)
(* and any size of the clock: no work is left behind, the timer is set for *)
(* the first pending work, lists and works agree, and nobody who waits in  *)
(* work_cancel_sync is forgotten.                                          *)
(***************************************************************************)
EXTENDS WQueue, TaskListProofs

-----------------------------------------------------------------------------
(* The inductive invariant *)

Half == Ticks \div 2

\* The place of a tick in the window of ticks that are told apart: it begins
\* MaxLag ticks before the clock, and all ticks in use are in its first half.
Off(now, q) == (q - now + MaxLag) % Ticks

\* The pending works are in the descending order of this.
Key == [w \in Work |-> -Off(ticks, qtime[w])]

Listed ==
    /\ Distinct(expired) /\ Distinct(pending)
    /\ Members(expired) \cap Members(pending) = {}
    /\ Members(expired) \cup Members(pending) = queued \ Early

\* A worker in a callback that has not queued its work again
Active(k) == wpc[k] \in {"busy", "next", "nextnow"}

WorkerStage(k) ==
    /\ job[k] = Nobody <=> wpc[k] \in {"loop", "wait", "idle"}
    /\ wpc[k] \in {"next", "nextnow"} => job[k] \in Periodic /\ job[k] \in queued
    /\ job[k] \in Periodic /\ wpc[k] = "busy" => job[k] \notin queued
    /\ job[k] \in Periodic /\ wpc[k] \in {"busy", "nextnow"} => Off(ticks, qtime[job[k]]) <= MaxLag + 1

TaskStage(t) ==
    /\ pc[t] = "lock" =>
        /\ call[t].work \in Work
        /\ Off(ticks, call[t].due) < Half
        /\ call[t].delay = 0 => Off(ticks, call[t].due) <= MaxLag + 1
        /\ call[t].work \in Periodic =>
            call[t].work \notin queued /\ \A k \in Worker : job[k] # call[t].work
    /\ pc[t] \in {"run", "sync", "blocked"} => call[t].work = Nobody
    /\ call[t].on # Nobody <=> pc[t] \in {"sync", "blocked"}

Stages ==
    /\ \A k \in Worker : WorkerStage(k)
    /\ \A t \in Task : TaskStage(t)
    /\ \A k, l \in Worker :
        Active(k) /\ Active(l) /\ job[k] = job[l] /\ job[k] \in Periodic => k = l
    /\ \A t, u \in Task : call[t].work = call[u].work /\ call[t].work # Nobody => t = u

Clock ==
    /\ \A w \in queued : Off(ticks, qtime[w]) < Half
    /\ \A w \in Members(expired) : Off(ticks, qtime[w]) <= MaxLag + 1
    /\ Descending(pending, Key)
    /\ timer.on => pending # <<>> /\ timer.at = qtime[pending[1]]

Sleepers ==
    /\ Distinct(idle)
    /\ Members(idle) = {k \in Worker : wpc[k] = "idle"}

Sync ==
    /\ \A k \in Worker :
        /\ wait[k] + wait_count[k] = Cardinality(Syncing(k))
        /\ Asleep(k) # {} => wait[k] = 0
        /\ wait_count[k] > 0 => job[k] # Nobody
    /\ \A t \in Task \ Canceller : call[t].on = Nobody /\ call[t].over
    /\ (\A t, u \in Canceller : t = u) =>
        \A t \in Task : ~call[t].over => call[t].on # Nobody /\ wait[call[t].on] = 0

IInv == TypeOK /\ Listed /\ Stages /\ Clock /\ Sleepers /\ NoStrandedWork /\ Sync

-----------------------------------------------------------------------------
(* The clock *)

\* The remainder of a number that is less than one turn away
Turned(x, r) == r = IF x < 0 THEN x + Ticks ELSE IF x < Ticks THEN x ELSE x - Ticks

LEMMA ModTurn ==
    ASSUME NEW x \in Int, Ticks \in Nat \ {0}, -Ticks <= x, x < 2 * Ticks
    PROVE  Turned(x, x % Ticks)
<1>1. CASE x < 0
  BY <1>1 DEF Turned
<1>2. CASE 0 <= x /\ x < Ticks
  BY <1>2 DEF Turned
<1>3. CASE Ticks <= x
  BY <1>3 DEF Turned
<1> QED BY <1>1, <1>2, <1>3

LEMMA Constants ==
    /\ Ticks \in Nat /\ Half \in Nat /\ MaxLag \in Nat
    /\ MaxLag + 1 < Half /\ 2 * Half <= Ticks
    /\ \A d \in Delay : d \in Nat /\ MaxLag + d + 1 < Half
<1>1. Ticks \in Nat \ {0} /\ MaxLag \in Nat /\ \A d \in Delay \cup {0} : MaxLag + d + 1 < Half
  BY WQueueAssumption DEF Half
<1>2. Half \in Nat /\ 2 * Half <= Ticks
  BY <1>1 DEF Half
<1>3. \A d \in Delay : d \in Nat
  BY WQueueAssumption
<1> QED BY <1>1, <1>2, <1>3

\* The place of a tick, without the remainder
LEMMA OffIs ==
    ASSUME NEW now \in Tick, NEW q \in Tick
    PROVE  /\ Off(now, q) \in Tick
           /\ Off(now, q) = LET x == q - now + MaxLag
                            IN  IF x < 0 THEN x + Ticks
                                ELSE IF x < Ticks THEN x ELSE x - Ticks
<1>1. Ticks \in Nat \ {0} /\ q \in Int /\ now \in Int /\ MaxLag \in Nat /\ MaxLag < Ticks
  BY Constants DEF Tick
<1>2. 0 <= q /\ q < Ticks /\ 0 <= now /\ now < Ticks
  BY <1>1 DEF Tick
<1> DEFINE x == q - now + MaxLag
<1>3. x \in Int /\ -Ticks <= x /\ x < 2 * Ticks
  BY <1>1, <1>2
<1>4. Off(now, q) = x % Ticks
  BY DEF Off
<1> HIDE DEF x
<1>t. Turned(x, x % Ticks)
  BY ONLY <1>1, <1>3, ModTurn
<1>5. x % Ticks = IF x < 0 THEN x + Ticks ELSE IF x < Ticks THEN x ELSE x - Ticks
  BY ONLY <1>t DEF Turned
<1>6. x % Ticks \in 0..(Ticks - 1)
  BY <1>1, <1>3, <1>5
<1> QED BY <1>4, <1>5, <1>6 DEF x, Tick

\* For ticks in the first half of the window the signed difference of
\* clock_compare tells which one comes first, whether the clock wraps or not.
LEMMA CompareIs ==
    ASSUME NEW now \in Tick, NEW a \in Tick, NEW b \in Tick,
           Off(now, a) < Half, Off(now, b) < Half
    PROVE  clock_compare(a, b) <=> Off(now, a) <= Off(now, b)
<1>1. /\ Ticks \in Nat \ {0} /\ Half \in Nat /\ MaxLag \in Nat /\ MaxLag + 1 < Half
      /\ 2 * Half <= Ticks
  BY Constants
<1>2. /\ a \in Int /\ b \in Int /\ now \in Int
      /\ 0 <= a /\ a < Ticks /\ 0 <= b /\ b < Ticks /\ 0 <= now /\ now < Ticks
  BY <1>1 DEF Tick
<1>3. (b - a) % Ticks = IF b - a < 0 THEN b - a + Ticks ELSE b - a
  <2>1. b - a \in Int /\ -Ticks <= b - a /\ b - a < 2 * Ticks /\ b - a < Ticks
    BY ONLY <1>1, <1>2
  <2>2. Turned(b - a, (b - a) % Ticks)
    BY ONLY <1>1, <2>1, ModTurn
  <2> QED BY ONLY <2>1, <2>2 DEF Turned
<1>4. clock_compare(a, b) <=> (b - a) % Ticks < Half
  BY DEF clock_compare, Half
<1>5. Off(now, a) = LET x == a - now + MaxLag
                    IN  IF x < 0 THEN x + Ticks ELSE IF x < Ticks THEN x ELSE x - Ticks
  BY OffIs
<1>6. Off(now, b) = LET x == b - now + MaxLag
                    IN  IF x < 0 THEN x + Ticks ELSE IF x < Ticks THEN x ELSE x - Ticks
  BY OffIs
<1> QED BY ONLY <1>1, <1>2, <1>3, <1>4, <1>5, <1>6, Off(now, a) < Half, Off(now, b) < Half

\* The clock itself is MaxLag ticks into the window.
LEMMA NowIs ==
    ASSUME NEW now \in Tick
    PROVE  Off(now, now) = MaxLag /\ MaxLag < Half
<1>1. Ticks \in Nat /\ Half \in Nat /\ MaxLag \in Nat /\ MaxLag + 1 < Half /\ 2 * Half <= Ticks
  BY Constants
<1>2. now \in Int
  BY <1>1 DEF Tick
<1>3. Off(now, now) = LET x == now - now + MaxLag
                      IN  IF x < 0 THEN x + Ticks ELSE IF x < Ticks THEN x ELSE x - Ticks
  BY OffIs
<1> QED BY ONLY <1>1, <1>2, <1>3

\* Adding a delay to a tick that is not too late in the window
LEMMA AfterIs ==
    ASSUME NEW now \in Tick, NEW q \in Tick, NEW d \in Nat, Off(now, q) + d < Half
    PROVE  After(q, d) \in Tick /\ Off(now, After(q, d)) = Off(now, q) + d
<1>1. /\ Ticks \in Nat \ {0} /\ Half \in Nat /\ MaxLag \in Nat /\ MaxLag + 1 < Half
      /\ 2 * Half <= Ticks
  BY Constants
<1>2. q \in Int /\ now \in Int /\ 0 <= q /\ q < Ticks /\ 0 <= now /\ now < Ticks
  BY <1>1 DEF Tick
<1>3. Off(now, q) \in Tick /\ Off(now, q) \in Nat
  BY <1>1, OffIs DEF Tick
<1>4. d < Ticks
  BY ONLY <1>1, <1>3, d \in Nat, Off(now, q) + d < Half
<1> DEFINE s == After(q, d)
<1>5. s = IF q + d < Ticks THEN q + d ELSE q + d - Ticks
  <2>1. q + d \in Int /\ 0 <= q + d /\ -Ticks <= q + d /\ q + d < 2 * Ticks
    BY ONLY <1>1, <1>2, <1>4, d \in Nat
  <2>2. Turned(q + d, (q + d) % Ticks)
    BY ONLY <1>1, <2>1, ModTurn
  <2> QED BY ONLY <1>1, <1>2, d \in Nat, <2>1, <2>2 DEF Turned, After
<1>6. s \in Tick
  BY <1>1, <1>2, <1>4, <1>5 DEF Tick
<1>7. Off(now, q) = LET x == q - now + MaxLag
                    IN  IF x < 0 THEN x + Ticks ELSE IF x < Ticks THEN x ELSE x - Ticks
  BY OffIs
<1> HIDE DEF s
<1>8. Off(now, s) = LET x == s - now + MaxLag
                    IN  IF x < 0 THEN x + Ticks ELSE IF x < Ticks THEN x ELSE x - Ticks
  BY <1>6, OffIs
<1>9. Off(now, s) = Off(now, q) + d
  BY ONLY <1>1, <1>2, <1>4, <1>5, <1>7, <1>8, d \in Nat, Off(now, q) + d < Half
<1> QED BY <1>6, <1>9 DEF s

\* When the clock goes on every tick comes one nearer to the beginning of the
\* window, and stays at the beginning once it is there.  A tick that the clock
\* has not reached stays as it is.
LEMMA LateIs ==
    ASSUME NEW now \in Tick, NEW q \in Tick, Off(now, q) < Half,
           NEW next, next = After(now, 1)
    PROVE  /\ next \in Tick /\ Late(q, next) \in Tick
           /\ Off(next, Late(q, next)) = IF Off(now, q) = 0 THEN 0 ELSE Off(now, q) - 1
           /\ ~clock_compare(q, next) => Late(q, next) = q
<1>1. /\ Ticks \in Nat \ {0} /\ Half \in Nat /\ MaxLag \in Nat /\ MaxLag + 1 < Half
      /\ 2 * Half <= Ticks
  BY Constants
<1>2. q \in Int /\ now \in Int /\ 0 <= q /\ q < Ticks /\ 0 <= now /\ now < Ticks
  BY <1>1 DEF Tick
<1>3. next = IF now + 1 < Ticks THEN now + 1 ELSE 0
  <2>1. now + 1 \in Int /\ 0 <= now + 1 /\ -Ticks <= now + 1 /\ now + 1 < 2 * Ticks
    BY ONLY <1>1, <1>2
  <2>t. Turned(now + 1, (now + 1) % Ticks)
    BY ONLY <1>1, <2>1, ModTurn
  <2>2. (now + 1) % Ticks = IF now + 1 < Ticks THEN now + 1 ELSE now + 1 - Ticks
    BY ONLY <1>1, <1>2, <2>1, <2>t DEF Turned
  <2> QED BY <1>1, <1>2, <2>2 DEF After
<1>4. next \in Tick /\ next \in Int /\ 0 <= next /\ next < Ticks
  BY <1>1, <1>2, <1>3 DEF Tick
<1>5. (next - q) % Ticks = IF next - q < 0 THEN next - q + Ticks ELSE next - q
  <2>1. next - q \in Int /\ -Ticks <= next - q /\ next - q < 2 * Ticks /\ next - q < Ticks
    BY ONLY <1>1, <1>2, <1>4
  <2>2. Turned(next - q, (next - q) % Ticks)
    BY ONLY <1>1, <2>1, ModTurn
  <2> QED BY ONLY <2>1, <2>2 DEF Turned
<1>6. After(q, 1) = IF q + 1 < Ticks THEN q + 1 ELSE 0
  <2>1. q + 1 \in Int /\ 0 <= q + 1 /\ -Ticks <= q + 1 /\ q + 1 < 2 * Ticks
    BY ONLY <1>1, <1>2
  <2>t. Turned(q + 1, (q + 1) % Ticks)
    BY ONLY <1>1, <2>1, ModTurn
  <2>2. (q + 1) % Ticks = IF q + 1 < Ticks THEN q + 1 ELSE q + 1 - Ticks
    BY ONLY <1>1, <1>2, <2>1, <2>t DEF Turned
  <2> QED BY <1>1, <1>2, <2>2 DEF After
<1> DEFINE s == Late(q, next)
<1>7. s = IF (next - q) % Ticks = MaxLag + 1 THEN After(q, 1) ELSE q
  BY DEF Late
<1>8. s \in Tick /\ s \in Int
  BY <1>1, <1>2, <1>6, <1>7 DEF Tick
<1>9. Off(now, q) = LET x == q - now + MaxLag
                    IN  IF x < 0 THEN x + Ticks ELSE IF x < Ticks THEN x ELSE x - Ticks
  BY OffIs
<1> HIDE DEF s
<1>10. Off(next, s) = LET x == s - next + MaxLag
                      IN  IF x < 0 THEN x + Ticks ELSE IF x < Ticks THEN x ELSE x - Ticks
  BY <1>4, <1>8, OffIs
<1>11. Off(next, s) = IF Off(now, q) = 0 THEN 0 ELSE Off(now, q) - 1
  BY ONLY <1>1, <1>2, <1>3, <1>5, <1>6, <1>7, <1>8, <1>9, <1>10, Off(now, q) < Half
<1>12. clock_compare(q, next) <=> (next - q) % Ticks < Half
  BY DEF clock_compare, Half
<1>13. ~clock_compare(q, next) => s = q
  BY ONLY <1>1, <1>7, <1>12
<1> QED BY <1>4, <1>8, <1>11, <1>13 DEF s

-----------------------------------------------------------------------------
(* The lists *)

\* The search loop of work_insert_pending and of work_dispatch stops at a
\* boundary, whatever the list.
AtBoundary(list, tk, k) ==
    /\ k \in 0..Len(list)
    /\ \A i \in 1..k : clock_compare(qtime[list[i]], tk)
    /\ k < Len(list) => ~clock_compare(qtime[list[k + 1]], tk)

LEMMA PlaceBoundary ==
    ASSUME NEW list \in Seq(Work), NEW tk
    PROVE  AtBoundary(list, tk, Place(list, tk))
<1> DEFINE Stop(k) == /\ \A i \in 1..k : clock_compare(qtime[list[i]], tk)
                      /\ k < Len(list) => ~clock_compare(qtime[list[k + 1]], tk)
           T == {k \in 0..Len(list) : k < Len(list) => ~clock_compare(qtime[list[k + 1]], tk)}
<1>1. T \subseteq Nat /\ T # {}
  <2>1. Len(list) \in T
    OBVIOUS
  <2> QED BY <2>1
<1>2. PICK m \in T : \A n \in T : m <= n
  <2> HIDE DEF T
  <2> QED BY <1>1, LeastNat, Zenon
<1>3. ASSUME NEW i \in 1..m PROVE clock_compare(qtime[list[i]], tk)
  <2>1. i - 1 \in 0..Len(list) /\ i - 1 < Len(list) /\ (i - 1) + 1 = i
    BY <1>2
  <2>2. i - 1 \notin T
    <3>1. ~(m <= i - 1)
      BY <1>2
    <3> HIDE DEF T
    <3> QED BY <3>1, <1>2
  <2>3. clock_compare(qtime[list[(i - 1) + 1]], tk)
    BY <2>1, <2>2
  <2> QED BY <2>1, <2>3
<1>4. \E k \in 0..Len(list) : Stop(k)
  BY <1>2, <1>3
<1>5. Place(list, tk) = CHOOSE k \in 0..Len(list) : Stop(k)
  BY DEF Place
<1> QED
  <2> HIDE DEF Stop
  <2>1. Place(list, tk) \in 0..Len(list) /\ Stop(Place(list, tk))
    BY <1>4, <1>5, Zenon
  <2> QED BY <2>1 DEF Stop, AtBoundary

\* Ticks that are told apart, and an order that is theirs
Keyed(list, P) ==
    /\ P \in [Work -> Int]
    /\ \A x \in Members(list) :
        qtime[x] \in Tick /\ Off(ticks, qtime[x]) < Half /\ P[x] = -Off(ticks, qtime[x])

\* In a list in the order of its ticks the loop stops where the loop of a
\* prioritized list does.
LEMMA PlaceIsAhead ==
    ASSUME NEW list, NEW P, Proper(list, Work, P), Keyed(list, P), ticks \in Tick,
           NEW due \in Tick, Off(ticks, due) < Half
    PROVE  Place(list, due) = Ahead(list, P, -Off(ticks, due))
<1> DEFINE k == Place(list, due)
           p == -Off(ticks, due)
           h == Ahead(list, P, p)
           n == Len(list)
<1>1. list \in Seq(Work) /\ P \in [Work -> Int] /\ Descending(list, P)
  BY DEF Proper, Keyed
<1>2. Off(ticks, due) \in Int
  BY Constants, OffIs DEF Tick
<1>3. p \in Int
  BY <1>2
<1>4. AtBoundary(list, due, k)
  BY <1>1, PlaceBoundary
<1>5. h \in 0..n /\ \A i \in 1..n : i <= h <=> p <= P[list[i]]
  <2> HIDE DEF p
  <2> QED BY <1>1, <1>3, AheadOrder
<1>6. ASSUME NEW i \in 1..n
      PROVE  clock_compare(qtime[list[i]], due) <=> p <= P[list[i]]
  <2>1. list[i] \in Members(list)
    BY <1>1 DEF Members
  <2>2. /\ qtime[list[i]] \in Tick /\ Off(ticks, qtime[list[i]]) < Half
        /\ P[list[i]] = -Off(ticks, qtime[list[i]])
    BY <2>1 DEF Keyed
  <2>3. clock_compare(qtime[list[i]], due) <=> Off(ticks, qtime[list[i]]) <= Off(ticks, due)
    BY <2>2, CompareIs
  <2>4. Off(ticks, qtime[list[i]]) \in Tick
    BY ONLY <2>2, OffIs, ticks \in Tick
  <2>5. Off(ticks, qtime[list[i]]) \in Int
    BY <2>4, Constants DEF Tick
  <2> QED BY ONLY <2>2, <2>3, <2>5, <1>2
<1>7. /\ k \in 0..n /\ n \in Nat
      /\ \A i \in 1..k : clock_compare(qtime[list[i]], due)
      /\ k < n => ~clock_compare(qtime[list[k + 1]], due)
  BY <1>1, <1>4 DEF AtBoundary
<1> HIDE DEF k, h, p, n
<1>8. ~(k < h)
  BY ONLY <1>5, <1>6, <1>7
<1>9. ~(h < k)
  <2> SUFFICES ASSUME h < k PROVE FALSE
    OBVIOUS
  <2>1. h + 1 \in 1..k /\ h + 1 \in 1..n /\ ~(h + 1 <= h)
    BY ONLY <1>5, <1>7, h < k
  <2> QED BY ONLY <2>1, <1>5, <1>6, <1>7
<1>10. k = h
  BY ONLY <1>5, <1>7, <1>8, <1>9
<1> QED BY <1>10 DEF k, h, p

\* What an insertion into the list of pending works returns
Inserted(l, list, P, w, due) ==
    /\ Proper(l, Work, P) /\ Members(l) = Members(list) \cup {w}
    /\ Len(l) = Len(list) + 1 /\ l # <<>>
    /\ l[1] = IF Place(list, due) = 0 THEN w ELSE list[1]
    /\ Place(list, due) # 0 => list # <<>>

LEMMA InsertPending ==
    ASSUME NEW list, NEW P, Proper(list, Work, P), Keyed(list, P), ticks \in Tick,
           NEW w \in Work, w \notin Members(list),
           NEW due \in Tick, Off(ticks, due) < Half, P[w] = -Off(ticks, due),
           NEW l, l = work_insert_pending(list, due, w)
    PROVE  Inserted(l, list, P, w, due)
<1> DEFINE k == Place(list, due)
           n == Len(list)
<1>1. k = Ahead(list, P, P[w])
  BY PlaceIsAhead
<1>2. l = [i \in 1..(n + 1) |->
            IF i <= k THEN list[i] ELSE IF i = k + 1 THEN w ELSE list[i - 1]]
  BY DEF work_insert_pending
<1>3. l = nxsched_add_prioritized(list, P, w)
  BY <1>1, <1>2 DEF nxsched_add_prioritized
<1>4. P \in [Work -> Int]
  BY DEF Keyed
<1>5. /\ Proper(l, Work, P)
      /\ Len(l) = n + 1
      /\ Members(l) = Members(list) \cup {w}
  BY ONLY <1>3, <1>4, AddPrioritized, Proper(list, Work, P), w \in Work, w \notin Members(list)
<1>6. list \in Seq(Work) /\ n \in Nat /\ (n = 0 => list = <<>>)
  BY DEF Proper
<1>7. k \in 0..n
  BY <1>6, PlaceBoundary DEF AtBoundary
<1> HIDE DEF k
<1>8. l[1] = IF k = 0 THEN w ELSE list[1]
  BY <1>2, <1>6, <1>7
<1>9. k # 0 => list # <<>>
  <2>1. list = <<>> => n = 0
    OBVIOUS
  <2> QED BY <2>1, <1>6, <1>7
<1>10. l # <<>>
  <2>1. l = <<>> => Len(l) = 0
    OBVIOUS
  <2> QED BY ONLY <2>1, <1>5, <1>6
<1> QED BY <1>5, <1>8, <1>9, <1>10 DEF Inserted, k

\* What a deletion leaves, whether the work is in the list or not
Deleted(l, list, P, w) ==
    /\ Proper(l, Work, P) /\ Members(l) = Members(list) \ {w}
    /\ Len(l) <= Len(list) /\ (l # <<>> => list # <<>>)
    /\ list # <<>> /\ list[1] # w => l # <<>> /\ l[1] = list[1]

LEMMA ListDelete ==
    ASSUME NEW list, NEW P, Proper(list, Work, P), NEW w, NEW l, l = list_delete(list, w)
    PROVE  Deleted(l, list, P, w)
<1>1. list \in Seq(Work) /\ Len(list) \in Nat
  BY DEF Proper
<1>2. CASE w \notin Members(list)
  <2>1. l = list
    BY <1>2 DEF list_delete
  <2> QED BY <1>1, <1>2, <2>1 DEF Deleted
<1>3. CASE w \in Members(list)
  <2>1. l = dq_rem(list, w)
    BY <1>3 DEF list_delete
  <2>2. /\ Proper(l, Work, P)
        /\ Len(l) = Len(list) - 1
        /\ Members(l) = Members(list) \ {w}
    BY ONLY <1>3, <2>1, DqRem, Proper(list, Work, P)
  <2>3. l \in Seq(Work) /\ Len(l) \in Nat
    BY <2>2 DEF Proper
  <2>4. list # <<>>
    BY <1>3 DEF Members
  <2>5. ASSUME list[1] # w PROVE l # <<>> /\ l[1] = list[1]
    <3>1. 1 \in DOMAIN list
      BY <1>1, <2>4
    <3>2. PICK i \in DOMAIN list : list[i] = w
      BY <1>3 DEF Members
    <3>3. Len(list) >= 2
      BY <1>1, <3>2, <2>5
    <3>4. l[1] = IF w = list[1] THEN list[2] ELSE list[1]
      BY ONLY <1>3, <2>1, <3>3, RemHead, Proper(list, Work, P)
    <3> QED BY <3>3, <3>4, <2>2, <2>3, <2>5
  <2> QED BY <2>2, <2>3, <2>4, <2>5, <1>1 DEF Deleted
<1> QED BY <1>2, <1>3

\* A list without an order is proper under equal priorities.
LEMMA Flat ==
    ASSUME NEW list \in Seq(Work)
    PROVE  Distinct(list) <=> Proper(list, Work, [w \in Work |-> 0])
<1>1. Descending(list, [w \in Work |-> 0])
  <2>1. \A i \in DOMAIN list : list[i] \in Work
    OBVIOUS
  <2> QED BY <2>1 DEF Descending
<1> QED BY <1>1 DEF Proper

\* list_add_tail, and the list of the workers that sleep
AddedTail(S, l, list, w) ==
    /\ l \in Seq(S) /\ Distinct(l) /\ Members(l) = Members(list) \cup {w}
    /\ Len(l) = Len(list) + 1

LEMMA AddTail ==
    ASSUME NEW S, NEW list \in Seq(S), Distinct(list), NEW w \in S, w \notin Members(list),
           NEW l, l = Append(list, w)
    PROVE  AddedTail(S, l, list, w)
<1> DEFINE n == Len(list)
<1>1. /\ l \in Seq(S) /\ Len(l) = n + 1 /\ n \in Nat
      /\ DOMAIN l = 1..(n + 1) /\ DOMAIN list = 1..n
      /\ \A i \in 1..n : l[i] = list[i]
      /\ l[n + 1] = w
  OBVIOUS
<1> HIDE DEF n
<1>2. \A i \in 1..n : list[i] # w
  BY <1>1 DEF Members
<1>3. \A i, j \in 1..n : list[i] = list[j] => i = j
  BY <1>1 DEF Distinct
<1>4. \A i \in 1..(n + 1) : i \in 1..n \/ i = n + 1
  BY ONLY <1>1
<1>5. \A i, j \in 1..(n + 1) : l[i] = l[j] => i = j
  BY ONLY <1>1, <1>2, <1>3, <1>4
<1>6. Distinct(l)
  BY ONLY <1>1, <1>5 DEF Distinct
<1>7. Members(l) = Members(list) \cup {w}
  <2>1. n + 1 \in 1..(n + 1) /\ \A i \in 1..n : i \in 1..(n + 1)
    BY ONLY <1>1
  <2>2. \A x : x \in Members(l) <=> \E i \in 1..(n + 1) : x = l[i]
    BY ONLY <1>1 DEF Members
  <2>3. \A x : x \in Members(list) <=> \E i \in 1..n : x = list[i]
    BY ONLY <1>1 DEF Members
  <2>4. \A x : x \in Members(l) <=> x \in Members(list) \/ x = w
    BY ONLY <1>1, <1>4, <2>1, <2>2, <2>3
  <2> QED BY <2>4
<1> QED BY <1>1, <1>6, <1>7 DEF AddedTail, n

\* Taking the first entry off a list
TookFirst(l, list) ==
    /\ l \in Seq(Work) /\ Distinct(l) /\ Members(l) = Members(list) \ {list[1]}
    /\ Len(l) = Len(list) - 1 /\ list[1] \in Members(list) /\ list[1] \in Work

LEMMA TakeFirst ==
    ASSUME NEW list \in Seq(Work), Distinct(list), list # <<>>, NEW l, l = Tail(list)
    PROVE  TookFirst(l, list)
<1> DEFINE n == Len(list)
           P == [w \in Work |-> 0]
<1>1. n \in Nat /\ 1 \in 1..n /\ DOMAIN list = 1..n
  OBVIOUS
<1>2. l = SubSeq(list, 1 + 1, n)
  OBVIOUS
<1>3. Proper(list, Work, P)
  BY Flat
<1>4. 1 \in 0..n
  BY <1>1
<1> HIDE DEF P
<1>5. Proper(l, Work, P) /\ Len(l) = n - 1
  <2>1. Proper(l, Work, P)
    BY ONLY <1>2, <1>3, <1>4, DropFirst
  <2>2. Len(l) = n - 1
    BY <1>1
  <2> QED BY <2>1, <2>2
<1>6. Members(l) = Without(Members(list), FirstOf(list, 1))
  BY ONLY <1>2, <1>3, <1>4, DropFirstMembers
<1>7. FirstOf(list, 1) = {list[1]}
  BY DEF FirstOf
<1>8. list[1] \in Members(list) /\ list[1] \in Work
  BY <1>1 DEF Members
<1> QED BY <1>5, <1>6, <1>7, <1>8 DEF TookFirst, Without, Proper

\* What work_dispatch leaves: the first n pending works follow the expired ones.
Dispatched(ready, rest, e, p, n, P) ==
    /\ ready \in Seq(Work) /\ Distinct(ready) /\ Len(ready) = Len(e) + n
    /\ Members(ready) = Members(e) \cup FirstOf(p, n)
    /\ Proper(rest, Work, P) /\ Len(rest) = Len(p) - n
    /\ Members(rest) = Without(Members(p), FirstOf(p, n))
    /\ FirstOf(p, n) \subseteq Members(p)
    /\ n = 0 => rest = p

LEMMA Dispatch ==
    ASSUME NEW e \in Seq(Work), Distinct(e), NEW p, NEW P, Proper(p, Work, P),
           Members(e) \cap Members(p) = {}, NEW n \in 0..Len(p),
           NEW ready, ready = e \o SubSeq(p, 1, n),
           NEW rest, rest = SubSeq(p, n + 1, Len(p))
    PROVE  Dispatched(ready, rest, e, p, n, P)
<1> DEFINE m == Len(e)
<1>0. p \in Seq(Work) /\ Len(p) \in Nat /\ n \in Nat /\ n <= Len(p) /\ DOMAIN p = 1..Len(p)
  BY DEF Proper
<1>1. /\ SubSeq(p, 1, n) \in Seq(Work) /\ Len(SubSeq(p, 1, n)) = n
      /\ \A i \in 1..n : SubSeq(p, 1, n)[i] = p[i]
  BY <1>0
<1>2. /\ ready \in Seq(Work) /\ Len(ready) = m + n /\ m \in Nat
      /\ DOMAIN ready = 1..(m + n) /\ DOMAIN e = 1..m
      /\ \A i \in 1..m : ready[i] = e[i]
      /\ \A i \in 1..n : ready[m + i] = SubSeq(p, 1, n)[i]
  BY <1>0, <1>1
<1>3. \A i \in 1..n : ready[m + i] = p[i] /\ i \in 1..Len(p)
  BY <1>0, <1>1, <1>2
<1> HIDE DEF m
<1>4. \A i \in 1..(m + n) : i \in 1..m \/ (i - m \in 1..n /\ i = m + (i - m))
  BY ONLY <1>0, <1>2
<1>5. \A i, j \in 1..m : e[i] = e[j] => i = j
  BY <1>2 DEF Distinct
<1>6. \A i, j \in 1..Len(p) : p[i] = p[j] => i = j
  BY <1>0 DEF Proper, Distinct
<1>7. \A i \in 1..m, j \in 1..Len(p) : e[i] # p[j]
  BY <1>0, <1>2 DEF Members
<1>8. ASSUME NEW i \in 1..(m + n), NEW j \in 1..(m + n), ready[i] = ready[j]
      PROVE  i = j
  <2>1. CASE i \in 1..m /\ j \in 1..m
    BY ONLY <2>1, <1>8, <1>2, <1>5
  <2>2. CASE i \in 1..m /\ j - m \in 1..n /\ j = m + (j - m)
    <3>1. ready[i] = e[i] /\ ready[m + (j - m)] = p[j - m] /\ j - m \in 1..Len(p)
      BY ONLY <2>2, <1>2, <1>3
    <3> QED BY ONLY <2>2, <3>1, <1>8, <1>7
  <2>3. CASE i - m \in 1..n /\ i = m + (i - m) /\ j \in 1..m
    <3>1. ready[j] = e[j] /\ ready[m + (i - m)] = p[i - m] /\ i - m \in 1..Len(p)
      BY ONLY <2>3, <1>2, <1>3
    <3> QED BY ONLY <2>3, <3>1, <1>8, <1>7
  <2>4. CASE i - m \in 1..n /\ i = m + (i - m) /\ j - m \in 1..n /\ j = m + (j - m)
    <3>1. i - m = j - m
      BY ONLY <2>4, <1>8, <1>3, <1>6
    <3> QED BY ONLY <3>1, <2>4
  <2> QED BY <2>1, <2>2, <2>3, <2>4, <1>4
<1>9. Distinct(ready)
  BY ONLY <1>2, <1>8 DEF Distinct
<1>10. Members(ready) = Members(e) \cup FirstOf(p, n)
  <2>1. (\A i \in 1..m : i \in 1..(m + n)) /\ \A i \in 1..n : m + i \in 1..(m + n)
    BY ONLY <1>0, <1>2
  <2>2. \A x : x \in Members(ready) <=> \E i \in 1..(m + n) : x = ready[i]
    BY ONLY <1>2 DEF Members
  <2>3. \A x : x \in Members(e) <=> \E i \in 1..m : x = e[i]
    BY ONLY <1>2 DEF Members
  <2>4. \A x : x \in FirstOf(p, n) <=> \E i \in 1..n : x = p[i]
    BY DEF FirstOf
  <2>5. ASSUME NEW x \in Members(ready) PROVE x \in Members(e) \/ x \in FirstOf(p, n)
    <3>1. PICK i \in 1..(m + n) : x = ready[i]
      BY <2>2, <2>5
    <3>2. CASE i \in 1..m
      BY ONLY <2>3, <3>1, <3>2, <1>2
    <3>3. CASE i - m \in 1..n /\ i = m + (i - m)
      <4>1. x = p[i - m]
        BY ONLY <3>1, <3>3, <1>3
      <4> QED BY ONLY <2>4, <3>3, <4>1
    <3> QED BY <3>2, <3>3, <1>4
  <2>6. ASSUME NEW x \in Members(e) PROVE x \in Members(ready)
    BY ONLY <2>2, <2>3, <2>6, <2>1, <1>2
  <2>7. ASSUME NEW x \in FirstOf(p, n) PROVE x \in Members(ready)
    BY ONLY <2>2, <2>4, <2>7, <2>1, <1>3
  <2> QED BY <2>5, <2>6, <2>7
<1>11. Proper(rest, Work, P) /\ Len(rest) = Len(p) - n
  <2>1. Proper(rest, Work, P)
    BY ONLY DropFirst, Proper(p, Work, P), n \in 0..Len(p), rest = SubSeq(p, n + 1, Len(p))
  <2>2. Len(rest) = Len(p) - n
    BY ONLY DropFirst, Proper(p, Work, P), n \in 0..Len(p), rest = SubSeq(p, n + 1, Len(p))
  <2> QED BY <2>1, <2>2
<1>12. Members(rest) = Without(Members(p), FirstOf(p, n))
  BY ONLY DropFirstMembers, Proper(p, Work, P), n \in 0..Len(p), rest = SubSeq(p, n + 1, Len(p))
<1>13. FirstOf(p, n) \subseteq Members(p)
  <2>1. \A i \in 1..n : i \in DOMAIN p
    BY ONLY <1>0
  <2> QED BY ONLY <2>1 DEF FirstOf, Members
<1>14. n = 0 => rest = p
  BY <1>0
<1> QED BY <1>2, <1>9, <1>10, <1>11, <1>12, <1>13, <1>14 DEF Dispatched, m

-----------------------------------------------------------------------------
(* Workers and posts *)

Where(f, S, l) == {s \in S : f[s] = l}

\* What comes to the lists: the posts that are left over, and the workers and
\* tasks that will look at them or post.  What waits for it.
Supply(s, f, p) ==
    s + Cardinality(Where(f, Worker, "loop")) + Cardinality(Where(p, Task, "post"))
      + Cardinality(Where(f, Worker, "nextpost"))
Demand == Len(expired) + (IF pending # <<>> /\ ~timer.on THEN 1 ELSE 0)

LEMMA StrandedIs == NoStrandedWork <=> Demand <= Supply(sem, wpc, pc)
BY DEF NoStrandedWork, Demand, Supply, Where

LEMMA StrandedIsNext == NoStrandedWork' <=> Demand' <= Supply(sem', wpc', pc')
BY DEF NoStrandedWork, Demand, Supply, Where

LEMMA WhereNat ==
    ASSUME NEW S, IsFiniteSet(S), NEW f, NEW l
    PROVE  IsFiniteSet(Where(f, S, l)) /\ Cardinality(Where(f, S, l)) \in Nat
<1>1. Where(f, S, l) \in SUBSET S
  BY DEF Where
<1> QED BY <1>1, FS_Subset, FS_CardinalityType

LEMMA SupplyNat ==
    ASSUME NEW s \in Nat, NEW f, NEW p
    PROVE  Supply(s, f, p) \in Nat /\ s <= Supply(s, f, p)
<1>1. /\ Cardinality(Where(f, Worker, "loop")) \in Nat
      /\ Cardinality(Where(f, Worker, "nextpost")) \in Nat
      /\ Cardinality(Where(p, Task, "post")) \in Nat
  BY WQueueAssumption, WhereNat
<1> QED BY ONLY <1>1, s \in Nat DEF Supply

\* How many are at a place when one of them has moved
MovedOne(S, f, g, k, l) ==
    Cardinality(Where(g, S, l)) = Cardinality(Where(f, S, l))
                                    + (IF g[k] = l THEN 1 ELSE 0) - (IF f[k] = l THEN 1 ELSE 0)

LEMMA MoveOne ==
    ASSUME NEW S, IsFiniteSet(S), NEW k \in S, NEW f, NEW g, NEW l,
           \A s \in S : s # k => g[s] = f[s]
    PROVE  MovedOne(S, f, g, k, l)
<1> DEFINE A == Where(f, S, l)
           B == Where(g, S, l)
           C == A \ {k}
<1>1. IsFiniteSet(A) /\ IsFiniteSet(B) /\ Cardinality(A) \in Nat /\ Cardinality(B) \in Nat
  BY WhereNat
<1>2. Cardinality(C) = IF k \in A THEN Cardinality(A) - 1 ELSE Cardinality(A)
  <2> HIDE DEF A
  <2> QED BY <1>1, FS_RemoveElement
<1>3. Cardinality(B \ {k}) = IF k \in B THEN Cardinality(B) - 1 ELSE Cardinality(B)
  <2> HIDE DEF B
  <2> QED BY <1>1, FS_RemoveElement
<1>4. C = B \ {k}
  BY DEF Where
<1>5. (k \in A <=> f[k] = l) /\ (k \in B <=> g[k] = l)
  BY DEF Where
<1> HIDE DEF A, B, C
<1>6. Cardinality(B) = Cardinality(A) + (IF k \in B THEN 1 ELSE 0) - (IF k \in A THEN 1 ELSE 0)
  BY ONLY <1>1, <1>2, <1>3, <1>4
<1> QED BY <1>5, <1>6 DEF MovedOne, A, B

\* A worker moves: in the loop, or about to post, it counts.
Counts(l) == IF l \in {"loop", "nextpost"} THEN 1 ELSE 0

LEMMA SupplyWorker ==
    ASSUME NEW s \in Nat, NEW f, NEW g, NEW p, NEW k \in Worker,
           \A v \in Worker : v # k => g[v] = f[v]
    PROVE  Supply(s, g, p) = Supply(s, f, p) + Counts(g[k]) - Counts(f[k])
<1>1. MovedOne(Worker, f, g, k, "loop") /\ MovedOne(Worker, f, g, k, "nextpost")
  BY WQueueAssumption, MoveOne
<1>2. /\ Cardinality(Where(f, Worker, "loop")) \in Nat
      /\ Cardinality(Where(f, Worker, "nextpost")) \in Nat
      /\ Cardinality(Where(p, Task, "post")) \in Nat
  BY WQueueAssumption, WhereNat
<1> QED BY ONLY <1>1, <1>2, s \in Nat DEF MovedOne, Supply, Counts

LEMMA SupplyTask ==
    ASSUME NEW s \in Nat, NEW f, NEW p, NEW q, NEW t \in Task,
           \A u \in Task : u # t => q[u] = p[u]
    PROVE  Supply(s, f, q) = Supply(s, f, p) + (IF q[t] = "post" THEN 1 ELSE 0)
                                             - (IF p[t] = "post" THEN 1 ELSE 0)
<1>1. MovedOne(Task, p, q, t, "post")
  BY WQueueAssumption, MoveOne
<1>2. /\ Cardinality(Where(f, Worker, "loop")) \in Nat
      /\ Cardinality(Where(f, Worker, "nextpost")) \in Nat
      /\ Cardinality(Where(p, Task, "post")) \in Nat
  BY WQueueAssumption, WhereNat
<1> QED BY ONLY <1>1, <1>2, s \in Nat DEF MovedOne, Supply

\* What n posts do: they wake workers as long as some sleep, the others count.
Posted(n, at) ==
    /\ wpc' \in [Worker -> WorkerLabel] /\ idle' \in Seq(Worker) /\ sem' \in 0..MaxSem
    /\ Sleepers'
    /\ \A v \in Worker : wpc'[v] = at[v] \/ (at[v] = "idle" /\ wpc'[v] = "loop")
    /\ \A p : \/ sem' = MaxSem
              \/ Supply(sem', wpc', p) = Supply(sem, at, p) + n

LEMMA PostWakes ==
    ASSUME idle \in Seq(Worker), Distinct(idle), sem \in 0..MaxSem,
           NEW at \in [Worker -> WorkerLabel], Members(idle) = Where(at, Worker, "idle"),
           NEW n \in Nat, Post(n, at)
    PROVE  Posted(n, at)
<1> DEFINE w == Wakes(n)
           A == Where(at, Worker, "loop")
           F == FirstOf(idle, w)
           P == [v \in Worker |-> 0]
<1>1. w \in Nat /\ w \in 0..Len(idle) /\ w <= n
  BY DEF Wakes
<1>2. /\ idle' = SubSeq(idle, w + 1, Len(idle))
      /\ sem' = Count(sem + n - w)
      /\ wpc' = [v \in Worker |-> IF v \in F THEN "loop" ELSE at[v]]
  BY DEF Post, Woken, FirstOf
<1>3. sem' \in 0..MaxSem /\ (sem' = MaxSem \/ sem' = sem + n - w) /\ MaxSem \in Nat
  BY <1>1, <1>2, WQueueAssumption DEF Count
<1>p. Proper(idle, Worker, P)
  <2>1. \A i \in DOMAIN idle : idle[i] \in Worker
    OBVIOUS
  <2>2. Descending(idle, P)
    BY <2>1 DEF Descending
  <2> QED BY <2>2 DEF Proper
<1> HIDE DEF w, P
<1>4. Proper(idle', Worker, P)
  BY ONLY <1>1, <1>2, <1>p, DropFirst
<1>5. Members(idle') = Without(Members(idle), F)
  BY ONLY <1>1, <1>2, <1>p, DropFirstMembers
<1>6. F \subseteq Members(idle)
  <2>1. \A i \in 1..w : i \in DOMAIN idle
    BY <1>1
  <2> QED BY ONLY <2>1 DEF FirstOf, Members
<1>7. \A v \in F : v \in Worker /\ at[v] = "idle"
  BY <1>6 DEF Where
<1>8. Cardinality(F) = w
  BY ONLY <1>1, CardFirstOf, idle \in Seq(Worker), Distinct(idle)
<1> HIDE DEF F
<1>9. \A v \in Worker : wpc'[v] = IF v \in F THEN "loop" ELSE at[v]
  BY <1>2
<1>10. wpc' \in [Worker -> WorkerLabel]
  BY <1>2 DEF WorkerLabel
<1>11. Sleepers'
  <2>1. Distinct(idle')
    BY <1>4 DEF Proper
  <2>2. Members(idle') = {k \in Worker : wpc'[k] = "idle"}
    BY <1>5, <1>7, <1>9 DEF Where, Without
  <2> QED BY <2>1, <2>2 DEF Sleepers
<1>12. Where(wpc', Worker, "nextpost") = Where(at, Worker, "nextpost")
  BY <1>7, <1>9 DEF Where
<1>13. Where(wpc', Worker, "loop") = A \cup F
  BY <1>7, <1>9 DEF Where
<1>14. A \cap F = {}
  BY <1>7 DEF Where
<1>15. IsFiniteSet(A) /\ Cardinality(A) \in Nat
  BY WQueueAssumption, WhereNat
<1>16. IsFiniteSet(F)
  <2>1. F \in SUBSET Worker /\ IsFiniteSet(Worker)
    BY <1>7, WQueueAssumption
  <2> QED BY <2>1, FS_Subset
<1> HIDE DEF A
<1>17. Cardinality(A \cup F) = Cardinality(A) + w
  <2>1. Cardinality(A \cup F) = Cardinality(A) + Cardinality(F) - Cardinality(A \cap F)
    BY <1>15, <1>16, FS_Union
  <2>2. Cardinality(A \cap F) = 0
    BY <1>14, FS_EmptySet
  <2> QED BY ONLY <2>1, <2>2, <1>1, <1>8, <1>15
<1>18. ASSUME NEW p
       PROVE  sem' = MaxSem \/ Supply(sem', wpc', p) = Supply(sem, at, p) + n
  <2>1. /\ Cardinality(Where(wpc', Worker, "loop")) = Cardinality(Where(at, Worker, "loop")) + w
        /\ Cardinality(Where(wpc', Worker, "nextpost")) = Cardinality(Where(at, Worker, "nextpost"))
    BY <1>12, <1>13, <1>17 DEF A
  <2>2. /\ Cardinality(Where(at, Worker, "loop")) \in Nat
        /\ Cardinality(Where(at, Worker, "nextpost")) \in Nat
        /\ Cardinality(Where(p, Task, "post")) \in Nat
    BY WQueueAssumption, WhereNat
  <2>3. sem \in Nat
    BY <1>3
  <2>4. CASE sem' = sem + n - w
    BY ONLY <2>1, <2>2, <2>3, <2>4, <1>1, n \in Nat DEF Supply
  <2> QED BY <2>4, <1>3
<1>19. \A v \in Worker : wpc'[v] = at[v] \/ (at[v] = "idle" /\ wpc'[v] = "loop")
  BY <1>7, <1>9
<1>20. idle' \in Seq(Worker)
  BY <1>4 DEF Proper
<1> QED BY <1>3, <1>10, <1>11, <1>18, <1>19, <1>20 DEF Posted

\* There is room for the posts that the lists need.
LEMMA ListsBound ==
    ASSUME NEW e \in Seq(Work), NEW p \in Seq(Work), Distinct(e), Distinct(p),
           Members(e) \cap Members(p) = {}
    PROVE  Len(e) + Len(p) <= MaxSem
<1> DEFINE A == Members(e)
           B == Members(p)
           m == Len(e)
           n == Len(p)
<1>1. m \in Nat /\ n \in Nat
  OBVIOUS
<1>2. Cardinality(A) = m
  <2>1. A = FirstOf(e, m)
    BY DEF FirstOf, Members
  <2>2. m \in 0..Len(e)
    BY <1>1
  <2>3. Cardinality(FirstOf(e, m)) = m
    BY ONLY <2>2, CardFirstOf, e \in Seq(Work), Distinct(e)
  <2> QED BY <2>1, <2>3
<1>3. Cardinality(B) = n
  <2>1. B = FirstOf(p, n)
    BY DEF FirstOf, Members
  <2>2. n \in 0..Len(p)
    BY <1>1
  <2>3. Cardinality(FirstOf(p, n)) = n
    BY ONLY <2>2, CardFirstOf, p \in Seq(Work), Distinct(p)
  <2> QED BY <2>1, <2>3
<1>4. A \in SUBSET Work /\ B \in SUBSET Work /\ A \cup B \in SUBSET Work
  BY DEF Members
<1>5. A \cap B = {}
  OBVIOUS
<1>6. IsFiniteSet(Work) /\ MaxSem \in Nat /\ Cardinality(Work) <= MaxSem
  <2>1. IsFiniteSet(Work) /\ MaxSem \in Nat /\ MaxSem >= Cardinality(Work)
    BY WQueueAssumption
  <2>2. Cardinality(Work) \in Nat
    BY <2>1, FS_CardinalityType
  <2> QED BY <2>1, <2>2
<1> HIDE DEF A, B, m, n
<1>7. IsFiniteSet(A) /\ IsFiniteSet(B) /\ Cardinality(A \cup B) <= Cardinality(Work)
  BY <1>4, <1>6, FS_Subset
<1>8. Cardinality(A \cup B) = m + n
  <2>1. Cardinality(A \cup B) = Cardinality(A) + Cardinality(B) - Cardinality(A \cap B)
    BY <1>7, FS_Union
  <2>2. Cardinality(A \cap B) = 0
    BY <1>5, FS_EmptySet
  <2> QED BY ONLY <2>1, <2>2, <1>1, <1>2, <1>3
<1>9. Cardinality(Work) \in Nat
  BY <1>6, FS_CardinalityType
<1> QED BY <1>1, <1>6, <1>7, <1>8, <1>9 DEF m, n

LEMMA DemandBound ==
    ASSUME expired \in Seq(Work), pending \in Seq(Work), Distinct(expired), Distinct(pending),
           Members(expired) \cap Members(pending) = {}
    PROVE  Demand \in Nat /\ Demand <= MaxSem
<1>1. Len(expired) + Len(pending) <= MaxSem /\ MaxSem \in Nat
  BY ListsBound, WQueueAssumption
<1>2. Len(expired) \in Nat /\ Len(pending) \in Nat /\ (pending # <<>> => Len(pending) >= 1)
  OBVIOUS
<1> QED BY <1>1, <1>2 DEF Demand

LEMMA DemandBoundNext ==
    ASSUME expired' \in Seq(Work), pending' \in Seq(Work), Distinct(expired'),
           Distinct(pending'), Members(expired') \cap Members(pending') = {}
    PROVE  Demand' \in Nat /\ Demand' <= MaxSem
<1>1. Len(expired') + Len(pending') <= MaxSem /\ MaxSem \in Nat
  BY ListsBound, WQueueAssumption
<1>2. /\ Len(expired') \in Nat /\ Len(pending') \in Nat
      /\ pending' # <<>> => Len(pending') >= 1
  OBVIOUS
<1> QED BY <1>1, <1>2 DEF Demand

\* After a post either the lists have what they need or sem is at its bound.
LEMMA StrandedPost ==
    ASSUME TypeOK', Listed', NEW n \in Nat, NEW at, Posted(n, at),
           Demand' <= Supply(sem, at, pc') + n
    PROVE  NoStrandedWork'
<1>1. Demand' \in Nat /\ Demand' <= MaxSem
  BY DemandBoundNext DEF TypeOK, Listed
<1>2. sem' \in Nat
  BY WQueueAssumption DEF TypeOK
<1>3. sem' = MaxSem \/ Supply(sem', wpc', pc') = Supply(sem, at, pc') + n
  BY DEF Posted
<1>4. Supply(sem', wpc', pc') \in Nat /\ sem' <= Supply(sem', wpc', pc')
  BY ONLY <1>2, SupplyNat
<1>5. CASE sem' = MaxSem
  BY ONLY <1>1, <1>2, <1>4, <1>5, StrandedIsNext
<1>6. CASE Supply(sem', wpc', pc') = Supply(sem, at, pc') + n
  BY ONLY <1>6, StrandedIsNext, Demand' <= Supply(sem, at, pc') + n
<1> QED BY <1>3, <1>5, <1>6

-----------------------------------------------------------------------------
(* What a step leaves alone *)

LEMMA OffInt ==
    ASSUME NEW now \in Tick, NEW q \in Tick
    PROVE  Off(now, q) \in Nat /\ Off(now, q) \in Int
<1>1. Off(now, q) \in Tick
  BY OffIs
<1> QED BY <1>1, Constants DEF Tick

LEMMA KeyInt ==
    ASSUME ticks \in Tick, qtime \in [Work -> Tick]
    PROVE  Key \in [Work -> Int]
<1>1. ASSUME NEW w \in Work PROVE -Off(ticks, qtime[w]) \in Int
  <2>1. Off(ticks, qtime[w]) \in Int
    BY OffInt
  <2> QED BY <2>1
<1> QED BY <1>1 DEF Key

KeyNext == [w \in Work |-> -Off(ticks', qtime'[w])]

LEMMA KeyNextInt ==
    ASSUME ticks' \in Tick, qtime' \in [Work -> Tick]
    PROVE  KeyNext \in [Work -> Int]
<1>1. ASSUME NEW w \in Work PROVE -Off(ticks', qtime'[w]) \in Int
  <2>1. Off(ticks', qtime'[w]) \in Int
    BY OffInt
  <2> QED BY <2>1
<1> QED BY <1>1 DEF KeyNext

\* What the invariant says about the lists
ListsOK ==
    /\ Proper(pending, Work, Key) /\ Keyed(pending, Key) /\ Key \in [Work -> Int]
    /\ expired \in Seq(Work) /\ Distinct(expired)
    /\ Members(expired) \cap Members(pending) = {}
    /\ Members(pending) \subseteq queued /\ Members(expired) \subseteq queued
    /\ queued \subseteq Work

LEMMA ListsAre == ASSUME TypeOK, Listed, Clock PROVE ListsOK
<1>1. Key \in [Work -> Int]
  BY KeyInt DEF TypeOK
<1>2. Proper(pending, Work, Key)
  BY DEF TypeOK, Listed, Clock, Proper
<1>3. Members(pending) \subseteq queued /\ Members(expired) \subseteq queued /\ queued \subseteq Work
  BY DEF TypeOK, Listed
<1>4. \A x \in Members(pending) :
        qtime[x] \in Tick /\ Off(ticks, qtime[x]) < Half /\ Key[x] = -Off(ticks, qtime[x])
  BY <1>3 DEF TypeOK, Clock, Key
<1> QED BY <1>1, <1>2, <1>3, <1>4 DEF ListsOK, Keyed, TypeOK, Listed

LEMMA ListedKept ==
    ASSUME Listed, UNCHANGED <<expired, pending>>, queued' \ Early' = queued \ Early
    PROVE  Listed'
BY DEF Listed

LEMMA EarlyKept ==
    ASSUME \A k \in Worker : /\ wpc'[k] \in {"next", "nextnow"} <=> wpc[k] \in {"next", "nextnow"}
                             /\ wpc[k] \in {"next", "nextnow"} => job'[k] = job[k]
    PROVE  Early' = Early
BY DEF Early

LEMMA EarlyPeriodic ==
    ASSUME Stages
    PROVE  Early \subseteq Periodic /\ Early \subseteq queued
BY DEF Stages, WorkerStage, Early

LEMMA ClockKept ==
    ASSUME ListsOK, Clock, UNCHANGED <<ticks, expired, pending, timer>>, queued \subseteq queued',
           queued' \subseteq Work,
           \A x \in queued : qtime'[x] = qtime[x],
           \A x \in queued' \ queued : Off(ticks, qtime'[x]) < Half
    PROVE  Clock'
<1>1. /\ \A x \in Members(pending) : qtime'[x] = qtime[x] /\ x \in Work
      /\ \A x \in Members(expired) : qtime'[x] = qtime[x]
  BY DEF ListsOK
<1>2. \A w \in queued' : Off(ticks', qtime'[w]) < Half
  BY DEF Clock
<1>3. \A w \in Members(expired') : Off(ticks', qtime'[w]) <= MaxLag + 1
  BY <1>1 DEF Clock
<1>4. \A x \in Members(pending) : x \in Work /\ KeyNext[x] = Key[x]
  BY <1>1 DEF KeyNext, Key
<1>5. Proper(pending, Work, KeyNext)
  <2>1. Proper(pending, Work, Key)
    BY DEF ListsOK
  <2> QED BY ONLY <1>4, <2>1, ProperOver
<1>6. Descending(pending', Key')
  BY <1>5 DEF Proper, KeyNext, Key
<1>7. timer'.on => pending' # <<>> /\ timer'.at = qtime'[pending'[1]]
  <2> SUFFICES ASSUME timer.on PROVE pending # <<>> /\ timer.at = qtime'[pending[1]]
    OBVIOUS
  <2>1. pending # <<>> /\ timer.at = qtime[pending[1]]
    BY DEF Clock
  <2>2. pending[1] \in Members(pending)
    BY <2>1 DEF ListsOK, Proper, Members
  <2> QED BY <2>1, <2>2, <1>1
<1> QED BY <1>2, <1>3, <1>6, <1>7 DEF Clock

LEMMA SleepersKept ==
    ASSUME Sleepers, idle' = idle,
           \A v \in Worker : wpc'[v] = "idle" <=> wpc[v] = "idle"
    PROVE  Sleepers'
BY DEF Sleepers

LEMMA WorkerKept ==
    ASSUME NEW k \in Worker, WorkerStage(k), job'[k] = job[k], ticks' = ticks,
           wpc'[k] = wpc[k] \/ (wpc[k] = "idle" /\ wpc'[k] = "loop"),
           Active(k) /\ job[k] \in Periodic =>
                (job[k] \in queued' <=> job[k] \in queued) /\ qtime'[job[k]] = qtime[job[k]]
    PROVE  WorkerStage(k)'
BY DEF WorkerStage, Active

LEMMA TaskKept ==
    ASSUME NEW t \in Task, TaskStage(t), pc'[t] = pc[t], call'[t] = call[t], ticks' = ticks,
           pc[t] = "lock" /\ call[t].work \in Periodic =>
                call[t].work \notin queued' /\ \A k \in Worker : job'[k] # call[t].work
    PROVE  TaskStage(t)'
BY DEF TaskStage

\* Two active workers of one work, two callers of one work
OneRuns ==
    \A k, l \in Worker :
        Active(k) /\ Active(l) /\ job[k] = job[l] /\ job[k] \in Periodic => k = l
OneCalls == \A t, u \in Task : call[t].work = call[u].work /\ call[t].work # Nobody => t = u

LEMMA StagesAre ==
    /\ Stages <=> /\ \A k \in Worker : WorkerStage(k)
                  /\ \A t \in Task : TaskStage(t)
                  /\ OneRuns /\ OneCalls
    /\ Stages' <=> /\ \A k \in Worker : WorkerStage(k)'
                   /\ \A t \in Task : TaskStage(t)'
                   /\ OneRuns' /\ OneCalls'
BY DEF Stages, OneRuns, OneCalls

LEMMA OneRunsKept ==
    ASSUME OneRuns,
           \A k \in Worker : wpc'[k] \in {"busy", "next", "nextnow"} => Active(k) /\ job'[k] = job[k]
    PROVE  OneRuns'
BY DEF OneRuns, Active

LEMMA OneCallsKept ==
    ASSUME OneCalls, \A t \in Task : call'[t].work = call[t].work \/ call'[t].work = Nobody
    PROVE  OneCalls'
BY DEF OneCalls

LEMMA SyncKept ==
    ASSUME Sync, UNCHANGED <<wait, wait_count>>,
           \A t \in Task : /\ call'[t].on = call[t].on
                           /\ call[t].over => call'[t].over
                           /\ pc'[t] = "blocked" <=> pc[t] = "blocked",
           \A k \in Worker : job[k] # Nobody => job'[k] # Nobody
    PROVE  Sync'
<1>1. ASSUME NEW k \in Worker
      PROVE  Syncing(k)' = Syncing(k) /\ Asleep(k)' = Asleep(k)
  BY DEF Syncing, Asleep
<1>2. ASSUME NEW k \in Worker
      PROVE  /\ wait'[k] + wait_count'[k] = Cardinality(Syncing(k)')
             /\ Asleep(k)' # {} => wait'[k] = 0
             /\ wait_count'[k] > 0 => job'[k] # Nobody
  BY <1>1 DEF Sync
<1>3. \A t \in Task \ Canceller : call'[t].on = Nobody /\ call'[t].over
  BY DEF Sync
<1>4. ASSUME \A t, u \in Canceller : t = u, NEW t \in Task, ~call'[t].over
      PROVE  call'[t].on # Nobody /\ wait'[call'[t].on] = 0
  BY <1>4 DEF Sync
<1> QED BY <1>2, <1>3, <1>4 DEF Sync

-----------------------------------------------------------------------------
(* The calls of the tasks *)

LEMMA WorkQueueStep ==
    ASSUME IInv, NEW t \in Task, NEW w \in Work, NEW d \in Delay, work_queue(t, w, d)
    PROVE  IInv'
<1> DEFINE due == After(ticks, d + 1)
<1>1. TypeOK /\ Listed /\ Stages /\ Clock /\ Sleepers /\ NoStrandedWork /\ Sync
  BY DEF IInv
<1>2. /\ UNCHANGED <<ticks, expired, pending, qtime, queued, timer, sem, idle>>
      /\ UNCHANGED <<wpc, job, wait, wait_count>>
      /\ pc[t] = "run" /\ pc' = [pc EXCEPT ![t] = "lock"]
  BY DEF work_queue, queue, workers
<1>3. /\ w \in Requeue \/ w \notin queued
      /\ w \in Periodic => \A k \in Worker : job[k] # w
      /\ \A u \in Task : call[u].work # w
  BY DEF work_queue
<1>4. due \in Tick /\ Off(ticks, due) = MaxLag + (d + 1)
  <2>1. ticks \in Tick /\ d \in Nat /\ d + 1 \in Nat /\ MaxLag + (d + 1) < Half
    BY <1>1, Constants DEF TypeOK
  <2>2. Off(ticks, ticks) = MaxLag
    BY ONLY <2>1, NowIs
  <2> QED BY ONLY <2>1, <2>2, AfterIs
<1>5. /\ Off(ticks, due) < Half
      /\ d = 0 => Off(ticks, due) <= MaxLag + 1
      /\ w \in Periodic => w \notin queued
  BY <1>3, <1>4, Constants, WQueueAssumption
<1> HIDE DEF due
<1>6. /\ call' = [call EXCEPT ![t] = [work |-> w, delay |-> d, due |-> due,
                                      on |-> Nobody, over |-> TRUE]]
      /\ call \in [Task -> Call] /\ pc \in [Task -> Label]
  BY <1>1 DEF work_queue, due, TypeOK
<1>7. /\ \A u \in Task : u # t => call'[u] = call[u] /\ pc'[u] = pc[u]
      /\ call'[t] = [work |-> w, delay |-> d, due |-> due, on |-> Nobody, over |-> TRUE]
      /\ pc'[t] = "lock"
  BY <1>2, <1>6
<1>8. TypeOK'
  <2>1. call' \in [Task -> Call]
    BY <1>4, <1>6 DEF Call
  <2>2. pc' \in [Task -> Label]
    BY <1>2, <1>6 DEF Label
  <2> QED BY <1>1, <1>2, <2>1, <2>2 DEF TypeOK
<1>9. Listed'
  <2>1. Early' = Early
    BY <1>2, EarlyKept
  <2> QED BY <1>1, <1>2, <2>1, ListedKept
<1>10. Stages'
  <2>1. ASSUME NEW k \in Worker PROVE WorkerStage(k)'
    <3>1. WorkerStage(k)
      BY <1>1, StagesAre
    <3> QED BY ONLY <3>1, <1>2, WorkerKept, k \in Worker
  <2>2. ASSUME NEW u \in Task, u # t PROVE TaskStage(u)'
    <3>1. TaskStage(u)
      BY <1>1, StagesAre
    <3>2. pc[u] = "lock" /\ call[u].work \in Periodic =>
                call[u].work \notin queued' /\ \A k \in Worker : job'[k] # call[u].work
      BY <3>1, <1>2 DEF TaskStage
    <3> QED BY ONLY <3>1, <3>2, <1>2, <1>7, <2>2, TaskKept
  <2>3. TaskStage(t)'
    BY <1>2, <1>3, <1>5, <1>7 DEF TaskStage
  <2>4. OneRuns'
    BY <1>1, <1>2, StagesAre DEF OneRuns, Active
  <2>5. OneCalls'
    BY <1>1, <1>3, <1>7, StagesAre DEF OneCalls
  <2> QED BY <2>1, <2>2, <2>3, <2>4, <2>5, StagesAre
<1>11. Clock'
  <2>1. ListsOK /\ queued' \subseteq Work
    BY <1>1, <1>2, ListsAre DEF TypeOK
  <2> QED BY <1>1, <1>2, <2>1, ClockKept
<1>12. Sleepers'
  BY <1>1, <1>2, SleepersKept
<1>13. NoStrandedWork'
  <2>1. sem \in Nat
    BY <1>1, WQueueAssumption DEF TypeOK
  <2>u. \A u \in Task : u # t => pc'[u] = pc[u]
    BY <1>7
  <2>2. Supply(sem, wpc, pc') = Supply(sem, wpc, pc) + (IF pc'[t] = "post" THEN 1 ELSE 0)
                                                     - (IF pc[t] = "post" THEN 1 ELSE 0)
    BY ONLY <2>1, <2>u, SupplyTask, t \in Task
  <2>3. Supply(sem', wpc', pc') = Supply(sem, wpc, pc) /\ Supply(sem, wpc, pc) \in Nat
    BY <2>1, <2>2, <1>2, <1>7, SupplyNat
  <2>4. Demand' = Demand
    BY <1>2 DEF Demand
  <2> QED BY <1>1, <2>3, <2>4, StrandedIs, StrandedIsNext
<1>14. Sync'
  <2>1. call[t].on = Nobody
    BY <1>1, <1>2, StagesAre DEF TaskStage
  <2>2. \A u \in Task : /\ call'[u].on = call[u].on
                        /\ call[u].over => call'[u].over
                        /\ pc'[u] = "blocked" <=> pc[u] = "blocked"
    BY <2>1, <1>2, <1>7
  <2> QED BY <1>1, <1>2, <2>2, SyncKept
<1> QED BY <1>8, <1>9, <1>10, <1>11, <1>12, <1>13, <1>14 DEF IInv

\* A task moves, and nothing is posted.
LEMMA StrandedTask ==
    ASSUME TypeOK, NoStrandedWork, UNCHANGED <<sem, wpc>>, NEW t \in Task,
           \A u \in Task : u # t => pc'[u] = pc[u], Demand \in Nat, Demand' \in Nat,
           Demand' <= Demand + (IF pc'[t] = "post" THEN 1 ELSE 0)
                             - (IF pc[t] = "post" THEN 1 ELSE 0)
    PROVE  NoStrandedWork'
<1>1. sem \in Nat
  BY WQueueAssumption DEF TypeOK
<1>2. Supply(sem, wpc, pc') = Supply(sem, wpc, pc) + (IF pc'[t] = "post" THEN 1 ELSE 0)
                                                   - (IF pc[t] = "post" THEN 1 ELSE 0)
  BY ONLY <1>1, SupplyTask, t \in Task, \A u \in Task : u # t => pc'[u] = pc[u]
<1>3. Supply(sem, wpc, pc) \in Nat
  BY ONLY <1>1, SupplyNat
<1>4. Demand <= Supply(sem, wpc, pc)
  BY StrandedIs
<1>5. Demand' <= Supply(sem, wpc, pc')
  BY ONLY <1>2, <1>3, <1>4, Demand \in Nat, Demand' \in Nat,
          Demand' <= Demand + (IF pc'[t] = "post" THEN 1 ELSE 0)
                            - (IF pc[t] = "post" THEN 1 ELSE 0)
<1> QED BY <1>5, StrandedIsNext

\* The pending works when work_remove has taken one of them out, and the timer
RestOK(rest, w, tm) ==
    /\ Proper(rest, Work, KeyNext) /\ Keyed(rest, KeyNext)
    /\ Members(rest) = Members(pending) \ {w}
    /\ rest # <<>> => rest[1] \in Members(rest)
    /\ tm \in [on : BOOLEAN, at : Tick]
    /\ tm.on => rest # <<>> /\ tm.at = qtime[rest[1]]
    /\ rest # <<>> /\ ~tm.on => pending # <<>> /\ ~timer.on

LEMMA RestIs ==
    ASSUME TypeOK, ListsOK, Clock, ticks' = ticks, qtime' \in [Work -> Tick], NEW w \in Work,
           \A x \in Work : x # w => qtime'[x] = qtime[x],
           NEW rest, rest = list_delete(pending, w),
           NEW tm, tm = IF pending # <<>> /\ pending[1] = w
                        THEN work_timer_reset(rest, qtime) ELSE timer
    PROVE  RestOK(rest, w, tm)
<1>1. Proper(pending, Work, Key)
  BY DEF ListsOK
<1>2. Deleted(rest, pending, Key, w)
  BY ONLY <1>1, ListDelete, rest = list_delete(pending, w)
<1>3. /\ Proper(rest, Work, Key) /\ Members(rest) = Members(pending) \ {w}
      /\ rest # <<>> => pending # <<>>
      /\ pending # <<>> /\ pending[1] # w => rest # <<>> /\ rest[1] = pending[1]
  BY ONLY <1>2 DEF Deleted
<1>4. \A x \in Members(rest) : x \in Work /\ x # w
  <2>1. Members(pending) \subseteq Work
    BY DEF ListsOK
  <2> QED BY ONLY <2>1, <1>3
<1>5. KeyNext \in [Work -> Int]
  BY KeyNextInt DEF TypeOK
<1>6. \A x \in Members(rest) : x \in Work /\ KeyNext[x] = Key[x]
  BY <1>4 DEF KeyNext, Key
<1>7. Proper(rest, Work, KeyNext)
  BY ONLY <1>3, <1>6, ProperOver
<1>8. Keyed(rest, KeyNext)
  BY <1>3, <1>5, <1>6 DEF Keyed, ListsOK
<1>9. rest # <<>> => rest[1] \in Members(rest)
  BY <1>3 DEF Proper, Members
<1>10. tm \in [on : BOOLEAN, at : Tick]
  <2>1. 0 \in Tick /\ timer \in [on : BOOLEAN, at : Tick]
    BY Constants DEF Tick, TypeOK
  <2>2. rest # <<>> => qtime[rest[1]] \in Tick
    BY <1>4, <1>9 DEF TypeOK
  <2> QED BY <2>1, <2>2 DEF work_timer_reset, wd_start, TimerOff
<1>11. tm.on => rest # <<>> /\ tm.at = qtime[rest[1]]
  BY <1>3 DEF Clock, work_timer_reset, wd_start, TimerOff
<1>12. rest # <<>> /\ ~tm.on => pending # <<>> /\ ~timer.on
  BY <1>3 DEF work_timer_reset, wd_start
<1> QED BY <1>3, <1>7, <1>8, <1>9, <1>10, <1>11, <1>12 DEF RestOK

\* The expired works when work_remove has taken one of them out
GoneOK(gone, w) ==
    /\ gone \in Seq(Work) /\ Distinct(gone)
    /\ Members(gone) = Members(expired) \ {w} /\ Len(gone) <= Len(expired)

LEMMA GoneIs ==
    ASSUME ListsOK, NEW w, NEW gone, gone = list_delete(expired, w)
    PROVE  GoneOK(gone, w)
<1> DEFINE P == [x \in Work |-> 0]
<1>1. expired \in Seq(Work) /\ Distinct(expired)
  BY DEF ListsOK
<1>2. Proper(expired, Work, P)
  BY <1>1, Flat
<1> HIDE DEF P
<1>3. Deleted(gone, expired, P, w)
  BY ONLY <1>2, ListDelete, gone = list_delete(expired, w)
<1> QED BY ONLY <1>3 DEF Deleted, Proper, GoneOK

\* The lists and the timer when work_queue has put a work into one of the lists
Relisted(w, more) ==
    /\ Proper(pending', Work, KeyNext)
    /\ expired' \in Seq(Work) /\ Distinct(expired')
    /\ Members(expired') \cap Members(pending') = {}
    /\ Members(expired') \cup Members(pending') = (Members(expired) \cup Members(pending)) \cup {w}
    /\ \A x \in Members(expired') : (x = w /\ more = 1) \/ (x # w /\ x \in Members(expired))
    /\ timer' \in [on : BOOLEAN, at : Tick]
    /\ timer'.on => pending' # <<>> /\ timer'.at = qtime'[pending'[1]]
    /\ Demand \in Nat /\ Demand' \in Nat /\ Demand' <= Demand + more

LEMMA LockedDelay ==
    ASSUME TypeOK, ListsOK, Clock, ticks' = ticks, NEW w \in Work, NEW due \in Tick,
           Off(ticks, due) < Half, qtime' = [qtime EXCEPT ![w] = due],
           NEW rest, rest = list_delete(pending, w),
           pending' = work_insert_pending(rest, due, w),
           expired' = list_delete(expired, w),
           timer' = IF Place(rest, due) = 0 THEN wd_start(due)
                    ELSE IF pending # <<>> /\ pending[1] = w THEN wd_start(qtime[rest[1]])
                    ELSE timer
    PROVE  Relisted(w, 0)
<1> DEFINE tm == IF pending # <<>> /\ pending[1] = w
                 THEN work_timer_reset(rest, qtime) ELSE timer
<1>1. /\ qtime' \in [Work -> Tick] /\ qtime'[w] = due
      /\ \A x \in Work : x # w => qtime'[x] = qtime[x]
  BY DEF TypeOK
<1>2. RestOK(rest, w, tm)
  BY <1>1, RestIs
<1> HIDE DEF tm
<1>3. /\ Proper(rest, Work, KeyNext) /\ Keyed(rest, KeyNext)
      /\ Members(rest) = Members(pending) \ {w}
      /\ rest # <<>> => rest[1] \in Members(rest)
      /\ tm \in [on : BOOLEAN, at : Tick]
      /\ tm.on => rest # <<>> /\ tm.at = qtime[rest[1]]
      /\ rest # <<>> /\ ~tm.on => pending # <<>> /\ ~timer.on
  BY ONLY <1>2 DEF RestOK
<1>4. KeyNext[w] = -Off(ticks, due) /\ w \notin Members(rest) /\ ticks \in Tick
  BY <1>1, <1>3 DEF KeyNext, TypeOK
<1>5. Inserted(pending', rest, KeyNext, w, due)
  BY ONLY <1>3, <1>4, InsertPending, w \in Work, due \in Tick, Off(ticks, due) < Half,
          pending' = work_insert_pending(rest, due, w)
<1>6. /\ Proper(pending', Work, KeyNext) /\ Members(pending') = Members(rest) \cup {w}
      /\ pending' # <<>>
      /\ pending'[1] = IF Place(rest, due) = 0 THEN w ELSE rest[1]
      /\ Place(rest, due) # 0 => rest # <<>>
  BY ONLY <1>5 DEF Inserted
<1>7. timer' = IF Place(rest, due) = 0 THEN wd_start(due) ELSE tm
  BY <1>6 DEF tm, work_timer_reset
<1>8. timer' \in [on : BOOLEAN, at : Tick]
  BY <1>3, <1>7 DEF wd_start
<1>9. timer'.on => pending' # <<>> /\ timer'.at = qtime'[pending'[1]]
  <2>1. CASE Place(rest, due) = 0
    BY <2>1, <1>1, <1>6, <1>7 DEF wd_start
  <2>2. CASE Place(rest, due) # 0
    <3>1. rest[1] \in Members(pending) /\ rest[1] # w
      BY <2>2, <1>3, <1>6
    <3>2. rest[1] \in Work
      BY <3>1 DEF ListsOK
    <3> QED BY <2>2, <3>1, <3>2, <1>1, <1>3, <1>6, <1>7
  <2> QED BY <2>1, <2>2
<1>10. GoneOK(expired', w)
  BY GoneIs
<1>11. /\ expired' \in Seq(Work) /\ Distinct(expired')
       /\ Members(expired') = Members(expired) \ {w} /\ Len(expired') <= Len(expired)
  BY ONLY <1>10 DEF GoneOK
<1>12. timer'.on \/ (pending # <<>> /\ ~timer.on)
  BY <1>3, <1>6, <1>7 DEF wd_start
<1>13. Demand \in Nat /\ Demand' \in Nat /\ Demand' <= Demand + 0
  <2>1. expired \in Seq(Work)
    BY DEF ListsOK
  <2> QED BY <2>1, <1>11, <1>12 DEF Demand
<1>14. Members(expired) \cap Members(pending) = {}
  BY DEF ListsOK
<1>15. /\ Members(expired') \cap Members(pending') = {}
       /\ Members(expired') \cup Members(pending') = (Members(expired) \cup Members(pending)) \cup {w}
       /\ \A x \in Members(expired') : x # w /\ x \in Members(expired)
  BY ONLY <1>3, <1>6, <1>11, <1>14
<1> QED BY <1>6, <1>8, <1>9, <1>11, <1>13, <1>15 DEF Relisted

LEMMA LockedNow ==
    ASSUME TypeOK, ListsOK, Clock, ticks' = ticks, NEW w \in Work, NEW due \in Tick,
           qtime' = [qtime EXCEPT ![w] = due],
           pending' = list_delete(pending, w),
           expired' = Append(list_delete(expired, w), w),
           timer' = IF pending # <<>> /\ pending[1] = w
                    THEN work_timer_reset(pending', qtime) ELSE timer
    PROVE  Relisted(w, 1)
<1>1. /\ qtime' \in [Work -> Tick] /\ qtime'[w] = due
      /\ \A x \in Work : x # w => qtime'[x] = qtime[x]
  BY DEF TypeOK
<1>2. RestOK(pending', w, timer')
  BY <1>1, RestIs
<1>3. /\ Proper(pending', Work, KeyNext)
      /\ Members(pending') = Members(pending) \ {w}
      /\ pending' # <<>> => pending'[1] \in Members(pending')
      /\ timer' \in [on : BOOLEAN, at : Tick]
      /\ timer'.on => pending' # <<>> /\ timer'.at = qtime[pending'[1]]
      /\ pending' # <<>> /\ ~timer'.on => pending # <<>> /\ ~timer.on
  BY ONLY <1>2 DEF RestOK
<1>4. timer'.on => pending' # <<>> /\ timer'.at = qtime'[pending'[1]]
  <2>1. pending' # <<>> => pending'[1] \in Members(pending) /\ pending'[1] # w
    BY ONLY <1>3
  <2>2. Members(pending) \subseteq Work
    BY DEF ListsOK
  <2> QED BY ONLY <2>1, <2>2, <1>1, <1>3
<1> DEFINE gone == list_delete(expired, w)
<1>5. GoneOK(gone, w)
  BY GoneIs
<1>6. expired' = Append(gone, w)
  OBVIOUS
<1> HIDE DEF gone
<1>7. /\ gone \in Seq(Work) /\ Distinct(gone)
      /\ Members(gone) = Members(expired) \ {w} /\ Len(gone) <= Len(expired)
  BY ONLY <1>5 DEF GoneOK
<1>8. AddedTail(Work, expired', gone, w)
  BY <1>6, <1>7, AddTail
<1>9. /\ expired' \in Seq(Work) /\ Distinct(expired') /\ Members(expired') = Members(gone) \cup {w}
      /\ Len(expired') = Len(gone) + 1
  BY ONLY <1>8 DEF AddedTail
<1>10. Demand \in Nat /\ Demand' \in Nat /\ Demand' <= Demand + 1
  <2>1. expired \in Seq(Work)
    BY DEF ListsOK
  <2> QED BY <2>1, <1>3, <1>7, <1>9 DEF Demand
<1>11. Members(expired) \cap Members(pending) = {}
  BY DEF ListsOK
<1>12. /\ Members(expired') \cap Members(pending') = {}
       /\ Members(expired') \cup Members(pending') = (Members(expired) \cup Members(pending)) \cup {w}
  BY ONLY <1>3, <1>7, <1>9, <1>11
<1>13. \A x \in Members(expired') : x # w => x \in Members(expired)
  BY ONLY <1>7, <1>9
<1> QED BY <1>3, <1>4, <1>9, <1>10, <1>12, <1>13 DEF Relisted

\* A task has put the work of its call into a list.
LEMMA LockedRest ==
    ASSUME IInv, NEW t \in Task, NEW w, NEW due, w = call[t].work, due = call[t].due,
           pc[t] = "lock", UNCHANGED <<ticks, sem, idle, wpc, job, wait, wait_count>>,
           queued' = queued \cup {w}, qtime' = [qtime EXCEPT ![w] = due],
           pc' \in [Task -> Label], call' \in [Task -> Call],
           \A u \in Task : u # t => pc'[u] = pc[u] /\ call'[u] = call[u],
           \/ pc'[t] = "run" /\ call'[t] = NoCall /\ Relisted(w, 0)
           \/ pc'[t] = "post" /\ call'[t] = call[t] /\ call[t].delay = 0 /\ Relisted(w, 1)
    PROVE  IInv'
<1> DEFINE more == IF pc'[t] = "post" THEN 1 ELSE 0
<1>1. TypeOK /\ Listed /\ Stages /\ Clock /\ Sleepers /\ NoStrandedWork /\ Sync
  BY DEF IInv
<1>2. TaskStage(t) /\ OneRuns /\ OneCalls
  BY <1>1, StagesAre
<1>3. /\ w \in Work /\ due \in Tick /\ Off(ticks, due) < Half
      /\ call[t].delay = 0 => Off(ticks, due) <= MaxLag + 1
      /\ w \in Periodic => w \notin queued /\ \A k \in Worker : job[k] # w
      /\ call[t].on = Nobody
  BY <1>1, <1>2 DEF TaskStage, TypeOK, Call
<1>4. Relisted(w, more) /\ (more = 1 => Off(ticks, due) <= MaxLag + 1)
  BY <1>3
<1>5. more \in {0, 1} /\ (more = 1 <=> pc'[t] = "post")
  OBVIOUS
<1> HIDE DEF more
<1>6. /\ Proper(pending', Work, KeyNext)
      /\ expired' \in Seq(Work) /\ Distinct(expired')
      /\ Members(expired') \cap Members(pending') = {}
      /\ Members(expired') \cup Members(pending') = (Members(expired) \cup Members(pending)) \cup {w}
      /\ \A x \in Members(expired') : (x = w /\ more = 1) \/ (x # w /\ x \in Members(expired))
      /\ timer' \in [on : BOOLEAN, at : Tick]
      /\ timer'.on => pending' # <<>> /\ timer'.at = qtime'[pending'[1]]
      /\ Demand \in Nat /\ Demand' \in Nat /\ Demand' <= Demand + more
  BY ONLY <1>4 DEF Relisted
<1>7. /\ qtime' \in [Work -> Tick] /\ qtime'[w] = due
      /\ \A x \in Work : x # w => qtime'[x] = qtime[x]
  BY <1>1, <1>3 DEF TypeOK
<1>8. TypeOK'
  BY <1>1, <1>3, <1>6, <1>7 DEF TypeOK, Proper
<1>9. Listed'
  <2>1. Early' = Early
    BY EarlyKept
  <2>2. w \notin Early
    BY <1>1, <1>3, EarlyPeriodic
  <2>3. Distinct(pending')
    BY ONLY <1>6 DEF Proper
  <2> QED BY <1>1, <1>6, <2>1, <2>2, <2>3 DEF Listed
<1>10. Stages'
  <2>1. ASSUME NEW k \in Worker PROVE WorkerStage(k)'
    <3>1. WorkerStage(k)
      BY <1>1, StagesAre
    <3>2. Active(k) /\ job[k] \in Periodic =>
                (job[k] \in queued' <=> job[k] \in queued) /\ qtime'[job[k]] = qtime[job[k]]
      BY <1>3, <1>7, WQueueAssumption
    <3> QED BY ONLY <3>1, <3>2, WorkerKept, k \in Worker,
                    UNCHANGED <<ticks, sem, idle, wpc, job, wait, wait_count>>
  <2>2. ASSUME NEW u \in Task, u # t PROVE TaskStage(u)'
    <3>1. TaskStage(u) /\ pc'[u] = pc[u] /\ call'[u] = call[u]
      BY <1>1, <2>2, StagesAre
    <3>2. pc[u] = "lock" /\ call[u].work \in Periodic =>
                call[u].work \notin queued' /\ \A k \in Worker : job'[k] # call[u].work
      <4>1. call[u].work = w => FALSE
        <5>1. w # Nobody
          BY <1>3, WQueueAssumption
        <5> QED BY <5>1, <1>2, <2>2 DEF OneCalls
      <4> QED BY <3>1, <4>1 DEF TaskStage
    <3> QED BY ONLY <3>1, <3>2, TaskKept, u \in Task,
                    UNCHANGED <<ticks, sem, idle, wpc, job, wait, wait_count>>
  <2>3. TaskStage(t)'
    BY <1>3 DEF TaskStage, NoCall
  <2>4. OneRuns'
    BY <1>2 DEF OneRuns, Active
  <2>5. OneCalls'
    <3>1. \A u \in Task : call'[u].work = call[u].work \/ call'[u].work = Nobody
      BY DEF NoCall
    <3> QED BY <1>2, <3>1, OneCallsKept
  <2> QED BY <2>1, <2>2, <2>3, <2>4, <2>5, StagesAre
<1>11. Clock'
  <2>1. \A x \in queued' : Off(ticks', qtime'[x]) < Half
    BY <1>1, <1>3, <1>7 DEF Clock, TypeOK
  <2>2. \A x \in Members(expired') : Off(ticks', qtime'[x]) <= MaxLag + 1
    <3>1. \A x \in Members(expired) : x \in Work /\ Off(ticks, qtime[x]) <= MaxLag + 1
      BY <1>1, ListsAre DEF Clock, ListsOK
    <3> QED BY <1>4, <1>6, <1>7, <3>1
  <2>3. Descending(pending', Key')
    BY <1>6 DEF Proper, Key, KeyNext
  <2> QED BY <1>6, <2>1, <2>2, <2>3 DEF Clock
<1>12. Sleepers'
  BY <1>1, SleepersKept
<1>13. NoStrandedWork'
  <2>1. Demand' <= Demand + (IF pc'[t] = "post" THEN 1 ELSE 0)
                          - (IF pc[t] = "post" THEN 1 ELSE 0)
    BY <1>5, <1>6
  <2> QED BY <1>1, <1>6, <2>1, StrandedTask
<1>14. Sync'
  <2>1. \A u \in Task : /\ call'[u].on = call[u].on
                        /\ call[u].over => call'[u].over
                        /\ pc'[u] = "blocked" <=> pc[u] = "blocked"
    BY <1>3 DEF NoCall
  <2> QED BY <1>1, <2>1, SyncKept
<1> QED BY <1>8, <1>9, <1>10, <1>11, <1>12, <1>13, <1>14 DEF IInv

LEMMA LockedStep ==
    ASSUME IInv, NEW t \in Task, work_queue_locked(t)
    PROVE  IInv'
<1> DEFINE w == call[t].work
           due == call[t].due
           rest == list_delete(pending, w)
<1>1. TypeOK /\ ListsOK /\ Clock /\ TaskStage(t)
  BY ListsAre, StagesAre DEF IInv
<1>2. /\ UNCHANGED <<ticks, sem, idle, wpc, job, wait, wait_count>>
      /\ pc[t] = "lock" /\ queued' = queued \cup {w} /\ qtime' = [qtime EXCEPT ![w] = due]
  BY DEF work_queue_locked, workers
<1>3. w \in Work /\ due \in Tick /\ Off(ticks, due) < Half /\ call[t].delay \in Nat
  <2>1. call[t] \in Call /\ Delay \cup {0} \subseteq Nat
    BY <1>1, Constants DEF TypeOK
  <2> QED BY <1>1, <1>2, <2>1 DEF TaskStage, Call
<1>4. CASE call[t].delay > 0
  <2>1. /\ pending' = work_insert_pending(rest, due, w)
        /\ expired' = list_delete(expired, w)
        /\ timer' = IF Place(rest, due) = 0 THEN wd_start(due)
                    ELSE IF pending # <<>> /\ pending[1] = w THEN wd_start(qtime[rest[1]])
                    ELSE timer
        /\ pc' = [pc EXCEPT ![t] = "run"]
        /\ call' = [call EXCEPT ![t] = NoCall]
    BY <1>4 DEF work_queue_locked
  <2>2. Relisted(w, 0)
    <3> HIDE DEF w, due, rest
    <3>1. rest = list_delete(pending, w)
      BY DEF rest
    <3> QED BY ONLY <1>1, <1>2, <1>3, <2>1, <3>1, LockedDelay
  <2>3. NoCall \in Call
    BY Constants DEF NoCall, Call, Tick
  <2>4. /\ pc' \in [Task -> Label] /\ pc'[t] = "run"
        /\ call' \in [Task -> Call] /\ call'[t] = NoCall
        /\ \A u \in Task : u # t => pc'[u] = pc[u] /\ call'[u] = call[u]
    BY <1>1, <2>1, <2>3 DEF TypeOK, Label
  <2> HIDE DEF w, due
  <2> QED BY <1>2, <2>2, <2>4, LockedRest DEF w, due
<1>5. CASE ~(call[t].delay > 0)
  <2>1. /\ pending' = rest
        /\ expired' = Append(list_delete(expired, w), w)
        /\ timer' = IF pending # <<>> /\ pending[1] = w
                    THEN work_timer_reset(pending', qtime) ELSE timer
        /\ pc' = [pc EXCEPT ![t] = "post"]
        /\ call' = call /\ call[t].delay = 0
    BY <1>3, <1>5 DEF work_queue_locked
  <2>2. Relisted(w, 1)
    <3>1. pending' = list_delete(pending, w)
      BY <2>1
    <3> HIDE DEF w, due, rest
    <3> QED BY ONLY <1>1, <1>2, <1>3, <2>1, <3>1, LockedNow
  <2>3. /\ pc' \in [Task -> Label] /\ pc'[t] = "post"
        /\ call' \in [Task -> Call] /\ call'[t] = call[t]
        /\ \A u \in Task : u # t => pc'[u] = pc[u] /\ call'[u] = call[u]
    BY <1>1, <2>1 DEF TypeOK, Label
  <2> HIDE DEF w, due
  <2> QED BY <1>2, <2>1, <2>2, <2>3, LockedRest DEF w, due
<1> QED BY <1>4, <1>5

\* Posts wake workers, and the callbacks go on.
LEMMA PostNow ==
    ASSUME TypeOK, Sleepers, NEW n \in Nat, Post(n, wpc)
    PROVE  /\ Posted(n, wpc)
           /\ \A v \in Worker : wpc'[v] = wpc[v] \/ (wpc[v] = "idle" /\ wpc'[v] = "loop")
<1>1. /\ idle \in Seq(Worker) /\ Distinct(idle) /\ sem \in 0..MaxSem
      /\ wpc \in [Worker -> WorkerLabel] /\ Members(idle) = Where(wpc, Worker, "idle")
  BY DEF TypeOK, Sleepers, Where
<1>2. Posted(n, wpc)
  BY ONLY <1>1, PostWakes, Post(n, wpc), n \in Nat
<1> QED BY <1>2 DEF Posted

LEMMA WokenStages ==
    ASSUME Stages, UNCHANGED <<ticks, qtime, queued, job>>,
           \A v \in Worker : wpc'[v] = wpc[v] \/ (wpc[v] = "idle" /\ wpc'[v] = "loop")
    PROVE  Early' = Early /\ OneRuns' /\ \A k \in Worker : WorkerStage(k)'
<1>1. Early' = Early
  BY EarlyKept
<1>2. OneRuns'
  BY StagesAre, OneRunsKept DEF Active
<1>3. ASSUME NEW k \in Worker PROVE WorkerStage(k)'
  <2>1. WorkerStage(k) /\ (wpc'[k] = wpc[k] \/ (wpc[k] = "idle" /\ wpc'[k] = "loop"))
    BY StagesAre
  <2> QED BY ONLY <2>1, WorkerKept, k \in Worker, UNCHANGED <<ticks, qtime, queued, job>>
<1> QED BY <1>1, <1>2, <1>3

LEMMA PostStep ==
    ASSUME IInv, NEW t \in Task, work_queue_post(t)
    PROVE  IInv'
<1>1. TypeOK /\ Listed /\ Stages /\ Clock /\ Sleepers /\ NoStrandedWork /\ Sync
  BY DEF IInv
<1>2. /\ UNCHANGED <<ticks, expired, pending, qtime, queued, timer>>
      /\ UNCHANGED <<job, wait, wait_count>>
      /\ pc[t] = "post" /\ Post(1, wpc)
      /\ pc' = [pc EXCEPT ![t] = "run"]
      /\ call' = [call EXCEPT ![t] = NoCall]
  BY DEF work_queue_post, queue
<1>3. /\ Posted(1, wpc)
      /\ \A v \in Worker : wpc'[v] = wpc[v] \/ (wpc[v] = "idle" /\ wpc'[v] = "loop")
  BY <1>1, <1>2, PostNow
<1>4. NoCall \in Call
  BY Constants DEF NoCall, Call, Tick
<1>5. /\ pc' \in [Task -> Label] /\ pc'[t] = "run"
      /\ call' \in [Task -> Call] /\ call'[t] = NoCall
      /\ \A u \in Task : u # t => pc'[u] = pc[u] /\ call'[u] = call[u]
  BY <1>1, <1>2, <1>4 DEF TypeOK, Label
<1>6. TypeOK'
  BY <1>1, <1>2, <1>3, <1>5 DEF TypeOK, Posted
<1>7. Early' = Early /\ OneRuns' /\ \A k \in Worker : WorkerStage(k)'
  BY <1>1, <1>2, <1>3, WokenStages
<1>8. Listed'
  BY <1>1, <1>2, <1>7, ListedKept
<1>9. Stages'
  <2>1. ASSUME NEW u \in Task, u # t PROVE TaskStage(u)'
    <3>1. TaskStage(u) /\ pc'[u] = pc[u] /\ call'[u] = call[u]
      BY <1>1, <1>5, <2>1, StagesAre
    <3> QED BY ONLY <3>1, <1>2 DEF TaskStage
  <2>2. TaskStage(t)'
    BY <1>5 DEF TaskStage, NoCall
  <2>3. OneCalls'
    <3>1. \A u \in Task : call'[u].work = call[u].work \/ call'[u].work = Nobody
      BY <1>5 DEF NoCall
    <3> QED BY <1>1, <3>1, OneCallsKept, StagesAre
  <2> QED BY <1>7, <2>1, <2>2, <2>3, StagesAre
<1>10. Clock'
  <2>1. ListsOK /\ queued' \subseteq Work
    BY <1>1, <1>2, ListsAre DEF TypeOK
  <2> QED BY <1>1, <1>2, <2>1, ClockKept
<1>11. Sleepers'
  BY <1>3 DEF Posted
<1>12. NoStrandedWork'
  <2>1. sem \in Nat
    BY <1>1, WQueueAssumption DEF TypeOK
  <2>2. \A u \in Task : u # t => pc'[u] = pc[u]
    BY <1>5
  <2>3. Supply(sem, wpc, pc') = Supply(sem, wpc, pc) + (IF pc'[t] = "post" THEN 1 ELSE 0)
                                                     - (IF pc[t] = "post" THEN 1 ELSE 0)
    BY ONLY <2>1, <2>2, SupplyTask, t \in Task
  <2>4. Supply(sem, wpc, pc) \in Nat
    BY <2>1, SupplyNat
  <2>5. Supply(sem, wpc, pc) = Supply(sem, wpc, pc') + 1
    BY <2>3, <2>4, <1>2, <1>5
  <2>6. Demand' = Demand /\ Demand <= Supply(sem, wpc, pc)
    BY <1>1, <1>2, StrandedIs DEF Demand
  <2>7. Demand' <= Supply(sem, wpc, pc') + 1
    BY ONLY <2>5, <2>6
  <2> QED BY ONLY <1>3, <1>6, <1>8, <2>7, StrandedPost, 1 \in Nat
<1>13. Sync'
  <2>1. call[t].on = Nobody
    BY <1>1, <1>2, StagesAre DEF TaskStage
  <2>2. \A u \in Task : /\ call'[u].on = call[u].on
                        /\ call[u].over => call'[u].over
                        /\ pc'[u] = "blocked" <=> pc[u] = "blocked"
    BY <2>1, <1>2, <1>5 DEF NoCall
  <2> QED BY <1>1, <1>2, <2>2, SyncKept
<1> QED BY <1>6, <1>8, <1>9, <1>10, <1>11, <1>12, <1>13 DEF IInv

LEMMA SyncingFinite ==
    ASSUME NEW k
    PROVE  /\ IsFiniteSet(Syncing(k)) /\ Cardinality(Syncing(k)) \in Nat
           /\ IsFiniteSet(Asleep(k)) /\ Cardinality(Asleep(k)) \in Nat
           /\ Asleep(k) \subseteq Syncing(k) /\ Cardinality(Asleep(k)) <= Cardinality(Syncing(k))
<1>1. Syncing(k) \in SUBSET Task /\ Asleep(k) \in SUBSET Syncing(k) /\ IsFiniteSet(Task)
  BY WQueueAssumption DEF Syncing, Asleep
<1>2. IsFiniteSet(Syncing(k))
  BY ONLY <1>1, FS_Subset
<1>3. IsFiniteSet(Asleep(k)) /\ Cardinality(Asleep(k)) <= Cardinality(Syncing(k))
  BY ONLY <1>1, <1>2, FS_Subset
<1> QED BY <1>1, <1>2, <1>3, FS_CardinalityType

\* work_cancel_sync counts itself in kworker->wait_count under the lock.
LEMMA SyncAdded ==
    ASSUME TypeOK, Sync, NEW t \in Canceller, t \in Task, pc[t] # "blocked", call[t].on = Nobody,
           NEW k \in Worker, job[k] # Nobody, UNCHANGED <<job, wait>>,
           wait_count' = [wait_count EXCEPT ![k] = @ + 1],
           pc'[t] = "sync", call'[t].on = k,
           \A u \in Task : u # t => pc'[u] = pc[u] /\ call'[u] = call[u]
    PROVE  Sync'
<1>1. k # Nobody /\ Canceller \subseteq Task
  BY WQueueAssumption
<1>2. /\ wait \in [Worker -> Nat] /\ wait_count \in [Worker -> Nat]
      /\ wait_count'[k] = wait_count[k] + 1
      /\ \A l \in Worker : l # k => wait_count'[l] = wait_count[l]
  BY DEF TypeOK
<1>3. \A l \in Worker : Asleep(l)' = Asleep(l)
  BY DEF Asleep
<1>4. \A l \in Worker : l # k => Syncing(l)' = Syncing(l)
  BY <1>1, WQueueAssumption DEF Syncing
<1>5. Syncing(k)' = Syncing(k) \cup {t} /\ t \notin Syncing(k)
  BY <1>1 DEF Syncing
<1>6. Cardinality(Syncing(k)') = Cardinality(Syncing(k)) + 1
  BY <1>5, SyncingFinite, FS_AddElement
<1>7. ASSUME NEW l \in Worker
      PROVE  /\ wait'[l] + wait_count'[l] = Cardinality(Syncing(l)')
             /\ Asleep(l)' # {} => wait'[l] = 0
             /\ wait_count'[l] > 0 => job'[l] # Nobody
  <2>1. /\ wait[l] + wait_count[l] = Cardinality(Syncing(l))
        /\ Asleep(l) # {} => wait[l] = 0
        /\ wait_count[l] > 0 => job[l] # Nobody
    BY DEF Sync
  <2>2. CASE l = k
    <3>1. wait[k] \in Nat /\ wait_count[k] \in Nat
      BY <1>2
    <3> QED BY <2>1, <2>2, <3>1, <1>2, <1>3, <1>6
  <2>3. CASE l # k
    BY <2>1, <2>3, <1>2, <1>3, <1>4
  <2> QED BY <2>2, <2>3
<1>8. \A u \in Task \ Canceller : call'[u].on = Nobody /\ call'[u].over
  BY DEF Sync
<1>9. ASSUME \A u, v \in Canceller : u = v, NEW u \in Task, ~call'[u].over
      PROVE  call'[u].on # Nobody /\ wait'[call'[u].on] = 0
  <2>1. u = t
    BY <1>8, <1>9
  <2>2. Syncing(k) = {}
    <3>1. \A v \in Task : call[v].on = k => v = t
      BY <1>1, <1>9 DEF Sync
    <3> QED BY <3>1, <1>1 DEF Syncing
  <2>3. wait[k] + wait_count[k] = 0
    <3>1. wait[k] + wait_count[k] = Cardinality(Syncing(k))
      BY DEF Sync
    <3>2. Cardinality({}) = 0
      BY FS_EmptySet
    <3> QED BY ONLY <2>2, <3>1, <3>2
  <2>4. wait[k] = 0
    BY <2>3, <1>2
  <2> QED BY <2>1, <2>4, <1>1
<1> QED BY <1>7, <1>8, <1>9 DEF Sync

LEMMA CancelStep ==
    ASSUME IInv, NEW t \in Task, NEW w \in Work, NEW sync \in BOOLEAN, work_qcancel(t, w, sync)
    PROVE  IInv'
<1>1. TypeOK /\ Listed /\ Stages /\ Clock /\ Sleepers /\ NoStrandedWork /\ Sync /\ ListsOK
  BY ListsAre DEF IInv
<1>2. /\ UNCHANGED <<ticks, sem, idle, wpc, job, wait>>
      /\ pc[t] = "run" /\ w \notin Early /\ (sync => t \in Canceller)
      /\ pending' = list_delete(pending, w) /\ expired' = list_delete(expired, w)
      /\ queued' = queued \ {w}
      /\ qtime' = IF w \in Periodic /\ Running(w) # {} THEN qtime
                  ELSE [qtime EXCEPT ![w] = 0]
      /\ timer' = IF pending # <<>> /\ pending[1] = w
                  THEN work_timer_reset(pending', qtime) ELSE timer
  BY DEF work_qcancel
<1>3. \/ UNCHANGED <<call, pc, wait_count>>
      \/ /\ sync
         /\ \E k \in Running(w) :
                /\ call' = [call EXCEPT ![t] = [work |-> Nobody, delay |-> 0, due |-> 0,
                                                on |-> k, over |-> FALSE]]
                /\ wait_count' = [wait_count EXCEPT ![k] = @ + 1]
         /\ pc' = [pc EXCEPT ![t] = "sync"]
  BY DEF work_qcancel
<1>4. TaskStage(t) /\ call[t].on = Nobody /\ call[t].work = Nobody
  BY <1>1, <1>2, StagesAre DEF TaskStage
<1>5. /\ qtime' \in [Work -> Tick]
      /\ \A x \in Work : x # w => qtime'[x] = qtime[x]
  <2>1. 0 \in Tick
    BY Constants DEF Tick
  <2> QED BY <1>1, <1>2, <2>1 DEF TypeOK
<1>6. RestOK(pending', w, timer')
  BY <1>1, <1>2, <1>5, RestIs
<1>7. /\ Proper(pending', Work, KeyNext)
      /\ Members(pending') = Members(pending) \ {w}
      /\ pending' # <<>> => pending'[1] \in Members(pending')
      /\ timer' \in [on : BOOLEAN, at : Tick]
      /\ timer'.on => pending' # <<>> /\ timer'.at = qtime[pending'[1]]
      /\ pending' # <<>> /\ ~timer'.on => pending # <<>> /\ ~timer.on
  BY ONLY <1>6 DEF RestOK
<1>8. GoneOK(expired', w)
  BY <1>1, <1>2, GoneIs
<1>9. /\ expired' \in Seq(Work) /\ Distinct(expired')
      /\ Members(expired') = Members(expired) \ {w} /\ Len(expired') <= Len(expired)
  BY ONLY <1>8 DEF GoneOK
<1>10. Listed'
  <2>1. Early' = Early /\ w \notin Early
    BY <1>2, EarlyKept
  <2>2. Distinct(pending')
    BY ONLY <1>7 DEF Proper
  <2> QED BY <1>1, <1>2, <1>7, <1>9, <2>1, <2>2 DEF Listed
<1>11. Clock'
  <2>1. \A x \in queued' : Off(ticks', qtime'[x]) < Half
    BY <1>1, <1>2, <1>5 DEF Clock, TypeOK
  <2>2. \A x \in Members(expired') : Off(ticks', qtime'[x]) <= MaxLag + 1
    BY <1>1, <1>2, <1>5, <1>9 DEF Clock, ListsOK
  <2>3. Descending(pending', Key')
    BY <1>7 DEF Proper, Key, KeyNext
  <2>4. timer'.on => pending' # <<>> /\ timer'.at = qtime'[pending'[1]]
    <3>1. pending' # <<>> => pending'[1] \in Members(pending) /\ pending'[1] # w
      BY ONLY <1>7
    <3>2. Members(pending) \subseteq Work
      BY <1>1 DEF ListsOK
    <3> QED BY ONLY <3>1, <3>2, <1>5, <1>7
  <2> QED BY <2>1, <2>2, <2>3, <2>4 DEF Clock
<1>12. Sleepers'
  BY <1>1, <1>2, SleepersKept
<1>13. ASSUME NEW k \in Worker PROVE WorkerStage(k)'
  <2>1. WorkerStage(k)
    BY <1>1, StagesAre
  <2>2. Active(k) /\ job[k] \in Periodic =>
                (job[k] \in queued' <=> job[k] \in queued) /\ qtime'[job[k]] = qtime[job[k]]
    <3>1. CASE job[k] = w
      <4>1. wpc[k] \notin {"next", "nextnow"}
        BY <1>2, <3>1 DEF Early
      <4>2. k \in Running(w)
        BY <3>1 DEF Running
      <4>3. job[k] \in Periodic => qtime' = qtime
        BY <1>2, <3>1, <4>2
      <4> QED BY <1>2, <2>1, <3>1, <4>1, <4>3 DEF Active, WorkerStage
    <3>2. CASE job[k] # w
      <4>1. Periodic \subseteq Work
        BY WQueueAssumption
      <4> QED BY <1>2, <1>5, <3>2, <4>1
    <3> QED BY <3>1, <3>2
  <2> QED BY ONLY <2>1, <2>2, <1>2, WorkerKept, k \in Worker
<1>14. OneRuns'
  BY <1>1, <1>2, StagesAre DEF OneRuns, Active
<1>15. ASSUME NEW u \in Task, pc'[u] = pc[u], call'[u] = call[u] PROVE TaskStage(u)'
  <2>1. TaskStage(u)
    BY <1>1, StagesAre
  <2>2. pc[u] = "lock" /\ call[u].work \in Periodic =>
                call[u].work \notin queued' /\ \A k \in Worker : job'[k] # call[u].work
    BY <2>1, <1>2 DEF TaskStage
  <2> QED BY ONLY <2>1, <2>2, <1>2, <1>15, TaskKept
<1>16. Demand \in Nat /\ Demand' \in Nat /\ Demand' <= Demand
  BY <1>1, <1>7, <1>9 DEF Demand, ListsOK
<1>17. ASSUME wait_count' \in [Worker -> Nat], pc' \in [Task -> Label], call' \in [Task -> Call]
       PROVE  TypeOK'
  BY <1>1, <1>2, <1>5, <1>7, <1>9, <1>17 DEF TypeOK, Proper
<1>18. CASE UNCHANGED <<call, pc, wait_count>>
  <2>1. TypeOK'
    BY <1>1, <1>17, <1>18 DEF TypeOK
  <2>2. Stages'
    <3>1. OneCalls'
      BY <1>1, <1>18, StagesAre DEF OneCalls
    <3> QED BY <1>13, <1>14, <1>15, <1>18, <3>1, StagesAre
  <2>3. NoStrandedWork'
    <3>1. Demand' <= Demand + (IF pc'[t] = "post" THEN 1 ELSE 0)
                            - (IF pc[t] = "post" THEN 1 ELSE 0)
      BY <1>2, <1>16, <1>18
    <3> QED BY <1>1, <1>2, <1>16, <1>18, <3>1, StrandedTask
  <2>4. Sync'
    BY <1>1, <1>2, <1>18, SyncKept
  <2> QED BY <2>1, <2>2, <2>3, <2>4, <1>10, <1>11, <1>12 DEF IInv
<1>19. ASSUME sync, pc' = [pc EXCEPT ![t] = "sync"], NEW k \in Running(w),
              call' = [call EXCEPT ![t] = [work |-> Nobody, delay |-> 0, due |-> 0,
                                           on |-> k, over |-> FALSE]],
              wait_count' = [wait_count EXCEPT ![k] = @ + 1]
       PROVE  IInv'
  <2>1. /\ k \in Worker /\ job[k] = w /\ k # Nobody /\ job[k] # Nobody
        /\ t \in Canceller
    BY <1>2, <1>19, WQueueAssumption DEF Running
  <2>2. [work |-> Nobody, delay |-> 0, due |-> 0, on |-> k, over |-> FALSE] \in Call
    BY <2>1, Constants DEF Call, Tick
  <2>3. /\ pc' \in [Task -> Label] /\ pc'[t] = "sync"
        /\ call' \in [Task -> Call]
        /\ call'[t] = [work |-> Nobody, delay |-> 0, due |-> 0, on |-> k, over |-> FALSE]
        /\ \A u \in Task : u # t => pc'[u] = pc[u] /\ call'[u] = call[u]
        /\ wait_count' \in [Worker -> Nat]
    BY <1>1, <1>19, <2>1, <2>2 DEF TypeOK, Label
  <2>4. call'[t].work = Nobody /\ call'[t].on = k
    BY <2>3
  <2>5. TypeOK'
    BY <2>3, <1>17
  <2>6. Stages'
    <3>1. OneCalls'
      BY <1>1, <2>3, <2>4, OneCallsKept, StagesAre
    <3>2. TaskStage(t)'
      BY <2>1, <2>3, <2>4 DEF TaskStage
    <3>3. \A u \in Task : TaskStage(u)'
      BY <1>15, <2>3, <3>2
    <3> QED BY <1>13, <1>14, <3>1, <3>3, StagesAre
  <2>7. NoStrandedWork'
    <3>1. Demand' <= Demand + (IF pc'[t] = "post" THEN 1 ELSE 0)
                            - (IF pc[t] = "post" THEN 1 ELSE 0)
      BY <1>2, <1>16, <2>3
    <3> QED BY <1>1, <1>2, <1>16, <2>3, <3>1, StrandedTask
  <2>8. Sync'
    BY <1>1, <1>2, <1>4, <1>19, <2>1, <2>3, <2>4, SyncAdded
  <2> QED BY <2>5, <2>6, <2>7, <2>8, <1>10, <1>11, <1>12 DEF IInv
<1> QED BY <1>3, <1>18, <1>19

\* nxsem_wait on kworker->wait takes a post, or the task sleeps.
LEMMA CancelWaitStep ==
    ASSUME IInv, NEW t \in Task, cancel_wait(t)
    PROVE  IInv'
<1>0. PICK k : k = call[t].on
  OBVIOUS
<1>1. TypeOK /\ Listed /\ Stages /\ Clock /\ Sleepers /\ NoStrandedWork /\ Sync /\ ListsOK
  BY ListsAre DEF IInv
<1>2. /\ UNCHANGED <<ticks, expired, pending, qtime, queued, timer, sem, idle>>
      /\ UNCHANGED <<wpc, job, wait_count>>
      /\ pc[t] = "sync"
      /\ \/ /\ wait[k] > 0
            /\ wait' = [wait EXCEPT ![k] = @ - 1]
            /\ pc' = [pc EXCEPT ![t] = "run"]
            /\ call' = [call EXCEPT ![t].on = Nobody]
         \/ /\ ~(wait[k] > 0)
            /\ pc' = [pc EXCEPT ![t] = "blocked"]
            /\ UNCHANGED <<wait, call>>
  BY <1>0 DEF cancel_wait, queue
<1>3. TaskStage(t) /\ k # Nobody /\ call[t].work = Nobody
  BY <1>0, <1>1, <1>2, StagesAre DEF TaskStage
<1>4. call[t] \in Call /\ k \in Worker /\ wait[k] \in Nat /\ wait_count[k] \in Nat
  BY <1>0, <1>1, <1>3 DEF TypeOK, Call
<1>5. /\ pc' \in [Task -> Label] /\ pc'[t] \in {"run", "blocked"}
      /\ call' \in [Task -> Call] /\ wait' \in [Worker -> Nat]
      /\ call'[t].work = call[t].work /\ call'[t].over = call[t].over
      /\ call'[t].on = IF pc'[t] = "run" THEN Nobody ELSE k
      /\ \A u \in Task : u # t => pc'[u] = pc[u] /\ call'[u] = call[u]
  <2>1. CASE wait[k] > 0
    <3>1. /\ wait' = [wait EXCEPT ![k] = @ - 1]
          /\ pc' = [pc EXCEPT ![t] = "run"]
          /\ call' = [call EXCEPT ![t].on = Nobody]
      BY <1>2, <2>1
    <3>2. [call[t] EXCEPT !.on = Nobody] \in Call
      BY <1>4 DEF Call
    <3> QED BY <1>1, <1>4, <2>1, <3>1, <3>2 DEF TypeOK, Label, Call
  <2>2. CASE ~(wait[k] > 0)
    BY <1>0, <1>1, <1>2, <2>2 DEF TypeOK, Label
  <2> QED BY <2>1, <2>2
<1>6. TypeOK'
  BY <1>1, <1>2, <1>5 DEF TypeOK
<1>7. Listed'
  <2>1. Early' = Early
    BY <1>2, EarlyKept
  <2> QED BY <1>1, <1>2, <2>1, ListedKept
<1>8. Stages'
  <2>1. \A v \in Worker : WorkerStage(v)'
    BY <1>1, <1>2, StagesAre DEF WorkerStage
  <2>2. ASSUME NEW u \in Task, u # t PROVE TaskStage(u)'
    <3>1. TaskStage(u) /\ pc'[u] = pc[u] /\ call'[u] = call[u]
      BY <1>1, <1>5, <2>2, StagesAre
    <3> QED BY ONLY <3>1, <1>2 DEF TaskStage
  <2>3. TaskStage(t)'
    BY <1>3, <1>5 DEF TaskStage
  <2>4. OneRuns'
    BY <1>1, <1>2, StagesAre DEF OneRuns, Active
  <2>5. OneCalls'
    <3>1. \A u \in Task : call'[u].work = call[u].work
      BY <1>5
    <3> QED BY <1>1, <3>1, OneCallsKept, StagesAre
  <2> QED BY <2>1, <2>2, <2>3, <2>4, <2>5, StagesAre
<1>9. Clock'
  <2>1. queued' \subseteq Work
    BY <1>1, <1>2 DEF TypeOK
  <2> QED BY <1>1, <1>2, <2>1, ClockKept
<1>10. Sleepers'
  BY <1>1, <1>2, SleepersKept
<1>11. NoStrandedWork'
  <2>1. Demand' = Demand /\ Demand \in Nat
    BY <1>1, <1>2 DEF Demand, ListsOK
  <2>2. Demand' <= Demand + (IF pc'[t] = "post" THEN 1 ELSE 0)
                          - (IF pc[t] = "post" THEN 1 ELSE 0)
    BY <1>2, <1>5, <2>1
  <2> QED BY <1>1, <1>2, <1>5, <2>1, <2>2, StrandedTask
<1>12. Sync'
  <2>1. /\ \A l \in Worker : /\ wait[l] + wait_count[l] = Cardinality(Syncing(l))
                             /\ Asleep(l) # {} => wait[l] = 0
                             /\ wait_count[l] > 0 => job[l] # Nobody
        /\ \A u \in Task \ Canceller : call[u].on = Nobody /\ call[u].over
    BY <1>1 DEF Sync
  <2>2. t \in Canceller
    BY <1>0, <1>3, <2>1
  <2>3. ASSUME NEW l \in Worker, l # k
        PROVE  Syncing(l)' = Syncing(l) /\ Asleep(l)' = Asleep(l) /\ wait'[l] = wait[l]
    <3>1. call[t].on # l /\ call'[t].on # l
      BY <2>3, <1>3, <1>5, WQueueAssumption, <1>0
    <3>2. wait'[l] = wait[l]
      BY <1>1, <1>2, <2>3 DEF TypeOK
    <3> QED BY <3>1, <3>2, <1>5 DEF Syncing, Asleep
  <2>4. /\ wait'[k] + wait_count'[k] = Cardinality(Syncing(k)')
        /\ Asleep(k)' # {} => wait'[k] = 0
    <3>1. CASE wait[k] > 0
      <4>1. wait'[k] = wait[k] - 1 /\ call'[t].on = Nobody /\ pc'[t] = "run"
        BY <1>1, <1>2, <1>4, <1>5, <3>1 DEF TypeOK
      <4>2. Asleep(k) = {} /\ Asleep(k)' = {}
        <5>1. Asleep(k) = {}
          BY <1>4, <2>1, <3>1
        <5> QED BY <5>1, <4>1, <1>5 DEF Asleep
      <4>3. Syncing(k)' = Syncing(k) \ {t} /\ t \in Syncing(k)
        BY <1>0, <1>3, <1>5, <4>1 DEF Syncing
      <4>4. Cardinality(Syncing(k)') = Cardinality(Syncing(k)) - 1
        BY <4>3, SyncingFinite, FS_RemoveElement
      <4> QED BY <1>2, <1>4, <2>1, <4>1, <4>2, <4>4
    <3>2. CASE ~(wait[k] > 0)
      <4>1. wait' = wait /\ call' = call /\ wait[k] = 0
        BY <1>2, <1>4, <3>2
      <4>2. Syncing(k)' = Syncing(k)
        BY <4>1 DEF Syncing
      <4> QED BY <1>2, <1>4, <2>1, <4>1, <4>2
    <3> QED BY <3>1, <3>2
  <2>5. ASSUME NEW l \in Worker
        PROVE  /\ wait'[l] + wait_count'[l] = Cardinality(Syncing(l)')
               /\ Asleep(l)' # {} => wait'[l] = 0
               /\ wait_count'[l] > 0 => job'[l] # Nobody
    BY <1>2, <2>1, <2>3, <2>4
  <2>6. \A u \in Task \ Canceller : call'[u].on = Nobody /\ call'[u].over
    BY <1>5, <2>1, <2>2
  <2>7. ASSUME \A u, v \in Canceller : u = v, NEW u \in Task, ~call'[u].over
        PROVE  call'[u].on # Nobody /\ wait'[call'[u].on] = 0
    <3>1. u = t /\ ~call[t].over
      BY <2>2, <2>6, <2>7, <1>5
    <3>2. wait[k] = 0
      BY <1>0, <2>7, <3>1, <1>1 DEF Sync
    <3>3. wait' = wait /\ call' = call
      BY <1>2, <3>2
    <3> QED BY <3>1, <3>2, <3>3, <1>3, <1>0
  <2> QED BY <2>5, <2>6, <2>7 DEF Sync
<1> QED BY <1>6, <1>7, <1>8, <1>9, <1>10, <1>11, <1>12 DEF IInv

-----------------------------------------------------------------------------
(* The steps of the workers *)

\* nxsem_wait on wqueue->sem takes a post, or the worker sleeps.
LEMMA WorkWaitStep ==
    ASSUME IInv, NEW k \in Worker, work_wait(k)
    PROVE  IInv'
<1>1. TypeOK /\ Listed /\ Stages /\ Clock /\ Sleepers /\ NoStrandedWork /\ Sync /\ ListsOK
  BY ListsAre DEF IInv
<1>2. /\ UNCHANGED <<ticks, expired, pending, qtime, queued, timer>>
      /\ UNCHANGED <<job, wait, wait_count, pc, call>>
      /\ wpc[k] = "wait"
      /\ \/ /\ sem > 0 /\ sem' = sem - 1 /\ wpc' = [wpc EXCEPT ![k] = "loop"] /\ idle' = idle
         \/ /\ ~(sem > 0) /\ sem' = sem /\ wpc' = [wpc EXCEPT ![k] = "idle"]
            /\ idle' = Append(idle, k)
  BY DEF work_wait, queue
<1>3. sem \in 0..MaxSem /\ sem \in Nat /\ MaxSem \in Nat /\ idle \in Seq(Worker)
  BY <1>1, WQueueAssumption DEF TypeOK
<1>4. /\ wpc' \in [Worker -> WorkerLabel] /\ wpc'[k] \in {"loop", "idle"}
      /\ \A v \in Worker : v # k => wpc'[v] = wpc[v]
  BY <1>1, <1>2 DEF TypeOK, WorkerLabel
<1>5. TypeOK'
  <2>1. idle' \in Seq(Worker) /\ sem' \in 0..MaxSem
    BY <1>2, <1>3
  <2> QED BY <1>1, <1>2, <1>4, <2>1 DEF TypeOK
<1>6. Listed'
  <2>1. Early' = Early
    BY <1>2, <1>4, EarlyKept
  <2> QED BY <1>1, <1>2, <2>1, ListedKept
<1>7. Stages'
  <2>1. ASSUME NEW v \in Worker PROVE WorkerStage(v)'
    <3>1. WorkerStage(v)
      BY <1>1, StagesAre
    <3> QED BY <1>2, <1>4, <3>1 DEF WorkerStage
  <2>2. ASSUME NEW u \in Task PROVE TaskStage(u)'
    <3>1. TaskStage(u)
      BY <1>1, StagesAre
    <3> QED BY ONLY <3>1, <1>2 DEF TaskStage
  <2>3. OneRuns'
    BY <1>1, <1>2, <1>4, StagesAre, OneRunsKept DEF Active
  <2>4. OneCalls'
    BY <1>1, <1>2, StagesAre DEF OneCalls
  <2> QED BY <2>1, <2>2, <2>3, <2>4, StagesAre
<1>8. Clock'
  <2>1. queued' \subseteq Work
    BY <1>1, <1>2 DEF TypeOK
  <2> QED BY <1>1, <1>2, <2>1, ClockKept
<1>9. Sleepers'
  <2>1. CASE sem > 0
    BY <1>1, <1>2, <1>4, <2>1 DEF Sleepers, TypeOK
  <2>2. CASE ~(sem > 0)
    <3>1. idle' = Append(idle, k) /\ wpc'[k] = "idle"
      BY <1>1, <1>2, <2>2 DEF TypeOK
    <3>2. Distinct(idle) /\ Members(idle) = {v \in Worker : wpc[v] = "idle"}
      BY <1>1 DEF Sleepers
    <3>3. k \notin Members(idle)
      BY <3>2, <1>2
    <3>t. AddedTail(Worker, idle', idle, k)
      BY ONLY <1>3, <3>1, <3>2, <3>3, AddTail, k \in Worker
    <3>4. Distinct(idle') /\ Members(idle') = Members(idle) \cup {k}
      BY ONLY <3>t DEF AddedTail
    <3>5. Members(idle') = {v \in Worker : wpc'[v] = "idle"}
      BY <3>1, <3>2, <3>4, <1>4
    <3> QED BY <3>4, <3>5 DEF Sleepers
  <2> QED BY <2>1, <2>2
<1>10. NoStrandedWork'
  <2>1. Supply(sem, wpc', pc) = Supply(sem, wpc, pc) + Counts(wpc'[k]) - Counts(wpc[k])
    BY ONLY <1>3, <1>4, SupplyWorker, k \in Worker
  <2>2. Supply(sem, wpc, pc) \in Nat
    BY ONLY <1>3, SupplyNat
  <2>3. Counts("loop") = 1 /\ Counts("wait") = 0 /\ Counts("idle") = 0
    BY DEF Counts
  <2>4. Demand' = Demand /\ Demand <= Supply(sem, wpc, pc)
    BY <1>1, <1>2, StrandedIs DEF Demand
  <2>5. CASE sem > 0
    <3>1. wpc'[k] = "loop" /\ sem' = sem - 1 /\ pc' = pc
      BY <1>1, <1>2, <2>5 DEF TypeOK
    <3>2. Supply(sem, wpc', pc) = Supply(sem, wpc, pc) + 1
      BY ONLY <2>1, <2>2, <2>3, <3>1, <1>2
    <3>3. /\ Cardinality(Where(wpc', Worker, "loop")) \in Nat
          /\ Cardinality(Where(wpc', Worker, "nextpost")) \in Nat
          /\ Cardinality(Where(pc, Task, "post")) \in Nat
      BY WQueueAssumption, WhereNat
    <3>4. Supply(sem', wpc', pc') = Supply(sem, wpc', pc) - 1
      BY ONLY <1>3, <3>1, <3>3 DEF Supply
    <3>5. Supply(sem', wpc', pc') = Supply(sem, wpc, pc)
      BY ONLY <2>2, <3>2, <3>4
    <3> QED BY ONLY <2>4, <3>5, StrandedIsNext
  <2>6. CASE ~(sem > 0)
    <3>1. wpc'[k] = "idle" /\ sem' = sem /\ pc' = pc
      BY <1>1, <1>2, <2>6 DEF TypeOK
    <3>2. Supply(sem, wpc', pc) = Supply(sem, wpc, pc)
      BY ONLY <2>1, <2>2, <2>3, <3>1, <1>2
    <3> QED BY ONLY <2>4, <3>1, <3>2, StrandedIsNext
  <2> QED BY <2>5, <2>6
<1>11. Sync'
  BY <1>1, <1>2, SyncKept
<1> QED BY <1>5, <1>6, <1>7, <1>8, <1>9, <1>10, <1>11 DEF IInv

\* A worker moves, and nothing is posted.
LEMMA StrandedWorker ==
    ASSUME TypeOK, NoStrandedWork, UNCHANGED <<sem, pc>>, NEW k \in Worker,
           \A v \in Worker : v # k => wpc'[v] = wpc[v], Demand \in Nat, Demand' \in Nat,
           Demand' <= Demand + Counts(wpc'[k]) - Counts(wpc[k])
    PROVE  NoStrandedWork'
<1>1. sem \in Nat
  BY WQueueAssumption DEF TypeOK
<1>2. Supply(sem, wpc', pc) = Supply(sem, wpc, pc) + Counts(wpc'[k]) - Counts(wpc[k])
  BY ONLY <1>1, SupplyWorker, k \in Worker, \A v \in Worker : v # k => wpc'[v] = wpc[v]
<1>3. Supply(sem, wpc, pc) \in Nat
  BY ONLY <1>1, SupplyNat
<1>4. Demand <= Supply(sem, wpc, pc)
  BY StrandedIs
<1>5. Counts(wpc'[k]) \in Nat /\ Counts(wpc[k]) \in Nat
  BY DEF Counts
<1>6. Demand' <= Supply(sem, wpc', pc)
  BY ONLY <1>2, <1>3, <1>4, <1>5, Demand \in Nat, Demand' \in Nat,
          Demand' <= Demand + Counts(wpc'[k]) - Counts(wpc[k])
<1> QED BY <1>6, StrandedIsNext

\* A worker that is awake posts, and goes on to another place.
PostedAt(n, k, l) ==
    /\ wpc' \in [Worker -> WorkerLabel] /\ idle' \in Seq(Worker) /\ sem' \in 0..MaxSem
    /\ Sleepers' /\ wpc'[k] = l
    /\ \A v \in Worker : v # k => wpc'[v] = wpc[v] \/ (wpc[v] = "idle" /\ wpc'[v] = "loop")

LEMMA PostAt ==
    ASSUME TypeOK, Sleepers, NEW k \in Worker, wpc[k] # "idle",
           NEW l \in WorkerLabel, l # "idle", NEW n \in Nat,
           NEW at, at = [wpc EXCEPT ![k] = l], Post(n, at)
    PROVE  /\ Posted(n, at) /\ PostedAt(n, k, l)
           /\ \A p : Supply(sem, at, p) = Supply(sem, wpc, p) + Counts(l) - Counts(wpc[k])
<1>1. /\ idle \in Seq(Worker) /\ Distinct(idle) /\ sem \in 0..MaxSem /\ sem \in Nat
      /\ wpc \in [Worker -> WorkerLabel] /\ Members(idle) = {v \in Worker : wpc[v] = "idle"}
  BY WQueueAssumption DEF TypeOK, Sleepers
<1>2. /\ at \in [Worker -> WorkerLabel] /\ at[k] = l
      /\ \A v \in Worker : v # k => at[v] = wpc[v]
  BY <1>1
<1>3. Members(idle) = Where(at, Worker, "idle")
  BY <1>1, <1>2 DEF Where
<1>4. Posted(n, at)
  BY ONLY <1>1, <1>2, <1>3, PostWakes, Post(n, at), n \in Nat
<1>5. PostedAt(n, k, l)
  BY <1>2, <1>4 DEF Posted, PostedAt
<1>6. ASSUME NEW p
      PROVE  Supply(sem, at, p) = Supply(sem, wpc, p) + Counts(l) - Counts(wpc[k])
  <2>1. sem \in Nat /\ \A v \in Worker : v # k => at[v] = wpc[v]
    BY <1>1, <1>2
  <2>2. Supply(sem, at, p) = Supply(sem, wpc, p) + Counts(at[k]) - Counts(wpc[k])
    BY ONLY <2>1, SupplyWorker, k \in Worker
  <2> QED BY ONLY <1>2, <2>2
<1> QED BY <1>4, <1>5, <1>6

LEMMA NextPostStep ==
    ASSUME IInv, NEW k \in Worker, next_post(k)
    PROVE  IInv'
<1> DEFINE at == [wpc EXCEPT ![k] = "done"]
<1>1. TypeOK /\ Listed /\ Stages /\ Clock /\ Sleepers /\ NoStrandedWork /\ Sync /\ ListsOK
  BY ListsAre DEF IInv
<1>2. /\ UNCHANGED <<ticks, expired, pending, qtime, queued, timer>>
      /\ UNCHANGED <<job, wait, wait_count, pc, call>>
      /\ wpc[k] = "nextpost" /\ Post(1, at)
  BY DEF next_post, queue
<1>3. "done" \in WorkerLabel
  BY DEF WorkerLabel
<1> HIDE DEF at
<1>4. /\ Posted(1, at) /\ PostedAt(1, k, "done")
      /\ \A p : Supply(sem, at, p) = Supply(sem, wpc, p) + Counts("done") - Counts(wpc[k])
  <2>1. at = [wpc EXCEPT ![k] = "done"]
    BY DEF at
  <2> QED BY ONLY <1>1, <1>2, <1>3, <2>1, PostAt, k \in Worker, 1 \in Nat
<1>5. /\ wpc' \in [Worker -> WorkerLabel] /\ idle' \in Seq(Worker) /\ sem' \in 0..MaxSem
      /\ Sleepers' /\ wpc'[k] = "done"
      /\ \A v \in Worker : v # k => wpc'[v] = wpc[v] \/ (wpc[v] = "idle" /\ wpc'[v] = "loop")
  BY <1>4 DEF PostedAt
<1>6. TypeOK'
  BY <1>1, <1>2, <1>5 DEF TypeOK
<1>7. Listed'
  <2>1. Early' = Early
    BY <1>2, <1>5, EarlyKept
  <2> QED BY <1>1, <1>2, <2>1, ListedKept
<1>8. Stages'
  <2>1. ASSUME NEW v \in Worker PROVE WorkerStage(v)'
    <3>1. WorkerStage(v)
      BY <1>1, StagesAre
    <3>2. CASE v = k
      BY <1>2, <1>5, <3>1, <3>2 DEF WorkerStage
    <3>3. CASE v # k
      BY <1>2, <1>5, <3>1, <3>3, WorkerKept
    <3> QED BY <3>2, <3>3
  <2>2. ASSUME NEW u \in Task PROVE TaskStage(u)'
    <3>1. TaskStage(u)
      BY <1>1, StagesAre
    <3> QED BY ONLY <3>1, <1>2 DEF TaskStage
  <2>3. OneRuns'
    BY <1>1, <1>2, <1>5, StagesAre, OneRunsKept DEF Active
  <2>4. OneCalls'
    BY <1>1, <1>2, StagesAre DEF OneCalls
  <2> QED BY <2>1, <2>2, <2>3, <2>4, StagesAre
<1>9. Clock'
  <2>1. queued' \subseteq Work
    BY <1>1, <1>2 DEF TypeOK
  <2> QED BY <1>1, <1>2, <2>1, ClockKept
<1>10. NoStrandedWork'
  <2>1. Counts("done") = 0 /\ Counts("nextpost") = 1
    BY DEF Counts
  <2>2. sem \in Nat
    BY <1>1, WQueueAssumption DEF TypeOK
  <2>3. Supply(sem, wpc, pc) \in Nat
    BY ONLY <2>2, SupplyNat
  <2>4. Supply(sem, at, pc) = Supply(sem, wpc, pc) - 1
    BY ONLY <1>2, <1>4, <2>1, <2>3
  <2>5. Demand' = Demand /\ Demand <= Supply(sem, wpc, pc)
    BY <1>1, <1>2, StrandedIs DEF Demand
  <2>6. Demand' <= Supply(sem, at, pc') + 1
    BY ONLY <1>2, <2>3, <2>4, <2>5
  <2> QED BY ONLY <1>4, <1>6, <1>7, <2>6, StrandedPost, 1 \in Nat
<1>11. Sync'
  BY <1>1, <1>2, SyncKept
<1> QED BY <1>5, <1>6, <1>7, <1>8, <1>9, <1>10, <1>11 DEF IInv

\* The fields of a work that is queued again are set before the lock is taken.
LEMMA QueueNextStep ==
    ASSUME IInv, NEW k \in Worker, NEW d \in Delay, work_queue_next(k, d)
    PROVE  IInv'
<1>0. PICK w : w = job[k]
  OBVIOUS
<1>1. TypeOK /\ Listed /\ Stages /\ Clock /\ Sleepers /\ NoStrandedWork /\ Sync /\ ListsOK
  BY ListsAre DEF IInv
<1>2. /\ UNCHANGED <<ticks, expired, pending, timer, sem, idle, job, wait, wait_count, pc, call>>
      /\ wpc[k] = "busy" /\ w \in Periodic /\ w \notin queued
      /\ queued' = queued \cup {w}
      /\ qtime' = [qtime EXCEPT ![w] = After(qtime[w], d)]
      /\ wpc' = [wpc EXCEPT ![k] = IF d > 0 THEN "next" ELSE "nextnow"]
  BY <1>0 DEF work_queue_next
<1>3. WorkerStage(k) /\ OneRuns /\ OneCalls
  BY <1>1, StagesAre
<1>4. /\ ticks \in Tick /\ w \in Work /\ qtime[w] \in Tick /\ d \in Nat
      /\ Off(ticks, qtime[w]) <= MaxLag + 1 /\ Off(ticks, qtime[w]) \in Nat
  <2>1. ticks \in Tick /\ w \in Work /\ qtime[w] \in Tick /\ d \in Nat
    BY <1>1, <1>2, Constants, WQueueAssumption DEF TypeOK
  <2> QED BY <2>1, <1>0, <1>2, <1>3, OffInt DEF WorkerStage
<1>5. Off(ticks, qtime[w]) + d < Half
  BY <1>4, Constants
<1>6. /\ After(qtime[w], d) \in Tick
      /\ Off(ticks, After(qtime[w], d)) = Off(ticks, qtime[w]) + d
  BY ONLY <1>4, <1>5, AfterIs
<1>7. /\ qtime' \in [Work -> Tick] /\ qtime'[w] = After(qtime[w], d)
      /\ \A x \in Work : x # w => qtime'[x] = qtime[x]
      /\ wpc' \in [Worker -> WorkerLabel] /\ wpc'[k] = IF d > 0 THEN "next" ELSE "nextnow"
      /\ \A v \in Worker : v # k => wpc'[v] = wpc[v]
  BY <1>1, <1>2, <1>4, <1>6 DEF TypeOK, WorkerLabel
<1>8. TypeOK'
  BY <1>1, <1>2, <1>4, <1>7 DEF TypeOK
<1>9. Listed'
  <2>1. w \notin Early
    BY <1>1, <1>2, EarlyPeriodic
  <2>2. Early' = Early \cup {w}
    BY <1>0, <1>2, <1>4, <1>7 DEF Early
  <2> QED BY <1>1, <1>2, <2>1, <2>2, ListedKept
<1>10. Stages'
  <2>1. ASSUME NEW v \in Worker, v # k PROVE WorkerStage(v)'
    <3>1. WorkerStage(v) /\ wpc'[v] = wpc[v]
      BY <1>1, <1>7, <2>1, StagesAre
    <3>2. Active(v) /\ job[v] \in Periodic => job[v] # w
      BY <1>0, <1>2, <1>3, <2>1 DEF OneRuns, Active
    <3>3. Active(v) /\ job[v] \in Periodic =>
                (job[v] \in queued' <=> job[v] \in queued) /\ qtime'[job[v]] = qtime[job[v]]
      BY <1>2, <1>7, <3>2, WQueueAssumption
    <3> QED BY ONLY <3>1, <3>3, <1>2, WorkerKept, v \in Worker
  <2>2. WorkerStage(k)'
    <3>1. d = 0 => Off(ticks, qtime'[w]) <= MaxLag + 1
      BY <1>4, <1>6, <1>7
    <3>2. d > 0 \/ d = 0
      BY <1>4
    <3>3. w # Nobody /\ w \in queued' /\ job'[k] = w /\ ticks' = ticks
      BY <1>0, <1>2, <1>4, WQueueAssumption
    <3> QED BY <3>1, <3>2, <3>3, <1>2, <1>7 DEF WorkerStage
  <2>3. ASSUME NEW u \in Task PROVE TaskStage(u)'
    <3>1. TaskStage(u)
      BY <1>1, StagesAre
    <3>2. pc[u] = "lock" /\ call[u].work \in Periodic =>
                call[u].work \notin queued' /\ \A v \in Worker : job'[v] # call[u].work
      BY <3>1, <1>0, <1>2 DEF TaskStage
    <3> QED BY ONLY <3>1, <3>2, <1>2, TaskKept, u \in Task
  <2>4. OneRuns'
    BY <1>2, <1>3, <1>7, OneRunsKept DEF Active
  <2>5. OneCalls'
    BY <1>2, <1>3 DEF OneCalls
  <2> QED BY <2>1, <2>2, <2>3, <2>4, <2>5, StagesAre
<1>11. Clock'
  <2>1. queued' \subseteq Work /\ queued \subseteq queued'
    BY <1>1, <1>2, <1>4 DEF TypeOK
  <2>2. \A x \in queued : qtime'[x] = qtime[x]
    BY <1>1, <1>2, <1>7 DEF TypeOK
  <2>3. \A x \in queued' \ queued : Off(ticks, qtime'[x]) < Half
    BY <1>2, <1>5, <1>6, <1>7
  <2> QED BY <1>1, <1>2, <2>1, <2>2, <2>3, ClockKept
<1>12. Sleepers'
  <2>1. \A v \in Worker : wpc'[v] = "idle" <=> wpc[v] = "idle"
    BY <1>2, <1>7
  <2> QED BY <1>1, <1>2, <2>1, SleepersKept
<1>13. NoStrandedWork'
  <2>1. Demand' = Demand /\ Demand \in Nat
    BY <1>1, <1>2 DEF Demand, ListsOK
  <2>2. Counts(wpc'[k]) = 0 /\ Counts(wpc[k]) = 0
    BY <1>2, <1>7 DEF Counts
  <2> QED BY <1>1, <1>2, <1>7, <2>1, <2>2, StrandedWorker
<1>14. Sync'
  BY <1>1, <1>2, SyncKept
<1> QED BY <1>8, <1>9, <1>10, <1>11, <1>12, <1>13, <1>14 DEF IInv

\* The lists when work_queue_next has put its work into one of them
LEMMA NextLists ==
    ASSUME TypeOK, ListsOK, Clock, UNCHANGED <<ticks, qtime>>, NEW w \in queued,
           w \notin Members(pending), pending' = work_insert_pending(pending, qtime[w], w),
           expired' = expired,
           timer' = IF Place(pending, qtime[w]) = 0 THEN wd_start(qtime[w]) ELSE timer
    PROVE  /\ pending' \in Seq(Work) /\ Distinct(pending') /\ Descending(pending', Key')
           /\ Members(pending') = Members(pending) \cup {w}
           /\ timer' \in [on : BOOLEAN, at : Tick]
           /\ timer'.on => pending' # <<>> /\ timer'.at = qtime'[pending'[1]]
           /\ Demand \in Nat /\ Demand' \in Nat /\ Demand' <= Demand
<1> DEFINE due == qtime[w]
<1>1. w \in Work /\ due \in Tick /\ ticks \in Tick /\ Off(ticks, due) < Half
  BY DEF TypeOK, Clock
<1>2. Key[w] = -Off(ticks, due)
  BY <1>1 DEF Key
<1>3. Proper(pending, Work, Key) /\ Keyed(pending, Key)
  BY DEF ListsOK
<1> HIDE DEF due
<1>p. pending' = work_insert_pending(pending, due, w)
  BY DEF due
<1>4. Inserted(pending', pending, Key, w, due)
  BY ONLY <1>1, <1>2, <1>3, <1>p, InsertPending, w \notin Members(pending)
<1>5. /\ Proper(pending', Work, Key) /\ Members(pending') = Members(pending) \cup {w}
      /\ pending' # <<>>
      /\ pending'[1] = IF Place(pending, due) = 0 THEN w ELSE pending[1]
      /\ Place(pending, due) # 0 => pending # <<>>
  BY ONLY <1>4 DEF Inserted
<1>6. Key' = Key
  BY DEF Key
<1>7. pending' \in Seq(Work) /\ Distinct(pending') /\ Descending(pending', Key')
  BY <1>5, <1>6 DEF Proper
<1>8. timer' = IF Place(pending, due) = 0 THEN wd_start(due) ELSE timer
  BY DEF due
<1>9. timer' \in [on : BOOLEAN, at : Tick]
  BY <1>1, <1>8 DEF wd_start, TypeOK
<1>10. timer'.on => pending' # <<>> /\ timer'.at = qtime'[pending'[1]]
  BY <1>5, <1>8 DEF wd_start, Clock, due
<1>11. timer'.on \/ (pending # <<>> /\ ~timer.on)
  BY <1>5, <1>8 DEF wd_start
<1>12. Demand \in Nat /\ Demand' \in Nat /\ Demand' <= Demand
  BY <1>11 DEF Demand, ListsOK
<1> QED BY <1>5, <1>7, <1>9, <1>10, <1>12

LEMMA NextLockedStep ==
    ASSUME IInv, NEW k \in Worker, next_locked(k)
    PROVE  IInv'
<1>0. PICK w : w = job[k]
  OBVIOUS
<1>1. TypeOK /\ Listed /\ Stages /\ Clock /\ Sleepers /\ NoStrandedWork /\ Sync /\ ListsOK
  BY ListsAre DEF IInv
<1>2. /\ UNCHANGED <<ticks, qtime, queued, sem, idle, job, wait, wait_count, pc, call>>
      /\ wpc[k] \in {"next", "nextnow"}
      /\ \/ /\ wpc[k] = "next"
            /\ pending' = work_insert_pending(pending, qtime[w], w)
            /\ timer' = IF Place(pending, qtime[w]) = 0 THEN wd_start(qtime[w]) ELSE timer
            /\ wpc' = [wpc EXCEPT ![k] = "done"]
            /\ expired' = expired
         \/ /\ wpc[k] = "nextnow"
            /\ expired' = Append(expired, w)
            /\ wpc' = [wpc EXCEPT ![k] = "nextpost"]
            /\ UNCHANGED <<pending, timer>>
  BY <1>0 DEF next_locked
<1>3. WorkerStage(k) /\ OneRuns /\ OneCalls
  BY <1>1, StagesAre
<1>4. /\ w \in Periodic /\ w \in Work /\ w \in queued /\ w \in Early /\ w # Nobody
      /\ w \notin Members(pending) /\ w \notin Members(expired)
  <2>1. w \in Periodic /\ w \in queued /\ w \in Work /\ w # Nobody
    BY <1>0, <1>2, <1>3, WQueueAssumption DEF WorkerStage
  <2>2. w \in Early
    BY <2>1, <1>0, <1>2 DEF Early
  <2> QED BY <2>1, <2>2, <1>1 DEF Listed
<1>5. /\ wpc' \in [Worker -> WorkerLabel] /\ wpc'[k] \in {"done", "nextpost"}
      /\ \A v \in Worker : v # k => wpc'[v] = wpc[v]
  BY <1>1, <1>2 DEF TypeOK, WorkerLabel
<1>6. Early' = Early \ {w}
  <2>1. \A v \in Worker : v # k /\ wpc[v] \in {"next", "nextnow"} => job[v] # w
    BY <1>0, <1>2, <1>3, <1>4 DEF OneRuns, Active
  <2> QED BY <2>1, <1>0, <1>2, <1>5 DEF Early
<1>7. Stages'
  <2>1. ASSUME NEW v \in Worker, v # k PROVE WorkerStage(v)'
    <3>1. WorkerStage(v) /\ wpc'[v] = wpc[v]
      BY <1>1, <1>5, <2>1, StagesAre
    <3> QED BY ONLY <3>1, <1>2, WorkerKept, v \in Worker
  <2>2. WorkerStage(k)'
    BY <1>0, <1>2, <1>4, <1>5 DEF WorkerStage
  <2>3. ASSUME NEW u \in Task PROVE TaskStage(u)'
    <3>1. TaskStage(u)
      BY <1>1, StagesAre
    <3> QED BY ONLY <3>1, <1>2 DEF TaskStage
  <2>4. OneRuns'
    BY <1>2, <1>3, <1>5, OneRunsKept DEF Active
  <2>5. OneCalls'
    BY <1>2, <1>3 DEF OneCalls
  <2> QED BY <2>1, <2>2, <2>3, <2>4, <2>5, StagesAre
<1>8. Sleepers'
  <2>1. \A v \in Worker : wpc'[v] = "idle" <=> wpc[v] = "idle"
    BY <1>2, <1>5
  <2> QED BY <1>1, <1>2, <2>1, SleepersKept
<1>9. Sync'
  BY <1>1, <1>2, SyncKept
<1>10. \A x \in queued' : Off(ticks', qtime'[x]) < Half
  BY <1>1, <1>2 DEF Clock
<1>11. \A x \in Members(expired) : Off(ticks, qtime[x]) <= MaxLag + 1
  BY <1>1 DEF Clock
<1>12. CASE wpc[k] = "next"
  <2>1. /\ pending' \in Seq(Work) /\ Distinct(pending') /\ Descending(pending', Key')
        /\ Members(pending') = Members(pending) \cup {w}
        /\ timer' \in [on : BOOLEAN, at : Tick]
        /\ timer'.on => pending' # <<>> /\ timer'.at = qtime'[pending'[1]]
        /\ Demand \in Nat /\ Demand' \in Nat /\ Demand' <= Demand
    BY <1>1, <1>2, <1>4, <1>12, NextLists
  <2>2. expired' = expired /\ wpc'[k] = "done"
    BY <1>1, <1>2, <1>12 DEF TypeOK
  <2>3. TypeOK'
    BY <1>1, <1>2, <1>5, <2>1, <2>2 DEF TypeOK
  <2>4. Listed'
    BY <1>1, <1>2, <1>4, <1>6, <2>1, <2>2 DEF Listed
  <2>5. Clock'
    BY <1>2, <1>10, <1>11, <2>1, <2>2 DEF Clock
  <2>6. NoStrandedWork'
    <3>1. Counts(wpc'[k]) = 0 /\ Counts(wpc[k]) = 0
      BY <1>12, <2>2 DEF Counts
    <3> QED BY <1>1, <1>2, <1>5, <2>1, <3>1, StrandedWorker
  <2> QED BY <1>7, <1>8, <1>9, <2>3, <2>4, <2>5, <2>6 DEF IInv
<1>13. CASE wpc[k] = "nextnow"
  <2>1. expired' = Append(expired, w) /\ UNCHANGED <<pending, timer>> /\ wpc'[k] = "nextpost"
    BY <1>1, <1>2, <1>13 DEF TypeOK
  <2>2. expired \in Seq(Work) /\ Distinct(expired)
    BY <1>1 DEF ListsOK
  <2>3. AddedTail(Work, expired', expired, w)
    BY ONLY <1>4, <2>1, <2>2, AddTail
  <2>4. /\ expired' \in Seq(Work) /\ Distinct(expired')
        /\ Members(expired') = Members(expired) \cup {w} /\ Len(expired') = Len(expired) + 1
    BY ONLY <2>3 DEF AddedTail
  <2>5. TypeOK'
    BY <1>1, <1>2, <1>5, <2>1, <2>4 DEF TypeOK
  <2>6. Listed'
    BY <1>1, <1>2, <1>4, <1>6, <2>1, <2>4 DEF Listed
  <2>7. Clock'
    <3>1. Off(ticks, qtime[w]) <= MaxLag + 1
      BY <1>0, <1>3, <1>4, <1>13 DEF WorkerStage
    <3>2. Descending(pending', Key')
      BY <1>1, <1>2, <2>1 DEF Clock, Key
    <3>3. \A x \in Members(expired') : Off(ticks', qtime'[x]) <= MaxLag + 1
      BY <3>1, <1>2, <1>11, <2>4
    <3> QED BY <1>1, <1>2, <1>10, <2>1, <3>2, <3>3 DEF Clock
  <2>8. NoStrandedWork'
    <3>1. Counts(wpc'[k]) = 1 /\ Counts(wpc[k]) = 0
      BY <1>13, <2>1 DEF Counts
    <3>2. Demand \in Nat /\ Demand' \in Nat /\ Demand' = Demand + 1
      BY <2>1, <2>2, <2>4 DEF Demand
    <3> QED BY <1>1, <1>2, <1>5, <3>1, <3>2, StrandedWorker
  <2> QED BY <1>7, <1>8, <1>9, <2>5, <2>6, <2>7, <2>8 DEF IInv
<1> QED BY <1>2, <1>12, <1>13

\* The end of a callback wakes all tasks that sleep for it: kworker->wait_count
\* has counted them, and posts that are left over are for those on their way.
LEMMA AllWoken ==
    ASSUME TypeOK, Sync, NEW k \in Worker, NEW woken \in SUBSET Asleep(k),
           IF wait_count[k] < Cardinality(Asleep(k))
           THEN Cardinality(woken) = wait_count[k] ELSE woken = Asleep(k)
    PROVE  woken = Asleep(k) /\ Cardinality(woken) \in Nat /\ Cardinality(woken) <= wait_count[k]
<1>1. /\ wait[k] \in Nat /\ wait_count[k] \in Nat
      /\ wait[k] + wait_count[k] = Cardinality(Syncing(k))
      /\ Asleep(k) # {} => wait[k] = 0
  BY DEF TypeOK, Sync
<1>2. /\ Cardinality(Asleep(k)) \in Nat /\ Cardinality(Syncing(k)) \in Nat
      /\ Cardinality(Asleep(k)) <= Cardinality(Syncing(k))
  BY SyncingFinite
<1>3. Cardinality({}) = 0
  BY FS_EmptySet
<1>4. ~(wait_count[k] < Cardinality(Asleep(k)))
  <2>1. CASE Asleep(k) = {}
    BY ONLY <1>1, <1>3, <2>1
  <2>2. CASE Asleep(k) # {}
    BY ONLY <1>1, <1>2, <2>2
  <2> QED BY <2>1, <2>2
<1> QED BY <1>1, <1>2, <1>4

\* The tasks after that
LEMMA ReleasedIs ==
    ASSUME TypeOK, NEW k \in Worker, NEW woken \in SUBSET Asleep(k), Released(k, woken)
    PROVE  /\ pc' \in [Task -> Label] /\ call' \in [Task -> Call]
           /\ \A t \in Task : /\ pc'[t] = IF t \in woken THEN "run" ELSE pc[t]
                              /\ call'[t].work = call[t].work /\ call'[t].due = call[t].due
                              /\ call'[t].delay = call[t].delay
                              /\ call'[t].on = IF t \in woken THEN Nobody ELSE call[t].on
                              /\ call'[t].over <=> call[t].over \/ t \in Syncing(k)
<1>1. /\ pc' = [t \in Task |-> IF t \in woken THEN "run" ELSE pc[t]]
      /\ call' = [t \in Task |-> [call[t] EXCEPT !.over = @ \/ t \in Syncing(k),
                                                 !.on = IF t \in woken THEN Nobody ELSE @]]
  BY DEF Released
<1>2. pc' \in [Task -> Label]
  BY <1>1 DEF TypeOK, Label
<1>3. ASSUME NEW t \in Task
      PROVE  /\ call'[t] \in Call
             /\ call'[t].work = call[t].work /\ call'[t].due = call[t].due
             /\ call'[t].delay = call[t].delay
             /\ call'[t].on = IF t \in woken THEN Nobody ELSE call[t].on
             /\ call'[t].over <=> call[t].over \/ t \in Syncing(k)
  <2>1. call'[t] = [call[t] EXCEPT !.over = @ \/ t \in Syncing(k),
                                   !.on = IF t \in woken THEN Nobody ELSE @]
    BY <1>1
  <2>2. call[t] \in Call
    BY DEF TypeOK
  <2>3. call[t].over \in BOOLEAN /\ call[t].on \in Worker \cup {Nobody}
    BY <2>2 DEF Call
  <2> QED BY <2>1, <2>2, <2>3 DEF Call
<1>4. call' \in [Task -> Call]
  BY <1>1, <1>3
<1> QED BY <1>1, <1>2, <1>3, <1>4

LEMMA DoneSync ==
    ASSUME TypeOK, Sync, NEW k \in Worker, NEW woken, woken = Asleep(k),
           Cardinality(woken) \in Nat,
           job' = [job EXCEPT ![k] = Nobody], wait_count' = [wait_count EXCEPT ![k] = 0],
           wait' = [wait EXCEPT ![k] = @ + (wait_count[k] - Cardinality(woken))],
           \A t \in Task : /\ pc'[t] = IF t \in woken THEN "run" ELSE pc[t]
                           /\ call'[t].on = IF t \in woken THEN Nobody ELSE call[t].on
                           /\ call'[t].over <=> call[t].over \/ t \in Syncing(k)
    PROVE  Sync'
<1>1. /\ \A l \in Worker : /\ wait[l] + wait_count[l] = Cardinality(Syncing(l))
                           /\ Asleep(l) # {} => wait[l] = 0
                           /\ wait_count[l] > 0 => job[l] # Nobody
      /\ \A u \in Task \ Canceller : call[u].on = Nobody /\ call[u].over
  BY DEF Sync
<1>2. /\ \A l \in Worker : wait[l] \in Nat /\ wait_count[l] \in Nat /\ l # Nobody
      /\ \A l \in Worker : l # k => wait'[l] = wait[l] /\ wait_count'[l] = wait_count[l]
                                        /\ job'[l] = job[l]
      /\ wait'[k] = wait[k] + (wait_count[k] - Cardinality(woken)) /\ wait_count'[k] = 0
  BY WQueueAssumption DEF TypeOK
<1>3. ASSUME NEW l \in Worker, l # k PROVE Syncing(l)' = Syncing(l) /\ Asleep(l)' = Asleep(l)
  <2>1. \A t \in Task : t \in woken => call[t].on = k /\ call'[t].on = Nobody
    BY DEF Asleep
  <2>2. l # Nobody
    BY <1>2
  <2> QED BY <1>3, <2>1, <2>2 DEF Syncing, Asleep
<1>4. Syncing(k)' = Syncing(k) \ woken /\ Asleep(k)' = {}
  <2>1. k # Nobody
    BY <1>2
  <2> QED BY <2>1 DEF Syncing, Asleep
<1>5. Cardinality(Syncing(k)') = Cardinality(Syncing(k)) - Cardinality(woken)
  <2>1. woken \subseteq Syncing(k) /\ IsFiniteSet(Syncing(k)) /\ IsFiniteSet(woken)
    BY SyncingFinite
  <2>2. Syncing(k) \cap woken = woken
    BY <2>1
  <2>3. Cardinality(Syncing(k) \ woken) = Cardinality(Syncing(k)) - Cardinality(Syncing(k) \cap woken)
    BY <2>1, FS_Difference
  <2> QED BY <1>4, <2>2, <2>3
<1>6. ASSUME NEW l \in Worker
      PROVE  /\ wait'[l] + wait_count'[l] = Cardinality(Syncing(l)')
             /\ Asleep(l)' # {} => wait'[l] = 0
             /\ wait_count'[l] > 0 => job'[l] # Nobody
  <2>1. CASE l = k
    <3>1. /\ wait[k] + wait_count[k] = Cardinality(Syncing(k))
          /\ wait[k] \in Nat /\ wait_count[k] \in Nat
      BY <1>1, <1>2
    <3>2. wait'[k] + wait_count'[k] = Cardinality(Syncing(k)')
      BY ONLY <3>1, <1>2, <1>5, Cardinality(woken) \in Nat
    <3> QED BY <2>1, <3>2, <1>2, <1>4
  <2>2. CASE l # k
    BY <2>2, <1>1, <1>2, <1>3
  <2> QED BY <2>1, <2>2
<1>7. \A u \in Task \ Canceller : call'[u].on = Nobody /\ call'[u].over
  BY <1>1
<1>8. ASSUME \A u, v \in Canceller : u = v, NEW u \in Task, ~call'[u].over
      PROVE  call'[u].on # Nobody /\ wait'[call'[u].on] = 0
  <2>1. ~call[u].over /\ call[u].on # k
    BY <1>8 DEF Syncing
  <2>2. call[u].on # Nobody /\ wait[call[u].on] = 0
    BY <1>8, <2>1 DEF Sync
  <2>3. call[u].on \in Worker
    BY <2>2 DEF TypeOK, Call
  <2>4. u \notin woken
    BY <2>1 DEF Asleep
  <2> QED BY <2>1, <2>2, <2>3, <2>4, <1>2
<1> QED BY <1>6, <1>7, <1>8 DEF Sync

LEMMA WorkDoneStep ==
    ASSUME IInv, NEW k \in Worker, work_done(k)
    PROVE  IInv'
<1>0. PICK w : w = job[k]
  OBVIOUS
<1>1. TypeOK /\ Listed /\ Stages /\ Clock /\ Sleepers /\ NoStrandedWork /\ Sync /\ ListsOK
  BY ListsAre DEF IInv
<1>2. /\ UNCHANGED <<ticks, expired, pending, queued, timer, sem, idle>>
      /\ wpc[k] \in {"busy", "done"} /\ wpc' = [wpc EXCEPT ![k] = "wait"]
      /\ job' = [job EXCEPT ![k] = Nobody] /\ wait_count' = [wait_count EXCEPT ![k] = 0]
      /\ qtime' = IF w \in queued \/ Running(w) # {k} THEN qtime ELSE [qtime EXCEPT ![w] = 0]
  BY <1>0 DEF work_done, Finished
<1>3. PICK woken \in SUBSET Asleep(k) :
        /\ IF wait_count[k] < Cardinality(Asleep(k))
           THEN Cardinality(woken) = wait_count[k] ELSE woken = Asleep(k)
        /\ wait' = [wait EXCEPT ![k] = @ + (wait_count[k] - Cardinality(woken))]
        /\ Released(k, woken)
  BY DEF work_done
<1>4. woken = Asleep(k) /\ Cardinality(woken) \in Nat /\ Cardinality(woken) <= wait_count[k]
  BY <1>1, <1>3, AllWoken
<1>5. /\ pc' \in [Task -> Label] /\ call' \in [Task -> Call]
      /\ \A t \in Task : /\ pc'[t] = IF t \in woken THEN "run" ELSE pc[t]
                         /\ call'[t].work = call[t].work /\ call'[t].due = call[t].due
                         /\ call'[t].delay = call[t].delay
                         /\ call'[t].on = IF t \in woken THEN Nobody ELSE call[t].on
                         /\ call'[t].over <=> call[t].over \/ t \in Syncing(k)
  BY <1>1, <1>3, ReleasedIs
<1>6. /\ w \in Work /\ WorkerStage(k)
      /\ wpc' \in [Worker -> WorkerLabel] /\ wpc'[k] = "wait" /\ job'[k] = Nobody
      /\ \A v \in Worker : v # k => wpc'[v] = wpc[v] /\ job'[v] = job[v]
      /\ job' \in [Worker -> Work \cup {Nobody}]
  <2>1. WorkerStage(k)
    BY <1>1, StagesAre
  <2> QED BY <1>0, <1>1, <1>2, <2>1 DEF TypeOK, WorkerLabel, WorkerStage
<1>7. /\ qtime' \in [Work -> Tick]
      /\ \A x \in Work : qtime'[x] # qtime[x] => x = w /\ w \notin queued /\ Running(w) = {k}
  <2>1. 0 \in Tick
    BY Constants DEF Tick
  <2> QED BY <1>1, <1>2, <1>6, <2>1 DEF TypeOK
<1>8. TypeOK'
  <2>1. wait' \in [Worker -> Nat] /\ wait_count' \in [Worker -> Nat]
    <3>1. wait[k] \in Nat /\ wait_count[k] \in Nat
      BY <1>1 DEF TypeOK
    <3>2. wait[k] + (wait_count[k] - Cardinality(woken)) \in Nat
      BY <1>4, <3>1
    <3> QED BY <1>1, <1>2, <1>3, <3>2 DEF TypeOK
  <2> QED BY <1>1, <1>2, <1>5, <1>6, <1>7, <2>1 DEF TypeOK
<1>9. Listed'
  <2>1. Early' = Early
    BY <1>2, <1>6, EarlyKept
  <2> QED BY <1>1, <1>2, <2>1, ListedKept
<1>10. Stages'
  <2>1. ASSUME NEW v \in Worker, v # k PROVE WorkerStage(v)'
    <3>1. WorkerStage(v) /\ wpc'[v] = wpc[v] /\ job'[v] = job[v]
      BY <1>1, <1>6, <2>1, StagesAre
    <3>2. job[v] \in Periodic => qtime'[job[v]] = qtime[job[v]]
      BY <1>7, <2>1, WQueueAssumption DEF Running
    <3> QED BY ONLY <3>1, <3>2, <1>2, WorkerKept, v \in Worker
  <2>2. WorkerStage(k)'
    <3>1. Nobody \notin Periodic
      BY WQueueAssumption
    <3> QED BY <3>1, <1>6 DEF WorkerStage
  <2>3. ASSUME NEW u \in Task PROVE TaskStage(u)'
    <3>1. TaskStage(u)
      BY <1>1, StagesAre
    <3>2. u \in woken => pc[u] = "blocked"
      BY <1>3 DEF Asleep
    <3>3. /\ pc'[u] = IF u \in woken THEN "run" ELSE pc[u]
          /\ call'[u].work = call[u].work /\ call'[u].due = call[u].due
          /\ call'[u].delay = call[u].delay
          /\ call'[u].on = IF u \in woken THEN Nobody ELSE call[u].on
      BY <1>5
    <3>4. \A v \in Worker : job'[v] = job[v] \/ job'[v] \notin Periodic
      BY <1>6, WQueueAssumption
    <3> QED BY ONLY <3>1, <3>2, <3>3, <3>4, <1>2 DEF TaskStage
  <2>4. OneRuns'
    <3>1. OneRuns
      BY <1>1, StagesAre
    <3> QED BY <3>1, <1>6, OneRunsKept DEF Active
  <2>5. OneCalls'
    BY <1>1, <1>5, StagesAre, OneCallsKept
  <2> QED BY <2>1, <2>2, <2>3, <2>4, <2>5, StagesAre
<1>11. Clock'
  <2>1. queued' \subseteq Work /\ queued \subseteq queued'
    BY <1>1, <1>2 DEF TypeOK
  <2>2. \A x \in queued : qtime'[x] = qtime[x]
    BY <1>7, <2>1
  <2> QED BY <1>1, <1>2, <2>1, <2>2, ClockKept
<1>12. Sleepers'
  <2>1. \A v \in Worker : wpc'[v] = "idle" <=> wpc[v] = "idle"
    BY <1>2, <1>6
  <2> QED BY <1>1, <1>2, <2>1, SleepersKept
<1>13. NoStrandedWork'
  <2>1. Demand' = Demand /\ Demand <= Supply(sem, wpc, pc)
    BY <1>1, <1>2, StrandedIs DEF Demand
  <2>2. Where(pc', Task, "post") = Where(pc, Task, "post")
    BY <1>3, <1>5 DEF Where, Asleep
  <2>3. Where(wpc', Worker, "loop") = Where(wpc, Worker, "loop")
    BY <1>2, <1>6 DEF Where
  <2>4. Where(wpc', Worker, "nextpost") = Where(wpc, Worker, "nextpost")
    BY <1>2, <1>6 DEF Where
  <2>5. Supply(sem', wpc', pc') = Supply(sem, wpc, pc)
    BY ONLY <1>2, <2>2, <2>3, <2>4 DEF Supply
  <2> QED BY ONLY <2>1, <2>5, StrandedIsNext
<1>14. Sync'
  BY <1>1, <1>2, <1>3, <1>4, <1>5, DoneSync
<1> QED BY <1>8, <1>9, <1>10, <1>11, <1>12, <1>13, <1>14 DEF IInv

-----------------------------------------------------------------------------
(* The timer interrupt *)

LEMMA LateTick ==
    ASSUME NEW q \in Tick, NEW now
    PROVE  Late(q, now) \in Tick
<1>1. Ticks \in Nat \ {0} /\ q \in Nat
  BY WQueueAssumption DEF Tick
<1>2. (q + 1) % Ticks \in 0..(Ticks - 1)
  BY <1>1
<1> QED BY <1>2 DEF Late, After, Tick

\* One tick on, the order of the pending works is what it was.
LEMMA TickClock ==
    ASSUME TypeOK, ListsOK, Clock, NEW now, now = After(ticks, 1), ticks' = now,
           UNCHANGED <<expired, pending, queued>>,
           timer' = IF timer.on /\ clock_compare(timer.at, now) THEN TimerOff ELSE timer,
           \A x \in queued : qtime'[x] = Late(qtime[x], now)
    PROVE  Clock'
<1>1. \A x \in queued :
        /\ x \in Work /\ qtime[x] \in Tick /\ Off(ticks, qtime[x]) < Half
        /\ Off(ticks, qtime[x]) \in Nat
  BY OffInt DEF TypeOK, Clock
<1>2. ASSUME NEW x \in queued
      PROVE  /\ Off(now, qtime'[x]) = IF Off(ticks, qtime[x]) = 0 THEN 0
                                      ELSE Off(ticks, qtime[x]) - 1
             /\ ~clock_compare(qtime[x], now) => qtime'[x] = qtime[x]
  <2>1. ticks \in Tick
    BY DEF TypeOK
  <2>2. qtime[x] \in Tick /\ Off(ticks, qtime[x]) < Half
    BY <1>1
  <2>3. /\ Off(now, Late(qtime[x], now)) = IF Off(ticks, qtime[x]) = 0 THEN 0
                                           ELSE Off(ticks, qtime[x]) - 1
        /\ ~clock_compare(qtime[x], now) => Late(qtime[x], now) = qtime[x]
    BY ONLY <2>1, <2>2, LateIs, now = After(ticks, 1)
  <2> QED BY <2>3
<1>3. \A x \in queued' : Off(ticks', qtime'[x]) < Half
  BY <1>1, <1>2, Constants
<1>4. \A x \in Members(expired') : Off(ticks', qtime'[x]) <= MaxLag + 1
  <2>1. \A x \in Members(expired) : x \in queued /\ Off(ticks, qtime[x]) <= MaxLag + 1
    BY DEF ListsOK, Clock
  <2> QED BY <1>1, <1>2, <2>1, Constants
<1>5. Descending(pending', Key')
  <2>1. pending \in Seq(Work) /\ \A i \in DOMAIN pending : pending[i] \in queued
    BY DEF ListsOK, Proper, Members
  <2>2. \A i, j \in DOMAIN pending : i <= j => Key[pending[j]] <= Key[pending[i]]
    BY DEF Clock, Descending
  <2>3. \A x \in queued : /\ Key[x] = -Off(ticks, qtime[x])
                          /\ Key'[x] = -Off(now, qtime'[x])
    BY <1>1 DEF Key
  <2>4. ASSUME NEW i \in DOMAIN pending, NEW j \in DOMAIN pending, i <= j
        PROVE  Key'[pending[j]] <= Key'[pending[i]]
    <3> DEFINE a == Off(ticks, qtime[pending[i]])
               b == Off(ticks, qtime[pending[j]])
    <3>1. a \in Nat /\ b \in Nat /\ -b <= -a
      BY <1>1, <2>1, <2>2, <2>3, <2>4
    <3>2. /\ Key'[pending[i]] = -(IF a = 0 THEN 0 ELSE a - 1)
          /\ Key'[pending[j]] = -(IF b = 0 THEN 0 ELSE b - 1)
      BY <1>2, <2>1, <2>3
    <3> HIDE DEF a, b
    <3> QED BY ONLY <3>1, <3>2
  <2> QED BY <2>4 DEF Descending
<1>6. timer'.on => pending' # <<>> /\ timer'.at = qtime'[pending'[1]]
  <2> SUFFICES ASSUME timer'.on
               PROVE  pending # <<>> /\ timer'.at = qtime'[pending[1]]
    OBVIOUS
  <2>1. timer' = timer /\ timer.on /\ ~clock_compare(timer.at, now)
    BY DEF TimerOff
  <2>2. pending # <<>> /\ timer.at = qtime[pending[1]]
    BY <2>1 DEF Clock
  <2>3. pending[1] \in queued
    BY <2>2 DEF ListsOK, Proper, Members
  <2> QED BY <1>2, <2>1, <2>2, <2>3
<1> QED BY <1>3, <1>4, <1>5, <1>6 DEF Clock

LEMMA TickStep ==
    ASSUME IInv, tick
    PROVE  IInv'
<1>0. PICK now : now = After(ticks, 1)
  OBVIOUS
<1> DEFINE fired == timer.on /\ clock_compare(timer.at, now)
           running == {job[k] : k \in Worker}
<1>1. TypeOK /\ Listed /\ Stages /\ Clock /\ Sleepers /\ NoStrandedWork /\ Sync /\ ListsOK
  BY ListsAre DEF IInv
<1>2. /\ ticks' = now /\ UNCHANGED <<expired, pending, queued, job, wait, wait_count, pc>>
      /\ \/ fired /\ timer' = TimerOff /\ Post(1, wpc)
         \/ ~fired /\ UNCHANGED <<timer, sem, idle, wpc>>
      /\ qtime' = [w \in Work |-> IF w \in queued \/ (w \in Periodic /\ w \in running)
                                  THEN Late(qtime[w], now) ELSE qtime[w]]
      /\ call' = [t \in Task |-> IF pc[t] = "lock"
                                 THEN [call[t] EXCEPT !.due = Late(@, now)] ELSE call[t]]
  BY <1>0 DEF tick
<1>3. /\ ticks \in Tick /\ now \in Tick
      /\ \A q \in Tick : Late(q, now) \in Tick
      /\ \A q \in Tick : Off(ticks, q) < Half =>
            Off(now, Late(q, now)) = IF Off(ticks, q) = 0 THEN 0 ELSE Off(ticks, q) - 1
  <2>1. ticks \in Tick
    BY <1>1 DEF TypeOK
  <2>2. Off(ticks, ticks) < Half
    BY <2>1, NowIs
  <2>3. now \in Tick
    BY ONLY <2>1, <2>2, <1>0, LateIs
  <2>4. ASSUME NEW q \in Tick, Off(ticks, q) < Half
        PROVE  Off(now, Late(q, now)) = IF Off(ticks, q) = 0 THEN 0 ELSE Off(ticks, q) - 1
    BY ONLY <2>1, <2>4, <1>0, LateIs
  <2> QED BY <2>1, <2>3, <2>4, LateTick
<1>4. /\ qtime' \in [Work -> Tick]
      /\ \A x \in queued : qtime'[x] = Late(qtime[x], now)
      /\ \A k \in Worker : job[k] \in Periodic => qtime'[job[k]] = Late(qtime[job[k]], now)
  BY <1>1, <1>2, <1>3, WQueueAssumption DEF TypeOK
<1>5. ASSUME NEW u \in Task
      PROVE  /\ call'[u] \in Call /\ call'[u].work = call[u].work /\ call'[u].on = call[u].on
             /\ call'[u].delay = call[u].delay /\ call'[u].over = call[u].over
             /\ pc[u] = "lock" => call'[u].due = Late(call[u].due, now)
  <2>1. call[u] \in Call
    BY <1>1 DEF TypeOK
  <2>2. Late(call[u].due, now) \in Tick
    BY <2>1, <1>3 DEF Call
  <2>3. call'[u] = IF pc[u] = "lock" THEN [call[u] EXCEPT !.due = Late(@, now)] ELSE call[u]
    BY <1>2
  <2> QED BY <2>1, <2>2, <2>3 DEF Call
<1>6. /\ wpc' \in [Worker -> WorkerLabel] /\ idle' \in Seq(Worker) /\ sem' \in 0..MaxSem
      /\ Sleepers'
      /\ \A v \in Worker : wpc'[v] = wpc[v] \/ (wpc[v] = "idle" /\ wpc'[v] = "loop")
  <2>1. CASE fired
    <3>1. Posted(1, wpc)
      BY <1>1, <1>2, <2>1, PostNow
    <3> QED BY <3>1 DEF Posted
  <2>2. CASE ~fired
    BY <1>1, <1>2, <2>2, SleepersKept DEF TypeOK
  <2> QED BY <2>1, <2>2
<1>7. timer' = (IF fired THEN TimerOff ELSE timer) /\ timer' \in [on : BOOLEAN, at : Tick]
  <2>1. 0 \in Tick
    BY Constants DEF Tick
  <2>2. timer \in [on : BOOLEAN, at : Tick] /\ TimerOff \in [on : BOOLEAN, at : Tick]
    BY <1>1, <2>1 DEF TypeOK, TimerOff
  <2>3. timer' = IF fired THEN TimerOff ELSE timer
    <3> HIDE DEF fired
    <3>1. CASE fired
      BY <1>2, <3>1
    <3>2. CASE ~fired
      BY <1>2, <3>2
    <3> QED BY <3>1, <3>2
  <2> QED BY <2>2, <2>3
<1>8. TypeOK'
  <2>1. call' \in [Task -> Call]
    <3>1. call' = [t \in Task |-> call'[t]]
      BY <1>2
    <3> QED BY <3>1, <1>5
  <2> QED BY <1>1, <1>2, <1>3, <1>4, <1>6, <1>7, <2>1 DEF TypeOK
<1>9. Listed'
  <2>1. Early' = Early
    BY <1>2, <1>6, EarlyKept
  <2> QED BY <1>1, <1>2, <2>1, ListedKept
<1>10. Stages'
  <2>1. ASSUME NEW k \in Worker PROVE WorkerStage(k)'
    <3>1. WorkerStage(k) /\ job'[k] = job[k] /\ queued' = queued
      BY <1>1, <1>2, StagesAre
    <3>2. wpc'[k] = wpc[k] \/ (wpc[k] = "idle" /\ wpc'[k] = "loop")
      BY <1>6
    <3>3. job[k] \in Periodic /\ wpc[k] \in {"busy", "nextnow"}
            => Off(ticks', qtime'[job[k]]) <= MaxLag + 1
      <4> SUFFICES ASSUME job[k] \in Periodic, wpc[k] \in {"busy", "nextnow"}
                   PROVE  Off(now, qtime'[job[k]]) <= MaxLag + 1
        BY <1>2
      <4>1. qtime[job[k]] \in Tick /\ Off(ticks, qtime[job[k]]) <= MaxLag + 1
        BY <1>1, <3>1, WQueueAssumption DEF TypeOK, WorkerStage
      <4>2. Off(ticks, qtime[job[k]]) \in Nat
        BY <1>3, <4>1, OffInt
      <4>3. Off(ticks, qtime[job[k]]) < Half
        BY <4>1, <4>2, Constants
      <4>4. Off(now, qtime'[job[k]]) = IF Off(ticks, qtime[job[k]]) = 0 THEN 0
                                       ELSE Off(ticks, qtime[job[k]]) - 1
        BY <1>3, <1>4, <4>1, <4>3
      <4> QED BY ONLY <4>1, <4>2, <4>4, Constants
    <3> QED BY ONLY <3>1, <3>2, <3>3 DEF WorkerStage
  <2>2. ASSUME NEW u \in Task PROVE TaskStage(u)'
    <3>1. TaskStage(u) /\ pc'[u] = pc[u] /\ queued' = queued /\ job' = job
      BY <1>1, <1>2, StagesAre
    <3>2. /\ call'[u].work = call[u].work /\ call'[u].on = call[u].on
          /\ call'[u].delay = call[u].delay
      BY <1>5
    <3>3. pc[u] = "lock" =>
            /\ Off(ticks', call'[u].due) < Half
            /\ call[u].delay = 0 => Off(ticks', call'[u].due) <= MaxLag + 1
      <4> SUFFICES ASSUME pc[u] = "lock"
                   PROVE  /\ Off(now, call'[u].due) < Half
                          /\ call[u].delay = 0 => Off(now, call'[u].due) <= MaxLag + 1
        BY <1>2
      <4>1. /\ call[u].due \in Tick /\ Off(ticks, call[u].due) < Half
            /\ call[u].delay = 0 => Off(ticks, call[u].due) <= MaxLag + 1
        BY <1>1, <3>1 DEF TypeOK, Call, TaskStage
      <4>2. Off(ticks, call[u].due) \in Nat
        BY <1>3, <4>1, OffInt
      <4>3. Off(now, call'[u].due) = IF Off(ticks, call[u].due) = 0 THEN 0
                                     ELSE Off(ticks, call[u].due) - 1
        BY <1>3, <1>5, <4>1
      <4> QED BY ONLY <4>1, <4>2, <4>3, Constants
    <3> QED BY ONLY <3>1, <3>2, <3>3 DEF TaskStage
  <2>3. OneRuns'
    BY <1>1, <1>2, <1>6, StagesAre, OneRunsKept DEF Active
  <2>4. OneCalls'
    BY <1>1, <1>5, StagesAre, OneCallsKept
  <2> QED BY <2>1, <2>2, <2>3, <2>4, StagesAre
<1>11. Clock'
  BY <1>0, <1>1, <1>2, <1>4, <1>7, TickClock
<1>12. NoStrandedWork'
  <2>1. Demand <= Supply(sem, wpc, pc) /\ sem \in Nat
    BY <1>1, StrandedIs, WQueueAssumption DEF TypeOK
  <2>2. Supply(sem, wpc, pc) \in Nat /\ expired \in Seq(Work)
    BY <1>1, <2>1, SupplyNat DEF TypeOK
  <2>3. CASE fired
    <3>1. Posted(1, wpc)
      BY <1>1, <1>2, <2>3, PostNow
    <3>2. Demand \in Nat /\ Demand' <= Demand + 1
      BY <1>2, <2>2, <2>3 DEF Demand
    <3>3. Demand' \in Nat
      BY <1>2, <2>2 DEF Demand
    <3>4. Demand' <= Supply(sem, wpc, pc') + 1
      BY ONLY <1>2, <2>1, <2>2, <3>2, <3>3
    <3> QED BY ONLY <1>8, <1>9, <3>1, <3>4, StrandedPost, 1 \in Nat
  <2>4. CASE ~fired
    <3>1. Demand' = Demand /\ UNCHANGED <<sem, wpc, pc>>
      BY <1>2, <2>4 DEF Demand
    <3> QED BY ONLY <2>1, <3>1, StrandedIsNext
  <2> QED BY <2>3, <2>4
<1>13. Sync'
  BY <1>1, <1>2, <1>5, SyncKept
<1> QED BY <1>6, <1>8, <1>9, <1>10, <1>11, <1>12, <1>13 DEF IInv

-----------------------------------------------------------------------------
(* The loop of work_thread *)

\* What work_dispatch does: the works that are due follow the expired ones, and
\* the timer runs for what is left.
ReadyOK(n, ready, rest, tm) ==
    /\ n \in Nat /\ ready \in Seq(Work) /\ Distinct(ready) /\ Len(ready) = Len(expired) + n
    /\ Members(ready) \cap Members(rest) = {}
    /\ Members(ready) \cup Members(rest) = Members(expired) \cup Members(pending)
    /\ \A x \in Members(ready) : Off(ticks, qtime[x]) <= MaxLag + 1
    /\ Proper(rest, Work, Key)
    /\ n > 0 => ~timer.on /\ pending # <<>>
    /\ tm \in [on : BOOLEAN, at : Tick]
    /\ tm.on => rest # <<>> /\ tm.at = qtime[rest[1]]
    /\ rest # <<>> => tm.on /\ rest[1] \in Members(rest)

LEMMA ReadyIs ==
    ASSUME TypeOK, ListsOK, Clock, NEW n, n = Moved,
           NEW ready, ready = expired \o SubSeq(pending, 1, n),
           NEW rest, rest = SubSeq(pending, n + 1, Len(pending)),
           NEW tm, tm = IF ~timer.on /\ rest # <<>> THEN wd_start(qtime[rest[1]]) ELSE timer
    PROVE  ReadyOK(n, ready, rest, tm)
<1>1. /\ Proper(pending, Work, Key) /\ Keyed(pending, Key) /\ pending \in Seq(Work)
      /\ expired \in Seq(Work) /\ Distinct(expired)
      /\ Members(expired) \cap Members(pending) = {}
      /\ Members(pending) \subseteq Work
  BY DEF ListsOK, TypeOK
<1>2. n \in 0..Len(pending) /\ n \in Nat /\ Len(pending) \in Nat
  <2>1. AtBoundary(pending, ticks, Place(pending, ticks)) /\ Len(pending) \in Nat
    BY <1>1, PlaceBoundary
  <2> QED BY <2>1 DEF Moved, AtBoundary
<1>3. ~timer.on => \A i \in 1..n : clock_compare(qtime[pending[i]], ticks)
  <2>1. AtBoundary(pending, ticks, Place(pending, ticks))
    BY <1>1, PlaceBoundary
  <2> QED BY <2>1 DEF Moved, AtBoundary
<1>4. timer.on => n = 0
  BY DEF Moved
<1>5. Dispatched(ready, rest, expired, pending, n, Key)
  BY ONLY <1>1, <1>2, Dispatch, ready = expired \o SubSeq(pending, 1, n),
          rest = SubSeq(pending, n + 1, Len(pending))
<1>6. /\ ready \in Seq(Work) /\ Distinct(ready) /\ Len(ready) = Len(expired) + n
      /\ Members(ready) = Members(expired) \cup FirstOf(pending, n)
      /\ Proper(rest, Work, Key)
      /\ Members(rest) = Without(Members(pending), FirstOf(pending, n))
      /\ FirstOf(pending, n) \subseteq Members(pending)
      /\ n = 0 => rest = pending
  BY ONLY <1>5 DEF Dispatched
<1>7. /\ Members(ready) \cap Members(rest) = {}
      /\ Members(ready) \cup Members(rest) = Members(expired) \cup Members(pending)
  BY ONLY <1>1, <1>6 DEF Without
<1>8. \A x \in FirstOf(pending, n) : Off(ticks, qtime[x]) <= MaxLag + 1
  <2> SUFFICES ASSUME NEW x \in FirstOf(pending, n)
               PROVE  Off(ticks, qtime[x]) <= MaxLag + 1
    OBVIOUS
  <2>1. PICK i \in 1..n : x = pending[i]
    BY DEF FirstOf
  <2>2. ~timer.on /\ clock_compare(qtime[x], ticks)
    BY <1>3, <1>4, <2>1
  <2>3. ticks \in Tick /\ qtime[x] \in Tick /\ Off(ticks, qtime[x]) < Half
    BY <1>1, <1>6 DEF Keyed, TypeOK
  <2>4. Off(ticks, ticks) = MaxLag /\ Off(ticks, ticks) < Half
    BY <2>3, NowIs
  <2>5. Off(ticks, qtime[x]) <= MaxLag
    BY ONLY <2>2, <2>3, <2>4, CompareIs
  <2>6. Off(ticks, qtime[x]) \in Nat
    BY <2>3, OffInt
  <2> QED BY ONLY <2>5, <2>6, Constants
<1>9. \A x \in Members(ready) : Off(ticks, qtime[x]) <= MaxLag + 1
  BY <1>6, <1>8 DEF Clock
<1>10. n > 0 => ~timer.on /\ pending # <<>>
  BY <1>1, <1>2, <1>4
<1>11. rest # <<>> => rest[1] \in Members(rest) /\ qtime[rest[1]] \in Tick
  <2> SUFFICES ASSUME rest # <<>> PROVE rest[1] \in Members(rest) /\ rest[1] \in Work
    BY DEF TypeOK
  <2>1. rest \in Seq(Work)
    BY ONLY <1>6 DEF Proper
  <2>2. 1 \in DOMAIN rest
    BY ONLY <2>1, rest # <<>>
  <2> QED BY ONLY <2>1, <2>2 DEF Members
<1>12. tm \in [on : BOOLEAN, at : Tick]
  BY <1>11 DEF TypeOK, wd_start
<1>13. tm.on => rest # <<>> /\ tm.at = qtime[rest[1]]
  BY <1>4, <1>6 DEF Clock, wd_start
<1>14. rest # <<>> => tm.on
  BY DEF wd_start
<1> QED BY <1>2, <1>6, <1>7, <1>9, <1>10, <1>11, <1>12, <1>13, <1>14 DEF ReadyOK

\* The parts of a step of work_thread that the two cases below share
ThreadStep(k, n, ready, rest) ==
    /\ wpc[k] = "loop" /\ pending' = rest
    /\ ReadyOK(n, ready, rest, timer')
    /\ UNCHANGED <<ticks, wait, wait_count, pc, call>>
    /\ \E at : /\ at = [wpc EXCEPT ![k] = IF ready = <<>> THEN "wait" ELSE "busy"]
               /\ Post(IF n > 0 THEN n - 1 ELSE 0, at)

\* A worker that finds nothing to do goes to wait.
LEMMA ThreadWaits ==
    ASSUME IInv, NEW k \in Worker, NEW n, NEW ready, NEW rest, ThreadStep(k, n, ready, rest),
           ready = <<>>, expired' = <<>>, UNCHANGED <<queued, job, qtime>>
    PROVE  IInv'
<1>1. TypeOK /\ Listed /\ Stages /\ Clock /\ Sleepers /\ NoStrandedWork /\ Sync /\ ListsOK
  BY ListsAre DEF IInv
<1>2. /\ wpc[k] = "loop" /\ pending' = rest
      /\ UNCHANGED <<ticks, wait, wait_count, pc, call>>
      /\ n \in Nat /\ Len(ready) = Len(expired) + n
      /\ Members(ready) \cup Members(rest) = Members(expired) \cup Members(pending)
      /\ Proper(rest, Work, Key) /\ timer' \in [on : BOOLEAN, at : Tick]
      /\ timer'.on => rest # <<>> /\ timer'.at = qtime[rest[1]]
      /\ rest # <<>> => timer'.on
  BY DEF ThreadStep, ReadyOK
<1>3. n = 0 /\ expired = <<>>
  BY <1>1, <1>2 DEF TypeOK
<1>4. /\ Members(rest) = Members(pending) /\ rest \in Seq(Work) /\ Distinct(rest)
      /\ Descending(rest, Key) /\ Members(<<>>) = {}
  <2>1. Members(<<>>) = {}
    BY DEF Members
  <2>2. Members(ready) = {} /\ Members(expired) = {}
    BY <1>3, <2>1
  <2>3. Members(rest) = Members(pending)
    BY ONLY <1>2, <2>2
  <2> QED BY <1>2, <2>1, <2>3 DEF Proper
<1>5. PICK at : at = [wpc EXCEPT ![k] = "wait"] /\ Post(0, at)
  <2>1. PICK at : /\ at = [wpc EXCEPT ![k] = IF ready = <<>> THEN "wait" ELSE "busy"]
                  /\ Post(IF n > 0 THEN n - 1 ELSE 0, at)
    BY DEF ThreadStep
  <2>2. (IF n > 0 THEN n - 1 ELSE 0) = 0 /\ at = [wpc EXCEPT ![k] = "wait"]
    BY <1>3, <2>1
  <2> QED BY <2>1, <2>2
<1>6. "wait" \in WorkerLabel /\ 0 \in Nat
  BY DEF WorkerLabel
<1>7. /\ Posted(0, at) /\ PostedAt(0, k, "wait")
      /\ \A p : Supply(sem, at, p) = Supply(sem, wpc, p) + Counts("wait") - Counts(wpc[k])
  BY ONLY <1>1, <1>2, <1>5, <1>6, PostAt, k \in Worker
<1>8. /\ wpc' \in [Worker -> WorkerLabel] /\ idle' \in Seq(Worker) /\ sem' \in 0..MaxSem
      /\ Sleepers' /\ wpc'[k] = "wait"
      /\ \A v \in Worker : v # k => wpc'[v] = wpc[v] \/ (wpc[v] = "idle" /\ wpc'[v] = "loop")
  BY <1>7 DEF PostedAt
<1>9. TypeOK'
  BY <1>1, <1>2, <1>4, <1>8 DEF TypeOK
<1>10. Listed'
  <2>1. Early' = Early
    BY <1>2, <1>8, EarlyKept
  <2> QED BY <1>1, <1>2, <1>3, <1>4, <2>1 DEF Listed
<1>11. Stages'
  <2>1. ASSUME NEW v \in Worker PROVE WorkerStage(v)'
    <3>1. WorkerStage(v)
      BY <1>1, StagesAre
    <3>2. CASE v = k
      BY <1>2, <1>8, <3>1, <3>2 DEF WorkerStage
    <3>3. CASE v # k
      BY <1>2, <1>8, <3>1, <3>3, WorkerKept
    <3> QED BY <3>2, <3>3
  <2>2. ASSUME NEW u \in Task PROVE TaskStage(u)'
    <3>1. TaskStage(u)
      BY <1>1, StagesAre
    <3> QED BY <3>1, <1>2 DEF TaskStage
  <2>3. OneRuns'
    BY <1>1, <1>2, <1>8, StagesAre, OneRunsKept DEF Active
  <2>4. OneCalls'
    BY <1>1, <1>2, StagesAre DEF OneCalls
  <2> QED BY <2>1, <2>2, <2>3, <2>4, StagesAre
<1>12. Clock'
  <2>1. Descending(pending', Key') /\ Members(expired') = {}
    BY <1>2, <1>4 DEF Key
  <2> QED BY <1>1, <1>2, <2>1 DEF Clock
<1>13. NoStrandedWork'
  <2>1. Demand' = 0
    BY <1>2 DEF Demand
  <2>2. sem' \in Nat
    BY <1>8, WQueueAssumption
  <2>3. Supply(sem', wpc', pc') \in Nat
    BY ONLY <2>2, SupplyNat
  <2> QED BY <2>1, <2>3, StrandedIsNext
<1>14. Sync'
  BY <1>1, <1>2, SyncKept
<1> QED BY <1>8, <1>9, <1>10, <1>11, <1>12, <1>13, <1>14 DEF IInv

\* A worker takes the first of the works that are due.
LEMMA ThreadTakes ==
    ASSUME IInv, NEW k \in Worker, NEW n, NEW ready, NEW rest, ThreadStep(k, n, ready, rest),
           ready # <<>>, NEW x, x = ready[1], expired' = Tail(ready), queued' = queued \ {x},
           job' = [job EXCEPT ![k] = x],
           qtime' = IF x \in Periodic THEN qtime ELSE [qtime EXCEPT ![x] = 0]
    PROVE  IInv'
<1>1. TypeOK /\ Listed /\ Stages /\ Clock /\ Sleepers /\ NoStrandedWork /\ Sync /\ ListsOK
  BY ListsAre DEF IInv
<1>2. /\ wpc[k] = "loop" /\ pending' = rest
      /\ UNCHANGED <<ticks, wait, wait_count, pc, call>>
      /\ n \in Nat /\ ready \in Seq(Work) /\ Distinct(ready) /\ Len(ready) = Len(expired) + n
      /\ Members(ready) \cap Members(rest) = {}
      /\ Members(ready) \cup Members(rest) = Members(expired) \cup Members(pending)
      /\ \A y \in Members(ready) : Off(ticks, qtime[y]) <= MaxLag + 1
      /\ Proper(rest, Work, Key)
      /\ n > 0 => ~timer.on /\ pending # <<>>
      /\ timer' \in [on : BOOLEAN, at : Tick]
      /\ timer'.on => rest # <<>> /\ timer'.at = qtime[rest[1]]
      /\ rest # <<>> => timer'.on /\ rest[1] \in Members(rest)
  BY DEF ThreadStep, ReadyOK
<1>3. TookFirst(expired', ready)
  BY ONLY <1>2, TakeFirst, ready # <<>>, expired' = Tail(ready)
<1>4. /\ expired' \in Seq(Work) /\ Distinct(expired') /\ Members(expired') = Members(ready) \ {x}
      /\ Len(expired') = Len(ready) - 1 /\ x \in Members(ready) /\ x \in Work
  BY ONLY <1>3, x = ready[1] DEF TookFirst
<1>5. /\ x \in queued /\ x \notin Early /\ x # Nobody /\ x \notin Members(rest)
      /\ Off(ticks, qtime[x]) <= MaxLag + 1
  <2>1. x \in Members(expired) \cup Members(pending) /\ x \notin Members(rest)
    BY ONLY <1>2, <1>4
  <2>2. x \in queued \ Early
    BY <1>1, <2>1 DEF Listed
  <2> QED BY <1>2, <1>4, <2>1, <2>2, WQueueAssumption
<1>6. x \in Periodic => \A v \in Worker : Active(v) => job[v] # x
  <2>1. \A v \in Worker : WorkerStage(v)
    BY <1>1, StagesAre
  <2> SUFFICES ASSUME x \in Periodic, NEW v \in Worker, Active(v), job[v] = x PROVE FALSE
    OBVIOUS
  <2>2. CASE wpc[v] = "busy"
    BY <1>5, <2>1, <2>2 DEF WorkerStage
  <2>3. CASE wpc[v] \in {"next", "nextnow"}
    BY <1>4, <1>5, <2>3 DEF Early
  <2> QED BY <2>2, <2>3 DEF Active
<1>7. PICK at : /\ at = [wpc EXCEPT ![k] = "busy"]
                /\ Post(IF n > 0 THEN n - 1 ELSE 0, at)
  BY DEF ThreadStep
<1> DEFINE m == IF n > 0 THEN n - 1 ELSE 0
<1>8. m \in Nat /\ "busy" \in WorkerLabel /\ Post(m, at)
  BY <1>2, <1>7 DEF WorkerLabel
<1> HIDE DEF m
<1>9. /\ Posted(m, at) /\ PostedAt(m, k, "busy")
      /\ \A p : Supply(sem, at, p) = Supply(sem, wpc, p) + Counts("busy") - Counts(wpc[k])
  <2>1. at = [wpc EXCEPT ![k] = "busy"] /\ wpc[k] # "idle"
    BY <1>2, <1>7
  <2> QED BY ONLY <1>1, <1>8, <2>1, PostAt, k \in Worker
<1>10. /\ wpc' \in [Worker -> WorkerLabel] /\ idle' \in Seq(Worker) /\ sem' \in 0..MaxSem
       /\ Sleepers' /\ wpc'[k] = "busy"
       /\ \A v \in Worker : v # k => wpc'[v] = wpc[v] \/ (wpc[v] = "idle" /\ wpc'[v] = "loop")
  BY <1>9 DEF PostedAt
<1>11. /\ qtime' \in [Work -> Tick] /\ \A y \in Work : y # x => qtime'[y] = qtime[y]
       /\ x \in Periodic => qtime'[x] = qtime[x]
       /\ job' \in [Worker -> Work \cup {Nobody}] /\ job'[k] = x
       /\ \A v \in Worker : v # k => job'[v] = job[v]
  <2>1. 0 \in Tick
    BY Constants DEF Tick
  <2>2. qtime \in [Work -> Tick] /\ job \in [Worker -> Work \cup {Nobody}]
    BY <1>1 DEF TypeOK
  <2> QED BY <1>4, <2>1, <2>2
<1>12. TypeOK'
  <2>1. queued' \subseteq Work /\ pending' \in Seq(Work)
    BY <1>1, <1>2 DEF TypeOK, Proper
  <2> QED BY <1>1, <1>2, <1>4, <1>10, <1>11, <2>1 DEF TypeOK
<1>13. Listed'
  <2>1. Early' = Early
    <3>1. \A v \in Worker : /\ wpc'[v] \in {"next", "nextnow"} <=> wpc[v] \in {"next", "nextnow"}
                            /\ wpc[v] \in {"next", "nextnow"} => job'[v] = job[v]
      BY <1>2, <1>10, <1>11
    <3> QED BY <3>1, EarlyKept
  <2>2. Distinct(pending')
    BY ONLY <1>2 DEF Proper
  <2>3. /\ Members(expired') \cap Members(pending') = {}
        /\ Members(expired') \cup Members(pending')
            = (Members(expired) \cup Members(pending)) \ {x}
    BY ONLY <1>2, <1>4, <1>5
  <2>4. Members(expired) \cup Members(pending) = queued \ Early
    BY <1>1 DEF Listed
  <2> QED BY <1>4, <2>1, <2>2, <2>3, <2>4 DEF Listed
<1>14. Stages'
  <2>1. ASSUME NEW v \in Worker, v # k PROVE WorkerStage(v)'
    <3>1. /\ WorkerStage(v) /\ job'[v] = job[v]
          /\ wpc'[v] = wpc[v] \/ (wpc[v] = "idle" /\ wpc'[v] = "loop")
      BY <1>1, <1>10, <1>11, <2>1, StagesAre
    <3>2. Active(v) /\ job[v] \in Periodic =>
                (job[v] \in queued' <=> job[v] \in queued) /\ qtime'[job[v]] = qtime[job[v]]
      BY <1>6, <1>11, WQueueAssumption
    <3> QED BY ONLY <3>1, <3>2, <1>2, WorkerKept, v \in Worker
  <2>2. WorkerStage(k)'
    <3>1. x \notin queued' /\ (x \in Periodic => Off(ticks', qtime'[x]) <= MaxLag + 1)
      BY <1>2, <1>5, <1>11
    <3> QED BY <3>1, <1>5, <1>10, <1>11 DEF WorkerStage
  <2>3. ASSUME NEW u \in Task PROVE TaskStage(u)'
    <3>1. TaskStage(u) /\ pc'[u] = pc[u] /\ call'[u] = call[u] /\ ticks' = ticks
      BY <1>1, <1>2, StagesAre
    <3>2. pc[u] = "lock" /\ call[u].work \in Periodic =>
                call[u].work \notin queued' /\ \A v \in Worker : job'[v] # call[u].work
      BY <3>1, <1>5, <1>11 DEF TaskStage
    <3> QED BY ONLY <3>1, <3>2, TaskKept, u \in Task
  <2>4. OneRuns'
    <3>1. OneRuns
      BY <1>1, StagesAre
    <3>2. \A v \in Worker : v # k /\ wpc'[v] \in {"busy", "next", "nextnow"} =>
                                Active(v) /\ job'[v] = job[v]
      BY <1>10, <1>11 DEF Active
    <3>3. \A v \in Worker : v # k /\ wpc'[v] \in {"busy", "next", "nextnow"}
                                /\ job'[v] = x => x \notin Periodic
      BY <3>2, <1>6
    <3> QED BY <3>1, <3>2, <3>3, <1>11 DEF OneRuns, Active
  <2>5. OneCalls'
    BY <1>1, <1>2, StagesAre DEF OneCalls
  <2> QED BY <2>1, <2>2, <2>3, <2>4, <2>5, StagesAre
<1>15. Clock'
  <2>1. \A y \in queued' : Off(ticks', qtime'[y]) < Half
    BY <1>1, <1>2, <1>11 DEF Clock, TypeOK
  <2>2. \A y \in Members(expired') : Off(ticks', qtime'[y]) <= MaxLag + 1
    <3>1. \A y \in Members(ready) : y \in Work
      <4>1. Members(ready) \subseteq Members(expired) \cup Members(pending)
        BY ONLY <1>2
      <4> QED BY <1>1, <4>1 DEF ListsOK
    <3> QED BY <1>2, <1>4, <1>11, <3>1
  <2>3. \A y \in Members(rest) : y \in Work /\ KeyNext[y] = Key[y] /\ qtime'[y] = qtime[y]
    <3>1. \A y \in Members(rest) : y \in Work /\ y # x
      <4>1. Members(rest) \subseteq Members(expired) \cup Members(pending)
        BY ONLY <1>2
      <4> QED BY <1>1, <1>5, <4>1 DEF ListsOK
    <3> QED BY <3>1, <1>2, <1>11 DEF KeyNext, Key
  <2>4. Proper(rest, Work, KeyNext)
    BY ONLY <1>2, <2>3, ProperOver
  <2>5. Descending(pending', Key')
    BY <1>2, <2>4 DEF Proper, Key, KeyNext
  <2>6. timer'.on => pending' # <<>> /\ timer'.at = qtime'[pending'[1]]
    BY <1>2, <2>3
  <2> QED BY <2>1, <2>2, <2>5, <2>6 DEF Clock
<1>16. NoStrandedWork'
  <2>1. Len(expired) \in Nat /\ sem \in Nat
    BY <1>1, WQueueAssumption DEF TypeOK
  <2>2. Demand' = Len(expired) + n - 1
    BY <1>2, <1>4, <2>1 DEF Demand
  <2>3. Demand = Len(expired) + 1 \/ (n = 0 /\ Demand \in Nat /\ Demand >= Len(expired))
    BY <1>2, <2>1 DEF Demand
  <2>4. Demand <= Supply(sem, wpc, pc) /\ Supply(sem, wpc, pc) \in Nat
    BY <1>1, <2>1, StrandedIs, SupplyNat
  <2>5. Counts("busy") = 0 /\ Counts("loop") = 1
    BY DEF Counts
  <2>6. Supply(sem, at, pc) = Supply(sem, wpc, pc) - 1
    BY ONLY <1>2, <1>9, <2>4, <2>5
  <2>7. m = IF n > 0 THEN n - 1 ELSE 0
    BY DEF m
  <2>8. Demand' <= Supply(sem, at, pc) + m
    BY ONLY <1>2, <2>1, <2>2, <2>3, <2>4, <2>6, <2>7
  <2>9. Demand' <= Supply(sem, at, pc') + m
    BY ONLY <1>2, <2>8
  <2> QED BY ONLY <1>8, <1>9, <1>12, <1>13, <2>9, StrandedPost
<1>17. Sync'
  BY <1>1, <1>2, <1>5, <1>11, SyncKept
<1> QED BY <1>10, <1>12, <1>13, <1>14, <1>15, <1>16, <1>17 DEF IInv

LEMMA WorkThreadStep ==
    ASSUME IInv, NEW k \in Worker, work_thread(k)
    PROVE  IInv'
<1> DEFINE n == Moved
           ready == expired \o SubSeq(pending, 1, n)
           rest == SubSeq(pending, n + 1, Len(pending))
           at == [wpc EXCEPT ![k] = IF ready = <<>> THEN "wait" ELSE "busy"]
<1>1. TypeOK /\ ListsOK /\ Clock
  BY ListsAre DEF IInv
<1>2. /\ wpc[k] = "loop" /\ pending' = rest
      /\ timer' = IF ~timer.on /\ rest # <<>> THEN wd_start(qtime[rest[1]]) ELSE timer
      /\ Post(IF n > 0 THEN n - 1 ELSE 0, at)
      /\ expired' = IF ready = <<>> THEN <<>> ELSE Tail(ready)
      /\ queued' = IF ready = <<>> THEN queued ELSE queued \ {ready[1]}
      /\ job' = IF ready = <<>> THEN job ELSE [job EXCEPT ![k] = ready[1]]
      /\ qtime' = IF ready = <<>> \/ ready[1] \in Periodic THEN qtime
                  ELSE [qtime EXCEPT ![ready[1]] = 0]
      /\ UNCHANGED <<ticks, wait, wait_count, pc, call>>
  BY DEF work_thread
<1>3. ReadyOK(n, ready, rest, timer')
  BY <1>1, <1>2, ReadyIs
<1>4. ThreadStep(k, n, ready, rest)
  <2> HIDE DEF n, ready, rest
  <2> QED BY <1>2, <1>3 DEF ThreadStep
<1> HIDE DEF n, ready, rest, at
<1>5. CASE ready = <<>>
  BY <1>2, <1>4, <1>5, ThreadWaits
<1>6. CASE ready # <<>>
  BY <1>2, <1>4, <1>6, ThreadTakes
<1> QED BY <1>5, <1>6

-----------------------------------------------------------------------------
(* The theorems *)

LEMMA InitIInv == Init => IInv
<1> SUFFICES ASSUME Init PROVE IInv
  OBVIOUS
<1>1. 0 \in Tick /\ MaxSem \in Nat
  BY Constants, WQueueAssumption DEF Tick
<1>2. NoCall \in Call /\ TimerOff \in [on : BOOLEAN, at : Tick]
  BY <1>1 DEF NoCall, Call, TimerOff
<1>3. TypeOK
  BY <1>1, <1>2 DEF Init, TypeOK, WorkerLabel, Label
<1>4. Members(<<>>) = {} /\ Distinct(<<>>) /\ \A P : Descending(<<>>, P)
  BY DEF Members, Distinct, Descending
<1>5. Listed
  <2>1. Early = {}
    BY DEF Init, Early
  <2> QED BY <1>4, <2>1 DEF Init, Listed
<1>6. Stages
  <2>1. /\ \A k \in Worker : wpc[k] = "loop" /\ job[k] = Nobody
        /\ \A t \in Task : pc[t] = "run" /\ call[t].work = Nobody /\ call[t].on = Nobody
        /\ Nobody \notin Periodic
    BY WQueueAssumption DEF Init, NoCall
  <2> QED BY <2>1 DEF Stages, WorkerStage, TaskStage, Active
<1>7. Clock
  BY <1>4 DEF Init, Clock, TimerOff
<1>8. Sleepers
  BY <1>4 DEF Init, Sleepers
<1>9. NoStrandedWork
  <2>1. Demand = 0 /\ sem \in Nat
    BY DEF Init, Demand
  <2>2. Supply(sem, wpc, pc) \in Nat
    BY ONLY <2>1, SupplyNat
  <2> QED BY <2>1, <2>2, StrandedIs
<1>10. Sync
  <2>1. \A k \in Worker : k # Nobody
    BY WQueueAssumption
  <2>2. ASSUME NEW k \in Worker PROVE Cardinality(Syncing(k)) = 0 /\ Asleep(k) = {}
    <3>1. Syncing(k) = {} /\ Asleep(k) = {}
      BY <2>1 DEF Init, Syncing, Asleep, NoCall
    <3> QED BY <3>1, FS_EmptySet
  <2>3. /\ \A k \in Worker : wait[k] = 0 /\ wait_count[k] = 0
        /\ \A t \in Task : call[t].on = Nobody /\ call[t].over
    BY DEF Init, NoCall
  <2> QED BY <2>2, <2>3 DEF Sync
<1> QED BY <1>3, <1>5, <1>6, <1>7, <1>8, <1>9, <1>10 DEF IInv

LEMMA StutterIInv == ASSUME IInv, UNCHANGED vars PROVE IInv'
<1>1. /\ UNCHANGED <<ticks, expired, pending, qtime, queued, timer, sem, idle>>
      /\ UNCHANGED <<wpc, job, wait, wait_count, pc, call>>
  BY DEF vars, queue, workers
<1>2. TypeOK' /\ Sleepers' /\ NoStrandedWork'
  BY <1>1 DEF IInv, TypeOK, Sleepers, NoStrandedWork
<1>3. Listed'
  BY <1>1 DEF IInv, Listed, Early
<1>4. Stages'
  BY <1>1 DEF IInv, Stages, WorkerStage, TaskStage, Active
<1>5. Clock'
  BY <1>1 DEF IInv, Clock, Key
<1>6. Sync'
  BY <1>1 DEF IInv, Sync, Syncing, Asleep
<1> QED BY <1>2, <1>3, <1>4, <1>5, <1>6 DEF IInv

LEMMA NextIInv == ASSUME IInv, [Next]_vars PROVE IInv'
<1>1. CASE tick
  BY <1>1, TickStep
<1>2. ASSUME NEW k \in Worker, WorkerStep(k) PROVE IInv'
  BY <1>2, WorkThreadStep, NextLockedStep, NextPostStep, WorkDoneStep, WorkWaitStep
     DEF WorkerStep
<1>3. ASSUME NEW k \in Worker, NEW d \in Delay, work_queue_next(k, d) PROVE IInv'
  BY <1>3, QueueNextStep
<1>4. ASSUME NEW t \in Task, TaskStep(t) PROVE IInv'
  BY <1>4, LockedStep, PostStep, CancelWaitStep DEF TaskStep
<1>5. ASSUME NEW t \in Task, NEW w \in Work, NEW d \in Delay, work_queue(t, w, d) PROVE IInv'
  BY <1>5, WorkQueueStep
<1>6. ASSUME NEW t \in Task, NEW w \in Work, NEW sync \in BOOLEAN, work_qcancel(t, w, sync)
      PROVE  IInv'
  BY <1>6, CancelStep
<1>7. CASE UNCHANGED vars
  BY <1>7, StutterIInv
<1> QED BY <1>1, <1>2, <1>3, <1>4, <1>5, <1>6, <1>7 DEF Next

LEMMA Invariance == Spec => []IInv
<1>1. IInv /\ [Next]_vars => IInv'
  BY NextIInv
<1> QED BY InitIInv, <1>1, PTL DEF Spec

\* Every variable keeps its type: in particular sem stays within the bound of
\* the model, and no post of kworker->wait is taken twice.
THEOREM WQueueTypeCorrect == Spec => []TypeOK
<1>1. IInv => TypeOK
  BY DEF IInv
<1> QED BY <1>1, Invariance, PTL

\* No work is left behind: for every expired work, and for pending works whose
\* timer does not run, a worker is on its way to the lists or a post is, with
\* any number of workers, works, tasks and interrupts.
THEOREM WQueueNoStrandedWork == Spec => []NoStrandedWork
<1>1. IInv => NoStrandedWork
  BY DEF IInv
<1> QED BY <1>1, Invariance, PTL

\* The order of the pending works and the timer of the first one, across every
\* wrap-around of a clock of any size.
THEOREM WQueueTimerIsForFirst == Spec => []TimerIsForFirst
<1>1. ASSUME IInv PROVE TimerIsForFirst
  <2>1. TypeOK /\ Clock /\ ListsOK
    BY <1>1, ListsAre DEF IInv
  <2>2. timer.on => pending # <<>> /\ timer.at = qtime[pending[1]]
    BY <2>1 DEF Clock
  <2>3. ASSUME NEW i \in DOMAIN pending, NEW j \in DOMAIN pending, i <= j
        PROVE  clock_compare(qtime[pending[i]], qtime[pending[j]])
    <3>1. pending[i] \in Members(pending) /\ pending[j] \in Members(pending)
      BY DEF Members
    <3>2. \A x \in Members(pending) :
            qtime[x] \in Tick /\ Off(ticks, qtime[x]) < Half /\ Key[x] = -Off(ticks, qtime[x])
      BY <2>1 DEF ListsOK, Keyed
    <3> DEFINE a == qtime[pending[i]]
               b == qtime[pending[j]]
    <3>3. /\ ticks \in Tick /\ a \in Tick /\ b \in Tick
          /\ Off(ticks, a) < Half /\ Off(ticks, b) < Half
          /\ Key[pending[i]] = -Off(ticks, a) /\ Key[pending[j]] = -Off(ticks, b)
      BY <2>1, <3>1, <3>2 DEF TypeOK
    <3>4. Key[pending[j]] <= Key[pending[i]]
      BY <2>1, <2>3 DEF Clock, Descending
    <3> HIDE DEF a, b
    <3>5. Off(ticks, a) \in Nat /\ Off(ticks, b) \in Nat
      BY ONLY <3>3, OffInt
    <3>6. Off(ticks, a) <= Off(ticks, b)
      BY ONLY <3>3, <3>4, <3>5
    <3>7. clock_compare(a, b)
      BY ONLY <3>3, <3>6, CompareIs
    <3> QED BY <3>7 DEF a, b
  <2> QED BY <2>2, <2>3 DEF TimerIsForFirst
<1> QED BY <1>1, Invariance, PTL

\* How often an entry is in a list without repetitions
LEMMA Occurs ==
    ASSUME NEW list \in Seq(Work), Distinct(list), NEW w
    PROVE  Cardinality({i \in DOMAIN list : list[i] = w}) = IF w \in Members(list) THEN 1 ELSE 0
<1>1. CASE w \notin Members(list)
  <2>1. {i \in DOMAIN list : list[i] = w} = {}
    BY <1>1 DEF Members
  <2> QED BY <1>1, <2>1, FS_EmptySet
<1>2. CASE w \in Members(list)
  <2>1. PICK i \in DOMAIN list : list[i] = w
    BY <1>2 DEF Members
  <2>2. {j \in DOMAIN list : list[j] = w} = {i}
    BY <2>1 DEF Distinct
  <2> QED BY <1>2, <2>2, FS_Singleton
<1> QED BY <1>1, <1>2

\* A work that work_available denies is in exactly one of the lists, once, unless
\* its callback is inside work_queue_next, and no other work is in a list: whoever
\* queues it again or cancels it, outside that window.
THEOREM WQueueQueuedIsListed == Spec => []QueuedIsListed
<1>1. ASSUME IInv PROVE QueuedIsListed
  <2> SUFFICES ASSUME NEW w \in Work
               PROVE  Cardinality({i \in DOMAIN expired : expired[i] = w})
                        + Cardinality({i \in DOMAIN pending : pending[i] = w})
                      = IF w \in queued \ Early THEN 1 ELSE 0
    BY DEF QueuedIsListed
  <2>1. /\ expired \in Seq(Work) /\ pending \in Seq(Work)
        /\ Distinct(expired) /\ Distinct(pending)
        /\ Members(expired) \cap Members(pending) = {}
        /\ Members(expired) \cup Members(pending) = queued \ Early
    BY <1>1 DEF IInv, TypeOK, Listed
  <2>2. Cardinality({i \in DOMAIN expired : expired[i] = w})
            = IF w \in Members(expired) THEN 1 ELSE 0
    BY ONLY <2>1, Occurs
  <2>3. Cardinality({i \in DOMAIN pending : pending[i] = w})
            = IF w \in Members(pending) THEN 1 ELSE 0
    BY ONLY <2>1, Occurs
  <2>4. CASE w \in Members(expired)
    <3>1. w \notin Members(pending) /\ w \in queued /\ w \notin Early
      BY ONLY <2>1, <2>4
    <3> QED BY ONLY <2>2, <2>3, <2>4, <3>1
  <2>5. CASE w \in Members(pending)
    <3>1. w \notin Members(expired) /\ w \in queued /\ w \notin Early
      BY ONLY <2>1, <2>5
    <3> QED BY ONLY <2>2, <2>3, <2>5, <3>1
  <2>6. CASE w \notin Members(expired) /\ w \notin Members(pending)
    <3>1. ~(w \in queued /\ w \notin Early)
      BY ONLY <2>1, <2>6
    <3> QED BY ONLY <2>2, <2>3, <2>6, <3>1
  <2> QED BY <2>4, <2>5, <2>6
<1> QED BY <1>1, Invariance, PTL

\* A worker owes a post to every task that sleeps for it in work_cancel_sync,
\* and a task that waits alone does not return before the work has finished.
THEOREM WQueueCancelSyncWaits == Spec => []CancelSyncWaits
<1>1. ASSUME IInv PROVE CancelSyncWaits
  <2>1. TypeOK /\ Sync /\ Stages
    BY <1>1 DEF IInv
  <2>2. ASSUME NEW k \in Worker
        PROVE  /\ Cardinality(Asleep(k)) <= wait_count[k]
               /\ wait_count[k] > 0 => job[k] # Nobody
    <3>1. /\ wait[k] \in Nat /\ wait_count[k] \in Nat
          /\ wait[k] + wait_count[k] = Cardinality(Syncing(k))
          /\ Asleep(k) # {} => wait[k] = 0
          /\ wait_count[k] > 0 => job[k] # Nobody
      BY <2>1 DEF TypeOK, Sync
    <3>2. Cardinality(Asleep(k)) <= Cardinality(Syncing(k)) /\ Cardinality(Asleep(k)) \in Nat
      BY SyncingFinite
    <3>3. Cardinality({}) = 0
      BY FS_EmptySet
    <3>4. CASE Asleep(k) = {}
      BY ONLY <3>1, <3>3, <3>4
    <3>5. CASE Asleep(k) # {}
      BY ONLY <3>1, <3>2, <3>5
    <3> QED BY <3>4, <3>5, <3>1
  <2>3. ASSUME \A t, u \in Canceller : t = u, NEW t \in Task, pc[t] = "run"
        PROVE  call[t].over
    <3>1. call[t].on = Nobody
      BY <2>1, <2>3, StagesAre DEF TaskStage
    <3> QED BY <2>1, <2>3, <3>1 DEF Sync
  <2> QED BY <2>2, <2>3 DEF CancelSyncWaits
<1> QED BY <1>1, Invariance, PTL
=============================================================================
