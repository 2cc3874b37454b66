---------------------------- MODULE MQueueProofs ----------------------------
(***************************************************************************)
(* The message queue, for any number of tasks, message structures and      *)
(* places: counts and lists agree, nobody is left waiting beside what he   *)
(* waits for, no structure is lost, and the queue implements AbsMQueue.    *)
(***************************************************************************)
EXTENDS MQueue, TaskListProofs

-----------------------------------------------------------------------------
(* The inductive invariant *)

\* A wait record whose lists and counts are those of the tasks that wait
WaitOK(w) ==
    /\ w.list \in [Event -> Seq(Task)] /\ w.n \in [Event -> Nat] /\ w.at \in [Task -> Label]
    /\ \A ev \in Event :
        /\ Proper(w.list[ev], Task, Prio)
        /\ w.n[ev] = Len(w.list[ev])
        /\ Members(w.list[ev]) = {t \in Task : w.at[t] = ev}

Locals ==
    /\ ntpid \in Task \cup {NoTask} /\ mode \in [Task -> Mode]
    /\ errcode \in [Task -> {"OK", "EINTR", "ETIMEDOUT"}] /\ waitdog \in [Task -> BOOLEAN]

\* The places at which a call has a message structure in its hands
Keeping == {"send", "full", "sendwoken", "drop", "pollout", "copy"}

\* What the place of a task says about the rest of its state
Stage(t) ==
    /\ pc[t] # "dead" => (held[t] # NoMsg <=> pc[t] \in Keeping)
    /\ Waits(t) => errcode[t] = "OK"
    /\ waitdog[t] =>
        /\ mode[t] = "timed"
        /\ Waits(t) \/ (pc[t] \in {"sendwoken", "recvwoken"} /\ errcode[t] # "OK")

Stages == \A t \in Task : Stage(t)

InPool(b) == b \in g_msgfree \/ b \in g_msgfreeirq \/ b \in heap
InQueue(b) == \E m \in Members(msglist) : m.buf = b
InHand(t, b) == held[t] # NoMsg /\ held[t].buf = b

\* Every structure is in one place.
Placed ==
    /\ \A b \in Buffer : InPool(b) \/ InQueue(b) \/ \E t \in Task : InHand(t, b)
    /\ \A b \in Buffer : InPool(b) => ~InQueue(b)
    /\ \A b \in Buffer, t \in Task : InHand(t, b) => ~InPool(b) /\ ~InQueue(b)
    /\ \A b \in Buffer, t, u \in Task : InHand(t, b) /\ InHand(u, b) => t = u
    /\ \A m, n \in Members(msglist) : m.buf = n.buf => m = n

\* The tasks that will use what the event ev is about, or wake somebody for it.
\* A task that was woken by a signal or a timeout will do neither.
Wakers(ev) ==
    {t \in Task : IF ev = "full"
                  THEN pc[t] = "pollout" \/ (pc[t] = "sendwoken" /\ errcode[t] = "OK")
                  ELSE pc[t] \in {"pollin", "notify"}
                       \/ (pc[t] = "recvwoken" /\ errcode[t] = "OK")}

Room(ev) == IF ev = "full" THEN maxmsgs - nmsgs ELSE nmsgs

Served(ev) ==
    (\A t \in Task : pc[t] # "dead") /\ waitlist[ev] # <<>>
        => Room(ev) <= Cardinality(Wakers(ev))

\* The messages of one priority are in the same order in both lists.
SameOrder(s, l) ==
    \A i, j \in DOMAIN s, k, m \in DOMAIN l :
        i < j /\ s[i] = l[k] /\ s[j] = l[m] /\ s[i].prio = s[j].prio => k < m

\* The history holds the messages of the queue in the order of sending.
History ==
    /\ sent \in Seq(Message) /\ Distinct(sent)
    /\ Members(sent) = Members(msglist) /\ Len(sent) = Len(msglist)
    /\ SameOrder(sent, msglist)

Lists ==
    /\ Proper(msglist, Message, MessagePrio) /\ nmsgs = Len(msglist) /\ nmsgs \in 0..maxmsgs
    /\ History

Messages ==
    /\ Lists /\ Placed
    /\ g_msgfree \subseteq Fixed /\ g_msgfreeirq \subseteq Irq /\ heap \subseteq Heap
    /\ held \in [Task -> Message \cup {NoMsg}]

IInv ==
    /\ WaitOK(Waiting(pc)) /\ Messages /\ Locals /\ Stages
    /\ \A ev \in Event : Served(ev)

-----------------------------------------------------------------------------
(* The wait lists *)

\* What is right of the record is right of the variables that become it.
LEMMA WaitOKNext ==
    ASSUME NEW w, WaitOK(w), Becomes(w)
    PROVE  /\ waitlist' \in [Event -> Seq(Task)] /\ nwait' \in [Event -> Nat]
           /\ pc' \in [Task -> Label]
           /\ \A ev \in Event :
                /\ Proper(waitlist'[ev], Task, Prio)
                /\ nwait'[ev] = Len(waitlist'[ev])
                /\ Members(waitlist'[ev]) = {t \in Task : pc'[t] = ev}
BY DEF WaitOK, Becomes

LEMMA PrioInt == Prio \in [Task -> Int]
BY MQueueAssumption

\* A task goes somewhere else without starting or ending to wait.
LEMMA GoOn ==
    ASSUME WaitOK(Waiting(pc)), NEW t \in Task, NEW label \in Label \ Event, ~Waits(t)
    PROVE  WaitOK(Waiting(At(t, label)))
<1> DEFINE a == At(t, label)
<1>1. pc \in [Task -> Label] /\ \A ev \in Event : Members(waitlist[ev]) = {u \in Task : pc[u] = ev}
  BY DEF WaitOK, Waiting
<1>2. a \in [Task -> Label] /\ a[t] = label /\ \A u \in Task \ {t} : a[u] = pc[u]
  BY <1>1 DEF At
<1> HIDE DEF a
<1>3. ASSUME NEW ev \in Event
      PROVE  {u \in Task : pc[u] = ev} = {u \in Task : a[u] = ev}
  BY <1>2 DEF Waits
<1>4. WaitOK(Waiting(a))
  BY <1>1, <1>2, <1>3 DEF WaitOK, Waiting
<1> QED BY <1>4 DEF a

LEMMA NoneWait ==
    ASSUME NEW w, WaitOK(w), NEW ev \in Event
    PROVE  /\ w.list[ev] = <<>> <=> \A t \in Task : w.at[t] # ev
           /\ w.n[ev] \in Nat /\ (w.n[ev] = 0 <=> w.list[ev] = <<>>)
<1>1. /\ w.list[ev] \in Seq(Task) /\ w.n[ev] = Len(w.list[ev])
      /\ Members(w.list[ev]) = {t \in Task : w.at[t] = ev}
  BY DEF WaitOK
<1> DEFINE s == w.list[ev]
<1>2. s \in Seq(Task) /\ s = w.list[ev]
  BY <1>1
<1> HIDE DEF s
<1>3. Members(s) = {} <=> s = <<>>
  <2>1. CASE s = <<>>
    BY <2>1 DEF Members
  <2>2. CASE s # <<>>
    <3>1. 1 \in DOMAIN s
      BY <1>2, <2>2
    <3> QED BY <2>2, <3>1 DEF Members
  <2> QED BY <2>1, <2>2
<1>4. Len(s) \in Nat /\ (Len(s) = 0 <=> s = <<>>)
  BY <1>2
<1> QED BY <1>1, <1>2, <1>3, <1>4

\* The task that nxmq_notify_receive or nxmq_notify_send takes
LEMMA FirstWaits ==
    ASSUME NEW w, WaitOK(w), NEW ev \in Event
    PROVE  /\ \A t \in first_waiting(w, ev) : t \in Task /\ w.at[t] = ev
           /\ first_waiting(w, ev) = {} => w.list[ev] = <<>>
<1>1. /\ w.list[ev] \in Seq(Task) /\ Members(w.list[ev]) = {t \in Task : w.at[t] = ev}
  BY DEF WaitOK
<1>2. w.n[ev] \in Nat /\ (w.n[ev] = 0 <=> w.list[ev] = <<>>)
  BY NoneWait
<1>3. ASSUME w.n[ev] > 0
      PROVE  w.list[ev][1] \in Task /\ w.at[w.list[ev][1]] = ev
  <2>1. w.list[ev] # <<>>
    BY <1>2, <1>3
  <2>2. 1 \in DOMAIN w.list[ev]
    BY <1>1, <2>1
  <2>3. w.list[ev][1] \in Members(w.list[ev])
    BY <2>2 DEF Members
  <2> QED BY <1>1, <2>3
<1>4. CASE w.n[ev] > 0
  <2>1. first_waiting(w, ev) = {w.list[ev][1]}
    BY <1>4 DEF first_waiting
  <2> QED BY <2>1, <1>3, <1>4
<1>5. CASE ~(w.n[ev] > 0)
  <2>1. first_waiting(w, ev) = {}
    BY <1>5 DEF first_waiting
  <2>2. w.list[ev] = <<>>
    BY <1>2, <1>5
  <2> QED BY <2>1, <2>2
<1> QED BY <1>4, <1>5

\* A task is unlinked from its list and counted off.
LEMMA UnblockOK ==
    ASSUME NEW w, WaitOK(w), NEW t \in Task, w.at[t] \in Event,
           NEW w2, w2 = unblock(w, t)
    PROVE  /\ WaitOK(w2)
           /\ w2.at = [w.at EXCEPT ![t] = Woken(w.at[t])]
           /\ \A ev \in Event : w2.list[ev] # <<>> => w.list[ev] # <<>>
<1> DEFINE ev == w.at[t]
           l == dq_rem(w.list[ev], t)
<1>0. /\ w.list \in [Event -> Seq(Task)] /\ w.n \in [Event -> Nat] /\ w.at \in [Task -> Label]
      /\ \A e \in Event : Proper(w.list[e], Task, Prio) /\ w.n[e] = Len(w.list[e])
                          /\ Members(w.list[e]) = {u \in Task : w.at[u] = e}
  BY DEF WaitOK
<1>1. /\ w2.list = [w.list EXCEPT ![ev] = l]
      /\ w2.n = [w.n EXCEPT ![ev] = w.n[ev] - 1]
      /\ w2.at = [w.at EXCEPT ![t] = Woken(ev)]
  BY DEF unblock
<1>l. l = dq_rem(w.list[ev], t) /\ ev \in Event /\ ev = w.at[t]
  OBVIOUS
<1>2. Proper(w.list[ev], Task, Prio) /\ t \in Members(w.list[ev])
  BY <1>0
<1> HIDE DEF l, ev
<1>3. Proper(l, Task, Prio) /\ Len(l) = Len(w.list[ev]) - 1
      /\ Members(l) = Members(w.list[ev]) \ {t}
  BY ONLY <1>2, <1>l, DqRem
<1>w. Woken(ev) \in Label \ Event
  BY DEF Woken, Label, Event
<1>4. w2.at \in [Task -> Label] /\ w2.at[t] \notin Event /\ \A u \in Task \ {t} : w2.at[u] = w.at[u]
  BY <1>0, <1>1, <1>w
<1>5. /\ w2.list[ev] = l /\ \A e \in Event \ {ev} : w2.list[e] = w.list[e] /\ w2.n[e] = w.n[e]
      /\ w2.n[ev] = w.n[ev] - 1
  BY <1>0, <1>1, <1>l
<1>6. w2.list \in [Event -> Seq(Task)]
  BY <1>0, <1>1, <1>3, <1>l DEF Proper
<1>7. w2.n[ev] = Len(l) /\ Len(l) \in Nat
  <2>1. l \in Seq(Task)
    BY <1>3 DEF Proper
  <2>2. Len(l) \in Nat
    BY <2>1
  <2> QED BY <2>2, <1>0, <1>3, <1>5, <1>l
<1>8. w2.n \in [Event -> Nat]
  BY <1>0, <1>1, <1>5, <1>7, <1>l
<1>9. ASSUME NEW e \in Event
      PROVE  /\ Proper(w2.list[e], Task, Prio) /\ w2.n[e] = Len(w2.list[e])
             /\ Members(w2.list[e]) = {u \in Task : w2.at[u] = e}
  <2>1. CASE e = ev
    <3>1. Members(l) = {u \in Task : w2.at[u] = e}
      BY <2>1, <1>0, <1>3, <1>4, <1>l
    <3> QED BY <2>1, <3>1, <1>3, <1>5, <1>7
  <2>2. CASE e # ev
    <3>1. {u \in Task : w2.at[u] = e} = {u \in Task : w.at[u] = e}
      BY <2>2, <1>4, <1>l
    <3> QED BY <2>2, <3>1, <1>0, <1>5
  <2> QED BY <2>1, <2>2
<1>10. WaitOK(w2)
  BY ONLY <1>4, <1>6, <1>8, <1>9 DEF WaitOK
<1>11. w.list[ev] # <<>>
  BY <1>2 DEF Members
<1> QED BY <1>1, <1>5, <1>10, <1>11, <1>l

\* A task starts to wait.
LEMMA BlockOK ==
    ASSUME WaitOK(Waiting(pc)), NEW t \in Task, NEW ev \in Event, ~Waits(t), Block(t, ev)
    PROVE  /\ WaitOK(Waiting(pc))' /\ pc' = [pc EXCEPT ![t] = ev]
           /\ \A e \in Event \ {ev} : waitlist'[e] = waitlist[e]
<1>0. /\ waitlist \in [Event -> Seq(Task)] /\ nwait \in [Event -> Nat] /\ pc \in [Task -> Label]
      /\ \A e \in Event : Proper(waitlist[e], Task, Prio) /\ nwait[e] = Len(waitlist[e])
                          /\ Members(waitlist[e]) = {u \in Task : pc[u] = e}
  BY DEF WaitOK, Waiting
<1> DEFINE l == nxsched_add_prioritized(waitlist[ev], Prio, t)
<1>1. /\ waitlist' = [waitlist EXCEPT ![ev] = l]
      /\ nwait' = [nwait EXCEPT ![ev] = nwait[ev] + 1]
      /\ pc' = [pc EXCEPT ![t] = ev]
  BY DEF Block, Goto, At
<1>l. l = nxsched_add_prioritized(waitlist[ev], Prio, t)
  OBVIOUS
<1>2. Proper(waitlist[ev], Task, Prio) /\ t \notin Members(waitlist[ev])
  BY <1>0 DEF Waits
<1> HIDE DEF l
<1>3. Proper(l, Task, Prio) /\ Len(l) = Len(waitlist[ev]) + 1
      /\ Members(l) = Members(waitlist[ev]) \cup {t}
  BY ONLY <1>2, <1>l, PrioInt, t \in Task, AddPrioritized
<1>4. pc' \in [Task -> Label] /\ pc'[t] = ev /\ \A u \in Task \ {t} : pc'[u] = pc[u]
  BY <1>0, <1>1 DEF Label, Event
<1>5. /\ waitlist'[ev] = l /\ nwait'[ev] = nwait[ev] + 1
      /\ \A e \in Event \ {ev} : waitlist'[e] = waitlist[e] /\ nwait'[e] = nwait[e]
  BY <1>0, <1>1
<1>6. waitlist' \in [Event -> Seq(Task)]
  BY <1>0, <1>1, <1>3 DEF Proper
<1>7. nwait' \in [Event -> Nat]
  BY <1>0, <1>1
<1>8. ASSUME NEW e \in Event
      PROVE  /\ Proper(waitlist'[e], Task, Prio) /\ nwait'[e] = Len(waitlist'[e])
             /\ Members(waitlist'[e]) = {u \in Task : pc'[u] = e}
  <2>1. CASE e = ev
    <3>1. Members(l) = {u \in Task : pc'[u] = e}
      BY <2>1, <1>0, <1>3, <1>4
    <3>2. nwait[ev] = Len(waitlist[ev])
      BY <1>0
    <3> QED BY <2>1, <3>1, <3>2, <1>3, <1>5
  <2>2. CASE e # ev
    <3>1. {u \in Task : pc'[u] = e} = {u \in Task : pc[u] = e}
      BY <2>2, <1>4 DEF Waits
    <3> QED BY <2>2, <3>1, <1>0, <1>5
  <2> QED BY <2>1, <2>2
<1>9. WaitOK(Waiting(pc))'
  BY ONLY <1>4, <1>6, <1>7, <1>8 DEF WaitOK, Waiting
<1> QED BY <1>1, <1>5, <1>9

-----------------------------------------------------------------------------
(* What one step does to the tasks *)

\* What the step of somebody else does to a task: nothing, or it ends its wait.
Ends(u) ==
    /\ Waits(u) /\ pc'[u] = Woken(pc[u])
    /\ \/ errcode'[u] = errcode[u] /\ ~waitdog'[u]
       \/ /\ errcode'[u] \in {"EINTR", "ETIMEDOUT"} /\ (waitdog'[u] => waitdog[u])
          /\ errcode'[u] = "ETIMEDOUT" => mode[u] = "timed"

Passive(u) ==
    \/ pc'[u] = pc[u] /\ errcode'[u] = errcode[u] /\ waitdog'[u] = waitdog[u]
    \/ Ends(u)

LEMMA PassiveStage ==
    ASSUME NEW u \in Task, Stage(u), Passive(u), held'[u] = held[u], mode'[u] = mode[u]
    PROVE  Stage(u)'
<1>1. CASE pc'[u] = pc[u] /\ errcode'[u] = errcode[u] /\ waitdog'[u] = waitdog[u]
  BY <1>1 DEF Stage, Waits
<1>2. CASE Ends(u)
  <2>1. /\ pc[u] \in Event /\ pc'[u] \in {"sendwoken", "recvwoken"}
        /\ pc[u] = "full" <=> pc'[u] = "sendwoken"
        /\ pc'[u] \notin Event /\ pc'[u] # "dead" /\ pc[u] # "dead"
        /\ pc'[u] \in Keeping <=> pc[u] \in Keeping
    BY <1>2 DEF Ends, Woken, Waits, Event, Keeping
  <2>2. errcode[u] = "OK" /\ (waitdog[u] => mode[u] = "timed")
        /\ (waitdog'[u] => waitdog[u] /\ errcode'[u] # "OK")
    BY <1>2 DEF Ends, Stage
  <2> QED BY <2>1, <2>2 DEF Stage, Waits
<1> QED BY <1>1, <1>2 DEF Passive

LEMMA PassiveWaker ==
    ASSUME NEW u \in Task, Passive(u), NEW ev \in Event, u \in Wakers(ev)
    PROVE  u \in Wakers(ev)'
BY DEF Passive, Ends, Wakers, Waits, Event

\* A task that was woken for ev, and not by an error, is a new waker.
LEMMA NewWaker ==
    ASSUME NEW u \in Task, Stage(u), NEW ev \in Event, pc[u] = ev,
           pc'[u] = Woken(ev), errcode'[u] = errcode[u]
    PROVE  u \in Wakers(ev)' /\ u \notin Wakers(ev)
<1>1. errcode'[u] = "OK"
  BY DEF Stage, Waits
<1> QED BY <1>1 DEF Wakers, Woken, Event

Alive == \A t \in Task : pc[t] # "dead"

\* Somebody takes care of the tasks that wait for ev.
Cared(t, ev) ==
    \/ waitlist'[ev] = <<>>
    \/ t \in Wakers(ev)'
    \/ \E h \in Task \ {t} : h \in Wakers(ev)' /\ h \notin Wakers(ev)

\* The effect of a step of t, a task or an interrupt handler, on all others
Others(t) ==
    /\ WaitOK(Waiting(pc))'
    /\ errcode' \in [Task -> {"OK", "EINTR", "ETIMEDOUT"}] /\ waitdog' \in [Task -> BOOLEAN]
    /\ \A u \in Task \ {t} : Passive(u)

LEMMA Cards ==
    ASSUME NEW S, S \subseteq Task, NEW T, T \subseteq Task, NEW t, S \ {t} \subseteq T
    PROVE  /\ Cardinality(S) \in Nat /\ Cardinality(T) \in Nat
           /\ Cardinality(S) - 1 <= Cardinality(T)
           /\ S \subseteq T => Cardinality(S) <= Cardinality(T)
           /\ (\E h \in T : h \notin S) => Cardinality(S) <= Cardinality(T)
           /\ S \subseteq T /\ (\E h \in T : h \notin S) => Cardinality(S) + 1 <= Cardinality(T)
<1>1. IsFiniteSet(S) /\ IsFiniteSet(T) /\ IsFiniteSet(S \ {t})
  <2>1. IsFiniteSet(Task) /\ S \in SUBSET Task /\ T \in SUBSET Task /\ S \ {t} \in SUBSET Task
    BY MQueueAssumption
  <2> QED BY <2>1, FS_Subset
<1>2. Cardinality(S) \in Nat /\ Cardinality(T) \in Nat /\ Cardinality(S \ {t}) \in Nat
  BY <1>1, FS_CardinalityType
<1>3. Cardinality(S \ {t}) = IF t \in S THEN Cardinality(S) - 1 ELSE Cardinality(S)
  BY <1>1, FS_RemoveElement
<1>4. Cardinality(S \ {t}) <= Cardinality(T)
  BY <1>1, FS_Subset
<1>5. S \subseteq T => Cardinality(S) <= Cardinality(T)
  BY <1>1, FS_Subset
<1>6. ASSUME NEW h \in T, h \notin S
      PROVE  /\ Cardinality(S) <= Cardinality(T)
             /\ S \subseteq T => Cardinality(S) + 1 <= Cardinality(T)
  <2>1. Cardinality(T \ {h}) = Cardinality(T) - 1 /\ IsFiniteSet(T \ {h})
    BY <1>1, <1>6, FS_RemoveElement
  <2>2. (S \ {t}) \subseteq T \ {h}
    BY <1>6
  <2>3. Cardinality(S \ {t}) <= Cardinality(T \ {h})
    BY <2>1, <2>2, FS_Subset
  <2>4. S \subseteq T => Cardinality(S) <= Cardinality(T \ {h})
    BY <1>6, <2>1, FS_Subset
  <2> QED BY ONLY <1>2, <1>3, <2>1, <2>3, <2>4
<1> QED BY ONLY <1>2, <1>3, <1>4, <1>5, <1>6

\* The ways in which a step of task t keeps the tasks served that wait for ev
LEMMA ServedStep ==
    ASSUME IInv, NEW t, NEW ev \in Event, Others(t), Alive' => Alive,
           Room(ev) \in Int, Room(ev)' \in Int,
           \/ waitlist'[ev] = <<>>
           \/ Room(ev)' <= 0
           \/ /\ waitlist[ev] # <<>>
              /\ \/ Room(ev)' <= Room(ev) - 1
                 \/ Room(ev)' <= Room(ev) /\ (t \in Wakers(ev) => Cared(t, ev))
                 \/ Room(ev)' <= Room(ev) + 1 /\ t \notin Wakers(ev) /\ Cared(t, ev)
    PROVE  Served(ev)'
<1> DEFINE S == Wakers(ev)
           T == Wakers(ev)'
<1>1. S \subseteq Task /\ T \subseteq Task
  BY DEF Wakers
<1>2. S \ {t} \subseteq T
  BY PassiveWaker DEF Others, Wakers
<1> HIDE DEF S, T
<1>3. /\ Cardinality(S) \in Nat /\ Cardinality(T) \in Nat
      /\ Cardinality(S) - 1 <= Cardinality(T)
      /\ S \subseteq T => Cardinality(S) <= Cardinality(T)
      /\ (\E h \in T : h \notin S) => Cardinality(S) <= Cardinality(T)
      /\ S \subseteq T /\ (\E h \in T : h \notin S) => Cardinality(S) + 1 <= Cardinality(T)
  BY ONLY <1>1, <1>2, Cards
<1> SUFFICES ASSUME Alive', waitlist'[ev] # <<>>, Room(ev)' > 0
             PROVE  Room(ev)' <= Cardinality(T)
  BY <1>3 DEF Served, Alive, T
<1>4. waitlist[ev] # <<>> /\ Alive
  OBVIOUS
<1>5. Room(ev) <= Cardinality(S)
  BY <1>4 DEF IInv, Served, Alive, S
<1>6. CASE Room(ev)' <= Room(ev) - 1
  BY ONLY <1>3, <1>5, <1>6, Room(ev) \in Int, Room(ev)' \in Int
<1>7. CASE Room(ev)' <= Room(ev) /\ (t \in Wakers(ev) => Cared(t, ev))
  <2>1. S \subseteq T \/ \E h \in T : h \notin S
    BY <1>2, <1>7 DEF Cared, S, T
  <2>2. Cardinality(S) <= Cardinality(T)
    BY <1>3, <2>1
  <2> QED BY ONLY <1>3, <1>5, <1>7, <2>2, Room(ev) \in Int, Room(ev)' \in Int
<1>8. CASE Room(ev)' <= Room(ev) + 1 /\ t \notin Wakers(ev) /\ Cared(t, ev)
  <2>1. S \subseteq T /\ \E h \in T : h \notin S
    BY <1>2, <1>8 DEF Cared, S, T
  <2>2. Cardinality(S) + 1 <= Cardinality(T)
    BY <1>3, <2>1
  <2> QED BY ONLY <1>3, <1>5, <1>8, <2>2, Room(ev) \in Int, Room(ev)' \in Int
<1> QED BY <1>6, <1>7, <1>8

LEMMA RoomInt ==
    ASSUME Messages
    PROVE  nmsgs \in Nat /\ maxmsgs \in Nat /\ \A ev \in Event : Room(ev) \in Int
BY MQueueAssumption DEF Messages, Lists, Room

\* The message that t is receiving, as the abstract queue sees it
Taken(t) == IF pc[t] \in {"pollout", "copy"} THEN held[t] ELSE NoMsg

\* What t itself does: nothing that the abstract queue sees, or it returns from a
\* call; it sends a message; it receives one; or it closes the queue.
Acts(t) ==
    \/ sent' = sent /\ (t \in Task => Taken(t)' \in {Taken(t), NoMsg})
    \/ /\ Len(sent) < maxmsgs /\ \E m \in Message : sent' = Append(sent, m)
       /\ t \in Task => Taken(t)' = Taken(t)
    \/ /\ t \in Task /\ Taken(t) = NoMsg
       /\ \E i \in DOMAIN sent :
            Abs!OldestOfHighest(i) /\ Taken(t)' = sent[i] /\ sent' = Abs!Without(i)
    \/ sent' = <<>> /\ t \notin Task

Own(t) == Acts(t) /\ (t \in Task => errcode'[t] \in {errcode[t], "OK"})

\* No wait is ended by a timeout that was not meant for it.
Timely(u) ==
    errcode'[u] = "ETIMEDOUT" /\ errcode[u] # "ETIMEDOUT" => mode[u] = "timed"

Visible(t) ==
    /\ Acts(t) /\ \A u \in Task \ {t} : Taken(u)' = Taken(u)
    /\ \A u \in Task : Timely(u)

LEMMA OwnQuiet ==
    ASSUME NEW t, sent' = sent,
           t \in Task => /\ pc'[t] \notin {"pollout", "copy"}
                         /\ errcode'[t] \in {errcode[t], "OK"}
    PROVE  Own(t)
BY DEF Own, Acts, Taken

LEMMA PassiveTaken ==
    ASSUME NEW u \in Task, Passive(u), held'[u] = held[u]
    PROVE  Taken(u)' = Taken(u) /\ Timely(u)
<1>1. CASE pc'[u] = pc[u] /\ errcode'[u] = errcode[u]
  BY <1>1 DEF Taken, Timely
<1>2. CASE Ends(u)
  <2>1. Taken(u) = NoMsg /\ Taken(u)' = NoMsg
    BY <1>2 DEF Ends, Waits, Event, Woken, Taken
  <2> QED BY <1>2, <2>1 DEF Ends, Timely
<1> QED BY <1>1, <1>2 DEF Passive

\* The invariant after a step of task t, put together from its parts
LEMMA Together ==
    ASSUME IInv, NEW t, Others(t), Messages', t \in Task => Stage(t)',
           ntpid' \in Task \cup {NoTask}, mode' \in [Task -> Mode],
           \A u \in Task \ {t} : held'[u] = held[u] /\ mode'[u] = mode[u],
           Served("full")', Served("empty")', Own(t)
    PROVE  IInv' /\ Visible(t)
<1>1. Locals'
  BY DEF Locals, Others
<1>2. Stages'
  BY PassiveStage DEF IInv, Stages, Others
<1>3. WaitOK(Waiting(pc))'
  BY DEF Others
<1>4. ASSUME NEW ev \in Event PROVE Served(ev)'
  <2>1. CASE ev = "full"
    BY <2>1
  <2>2. CASE ev = "empty"
    BY <2>2
  <2> QED BY <2>1, <2>2 DEF Event
<1>5. IInv'
  BY <1>1, <1>2, <1>3, <1>4 DEF IInv
<1>6. \A u \in Task \ {t} : Taken(u)' = Taken(u) /\ Timely(u)
  BY PassiveTaken DEF Others
<1>7. t \in Task => Timely(t)
  BY DEF Own, Timely
<1>8. Visible(t)
  BY <1>6, <1>7 DEF Visible, Own
<1> QED BY <1>5, <1>8

\* The effect of nxmq_notify_receive or nxmq_notify_send
Notified(w, ev) ==
    /\ WaitOK(Waiting(pc))' /\ waitdog' \in [Task -> BOOLEAN]
    /\ \A e \in Event : waitlist'[e] # <<>> => w.list[e] # <<>>
    /\ \/ waitlist'[ev] = <<>> /\ pc' = w.at /\ waitdog' = waitdog
       \/ \E h \in Task :
            /\ w.at[h] = ev /\ pc'[h] = Woken(ev) /\ ~waitdog'[h]
            /\ \A u \in Task \ {h} : pc'[u] = w.at[u] /\ waitdog'[u] = waitdog[u]

LEMMA BecomesOK ==
    ASSUME NEW w, WaitOK(w), Becomes(w)
    PROVE  WaitOK(Waiting(pc))'
<1>1. /\ waitlist' \in [Event -> Seq(Task)] /\ nwait' \in [Event -> Nat]
      /\ pc' \in [Task -> Label]
      /\ \A ev \in Event :
           /\ Proper(waitlist'[ev], Task, Prio)
           /\ nwait'[ev] = Len(waitlist'[ev])
           /\ Members(waitlist'[ev]) = {t \in Task : pc'[t] = ev}
  BY WaitOKNext
<1> QED BY ONLY <1>1 DEF WaitOK, Waiting

LEMMA NotifyOK ==
    ASSUME NEW w, WaitOK(w), NEW ev \in Event, nxmq_notify(w, ev),
           waitdog \in [Task -> BOOLEAN]
    PROVE  Notified(w, ev)
<1>1. CASE first_waiting(w, ev) = {} /\ Becomes(w) /\ UNCHANGED waitdog
  <2>1. w.list[ev] = <<>>
    BY <1>1, FirstWaits
  <2>2. WaitOK(Waiting(pc))'
    BY <1>1, BecomesOK
  <2>3. waitlist' = w.list /\ pc' = w.at /\ waitdog' = waitdog
    BY <1>1 DEF Becomes
  <2> QED BY <2>1, <2>2, <2>3 DEF Notified
<1>2. ASSUME NEW h \in first_waiting(w, ev), Becomes(unblock(w, h)),
             waitdog' = [waitdog EXCEPT ![h] = FALSE]
      PROVE  Notified(w, ev)
  <2>1. h \in Task /\ w.at[h] = ev
    BY FirstWaits
  <2> DEFINE w2 == unblock(w, h)
  <2>w. w2 = unblock(w, h) /\ Becomes(w2)
    BY <1>2
  <2> HIDE DEF w2
  <2>2. /\ WaitOK(w2) /\ w2.at = [w.at EXCEPT ![h] = Woken(w.at[h])]
        /\ \A e \in Event : w2.list[e] # <<>> => w.list[e] # <<>>
    BY <2>1, <2>w, UnblockOK
  <2>3. WaitOK(Waiting(pc))'
    BY <2>2, <2>w, BecomesOK
  <2>4. waitlist' = w2.list /\ pc' = w2.at
    BY <2>w DEF Becomes
  <2>5. w.at \in [Task -> Label]
    BY DEF WaitOK
  <2>6. pc'[h] = Woken(ev) /\ \A u \in Task \ {h} : pc'[u] = w.at[u]
    BY <2>1, <2>2, <2>4, <2>5
  <2>7. ~waitdog'[h] /\ waitdog' \in [Task -> BOOLEAN]
        /\ \A u \in Task \ {h} : waitdog'[u] = waitdog[u]
    BY <1>2, <2>1
  <2> QED BY <2>1, <2>2, <2>3, <2>4, <2>6, <2>7 DEF Notified
<1> QED BY <1>1, <1>2 DEF nxmq_notify

\* What t has done after it woke a task for ev
Woke(t, label) ==
    /\ Others(t)
    /\ t \in Task => pc'[t] = label /\ errcode'[t] = errcode[t] /\ waitdog'[t] = waitdog[t]
    /\ \A e \in Event : waitlist'[e] # <<>> => waitlist[e] # <<>>

LEMMA Wakes ==
    ASSUME IInv, NEW t, NEW label, NEW w, WaitOK(w), NEW ev \in Event, Notified(w, ev),
           t \in Task => w.at[t] = label /\ label \notin Event /\ ~Waits(t),
           \A u \in Task \ {t} : w.at[u] = pc[u], w.list = waitlist, errcode' = errcode
    PROVE  Woke(t, label) /\ Cared(t, ev)
<1>0. Locals /\ \A u \in Task : Stage(u)
  BY DEF IInv, Stages
<1>1. WaitOK(Waiting(pc))' /\ errcode' \in [Task -> {"OK", "EINTR", "ETIMEDOUT"}]
      /\ waitdog' \in [Task -> BOOLEAN]
  BY <1>0 DEF Notified, Locals
<1>2. \A e \in Event : waitlist'[e] # <<>> => waitlist[e] # <<>>
  BY DEF Notified
<1>3. CASE waitlist'[ev] = <<>> /\ pc' = w.at /\ waitdog' = waitdog
  <2>1. \A u \in Task \ {t} : Passive(u)
    BY <1>3 DEF Passive
  <2> QED BY <1>1, <1>2, <1>3, <2>1 DEF Woke, Others, Cared
<1>4. ASSUME NEW h \in Task, w.at[h] = ev, pc'[h] = Woken(ev), ~waitdog'[h],
             \A u \in Task \ {h} : pc'[u] = w.at[u] /\ waitdog'[u] = waitdog[u]
      PROVE  Woke(t, label) /\ Cared(t, ev)
  <2>1. h # t /\ pc[h] = ev
    BY <1>4
  <2>2. Passive(h)
    BY <1>4, <2>1 DEF Passive, Ends, Waits
  <2>3. \A u \in Task \ {t, h} : Passive(u)
    BY <1>4 DEF Passive
  <2>4. h \in Wakers(ev)' /\ h \notin Wakers(ev)
    BY <1>0, <1>4, <2>1, NewWaker
  <2>5. t \in Task => pc'[t] = label /\ waitdog'[t] = waitdog[t]
    BY <1>4, <2>1
  <2> QED BY <1>1, <1>2, <2>1, <2>2, <2>3, <2>4, <2>5 DEF Woke, Others, Cared
<1> QED BY <1>3, <1>4 DEF Notified

\* The two ways in which t comes to nxmq_notify
LEMMA TaskWakes ==
    ASSUME IInv, NEW t \in Task, ~Waits(t), NEW label \in Label \ Event, NEW ev \in Event,
           nxmq_notify(Waiting(At(t, label)), ev), UNCHANGED errcode
    PROVE  Woke(t, label) /\ Cared(t, ev)
<1> DEFINE w == Waiting(At(t, label))
<1>1. WaitOK(w)
  BY GoOn DEF IInv
<1>2. Notified(w, ev)
  BY <1>1, NotifyOK DEF IInv, Locals
<1>3. pc \in [Task -> Label]
  BY DEF IInv, WaitOK, Waiting
<1>4. w.at[t] = label /\ (\A u \in Task \ {t} : w.at[u] = pc[u]) /\ w.list = waitlist
  BY <1>3 DEF Waiting, At
<1> HIDE DEF w
<1> QED BY <1>1, <1>2, <1>4, Wakes

LEMMA IrqWakes ==
    ASSUME IInv, NEW ev \in Event, nxmq_notify(Waiting(pc), ev), UNCHANGED errcode
    PROVE  Woke(NoTask, "run") /\ Cared(NoTask, ev)
<1> DEFINE w == Waiting(pc)
<1>1. WaitOK(w)
  BY DEF IInv
<1>2. Notified(w, ev)
  BY <1>1, NotifyOK DEF IInv, Locals
<1>4. w.at = pc /\ w.list = waitlist
  BY DEF Waiting
<1> HIDE DEF w
<1>5. NoTask \notin Task
  BY MQueueAssumption
<1> QED BY <1>1, <1>2, <1>4, <1>5, Wakes

\* A signal or a timeout ends the wait of task n.
EndsWait(n, w, w2) ==
    /\ WaitOK(w2) /\ w2.at[n] = Woken(pc[n]) /\ w2.at[n] \notin Event
    /\ \A u \in Task \ {n} : w2.at[u] = w.at[u]
    /\ \A e \in Event : w2.list[e] # <<>> => waitlist[e] # <<>>

LEMMA Interrupted ==
    ASSUME NEW n \in Task, NEW w, WaitOK(w), w.list = waitlist, w.at[n] = pc[n], Waits(n),
           NEW w2, w2 = unblock(w, n)
    PROVE  EndsWait(n, w, w2)
<1>1. w.at[n] \in Event /\ w.at \in [Task -> Label]
  BY DEF Waits, WaitOK
<1>2. /\ WaitOK(w2) /\ w2.at = [w.at EXCEPT ![n] = Woken(w.at[n])]
      /\ \A e \in Event : w2.list[e] # <<>> => w.list[e] # <<>>
  BY <1>1, UnblockOK
<1>3. Woken(pc[n]) \notin Event
  BY DEF Woken, Event
<1> QED BY <1>1, <1>2, <1>3 DEF EndsWait

Error == {"EINTR", "ETIMEDOUT"}

LEMMA IrqInterrupts ==
    ASSUME IInv, NEW n \in Task, Waits(n), NEW err \in Error, nxmq_wait_irq(n, err),
           err = "ETIMEDOUT" => mode[n] = "timed",
           waitdog' = waitdog \/ waitdog' = [waitdog EXCEPT ![n] = FALSE]
    PROVE  Woke(NoTask, "run")
<1> DEFINE w == Waiting(pc)
           w2 == unblock(Waiting(pc), n)
<1>1. /\ WaitOK(w) /\ w.at = pc /\ w.list = waitlist /\ w2 = unblock(w, n)
      /\ Becomes(w2) /\ errcode' = [errcode EXCEPT ![n] = err]
  BY DEF IInv, Waiting, nxmq_wait_irq
<1> HIDE DEF w, w2
<1>2. NoTask \notin Task
  BY MQueueAssumption
<1>3. /\ WaitOK(w2) /\ w2.at[n] = Woken(pc[n]) /\ w2.at[n] \notin Event
      /\ \A u \in Task \ {n} : w2.at[u] = w.at[u]
      /\ \A e \in Event : w2.list[e] # <<>> => waitlist[e] # <<>>
  <2>1. EndsWait(n, w, w2)
    BY <1>1, <1>2, Interrupted
  <2> QED BY <2>1 DEF EndsWait
<1>4. WaitOK(Waiting(pc))' /\ pc' = w2.at /\ waitlist' = w2.list
  BY <1>1, <1>3, BecomesOK DEF Becomes
<1>5. /\ errcode \in [Task -> {"OK", "EINTR", "ETIMEDOUT"}] /\ waitdog \in [Task -> BOOLEAN]
  BY DEF IInv, Locals
<1>6. /\ errcode' \in [Task -> {"OK", "EINTR", "ETIMEDOUT"}] /\ errcode'[n] = err
      /\ \A u \in Task \ {n} : errcode'[u] = errcode[u]
  BY <1>1, <1>5 DEF Error
<1>7. /\ waitdog' \in [Task -> BOOLEAN] /\ (waitdog'[n] => waitdog[n])
      /\ \A u \in Task \ {n} : waitdog'[u] = waitdog[u]
  BY <1>5
<1>8. Passive(n)
  BY <1>3, <1>4, <1>6, <1>7 DEF Passive, Ends, Error
<1>9. \A u \in Task \ {n} : Passive(u)
  BY <1>1, <1>3, <1>4, <1>6, <1>7 DEF Passive
<1> QED BY <1>2, <1>3, <1>4, <1>6, <1>7, <1>8, <1>9 DEF Woke, Others

\* A task that does not wait goes on to another place, and only it changes.
GoesOn(t, label) ==
    /\ Others(t) /\ pc'[t] = label
    /\ \A ev \in Event : waitlist'[ev] = waitlist[ev]

LEMMA GoTo ==
    ASSUME IInv, NEW t \in Task, ~Waits(t), NEW label \in Label \ Event, Goto(t, label),
           UNCHANGED <<waitlist, nwait, errcode>>,
           waitdog' = waitdog \/ waitdog' = [waitdog EXCEPT ![t] = FALSE]
    PROVE  GoesOn(t, label)
<1>1. pc \in [Task -> Label] /\ errcode \in [Task -> {"OK", "EINTR", "ETIMEDOUT"}]
      /\ waitdog \in [Task -> BOOLEAN]
  BY DEF IInv, WaitOK, Waiting, Locals
<1>2. WaitOK(Waiting(At(t, label)))
  BY GoOn DEF IInv
<1>3. Becomes(Waiting(At(t, label)))
  BY DEF Becomes, Waiting, Goto
<1>4. WaitOK(Waiting(pc))'
  BY <1>2, <1>3, BecomesOK
<1>5. pc'[t] = label /\ \A u \in Task \ {t} : pc'[u] = pc[u]
  BY <1>1 DEF Goto, At
<1>6. waitdog' \in [Task -> BOOLEAN] /\ \A u \in Task \ {t} : waitdog'[u] = waitdog[u]
  BY <1>1
<1>7. \A u \in Task \ {t} : Passive(u)
  BY <1>5, <1>6 DEF Passive
<1> QED BY <1>1, <1>4, <1>5, <1>6, <1>7 DEF GoesOn, Others

\* The sender of a message: the signal of mq_notify and the wake-up of a receiver
LEMMA NotifySendWakes ==
    ASSUME IInv, NEW t \in Task, ~Waits(t), NotifySend(t)
    PROVE  /\ Woke(t, "run") \/ Woke(t, "notify")
           /\ Cared(t, "empty") /\ ntpid' \in Task \cup {NoTask}
<1>0. ntpid' = NoTask /\ "empty" \in Event /\ "run" \in Label \ Event /\ "notify" \in Label \ Event
  BY DEF NotifySend, Event, Label
<1>1. CASE nxmq_notify(Waiting(At(t, "run")), "empty") /\ UNCHANGED errcode
  BY <1>0, <1>1, TaskWakes
<1>2. ASSUME ntpid # NoTask, Waits(ntpid),
             Becomes(unblock(Waiting(At(t, "notify")), ntpid)),
             errcode' = [errcode EXCEPT ![ntpid] = "EINTR"], UNCHANGED waitdog
      PROVE  Woke(t, "notify") /\ Cared(t, "empty")
  <2> DEFINE n == ntpid
             w == Waiting(At(t, "notify"))
             w2 == unblock(w, n)
  <2>1. /\ n \in Task /\ Waits(n) /\ n # t /\ Becomes(w2) /\ w2 = unblock(w, n)
        /\ errcode' = [errcode EXCEPT ![n] = "EINTR"]
    BY <1>2 DEF IInv, Locals
  <2>2. pc \in [Task -> Label]
    BY DEF IInv, WaitOK, Waiting
  <2>3. WaitOK(w) /\ w.list = waitlist /\ w.at[t] = "notify" /\ \A u \in Task \ {t} : w.at[u] = pc[u]
    BY <1>0, <2>2, GoOn DEF IInv, Waiting, At
  <2> HIDE DEF n, w, w2
  <2>4. /\ WaitOK(w2) /\ w2.at[n] = Woken(pc[n]) /\ w2.at[n] \notin Event
        /\ \A u \in Task \ {n} : w2.at[u] = w.at[u]
        /\ \A e \in Event : w2.list[e] # <<>> => waitlist[e] # <<>>
    <3>1. EndsWait(n, w, w2)
      BY <2>1, <2>3, Interrupted
    <3> QED BY <3>1 DEF EndsWait
  <2>5. WaitOK(Waiting(pc))' /\ pc' = w2.at /\ waitlist' = w2.list
    BY <2>1, <2>4, BecomesOK DEF Becomes
  <2>6. /\ errcode \in [Task -> {"OK", "EINTR", "ETIMEDOUT"}] /\ waitdog \in [Task -> BOOLEAN]
    BY DEF IInv, Locals
  <2>7. /\ errcode' \in [Task -> {"OK", "EINTR", "ETIMEDOUT"}] /\ errcode'[n] = "EINTR"
        /\ \A u \in Task \ {n} : errcode'[u] = errcode[u]
    BY <2>1, <2>6
  <2>8. Passive(n)
    BY <2>1, <2>4, <2>5, <2>7, <1>2 DEF Passive, Ends
  <2>9. \A u \in Task \ {t, n} : Passive(u)
    BY <2>3, <2>4, <2>5, <2>7, <1>2 DEF Passive
  <2>10. pc'[t] = "notify" /\ errcode'[t] = errcode[t] /\ waitdog'[t] = waitdog[t]
    BY <2>1, <2>3, <2>4, <2>5, <2>7, <1>2
  <2>11. t \in Wakers("empty")'
    BY <2>10 DEF Wakers
  <2>12. Woke(t, "notify")
    BY <2>4, <2>5, <2>6, <2>7, <2>8, <2>9, <2>10, <1>2 DEF Woke, Others
  <2> QED BY <2>11, <2>12 DEF Cared
<1>3. ASSUME Goto(t, "notify"), UNCHANGED <<waitlist, nwait, errcode, waitdog>>
      PROVE  Woke(t, "notify") /\ Cared(t, "empty")
  <2>1. GoesOn(t, "notify")
    BY <1>0, <1>3, GoTo
  <2> QED BY <1>3, <2>1 DEF GoesOn, Woke, Cared, Wakers
<1> QED BY <1>0, <1>1, <1>2, <1>3 DEF NotifySend

\* The same for an interrupt handler
LEMMA IrqNotifyWakes ==
    ASSUME IInv, NEW n \in Task, Waits(n),
           nxmq_notify(unblock(Waiting(pc), n), "empty"),
           errcode' = [errcode EXCEPT ![n] = "EINTR"]
    PROVE  Woke(NoTask, "run") /\ Cared(NoTask, "empty")
<1> DEFINE w == Waiting(pc)
           w2 == unblock(Waiting(pc), n)
<1>1. /\ WaitOK(w) /\ w.at = pc /\ w.list = waitlist /\ w2 = unblock(w, n)
      /\ nxmq_notify(w2, "empty")
  BY DEF IInv, Waiting
<1> HIDE DEF w, w2
<1>2. NoTask \notin Task /\ "empty" \in Event
  BY MQueueAssumption DEF Event
<1>3. /\ WaitOK(w2) /\ w2.at[n] = Woken(pc[n]) /\ w2.at[n] \notin Event
      /\ \A u \in Task \ {n} : w2.at[u] = w.at[u]
      /\ \A e \in Event : w2.list[e] # <<>> => waitlist[e] # <<>>
  <2>1. EndsWait(n, w, w2)
    BY <1>1, <1>2, Interrupted
  <2> QED BY <2>1 DEF EndsWait
<1>5. /\ errcode \in [Task -> {"OK", "EINTR", "ETIMEDOUT"}] /\ waitdog \in [Task -> BOOLEAN]
      /\ \A u \in Task : Stage(u)
  BY DEF IInv, Locals, Stages
<1>4. Notified(w2, "empty")
  BY <1>1, <1>2, <1>3, <1>5, NotifyOK
<1>6. /\ errcode' \in [Task -> {"OK", "EINTR", "ETIMEDOUT"}] /\ errcode'[n] = "EINTR"
      /\ \A u \in Task \ {n} : errcode'[u] = errcode[u]
  BY <1>5
<1>7. /\ WaitOK(Waiting(pc))' /\ waitdog' \in [Task -> BOOLEAN]
      /\ \A e \in Event : waitlist'[e] # <<>> => waitlist[e] # <<>>
  BY <1>3, <1>4 DEF Notified
<1>8. CASE waitlist'["empty"] = <<>> /\ pc' = w2.at /\ waitdog' = waitdog
  <2>1. Passive(n)
    BY <1>3, <1>6, <1>8 DEF Passive, Ends
  <2>2. \A u \in Task \ {n} : Passive(u)
    BY <1>1, <1>3, <1>6, <1>8 DEF Passive
  <2> QED BY <1>2, <1>6, <1>7, <1>8, <2>1, <2>2 DEF Woke, Others, Cared
<1>9. ASSUME NEW h \in Task, w2.at[h] = "empty", pc'[h] = Woken("empty"), ~waitdog'[h],
             \A u \in Task \ {h} : pc'[u] = w2.at[u] /\ waitdog'[u] = waitdog[u]
      PROVE  Woke(NoTask, "run") /\ Cared(NoTask, "empty")
  <2>1. h # n /\ pc[h] = "empty" /\ errcode'[h] = errcode[h]
    BY <1>1, <1>2, <1>3, <1>6, <1>9
  <2>2. Passive(h)
    BY <1>2, <1>9, <2>1 DEF Passive, Ends, Waits
  <2>3. Passive(n)
    BY <1>3, <1>6, <1>9, <2>1 DEF Passive, Ends
  <2>4. \A u \in Task \ {n, h} : Passive(u)
    BY <1>1, <1>3, <1>6, <1>9 DEF Passive
  <2>5. h \in Wakers("empty")' /\ h \notin Wakers("empty")
    BY <1>2, <1>5, <1>9, <2>1, NewWaker
  <2> QED BY <1>2, <1>6, <1>7, <2>2, <2>3, <2>4, <2>5 DEF Woke, Others, Cared
<1> QED BY <1>4, <1>8, <1>9 DEF Notified

-----------------------------------------------------------------------------
(* The messages in the queue and in the history *)

LEMMA MessagePrioType ==
    /\ MessagePrio \in [Message -> Int] /\ \A m \in Message : MessagePrio[m] = m.prio
    /\ \A m \in Message : m.buf \in Buffer /\ m.prio \in Int
    /\ \A b \in Buffer, p \in MsgPrio : [buf |-> b, prio |-> p] \in Message
<1>1. \A m \in Message : m.buf \in Buffer /\ m.prio \in Int
  <2>1. MsgPrio \subseteq Int
    BY MQueueAssumption
  <2> QED BY <2>1 DEF Message
<1>2. \A b \in Buffer, p \in MsgPrio : [buf |-> b, prio |-> p] \in Message
  BY DEF Message
<1> QED BY <1>1, <1>2 DEF MessagePrio

\* The last message sent goes behind those of its own or a higher priority.
Appended(n, k, s, l, s2, l2, x) ==
    /\ DOMAIN s = 1..n /\ DOMAIN l = 1..n /\ DOMAIN s2 = 1..(n + 1) /\ DOMAIN l2 = 1..(n + 1)
    /\ \A i \in 1..n : s2[i] = s[i] /\ s[i] # x /\ l[i] # x
    /\ s2[n + 1] = x
    /\ \A i \in 1..(n + 1) :
           l2[i] = IF i <= k THEN l[i] ELSE IF i = k + 1 THEN x ELSE l[i - 1]
    /\ \A i \in 1..n : i > k => l[i].prio # x.prio

LEMMA OrderAppend ==
    ASSUME NEW n \in Nat, NEW k \in 0..n, NEW s, NEW l, NEW s2, NEW l2, NEW x,
           Appended(n, k, s, l, s2, l2, x), SameOrder(s, l)
    PROVE  SameOrder(s2, l2)
<1> SUFFICES ASSUME NEW i \in 1..(n + 1), NEW j \in 1..(n + 1),
                    NEW a \in 1..(n + 1), NEW b \in 1..(n + 1),
                    i < j, s2[i] = l2[a], s2[j] = l2[b], s2[i].prio = s2[j].prio
             PROVE  a < b
  BY DEF SameOrder, Appended
<1> USE DEF Appended
<1> DEFINE Down(c) == IF c <= k THEN c ELSE c - 1
<1>1. i \in 1..n /\ s2[i] = s[i] /\ s[i] # x
  OBVIOUS
<1>o. \A p, q \in 1..n, c, d \in 1..n :
        p < q /\ s[p] = l[c] /\ s[q] = l[d] /\ s[p].prio = s[q].prio => c < d
  BY DEF SameOrder
<1>d. \A c \in 1..(n + 1) : l2[c] # x => c # k + 1 /\ Down(c) \in 1..n /\ l2[c] = l[Down(c)]
  OBVIOUS
<1>2. a # k + 1 /\ Down(a) \in 1..n /\ l2[a] = l[Down(a)]
  BY ONLY <1>1, <1>d, s2[i] = l2[a], a \in 1..(n + 1)
<1>3. CASE j = n + 1
  <2>1. l[Down(a)].prio = x.prio
    BY <1>1, <1>2, <1>3
  <2>2. Down(a) <= k
    BY <1>2, <2>1
  <2>3. b = k + 1
    <3>1. CASE b <= k
      BY <1>3, <3>1
    <3>2. CASE b > k + 1
      <4>1. b - 1 \in 1..n /\ l2[b] = l[b - 1]
        BY <3>2
      <4> QED BY <4>1, <1>3
    <3> QED BY <3>1, <3>2
  <2> QED BY <1>2, <2>2, <2>3
<1>4. CASE j \in 1..n
  <2>1. s2[j] = s[j] /\ s[j] # x
    BY <1>4
  <2>2. b # k + 1 /\ Down(b) \in 1..n /\ l2[b] = l[Down(b)]
    BY ONLY <2>1, <1>d, s2[j] = l2[b], b \in 1..(n + 1)
  <2>3. Down(a) < Down(b)
    <3> HIDE DEF Down
    <3>1. /\ s[i] = l[Down(a)] /\ s[j] = l[Down(b)] /\ s[i].prio = s[j].prio
          /\ i \in 1..n /\ j \in 1..n /\ Down(a) \in 1..n /\ Down(b) \in 1..n
      BY <1>1, <1>2, <1>4, <2>1, <2>2
    <3> QED BY ONLY <1>o, <3>1, i < j, Zenon
  <2> QED BY <1>2, <2>2, <2>3
<1> QED BY <1>3, <1>4

\* The first message of the queue leaves both lists.
Removes(n, k, s, l, s2, l2) ==
    /\ DOMAIN s = 1..n /\ DOMAIN l = 1..n /\ DOMAIN s2 = 1..(n - 1) /\ DOMAIN l2 = 1..(n - 1)
    /\ \A i \in 1..(n - 1) : s2[i] = IF i < k THEN s[i] ELSE s[i + 1]
    /\ \A i \in 1..(n - 1) : l2[i] = l[i + 1]

LEMMA OrderRemove ==
    ASSUME NEW n \in Nat, NEW k \in 1..n, NEW s, NEW l, NEW s2, NEW l2,
           Removes(n, k, s, l, s2, l2), SameOrder(s, l)
    PROVE  SameOrder(s2, l2)
<1> SUFFICES ASSUME NEW i \in 1..(n - 1), NEW j \in 1..(n - 1),
                    NEW a \in 1..(n - 1), NEW b \in 1..(n - 1),
                    i < j, s2[i] = l2[a], s2[j] = l2[b], s2[i].prio = s2[j].prio
             PROVE  a < b
  BY DEF SameOrder, Removes
<1> USE DEF Removes
<1> DEFINE Up(c) == IF c < k THEN c ELSE c + 1
<1>1. Up(i) \in 1..n /\ Up(j) \in 1..n /\ Up(i) < Up(j) /\ s2[i] = s[Up(i)] /\ s2[j] = s[Up(j)]
  OBVIOUS
<1>2. a + 1 \in 1..n /\ b + 1 \in 1..n /\ l2[a] = l[a + 1] /\ l2[b] = l[b + 1]
  OBVIOUS
<1>o. \A p, q \in 1..n, c, d \in 1..n :
        p < q /\ s[p] = l[c] /\ s[q] = l[d] /\ s[p].prio = s[q].prio => c < d
  BY DEF SameOrder
<1>3. a + 1 < b + 1
  <2> HIDE DEF Up
  <2>1. s[Up(i)] = l[a + 1] /\ s[Up(j)] = l[b + 1] /\ s[Up(i)].prio = s[Up(j)].prio
    BY <1>1, <1>2
  <2> QED BY ONLY <1>1, <1>2, <2>1, <1>o, Zenon
<1> QED BY <1>3

\* What dq_rem leaves of a list without repetitions
RemovedAt(n, k, list, l, x) ==
    /\ list[k] = x /\ DOMAIN l = 1..(n - 1)
    /\ l = [i \in 1..(n - 1) |-> IF i < k THEN list[i] ELSE list[i + 1]]

LEMMA RemPlaces ==
    ASSUME NEW S, NEW list \in Seq(S), NEW x \in Members(list),
           NEW l, l = dq_rem(list, x), NEW n, n = Len(list)
    PROVE  \E k \in 1..n : RemovedAt(n, k, list, l, x)
<1> DEFINE k == CHOOSE i \in DOMAIN list : list[i] = x
<1>1. n \in Nat /\ DOMAIN list = 1..n /\ \A i \in 1..n : list[i] \in S
  OBVIOUS
<1>2. \E i \in DOMAIN list : list[i] = x
  BY DEF Members
<1>3. k \in 1..n /\ list[k] = x
  BY <1>1, <1>2
<1>4. l = [i \in 1..(n - 1) |-> IF i < k THEN list[i] ELSE list[i + 1]]
  BY DEF dq_rem
<1> HIDE DEF k
<1> QED BY <1>3, <1>4 DEF RemovedAt

LEMMA RemDistinct ==
    ASSUME NEW S, NEW list \in Seq(S), Distinct(list), NEW x \in Members(list),
           NEW l, l = dq_rem(list, x)
    PROVE  l \in Seq(S) /\ Distinct(l) /\ Members(l) = Members(list) \ {x}
           /\ Len(l) = Len(list) - 1
<1> DEFINE flat == [y \in S |-> 0]
<1>1. Proper(list, S, flat)
  <2>1. \A i \in DOMAIN list : list[i] \in S
    OBVIOUS
  <2>2. \A i \in DOMAIN list : flat[list[i]] = 0
    BY <2>1
  <2> HIDE DEF flat
  <2>3. Descending(list, flat)
    BY <2>2 DEF Descending
  <2> QED BY <2>3 DEF Proper
<1> HIDE DEF flat
<1>2. Proper(l, S, flat) /\ Len(l) = Len(list) - 1 /\ Members(l) = Members(list) \ {x}
  BY ONLY <1>1, x \in Members(list), l = dq_rem(list, x), DqRem
<1> QED BY <1>2 DEF Proper

\* The lists as functions on the places 1..n
LEMMA ListFacts ==
    ASSUME Lists, NEW n, n = Len(msglist)
    PROVE  /\ n \in Nat /\ nmsgs = n /\ n <= maxmsgs /\ maxmsgs \in Nat
           /\ msglist \in Seq(Message) /\ sent \in Seq(Message) /\ Len(sent) = n
           /\ DOMAIN msglist = 1..n /\ DOMAIN sent = 1..n
           /\ \A i \in 1..n : msglist[i] \in Message /\ sent[i] \in Message
           /\ Distinct(sent) /\ Members(sent) = Members(msglist) /\ SameOrder(sent, msglist)
<1>1. msglist \in Seq(Message) /\ nmsgs = n /\ nmsgs \in 0..maxmsgs
  BY DEF Lists, Proper
<1>2. /\ sent \in Seq(Message) /\ Len(sent) = n /\ Distinct(sent)
      /\ Members(sent) = Members(msglist) /\ SameOrder(sent, msglist)
  BY DEF Lists, History
<1>3. maxmsgs \in Nat
  BY MQueueAssumption
<1>4. n \in Nat /\ DOMAIN msglist = 1..n /\ \A i \in 1..n : msglist[i] \in Message
  BY <1>1
<1>5. DOMAIN sent = 1..n /\ \A i \in 1..n : sent[i] \in Message
  BY <1>2
<1> QED BY <1>1, <1>2, <1>3, <1>4, <1>5

LEMMA QueuedLists ==
    ASSUME Lists, NEW msg \in Message, msg \notin Members(msglist), nmsgs < maxmsgs, Queued(msg)
    PROVE  Lists' /\ Members(msglist') = Members(msglist) \cup {msg}
<1> DEFINE n == Len(msglist)
           l == msglist'
           s == sent'
           k == Ahead(msglist, MessagePrio, MessagePrio[msg])
<1>n. n = Len(msglist)
  OBVIOUS
<1>0. /\ l = nxsched_add_prioritized(msglist, MessagePrio, msg)
      /\ nmsgs' = nmsgs + 1 /\ s = Append(sent, msg)
  BY DEF Queued, nxmq_add_queue
<1>1. /\ n \in Nat /\ nmsgs = n /\ n <= maxmsgs /\ maxmsgs \in Nat
      /\ msglist \in Seq(Message) /\ sent \in Seq(Message) /\ Len(sent) = n
      /\ DOMAIN msglist = 1..n /\ DOMAIN sent = 1..n
      /\ \A i \in 1..n : msglist[i] \in Message /\ sent[i] \in Message
      /\ Distinct(sent) /\ Members(sent) = Members(msglist) /\ SameOrder(sent, msglist)
  BY ListFacts
<1>2. Proper(msglist, Message, MessagePrio)
  BY DEF Lists
<1>3. Proper(l, Message, MessagePrio) /\ Len(l) = Len(msglist) + 1
      /\ Members(l) = Members(msglist) \cup {msg}
  BY ONLY <1>0, <1>2, MessagePrioType, msg \in Message, msg \notin Members(msglist), AddPrioritized
<1>4. /\ k \in 0..n
      /\ \A i \in 1..n : i <= k <=> MessagePrio[msg] <= MessagePrio[msglist[i]]
  <2>1. MessagePrio[msg] \in Int /\ Descending(msglist, MessagePrio)
    BY <1>2, MessagePrioType DEF Proper
  <2> QED BY <1>1, <2>1, MessagePrioType, AheadOrder
<1>5. \A i \in 1..n : i > k => msglist[i].prio # msg.prio
  BY <1>1, <1>4, MessagePrioType
<1>6. /\ DOMAIN l = 1..(n + 1)
      /\ \A i \in 1..(n + 1) :
           l[i] = IF i <= k THEN msglist[i] ELSE IF i = k + 1 THEN msg ELSE msglist[i - 1]
  BY <1>0 DEF nxsched_add_prioritized
<1>7. /\ s \in Seq(Message) /\ Len(s) = n + 1 /\ DOMAIN s = 1..(n + 1)
      /\ s[n + 1] = msg /\ \A i \in 1..n : s[i] = sent[i]
  BY <1>0, <1>1
<1>8. \A i \in 1..n : sent[i] # msg /\ msglist[i] # msg
  BY <1>1 DEF Members
<1> HIDE DEF n, l, s, k
<1>9. SameOrder(s, l)
  <2>1. Appended(n, k, sent, msglist, s, l, msg)
    BY <1>1, <1>5, <1>6, <1>7, <1>8 DEF Appended
  <2> QED BY ONLY <2>1, <1>1, <1>4, OrderAppend
<1>10. Distinct(s)
  <2> SUFFICES ASSUME NEW i \in 1..(n + 1), NEW j \in 1..(n + 1), s[i] = s[j]
               PROVE  i = j
    BY <1>7 DEF Distinct
  <2>1. CASE i = n + 1 \/ j = n + 1
    BY <2>1, <1>1, <1>7, <1>8
  <2>2. CASE i \in 1..n /\ j \in 1..n
    BY <2>2, <1>1, <1>7 DEF Distinct
  <2> QED BY <2>1, <2>2, <1>1
<1>11. Members(s) = Members(l)
  <2>1. Members(s) = Members(sent) \cup {msg}
    <3>1. ASSUME NEW i \in 1..(n + 1)
          PROVE  s[i] \in Members(sent) \cup {msg}
      BY <1>1, <1>7 DEF Members
    <3>2. ASSUME NEW i \in 1..n
          PROVE  sent[i] \in Members(s)
      BY <1>1, <1>7 DEF Members
    <3>3. msg \in Members(s)
      BY <1>1, <1>7 DEF Members
    <3> QED BY <3>1, <3>2, <3>3, <1>1, <1>7 DEF Members
  <2> QED BY <2>1, <1>1, <1>3
<1>12. Len(l) = n + 1 /\ nmsgs' = n + 1 /\ nmsgs' \in 0..maxmsgs
  BY <1>0, <1>1, <1>3, <1>n
<1>13. Proper(msglist, Message, MessagePrio)' /\ History' /\ nmsgs' = Len(msglist')
  BY <1>3, <1>7, <1>9, <1>10, <1>11, <1>12 DEF History, l, s
<1> QED BY <1>3, <1>12, <1>13 DEF Lists, l

LEMMA ReceivedLists ==
    ASSUME Lists, msglist # <<>>, Received
    PROVE  /\ Lists' /\ msglist[1] \in Members(msglist) /\ msglist[1] \in Message
           /\ Members(msglist') = Members(msglist) \ {msglist[1]}
<1> DEFINE n == Len(msglist)
           l == msglist'
           s == sent'
           x == msglist[1]
<1>n. n = Len(msglist)
  OBVIOUS
<1>0. l = Tail(msglist) /\ nmsgs' = nmsgs - 1 /\ s = dq_rem(sent, x)
  BY DEF Received
<1>1. /\ n \in Nat /\ nmsgs = n /\ n <= maxmsgs /\ maxmsgs \in Nat
      /\ msglist \in Seq(Message) /\ sent \in Seq(Message) /\ Len(sent) = n
      /\ DOMAIN msglist = 1..n /\ DOMAIN sent = 1..n
      /\ \A i \in 1..n : msglist[i] \in Message /\ sent[i] \in Message
      /\ Distinct(sent) /\ Members(sent) = Members(msglist) /\ SameOrder(sent, msglist)
  BY ListFacts
<1>2. Proper(msglist, Message, MessagePrio)
  BY DEF Lists
<1>3. n >= 1 /\ 1 \in 1..n
  BY <1>1
<1>4. x \in Members(msglist) /\ x \in Message
  BY <1>1, <1>3 DEF Members
<1>5. DOMAIN l = 1..(n - 1) /\ Len(l) = n - 1 /\ \A i \in 1..(n - 1) : l[i] = msglist[i + 1]
  BY <1>0, <1>1
<1>6. Proper(l, Message, MessagePrio) /\ Members(l) = Members(msglist) \ {x}
  <2>1. l = dq_rem(msglist, x)
    <3>1. \A i \in DOMAIN msglist : msglist[i] = x => i = 1
      BY <1>1, <1>2, <1>3 DEF Proper, Distinct
    <3>2. (CHOOSE i \in DOMAIN msglist : msglist[i] = x) = 1
      BY <3>1, <1>1, <1>3
    <3>3. dq_rem(msglist, x) = [i \in 1..(n - 1) |-> IF i < 1 THEN msglist[i] ELSE msglist[i + 1]]
      BY <3>2 DEF dq_rem
    <3>4. l = [i \in 1..(n - 1) |-> msglist[i + 1]]
      <4>1. l \in Seq(Message)
        BY <1>0, <1>1, <1>3
      <4>2. l = [i \in 1..Len(l) |-> l[i]]
        BY <4>1
      <4> QED BY <4>2, <1>5
    <3> QED BY <3>3, <3>4
  <2> HIDE DEF l, x
  <2> QED BY ONLY <1>2, <1>4, <2>1, DqRem
<1>7. /\ s \in Seq(Message) /\ Distinct(s) /\ Members(s) = Members(sent) \ {x}
      /\ Len(s) = Len(sent) - 1
  BY <1>0, <1>1, <1>4, RemDistinct
<1>8. SameOrder(s, l)
  <2> HIDE DEF n, l, s, x
  <2>1. x \in Members(sent)
    BY <1>1, <1>4
  <2>2. PICK k \in 1..n : RemovedAt(n, k, sent, s, x)
    BY ONLY <2>1, <1>0, <1>1, RemPlaces
  <2>3. Removes(n, k, sent, msglist, s, l)
    BY <2>2, <1>1, <1>5 DEF Removes, RemovedAt
  <2> QED BY ONLY <2>3, <1>1, OrderRemove
<1> HIDE DEF n, l, s, x
<1>9. nmsgs' = n - 1 /\ nmsgs' \in 0..maxmsgs /\ nmsgs' = Len(l) /\ Len(s) = Len(l)
  BY <1>0, <1>1, <1>3, <1>5, <1>7
<1>10. History'
  BY <1>1, <1>6, <1>7, <1>8, <1>9 DEF History, l, s
<1> QED BY <1>4, <1>6, <1>9, <1>10 DEF Lists, l, x

\* The head of the queue is the oldest of the messages with the highest priority.
LEMMA ReceivedOldest ==
    ASSUME Lists, msglist # <<>>, Received
    PROVE  \E i \in DOMAIN sent :
             Abs!OldestOfHighest(i) /\ sent[i] = msglist[1] /\ sent' = Abs!Without(i)
<1> DEFINE n == Len(msglist)
           x == msglist[1]
<1>1. /\ n \in Nat /\ Len(sent) = n /\ msglist \in Seq(Message) /\ sent \in Seq(Message)
      /\ DOMAIN msglist = 1..n /\ DOMAIN sent = 1..n
      /\ \A i \in 1..n : msglist[i] \in Message /\ sent[i] \in Message
      /\ Members(sent) = Members(msglist) /\ SameOrder(sent, msglist)
  BY ListFacts
<1>2. 1 \in 1..n
  BY <1>1
<1>3. x \in Members(sent)
  BY <1>1, <1>2 DEF Members
<1>4. sent' = dq_rem(sent, x)
  BY DEF Received
<1>5. \A m \in Members(sent) : m.prio <= x.prio
  <2>1. Descending(msglist, MessagePrio)
    BY DEF Lists, Proper
  <2>2. ASSUME NEW i \in 1..n PROVE msglist[i].prio <= x.prio
    <3>1. MessagePrio[msglist[i]] <= MessagePrio[msglist[1]]
      BY <2>1, <1>1, <1>2 DEF Descending
    <3> QED BY <3>1, <1>1, <1>2, MessagePrioType
  <2> QED BY <2>2, <1>1 DEF Members
<1> HIDE DEF n, x
<1>6. PICK k \in 1..n : RemovedAt(n, k, sent, sent', x)
  BY ONLY <1>1, <1>3, <1>4, RemPlaces
<1>7. sent[k] = x /\ sent' = [j \in 1..(Len(sent) - 1) |-> IF j < k THEN sent[j] ELSE sent[j + 1]]
  BY <1>1, <1>6 DEF RemovedAt
<1>8. ASSUME NEW j \in 1..n PROVE sent[j].prio <= sent[k].prio
  BY <1>1, <1>5, <1>7 DEF Members
<1>9. ASSUME NEW j \in 1..(k - 1) PROVE sent[j].prio < sent[k].prio
  <2>1. j \in 1..n /\ j < k
    BY <1>1
  <2>2. PICK a \in 1..n : msglist[a] = sent[j]
    BY <1>1, <2>1 DEF Members
  <2>3. sent[j].prio # sent[k].prio
    <3> SUFFICES ASSUME sent[j].prio = sent[k].prio PROVE FALSE
      OBVIOUS
    <3>1. sent[k] = msglist[1]
      BY <1>7 DEF x
    <3>2. a < 1
      BY ONLY <1>1, <1>2, <2>1, <2>2, <3>1, k \in 1..n, sent[j].prio = sent[k].prio, Zenon DEF SameOrder
    <3> QED BY <3>2
  <2>4. sent[j].prio \in Int /\ sent[k].prio \in Int
    BY <1>1, <2>1, MessagePrioType
  <2> QED BY <1>8, <2>1, <2>3, <2>4
<1>10. Abs!OldestOfHighest(k)
  BY <1>1, <1>8, <1>9 DEF Abs!OldestOfHighest
<1> QED BY <1>1, <1>7, <1>10 DEF Abs!Without, x

-----------------------------------------------------------------------------
(* The message structures *)

LEMMA MessagesKept ==
    ASSUME Messages, UNCHANGED <<msglist, nmsgs, sent, pools, held>>
    PROVE  Messages'
BY DEF Messages, Lists, History, Placed, InPool, InQueue, InHand, pools

\* One structure is taken out of the free lists.
LEMMA Alloc ==
    ASSUME Messages, NEW irq \in BOOLEAN, NEW b \in nxmq_alloc_msg(irq), Allocated(b)
    PROVE  /\ b \in Buffer /\ InPool(b)
           /\ g_msgfree' \subseteq Fixed /\ g_msgfreeirq' \subseteq Irq /\ heap' \subseteq Heap
           /\ \A c : InPool(c)' <=> InPool(c) /\ c # b
<1>1. b \in g_msgfree \/ b \in g_msgfreeirq \/ b \in heap
  BY DEF nxmq_alloc_msg
<1> QED BY <1>1 DEF Allocated, Messages, InPool, Buffer

\* Structures go back to the free lists.
LEMMA Freed ==
    ASSUME Messages, NEW B, B \subseteq Buffer, nxmq_free_msg(B)
    PROVE  /\ g_msgfree' \subseteq Fixed /\ g_msgfreeirq' \subseteq Irq /\ heap' \subseteq Heap
           /\ \A c : InPool(c)' <=> InPool(c) \/ c \in B
BY DEF nxmq_free_msg, Messages, InPool, Buffer

LEMMA HeldSet ==
    ASSUME Messages, NEW t \in Task, NEW m \in Message, held' = [held EXCEPT ![t] = m]
    PROVE  /\ held' \in [Task -> Message \cup {NoMsg}] /\ held'[t] # NoMsg
           /\ \A u \in Task \ {t} : held'[u] = held[u]
           /\ \A c : InHand(t, c)' <=> m.buf = c
           /\ \A u \in Task \ {t} : \A c : InHand(u, c)' <=> InHand(u, c)
<1>1. held \in [Task -> Message \cup {NoMsg}] /\ m # NoMsg
  BY NoMsgAssumption DEF Messages
<1>2. held' \in [Task -> Message \cup {NoMsg}] /\ held'[t] = m
      /\ \A u \in Task \ {t} : held'[u] = held[u]
  BY <1>1
<1> QED BY <1>1, <1>2 DEF InHand

LEMMA HeldCleared ==
    ASSUME Messages, NEW t \in Task, held' = [held EXCEPT ![t] = NoMsg]
    PROVE  /\ held' \in [Task -> Message \cup {NoMsg}] /\ held'[t] = NoMsg
           /\ \A u \in Task \ {t} : held'[u] = held[u]
           /\ \A c : ~InHand(t, c)'
           /\ \A u \in Task \ {t} : \A c : InHand(u, c)' <=> InHand(u, c)
<1>1. held \in [Task -> Message \cup {NoMsg}]
  BY DEF Messages
<1>2. held' \in [Task -> Message \cup {NoMsg}] /\ held'[t] = NoMsg
      /\ \A u \in Task \ {t} : held'[u] = held[u]
  BY <1>1
<1> QED BY <1>1, <1>2 DEF InHand

\* mq_send takes a structure.
LEMMA MessagesTaken ==
    ASSUME Messages, NEW t \in Task, held[t] = NoMsg, NEW p \in MsgPrio,
           NEW b \in nxmq_alloc_msg(FALSE), Allocated(b),
           held' = [held EXCEPT ![t] = [buf |-> b, prio |-> p]],
           UNCHANGED <<msglist, nmsgs, sent>>
    PROVE  Messages' /\ held'[t] # NoMsg /\ \A u \in Task \ {t} : held'[u] = held[u]
<1> DEFINE m == [buf |-> b, prio |-> p]
<1>1. /\ b \in Buffer /\ InPool(b)
      /\ g_msgfree' \subseteq Fixed /\ g_msgfreeirq' \subseteq Irq /\ heap' \subseteq Heap
      /\ \A c : InPool(c)' <=> InPool(c) /\ c # b
  BY Alloc
<1>2. m \in Message /\ m.buf = b
  BY <1>1, MessagePrioType
<1> HIDE DEF m
<1>3. held' = [held EXCEPT ![t] = m]
  BY DEF m
<1>4. /\ held' \in [Task -> Message \cup {NoMsg}] /\ held'[t] # NoMsg
      /\ \A u \in Task \ {t} : held'[u] = held[u]
      /\ \A c : InHand(t, c)' <=> m.buf = c
      /\ \A u \in Task \ {t} : \A c : InHand(u, c)' <=> InHand(u, c)
  BY <1>2, <1>3, HeldSet
<1>5. /\ \A c : InQueue(c)' <=> InQueue(c)
      /\ \A c : ~InHand(t, c)
  BY DEF InQueue, InHand
<1>6. Lists'
  BY DEF Messages, Lists, History
<1>7. Placed
  BY DEF Messages
<1>8. Placed'
  <2>1. \A c \in Buffer : InPool(c)' \/ InQueue(c)' \/ \E u \in Task : InHand(u, c)'
    BY ONLY <1>1, <1>2, <1>4, <1>5, <1>7, t \in Task DEF Placed
  <2>2. \A c \in Buffer : InPool(c)' => ~InQueue(c)'
    BY ONLY <1>1, <1>5, <1>7 DEF Placed
  <2>3. \A c \in Buffer, u \in Task : InHand(u, c)' => ~InPool(c)' /\ ~InQueue(c)'
    BY ONLY <1>1, <1>2, <1>4, <1>5, <1>7 DEF Placed
  <2>4. \A c \in Buffer, u, v \in Task : InHand(u, c)' /\ InHand(v, c)' => u = v
    BY ONLY <1>1, <1>2, <1>4, <1>7 DEF Placed
  <2>5. \A x, y \in Members(msglist') : x.buf = y.buf => x = y
    BY <1>7 DEF Placed
  <2> QED BY <2>1, <2>2, <2>3, <2>4, <2>5 DEF Placed
<1> QED BY <1>1, <1>4, <1>6, <1>8 DEF Messages

\* A task puts its message into the queue.
LEMMA MessagesQueued ==
    ASSUME Messages, NEW t \in Task, held[t] # NoMsg, nmsgs < maxmsgs, Queued(held[t]),
           held' = [held EXCEPT ![t] = NoMsg], UNCHANGED pools
    PROVE  Messages' /\ held'[t] = NoMsg /\ (\A u \in Task \ {t} : held'[u] = held[u])
           /\ nmsgs' = nmsgs + 1
<1> DEFINE m == held[t]
<1>1. m \in Message /\ Queued(m) /\ m.buf \in Buffer /\ InHand(t, m.buf)
      /\ \A c : InHand(t, c) <=> c = m.buf
  BY MessagePrioType DEF Messages, InHand
<1>2. /\ held' \in [Task -> Message \cup {NoMsg}] /\ held'[t] = NoMsg
      /\ \A u \in Task \ {t} : held'[u] = held[u]
      /\ \A c : ~InHand(t, c)'
      /\ \A u \in Task \ {t} : \A c : InHand(u, c)' <=> InHand(u, c)
  BY HeldCleared
<1>3. \A c : InPool(c)' <=> InPool(c)
  BY DEF InPool, pools
<1> HIDE DEF m
<1>4. Placed /\ Lists
  BY DEF Messages
<1>5. ~InPool(m.buf) /\ ~InQueue(m.buf)
  BY <1>1, <1>4 DEF Placed
<1>6. m \notin Members(msglist)
  BY <1>5 DEF InQueue
<1>7. Lists' /\ Members(msglist') = Members(msglist) \cup {m}
  BY <1>1, <1>4, <1>6, QueuedLists
<1>8. \A c : InQueue(c)' <=> InQueue(c) \/ c = m.buf
  BY <1>7 DEF InQueue
<1>9. Placed'
  <2>1. \A c \in Buffer : InPool(c)' \/ InQueue(c)' \/ \E u \in Task : InHand(u, c)'
    <3>1. ASSUME NEW c \in Buffer, NEW u \in Task, InHand(u, c)
          PROVE  InQueue(c)' \/ InHand(u, c)'
      BY <3>1, <1>1, <1>2, <1>8
    <3>2. \A c \in Buffer : InPool(c) \/ InQueue(c) \/ \E u \in Task : InHand(u, c)
      BY <1>4 DEF Placed
    <3> QED BY ONLY <3>1, <3>2, <1>3, <1>8
  <2>2. \A c \in Buffer : InPool(c)' => ~InQueue(c)'
    BY ONLY <1>3, <1>4, <1>5, <1>8 DEF Placed
  <2>3. \A c \in Buffer, u \in Task : InHand(u, c)' => ~InPool(c)' /\ ~InQueue(c)'
    <3>1. ASSUME NEW c \in Buffer, NEW u \in Task, InHand(u, c)'
          PROVE  InHand(u, c) /\ u # t
      BY <3>1, <1>2
    <3>2. \A c \in Buffer, u \in Task : InHand(u, c) => ~InPool(c) /\ ~InQueue(c)
      BY <1>4 DEF Placed
    <3>3. \A u \in Task : InHand(u, m.buf) => u = t
      BY <1>1, <1>4 DEF Placed
    <3> QED BY ONLY <3>1, <3>2, <3>3, <1>3, <1>8
  <2>4. \A c \in Buffer, u, v \in Task : InHand(u, c)' /\ InHand(v, c)' => u = v
    BY ONLY <1>2, <1>4 DEF Placed
  <2>5. \A x, y \in Members(msglist') : x.buf = y.buf => x = y
    BY <1>4, <1>5, <1>7 DEF Placed, InQueue
  <2> QED BY <2>1, <2>2, <2>3, <2>4, <2>5 DEF Placed
<1>10. nmsgs' = nmsgs + 1
  BY DEF Queued
<1>11. g_msgfree' \subseteq Fixed /\ g_msgfreeirq' \subseteq Irq /\ heap' \subseteq Heap
  BY DEF Messages, pools
<1> QED BY <1>2, <1>7, <1>9, <1>10, <1>11 DEF Messages

\* An interrupt handler takes a structure and puts it into the queue.
LEMMA MessagesFromIrq ==
    ASSUME Messages, nmsgs < maxmsgs, NEW p \in MsgPrio,
           NEW b \in nxmq_alloc_msg(TRUE), Allocated(b), Queued([buf |-> b, prio |-> p]),
           UNCHANGED held
    PROVE  Messages' /\ nmsgs' = nmsgs + 1
<1> DEFINE m == [buf |-> b, prio |-> p]
<1>1. /\ b \in Buffer /\ InPool(b)
      /\ g_msgfree' \subseteq Fixed /\ g_msgfreeirq' \subseteq Irq /\ heap' \subseteq Heap
      /\ \A c : InPool(c)' <=> InPool(c) /\ c # b
  BY Alloc
<1>2. m \in Message /\ m.buf = b /\ Queued(m)
  BY <1>1, MessagePrioType
<1> HIDE DEF m
<1>3. \A u, c : InHand(u, c)' <=> InHand(u, c)
  BY DEF InHand
<1>4. Placed /\ Lists
  BY DEF Messages
<1>5. ~InQueue(b) /\ \A u \in Task : ~InHand(u, b)
  BY <1>1, <1>4 DEF Placed
<1>6. m \notin Members(msglist)
  BY <1>2, <1>5 DEF InQueue
<1>7. Lists' /\ Members(msglist') = Members(msglist) \cup {m}
  BY <1>2, <1>4, <1>6, QueuedLists
<1>8. \A c : InQueue(c)' <=> InQueue(c) \/ c = b
  BY <1>2, <1>7 DEF InQueue
<1>9. Placed'
  <2>1. \A c \in Buffer : InPool(c)' \/ InQueue(c)' \/ \E u \in Task : InHand(u, c)'
    BY ONLY <1>1, <1>3, <1>4, <1>8 DEF Placed
  <2>2. \A c \in Buffer : InPool(c)' => ~InQueue(c)'
    BY ONLY <1>1, <1>4, <1>8 DEF Placed
  <2>3. \A c \in Buffer, u \in Task : InHand(u, c)' => ~InPool(c)' /\ ~InQueue(c)'
    BY ONLY <1>1, <1>3, <1>4, <1>5, <1>8 DEF Placed
  <2>4. \A c \in Buffer, u, v \in Task : InHand(u, c)' /\ InHand(v, c)' => u = v
    BY ONLY <1>3, <1>4 DEF Placed
  <2>5. \A x, y \in Members(msglist') : x.buf = y.buf => x = y
    BY <1>2, <1>4, <1>5, <1>7 DEF Placed, InQueue
  <2> QED BY <2>1, <2>2, <2>3, <2>4, <2>5 DEF Placed
<1>10. nmsgs' = nmsgs + 1 /\ held' \in [Task -> Message \cup {NoMsg}]
  BY DEF Queued, Messages
<1> QED BY <1>1, <1>7, <1>9, <1>10 DEF Messages

\* A task takes the first message of the queue.
LEMMA MessagesReceived ==
    ASSUME Messages, NEW t \in Task, held[t] = NoMsg, msglist # <<>>, Received,
           held' = [held EXCEPT ![t] = msglist[1]], UNCHANGED pools
    PROVE  Messages' /\ held'[t] # NoMsg /\ (\A u \in Task \ {t} : held'[u] = held[u])
           /\ nmsgs' = nmsgs - 1
<1> DEFINE m == msglist[1]
<1>m. held' = [held EXCEPT ![t] = m]
  OBVIOUS
<1>1. Placed /\ Lists
  BY DEF Messages
<1>2. Lists' /\ m \in Members(msglist) /\ m \in Message /\ Members(msglist') = Members(msglist) \ {m}
  BY <1>1, ReceivedLists
<1> HIDE DEF m
<1>3. /\ held' \in [Task -> Message \cup {NoMsg}] /\ held'[t] # NoMsg
      /\ \A u \in Task \ {t} : held'[u] = held[u]
      /\ \A c : InHand(t, c)' <=> m.buf = c
      /\ \A u \in Task \ {t} : \A c : InHand(u, c)' <=> InHand(u, c)
  BY <1>2, <1>m, HeldSet
<1>4. \A c : InPool(c)' <=> InPool(c)
  BY DEF InPool, pools
<1>5. InQueue(m.buf) /\ m.buf \in Buffer
  BY <1>2, MessagePrioType DEF InQueue
<1>6. \A c : InQueue(c)' <=> InQueue(c) /\ c # m.buf
  BY <1>1, <1>2 DEF InQueue, Placed
<1>7. \A c : ~InHand(t, c)
  BY DEF InHand
<1>8. Placed'
  <2>1. \A c \in Buffer : InPool(c)' \/ InQueue(c)' \/ \E u \in Task : InHand(u, c)'
    BY ONLY <1>1, <1>3, <1>4, <1>6, <1>7, t \in Task DEF Placed
  <2>2. \A c \in Buffer : InPool(c)' => ~InQueue(c)'
    BY ONLY <1>1, <1>4, <1>6 DEF Placed
  <2>3. \A c \in Buffer, u \in Task : InHand(u, c)' => ~InPool(c)' /\ ~InQueue(c)'
    BY ONLY <1>1, <1>3, <1>4, <1>5, <1>6 DEF Placed
  <2>4. \A c \in Buffer, u, v \in Task : InHand(u, c)' /\ InHand(v, c)' => u = v
    BY ONLY <1>1, <1>3, <1>5 DEF Placed
  <2>5. \A x, y \in Members(msglist') : x.buf = y.buf => x = y
    BY <1>1, <1>2 DEF Placed
  <2> QED BY <2>1, <2>2, <2>3, <2>4, <2>5 DEF Placed
<1>9. nmsgs' = nmsgs - 1
  BY DEF Received
<1>10. g_msgfree' \subseteq Fixed /\ g_msgfreeirq' \subseteq Irq /\ heap' \subseteq Heap
  BY DEF Messages, pools
<1> QED BY <1>2, <1>3, <1>8, <1>9, <1>10 DEF Messages

\* A task frees the structure in its hands.
LEMMA MessagesFreed ==
    ASSUME Messages, NEW t \in Task, held[t] # NoMsg, nxmq_free_msg({held[t].buf}),
           held' = [held EXCEPT ![t] = NoMsg], UNCHANGED <<msglist, nmsgs, sent>>
    PROVE  Messages' /\ held'[t] = NoMsg /\ \A u \in Task \ {t} : held'[u] = held[u]
<1> DEFINE b == held[t].buf
<1>1. b \in Buffer /\ InHand(t, b) /\ \A c : InHand(t, c) <=> c = b
  BY MessagePrioType DEF Messages, InHand
<1>2. /\ g_msgfree' \subseteq Fixed /\ g_msgfreeirq' \subseteq Irq /\ heap' \subseteq Heap
      /\ \A c : InPool(c)' <=> InPool(c) \/ c \in {b}
  BY <1>1, Freed
<1> HIDE DEF b
<1>3. /\ held' \in [Task -> Message \cup {NoMsg}] /\ held'[t] = NoMsg
      /\ \A u \in Task \ {t} : held'[u] = held[u]
      /\ \A c : ~InHand(t, c)'
      /\ \A u \in Task \ {t} : \A c : InHand(u, c)' <=> InHand(u, c)
  BY HeldCleared
<1>4. \A c : InQueue(c)' <=> InQueue(c)
  BY DEF InQueue
<1>5. Placed /\ Lists'
  BY DEF Messages, Lists, History
<1>6. Placed'
  <2>1. \A c \in Buffer : InPool(c)' \/ InQueue(c)' \/ \E u \in Task : InHand(u, c)'
    <3>1. ASSUME NEW c \in Buffer, NEW u \in Task, InHand(u, c)
          PROVE  InPool(c)' \/ InHand(u, c)'
      BY <3>1, <1>1, <1>2, <1>3
    <3>2. \A c \in Buffer : InPool(c) \/ InQueue(c) \/ \E u \in Task : InHand(u, c)
      BY <1>5 DEF Placed
    <3> QED BY ONLY <3>1, <3>2, <1>2, <1>4
  <2>2. \A c \in Buffer : InPool(c)' => ~InQueue(c)'
    BY ONLY <1>1, <1>2, <1>4, <1>5, t \in Task DEF Placed
  <2>3. \A c \in Buffer, u \in Task : InHand(u, c)' => ~InPool(c)' /\ ~InQueue(c)'
    <3>1. ASSUME NEW c \in Buffer, NEW u \in Task, InHand(u, c)'
          PROVE  InHand(u, c) /\ u # t
      BY <3>1, <1>3
    <3>2. \A c \in Buffer, u \in Task : InHand(u, c) => ~InPool(c) /\ ~InQueue(c)
      BY <1>5 DEF Placed
    <3>3. \A u \in Task : InHand(u, b) => u = t
      BY <1>1, <1>5 DEF Placed
    <3> QED BY ONLY <3>1, <3>2, <3>3, <1>2, <1>4
  <2>4. \A c \in Buffer, u, v \in Task : InHand(u, c)' /\ InHand(v, c)' => u = v
    BY ONLY <1>3, <1>5 DEF Placed
  <2>5. \A x, y \in Members(msglist') : x.buf = y.buf => x = y
    BY <1>5 DEF Placed
  <2> QED BY <2>1, <2>2, <2>3, <2>4, <2>5 DEF Placed
<1> QED BY <1>2, <1>3, <1>5, <1>6 DEF Messages

\* The queue is closed.
LEMMA MessagesClosed ==
    ASSUME Messages, nxmq_free_msg({msglist[i].buf : i \in DOMAIN msglist}),
           msglist' = <<>>, nmsgs' = 0, sent' = <<>>, UNCHANGED held
    PROVE  Messages'
<1> DEFINE B == {msglist[i].buf : i \in DOMAIN msglist}
<1>1. Placed /\ Lists
  BY DEF Messages
<1>0. \A i \in DOMAIN msglist : msglist[i] \in Message
  <2>1. msglist \in Seq(Message)
    BY <1>1 DEF Lists, Proper
  <2> QED BY <2>1
<1>2. B \subseteq Buffer /\ \A c : c \in B <=> InQueue(c)
  BY <1>0, MessagePrioType DEF InQueue, Members
<1>b. nxmq_free_msg(B)
  OBVIOUS
<1> HIDE DEF B
<1>3. /\ g_msgfree' \subseteq Fixed /\ g_msgfreeirq' \subseteq Irq /\ heap' \subseteq Heap
      /\ \A c : InPool(c)' <=> InPool(c) \/ c \in B
  BY <1>2, <1>b, Freed
<1>4. Members(msglist') = {} /\ Members(sent') = {}
  BY DEF Members
<1>5. \A c : ~InQueue(c)'
  BY <1>4 DEF InQueue
<1>6. \A u, c : InHand(u, c)' <=> InHand(u, c)
  BY DEF InHand
<1>7. Placed'
  <2>1. \A c \in Buffer : InPool(c)' \/ InQueue(c)' \/ \E u \in Task : InHand(u, c)'
    BY ONLY <1>1, <1>2, <1>3, <1>6 DEF Placed
  <2>2. \A c \in Buffer, u \in Task : InHand(u, c)' => ~InPool(c)' /\ ~InQueue(c)'
    BY ONLY <1>1, <1>2, <1>3, <1>5, <1>6 DEF Placed
  <2>3. \A c \in Buffer, u, v \in Task : InHand(u, c)' /\ InHand(v, c)' => u = v
    BY ONLY <1>1, <1>6 DEF Placed
  <2> QED BY <2>1, <2>2, <2>3, <1>4, <1>5 DEF Placed
<1>8. Lists'
  BY <1>4, MQueueAssumption DEF Lists, History, Proper, Distinct, Descending, SameOrder
<1>9. held' \in [Task -> Message \cup {NoMsg}]
  BY DEF Messages
<1> QED BY <1>3, <1>7, <1>8, <1>9 DEF Messages

-----------------------------------------------------------------------------
(* The actions *)

\* How a step of t keeps the tasks served that wait for ev
Keeps(t, ev) ==
    \/ waitlist'[ev] = <<>>
    \/ Room(ev)' <= Room(ev) - 1
    \/ Room(ev)' <= Room(ev) /\ (t \in Wakers(ev) => Cared(t, ev))
    \/ Room(ev)' <= Room(ev) + 1 /\ t \notin Wakers(ev) /\ Cared(t, ev)

\* A step of t that lets nobody else wait
Serves(t) ==
    /\ Others(t)
    /\ \A ev \in Event : waitlist'[ev] # <<>> => waitlist[ev] # <<>>
    /\ t \in Task => pc[t] # "dead"
    /\ Keeps(t, "full") /\ Keeps(t, "empty")

\* What no step of t does to others
Leaves(t) ==
    /\ ntpid' \in Task \cup {NoTask} /\ mode' \in [Task -> Mode]
    /\ \A u \in Task \ {t} : held'[u] = held[u] /\ mode'[u] = mode[u]

LEMMA AliveBefore ==
    ASSUME NEW t, Others(t), t \in Task => pc[t] # "dead"
    PROVE  Alive' => Alive
<1> SUFFICES ASSUME NEW u \in Task, pc'[u] # "dead"
             PROVE  pc[u] # "dead"
  BY DEF Alive
<1>1. CASE u = t
  BY <1>1
<1>2. CASE u # t
  BY <1>2 DEF Others, Passive, Ends, Waits, Event
<1> QED BY <1>1, <1>2

LEMMA StepDone ==
    ASSUME IInv, NEW t, Serves(t), Messages', t \in Task => Stage(t)', Leaves(t), Own(t)
    PROVE  IInv' /\ Visible(t)
<1>1. /\ \A ev \in Event : Room(ev) \in Int /\ Room(ev)' \in Int
      /\ "full" \in Event /\ "empty" \in Event
  BY RoomInt DEF IInv, Messages, Lists, Room, Event
<1>2. Others(t) /\ (Alive' => Alive)
  BY AliveBefore DEF Serves
<1>3. ASSUME NEW ev \in Event, Keeps(t, ev)
      PROVE  Served(ev)'
  <2>1. waitlist'[ev] # <<>> => waitlist[ev] # <<>>
    BY DEF Serves
  <2> QED BY <1>1, <1>2, <1>3, <2>1, ServedStep DEF Keeps
<1>4. Served("full")' /\ Served("empty")'
  BY <1>1, <1>3 DEF Serves
<1> QED BY <1>2, <1>4, Together DEF Leaves

\* The watchdog of a task runs while it waits, or has been interrupted.
LEMMA NoDog ==
    ASSUME IInv, NEW t \in Task, ~Waits(t),
           pc[t] \in {"sendwoken", "recvwoken"} => errcode[t] = "OK"
    PROVE  ~waitdog[t]
BY DEF IInv, Stages, Stage

LEMMA QuietStage ==
    ASSUME NEW t \in Task, pc'[t] \notin Event, pc'[t] # "dead", ~waitdog'[t],
           held'[t] # NoMsg <=> pc'[t] \in Keeping
    PROVE  Stage(t)'
BY DEF Stage, Waits

LEMMA HeldAt ==
    ASSUME IInv, NEW t \in Task, pc[t] # "dead"
    PROVE  held[t] # NoMsg <=> pc[t] \in Keeping
BY DEF IInv, Stages, Stage

LEMMA RoomIs ==
    ASSUME IInv
    PROVE  /\ Room("full") = maxmsgs - nmsgs /\ Room("full")' = maxmsgs - nmsgs'
           /\ Room("empty") = nmsgs /\ Room("empty")' = nmsgs'
           /\ nmsgs \in Nat /\ maxmsgs \in Nat /\ nmsgs <= maxmsgs
           /\ nmsgs = 0 <=> msglist = <<>>
<1>1. Lists
  BY DEF IInv, Messages
<1>2. /\ nmsgs \in Nat /\ maxmsgs \in Nat /\ nmsgs <= maxmsgs /\ nmsgs = Len(msglist)
      /\ msglist \in Seq(Message)
  BY <1>1, ListFacts
<1>3. nmsgs = 0 <=> msglist = <<>>
  BY <1>2
<1> QED BY <1>2, <1>3 DEF Room

LEMMA mq_send_step ==
    ASSUME IInv, NEW t \in Task, NEW m \in Mode, NEW p \in MsgPrio, mq_send(t, m, p)
    PROVE  IInv' /\ Visible(t)
<1>1. /\ pc[t] = "run" /\ Goto(t, "send") /\ mode' = [mode EXCEPT ![t] = m]
      /\ UNCHANGED <<msglist, nmsgs, sent, ntpid, waitlist, nwait, errcode, waitdog>>
  BY DEF mq_send, queue
<1>2. PICK b \in nxmq_alloc_msg(FALSE) :
        Allocated(b) /\ held' = [held EXCEPT ![t] = [buf |-> b, prio |-> p]]
  BY DEF mq_send
<1>3. held[t] = NoMsg /\ ~Waits(t) /\ ~waitdog[t]
  BY <1>1, HeldAt, NoDog DEF Keeping, Waits, Event
<1>4. Messages' /\ held'[t] # NoMsg /\ \A u \in Task \ {t} : held'[u] = held[u]
  BY <1>1, <1>2, <1>3, MessagesTaken DEF IInv
<1>5. GoesOn(t, "send")
  <2>1. "send" \in Label \ Event
    BY DEF Label, Event
  <2> QED BY <1>1, <1>3, <2>1, GoTo
<1>6. Serves(t)
  <2>1. t \notin Wakers("full") /\ t \notin Wakers("empty")
    BY <1>1 DEF Wakers
  <2>2. Room("full")' <= Room("full") /\ Room("empty")' <= Room("empty")
    BY <1>1, RoomIs
  <2> QED BY <1>1, <1>5, <2>1, <2>2 DEF Serves, Keeps, GoesOn
<1>7. Stage(t)'
  BY <1>1, <1>3, <1>4, <1>5, QuietStage DEF GoesOn, Event, Keeping
<1>8. Leaves(t)
  BY <1>1, <1>4 DEF Leaves, IInv, Locals
<1>9. Own(t)
  BY <1>1, <1>5, OwnQuiet DEF GoesOn
<1> QED BY <1>4, <1>6, <1>7, <1>8, <1>9, StepDone

\* What Woke says for StepDone
LEMMA WokeServes ==
    ASSUME NEW t, NEW label, Woke(t, label), t \in Task => pc[t] # "dead",
           Keeps(t, "full"), Keeps(t, "empty")
    PROVE  Serves(t)
BY DEF Woke, Serves

\* A sender that finds a place puts its message there.
LEMMA SendAddsStep ==
    ASSUME IInv, NEW t \in Task, pc[t] \in {"send", "sendwoken"},
           pc[t] = "sendwoken" => errcode[t] = "OK", SendAdds(t), UNCHANGED pools,
           mode' \in [Task -> Mode], \A u \in Task \ {t} : mode'[u] = mode[u]
    PROVE  IInv' /\ Visible(t)
<1>1. nmsgs < maxmsgs /\ Queued(held[t]) /\ held' = [held EXCEPT ![t] = NoMsg]
  BY DEF SendAdds
<1>2. held[t] # NoMsg /\ ~Waits(t) /\ ~waitdog[t] /\ pc[t] # "dead"
  BY HeldAt, NoDog DEF Keeping, Waits, Event
<1>3. Messages' /\ held'[t] = NoMsg /\ (\A u \in Task \ {t} : held'[u] = held[u])
      /\ nmsgs' = nmsgs + 1
  BY <1>1, <1>2, MessagesQueued DEF IInv
<1>4. /\ t \notin Wakers("empty") /\ Room("full")' <= Room("full") - 1
      /\ Room("empty")' <= Room("empty") + 1
  BY <1>3, RoomIs DEF Wakers
<1>a. /\ Len(sent) < maxmsgs /\ (\E m \in Message : sent' = Append(sent, m))
      /\ Taken(t) = NoMsg
  <2>1. held[t] \in Message /\ Len(sent) = Len(msglist) /\ nmsgs = Len(msglist)
    BY <1>2 DEF IInv, Messages, Lists, History
  <2> QED BY <1>1, <2>1 DEF Queued, Taken
<1>5. CASE nmsgs = 0
  <2>1. Goto(t, "pollin") /\ UNCHANGED <<waitlist, nwait, ntpid, errcode, waitdog>>
    BY <1>5 DEF SendAdds
  <2>2. GoesOn(t, "pollin")
    <3>1. "pollin" \in Label \ Event
      BY DEF Label, Event
    <3> QED BY <1>2, <2>1, <3>1, GoTo
  <2>3. Cared(t, "empty")
    BY <2>2 DEF GoesOn, Cared, Wakers
  <2>4. Serves(t)
    BY <1>2, <1>4, <2>2, <2>3 DEF Serves, Keeps, GoesOn
  <2>5. Stage(t)'
    BY <1>2, <1>3, <2>1, <2>2, QuietStage DEF GoesOn, Event, Keeping
  <2>6. Leaves(t)
    BY <1>3, <2>1 DEF Leaves, IInv, Locals
  <2>7. Own(t)
    BY <1>a, <2>1, <2>2 DEF Own, Acts, Taken, GoesOn
  <2> QED BY <1>3, <2>4, <2>5, <2>6, <2>7, StepDone
<1>6. CASE nmsgs # 0
  <2>1. NotifySend(t)
    BY <1>6 DEF SendAdds
  <2>2. /\ Woke(t, "run") \/ Woke(t, "notify")
        /\ Cared(t, "empty") /\ ntpid' \in Task \cup {NoTask}
    BY <1>2, <2>1, NotifySendWakes
  <2>3. Serves(t)
    BY <1>2, <1>4, <2>2, WokeServes DEF Keeps
  <2>4. Stage(t)'
    BY <1>2, <1>3, <2>2, QuietStage DEF Woke, Event, Keeping
  <2>5. Leaves(t)
    BY <1>3, <2>2 DEF Leaves
  <2>6. Own(t)
    BY <1>a, <2>2 DEF Own, Acts, Taken, Woke
  <2> QED BY <1>3, <2>3, <2>4, <2>5, <2>6, StepDone
<1> QED BY <1>5, <1>6

\* A receiver that finds a message takes it.
LEMMA TakeStep ==
    ASSUME IInv, NEW t \in Task, pc[t] \in {"run", "recvwoken"},
           pc[t] = "recvwoken" => errcode[t] = "OK", Take(t), UNCHANGED pools,
           mode' \in [Task -> Mode], \A u \in Task \ {t} : mode'[u] = mode[u]
    PROVE  IInv' /\ Visible(t)
<1>1. /\ msglist # <<>> /\ held' = [held EXCEPT ![t] = msglist[1]] /\ Received
      /\ UNCHANGED <<ntpid, errcode>>
  BY DEF Take
<1>2. held[t] = NoMsg /\ ~Waits(t) /\ ~waitdog[t] /\ pc[t] # "dead"
  BY HeldAt, NoDog DEF Keeping, Waits, Event
<1>3. Messages' /\ held'[t] # NoMsg /\ (\A u \in Task \ {t} : held'[u] = held[u])
      /\ nmsgs' = nmsgs - 1
  BY <1>1, <1>2, MessagesReceived DEF IInv
<1>4. /\ t \notin Wakers("full") /\ Room("full")' <= Room("full") + 1
      /\ Room("empty")' <= Room("empty") - 1
  BY <1>3, RoomIs DEF Wakers
<1>5. Leaves(t)
  BY <1>1, <1>3 DEF Leaves, IInv, Locals
<1>a. /\ \E i \in DOMAIN sent :
            Abs!OldestOfHighest(i) /\ sent[i] = msglist[1] /\ sent' = Abs!Without(i)
      /\ Taken(t) = NoMsg /\ held'[t] = msglist[1]
  <2>1. Lists /\ held \in [Task -> Message \cup {NoMsg}]
    BY DEF IInv, Messages
  <2>2. \E i \in DOMAIN sent :
            Abs!OldestOfHighest(i) /\ sent[i] = msglist[1] /\ sent' = Abs!Without(i)
    BY <1>1, <2>1, ReceivedOldest
  <2> QED BY <1>1, <2>1, <2>2 DEF Taken
<1>6. CASE nmsgs = maxmsgs
  <2>1. Goto(t, "pollout") /\ UNCHANGED <<waitlist, nwait, waitdog>>
    BY <1>6 DEF Take
  <2>2. GoesOn(t, "pollout")
    <3>1. "pollout" \in Label \ Event
      BY DEF Label, Event
    <3> QED BY <1>1, <1>2, <2>1, <3>1, GoTo
  <2>3. Cared(t, "full")
    BY <2>2 DEF GoesOn, Cared, Wakers
  <2>4. Serves(t)
    BY <1>2, <1>4, <2>2, <2>3 DEF Serves, Keeps, GoesOn
  <2>5. Stage(t)'
    BY <1>2, <1>3, <2>1, <2>2, QuietStage DEF GoesOn, Event, Keeping
  <2>6. Own(t)
    <3>1. Taken(t)' = msglist[1]
      BY <1>a, <2>2 DEF GoesOn, Taken
    <3> QED BY <1>a, <1>1, <3>1 DEF Own, Acts
  <2> QED BY <1>3, <1>5, <2>4, <2>5, <2>6, StepDone
<1>7. CASE nmsgs # maxmsgs
  <2>1. nxmq_notify(Waiting(At(t, "copy")), "full")
    BY <1>7 DEF Take
  <2>2. Woke(t, "copy") /\ Cared(t, "full")
    <3>1. "copy" \in Label \ Event /\ "full" \in Event
      BY DEF Label, Event
    <3> QED BY <1>1, <1>2, <2>1, <3>1, TaskWakes
  <2>3. Serves(t)
    BY <1>2, <1>4, <2>2, WokeServes DEF Keeps
  <2>4. Stage(t)'
    BY <1>2, <1>3, <2>2, QuietStage DEF Woke, Event, Keeping
  <2>5. Own(t)
    <3>1. Taken(t)' = msglist[1]
      BY <1>a, <2>2 DEF Woke, Taken
    <3> QED BY <1>a, <1>1, <3>1 DEF Own, Acts
  <2> QED BY <1>3, <1>5, <2>3, <2>4, <2>5, StepDone
<1> QED BY <1>6, <1>7

\* A task that finds no place or no message waits.
LEMMA BlockStep ==
    ASSUME IInv, NEW t \in Task, NEW ev \in Event, Block(t, ev), Room(ev) <= 0,
           pc[t] \in IF ev = "full" THEN {"send", "sendwoken"} ELSE {"run", "recvwoken"},
           waitdog' \in [Task -> BOOLEAN], \A u \in Task \ {t} : waitdog'[u] = waitdog[u],
           waitdog'[t] => mode'[t] = "timed",
           UNCHANGED <<msglist, nmsgs, ntpid, sent, held, pools>>,
           mode' \in [Task -> Mode], \A u \in Task \ {t} : mode'[u] = mode[u]
    PROVE  IInv' /\ Visible(t)
<1>1. ~Waits(t) /\ pc[t] # "dead" /\ (pc[t] \in Keeping <=> ev \in Keeping)
  BY DEF Waits, Event, Keeping
<1>2. /\ WaitOK(Waiting(pc))' /\ pc' = [pc EXCEPT ![t] = ev]
      /\ \A e \in Event \ {ev} : waitlist'[e] = waitlist[e]
  BY <1>1, BlockOK DEF IInv
<1>3. errcode' = [errcode EXCEPT ![t] = "OK"]
  BY DEF Block
<1>4. pc \in [Task -> Label] /\ errcode \in [Task -> {"OK", "EINTR", "ETIMEDOUT"}]
  BY DEF IInv, WaitOK, Waiting, Locals
<1>5. /\ pc'[t] = ev /\ \A u \in Task \ {t} : pc'[u] = pc[u]
      /\ errcode' \in [Task -> {"OK", "EINTR", "ETIMEDOUT"}] /\ errcode'[t] = "OK"
      /\ \A u \in Task \ {t} : errcode'[u] = errcode[u]
  BY <1>2, <1>3, <1>4
<1>6. Others(t)
  BY <1>2, <1>5 DEF Others, Passive
<1>7. Messages'
  BY MessagesKept DEF IInv
<1>8. held'[t] # NoMsg <=> ev \in Keeping
  BY <1>1, HeldAt
<1>9. Stage(t)'
  BY <1>5, <1>8 DEF Stage, Waits, Event
<1>10. Alive' => Alive
  BY <1>1, <1>6, AliveBefore
<1>11. ASSUME NEW e \in Event PROVE Served(e)'
  <2>1. Room(e) \in Int /\ Room(e)' \in Int /\ Room(e)' = Room(e)
    BY RoomInt DEF IInv, Room
  <2>2. CASE e = ev
    BY <2>1, <2>2, <1>6, <1>10, ServedStep
  <2>3. CASE e # ev
    <3>1. t \notin Wakers(e)
      BY <2>3 DEF Wakers, Event
    <3>2. waitlist'[e] = waitlist[e]
      BY <1>2, <2>3
    <3> QED BY <2>1, <3>1, <3>2, <1>6, <1>10, ServedStep
  <2> QED BY <2>2, <2>3
<1>12. Served("full")' /\ Served("empty")'
  BY <1>11 DEF Event
<1>13. ntpid' \in Task \cup {NoTask}
  BY DEF IInv, Locals
<1>14. Own(t)
  BY <1>5, OwnQuiet DEF Event
<1> QED BY <1>6, <1>7, <1>9, <1>12, <1>13, <1>14, Together

\* The mode of a call is kept until it returns.
ModeKept(t) ==
    /\ mode' \in [Task -> Mode] /\ \A u \in Task \ {t} : mode'[u] = mode[u]
    /\ pc'[t] # "run" => mode'[t] = mode[t]

LEMMA send_section_step ==
    ASSUME IInv, NEW t \in Task, send_section(t), ModeKept(t)
    PROVE  IInv' /\ Visible(t)
<1>0. pc[t] = "send" /\ UNCHANGED pools /\ mode' \in [Task -> Mode]
      /\ \A u \in Task \ {t} : mode'[u] = mode[u]
  BY DEF send_section, ModeKept
<1>1. CASE SendAdds(t)
  BY <1>0, <1>1, SendAddsStep
<1>2. CASE /\ nmsgs >= maxmsgs /\ Goto(t, "drop") /\ UNCHANGED <<queue, held, errcode, waitdog>>
  <2>1. UNCHANGED <<msglist, nmsgs, sent, ntpid, waitlist, nwait, held, errcode, waitdog>>
    BY <1>2 DEF queue
  <2>2. held[t] # NoMsg /\ ~Waits(t) /\ ~waitdog[t]
    BY <1>0, HeldAt, NoDog DEF Keeping, Waits, Event
  <2>3. GoesOn(t, "drop")
    <3>1. "drop" \in Label \ Event
      BY DEF Label, Event
    <3> QED BY <1>2, <2>1, <2>2, <3>1, GoTo
  <2>4. Messages'
    BY <1>0, <2>1, MessagesKept DEF IInv
  <2>5. Serves(t)
    <3>1. t \notin Wakers("full") /\ t \notin Wakers("empty")
      BY <1>0 DEF Wakers
    <3>2. Room("full")' <= Room("full") /\ Room("empty")' <= Room("empty")
      BY <2>1, RoomIs
    <3> QED BY <1>0, <2>3, <3>1, <3>2 DEF Serves, Keeps, GoesOn
  <2>6. Stage(t)'
    BY <2>1, <2>2, <2>3, QuietStage DEF GoesOn, Event, Keeping
  <2>7. Leaves(t)
    BY <1>0, <2>1 DEF Leaves, IInv, Locals
  <2>8. Own(t)
    BY <2>1, <2>3, OwnQuiet DEF GoesOn
  <2> QED BY <2>4, <2>5, <2>6, <2>7, <2>8, StepDone
<1>3. CASE /\ nmsgs >= maxmsgs /\ Block(t, "full")
           /\ waitdog' = [waitdog EXCEPT ![t] = waitdog[t] \/ mode[t] = "timed"]
           /\ UNCHANGED <<msglist, nmsgs, ntpid, sent, held>>
  <2>1. waitdog \in [Task -> BOOLEAN] /\ ~waitdog[t]
    BY <1>0, NoDog DEF IInv, Locals, Waits, Event
  <2>2. /\ waitdog' \in [Task -> BOOLEAN] /\ \A u \in Task \ {t} : waitdog'[u] = waitdog[u]
        /\ waitdog'[t] => mode[t] = "timed"
    BY <1>3, <2>1
  <2>3. pc \in [Task -> Label] /\ pc' = [pc EXCEPT ![t] = "full"]
    BY <1>3 DEF IInv, WaitOK, Waiting, Block, Goto, At
  <2>4. waitdog'[t] => mode'[t] = "timed"
    BY <2>2, <2>3 DEF ModeKept
  <2>5. Room("full") <= 0 /\ "full" \in Event
    BY <1>3, RoomIs DEF Event
  <2> QED BY <1>0, <1>3, <2>2, <2>4, <2>5, BlockStep
<1> QED BY <1>1, <1>2, <1>3 DEF send_section

\* A task whose wait failed goes on to label.
LEMMA FailedStep ==
    ASSUME IInv, NEW t \in Task, ModeKept(t), errcode[t] # "OK",
           NEW label, \/ pc[t] = "sendwoken" /\ label = "drop"
                      \/ pc[t] = "recvwoken" /\ label = "run",
           Goto(t, label), waitdog' = [waitdog EXCEPT ![t] = FALSE],
           UNCHANGED <<queue, pools, held, errcode>>
    PROVE  IInv' /\ Visible(t)
<1>1. UNCHANGED <<msglist, nmsgs, sent, ntpid, waitlist, nwait>>
  BY DEF queue
<1>2. /\ label \in Label \ Event /\ label # "dead" /\ ~Waits(t)
      /\ label \in Keeping <=> pc[t] \in Keeping
  BY DEF Label, Event, Waits, Keeping
<1>3. GoesOn(t, label)
  BY <1>1, <1>2, GoTo
<1>4. Messages'
  BY <1>1, MessagesKept DEF IInv
<1>5. Serves(t)
  <2>1. t \notin Wakers("full") /\ t \notin Wakers("empty")
    BY DEF Wakers
  <2>2. Room("full")' <= Room("full") /\ Room("empty")' <= Room("empty")
    BY <1>1, RoomIs
  <2> QED BY <1>3, <2>1, <2>2 DEF Serves, Keeps, GoesOn
<1>6. waitdog \in [Task -> BOOLEAN]
  BY DEF IInv, Locals
<1>7. ~waitdog'[t]
  BY <1>6
<1>8. Stage(t)'
  BY <1>2, <1>3, <1>7, HeldAt, QuietStage DEF GoesOn
<1>9. Leaves(t)
  BY <1>1 DEF Leaves, ModeKept, IInv, Locals
<1>10. Own(t)
  BY <1>1, <1>3, OwnQuiet DEF GoesOn
<1> QED BY <1>4, <1>5, <1>8, <1>9, <1>10, StepDone

LEMMA send_resume_step ==
    ASSUME IInv, NEW t \in Task, send_resume(t), ModeKept(t)
    PROVE  IInv' /\ Visible(t)
<1>0. pc[t] = "sendwoken" /\ UNCHANGED pools /\ mode' \in [Task -> Mode]
      /\ \A u \in Task \ {t} : mode'[u] = mode[u]
  BY DEF send_resume, ModeKept
<1>1. CASE errcode[t] = "OK" /\ SendAdds(t)
  BY <1>0, <1>1, SendAddsStep
<1>2. CASE /\ errcode[t] = "OK" /\ nmsgs >= maxmsgs /\ Block(t, "full")
           /\ UNCHANGED <<msglist, nmsgs, ntpid, sent, held, waitdog>>
  <2>1. waitdog \in [Task -> BOOLEAN] /\ ~waitdog[t]
    BY <1>0, <1>2, NoDog DEF IInv, Locals, Waits, Event
  <2>2. /\ waitdog' \in [Task -> BOOLEAN] /\ \A u \in Task \ {t} : waitdog'[u] = waitdog[u]
        /\ waitdog'[t] => mode'[t] = "timed"
    BY <1>2, <2>1
  <2>3. Room("full") <= 0 /\ "full" \in Event
    BY <1>2, RoomIs DEF Event
  <2> QED BY <1>0, <1>2, <2>2, <2>3, BlockStep
<1>3. CASE /\ errcode[t] # "OK" /\ Goto(t, "drop") /\ waitdog' = [waitdog EXCEPT ![t] = FALSE]
           /\ UNCHANGED <<queue, held, errcode>>
  BY <1>0, <1>3, FailedStep
<1> QED BY <1>1, <1>2, <1>3 DEF send_resume

LEMMA recv_resume_step ==
    ASSUME IInv, NEW t \in Task, recv_resume(t), ModeKept(t)
    PROVE  IInv' /\ Visible(t)
<1>0. pc[t] = "recvwoken" /\ UNCHANGED pools /\ mode' \in [Task -> Mode]
      /\ \A u \in Task \ {t} : mode'[u] = mode[u]
  BY DEF recv_resume, ModeKept
<1>1. CASE errcode[t] = "OK" /\ Take(t)
  BY <1>0, <1>1, TakeStep
<1>2. CASE /\ errcode[t] = "OK" /\ msglist = <<>> /\ Block(t, "empty")
           /\ UNCHANGED <<msglist, nmsgs, ntpid, sent, held, waitdog>>
  <2>1. waitdog \in [Task -> BOOLEAN] /\ ~waitdog[t]
    BY <1>0, <1>2, NoDog DEF IInv, Locals, Waits, Event
  <2>2. /\ waitdog' \in [Task -> BOOLEAN] /\ \A u \in Task \ {t} : waitdog'[u] = waitdog[u]
        /\ waitdog'[t] => mode'[t] = "timed"
    BY <1>2, <2>1
  <2>3. Room("empty") <= 0 /\ "empty" \in Event
    BY <1>2, RoomIs DEF Event
  <2> QED BY <1>0, <1>2, <2>2, <2>3, BlockStep
<1>3. CASE /\ errcode[t] # "OK" /\ Goto(t, "run") /\ waitdog' = [waitdog EXCEPT ![t] = FALSE]
           /\ UNCHANGED <<queue, held, errcode>>
  BY <1>0, <1>3, FailedStep
<1> QED BY <1>1, <1>2, <1>3 DEF recv_resume

LEMMA mq_receive_step ==
    ASSUME IInv, NEW t \in Task, NEW m \in Mode, mq_receive(t, m)
    PROVE  IInv' /\ Visible(t)
<1>0. pc[t] = "run" /\ UNCHANGED pools /\ mode' = [mode EXCEPT ![t] = m]
  BY DEF mq_receive
<1>m. mode' \in [Task -> Mode] /\ mode'[t] = m /\ \A u \in Task \ {t} : mode'[u] = mode[u]
  BY <1>0 DEF IInv, Locals
<1>1. CASE Take(t)
  BY <1>0, <1>1, <1>m, TakeStep
<1>2. CASE /\ msglist = <<>> /\ Block(t, "empty")
           /\ waitdog' = [waitdog EXCEPT ![t] = waitdog[t] \/ m = "timed"]
           /\ UNCHANGED <<msglist, nmsgs, ntpid, sent, held>>
  <2>1. waitdog \in [Task -> BOOLEAN] /\ ~waitdog[t]
    BY <1>0, NoDog DEF IInv, Locals, Waits, Event
  <2>2. /\ waitdog' \in [Task -> BOOLEAN] /\ \A u \in Task \ {t} : waitdog'[u] = waitdog[u]
        /\ waitdog'[t] => mode'[t] = "timed"
    BY <1>2, <1>m, <2>1
  <2>3. Room("empty") <= 0 /\ "empty" \in Event
    BY <1>2, RoomIs DEF Event
  <2> QED BY <1>0, <1>m, <1>2, <2>2, <2>3, BlockStep
<1> QED BY <1>1, <1>2 DEF mq_receive

LEMMA send_polled_step ==
    ASSUME IInv, NEW t \in Task, send_polled(t), ModeKept(t)
    PROVE  IInv' /\ Visible(t)
<1>1. pc[t] = "pollin" /\ NotifySend(t) /\ UNCHANGED <<msglist, nmsgs, sent, pools, held>>
  BY DEF send_polled
<1>2. held[t] = NoMsg /\ ~Waits(t) /\ ~waitdog[t]
  BY <1>1, HeldAt, NoDog DEF Keeping, Waits, Event
<1>3. /\ Woke(t, "run") \/ Woke(t, "notify")
      /\ Cared(t, "empty") /\ ntpid' \in Task \cup {NoTask}
  BY <1>1, <1>2, NotifySendWakes
<1>4. Messages'
  BY <1>1, MessagesKept DEF IInv
<1>5. Serves(t)
  <2>1. t \notin Wakers("full") /\ Room("full")' <= Room("full") /\ Room("empty")' <= Room("empty")
    BY <1>1, RoomIs DEF Wakers
  <2> QED BY <1>1, <1>3, <2>1, WokeServes DEF Keeps
<1>6. Stage(t)'
  BY <1>1, <1>2, <1>3, QuietStage DEF Woke, Event, Keeping
<1>7. Leaves(t)
  BY <1>1, <1>3 DEF Leaves, ModeKept
<1>8. Own(t)
  BY <1>1, <1>3, OwnQuiet DEF Woke
<1> QED BY <1>4, <1>5, <1>6, <1>7, <1>8, StepDone

LEMMA send_notified_step ==
    ASSUME IInv, NEW t \in Task, send_notified(t), ModeKept(t)
    PROVE  IInv' /\ Visible(t)
<1>1. /\ pc[t] = "notify" /\ nxmq_notify(Waiting(At(t, "run")), "empty")
      /\ UNCHANGED <<msglist, nmsgs, ntpid, sent, pools, held, errcode>>
  BY DEF send_notified
<1>2. held[t] = NoMsg /\ ~Waits(t) /\ ~waitdog[t]
  BY <1>1, HeldAt, NoDog DEF Keeping, Waits, Event
<1>3. Woke(t, "run") /\ Cared(t, "empty")
  <2>1. "run" \in Label \ Event /\ "empty" \in Event
    BY DEF Label, Event
  <2> QED BY <1>1, <1>2, <2>1, TaskWakes
<1>4. Messages'
  BY <1>1, MessagesKept DEF IInv
<1>5. Serves(t)
  <2>1. t \notin Wakers("full") /\ Room("full")' <= Room("full") /\ Room("empty")' <= Room("empty")
    BY <1>1, RoomIs DEF Wakers
  <2> QED BY <1>1, <1>3, <2>1, WokeServes DEF Keeps
<1>6. Stage(t)'
  BY <1>1, <1>2, <1>3, QuietStage DEF Woke, Event, Keeping
<1>7. Leaves(t)
  BY <1>1 DEF Leaves, ModeKept, IInv, Locals
<1>8. Own(t)
  BY <1>1, <1>3, OwnQuiet DEF Woke
<1> QED BY <1>4, <1>5, <1>6, <1>7, <1>8, StepDone

LEMMA recv_polled_step ==
    ASSUME IInv, NEW t \in Task, recv_polled(t), ModeKept(t)
    PROVE  IInv' /\ Visible(t)
<1>1. /\ pc[t] = "pollout" /\ nxmq_notify(Waiting(At(t, "copy")), "full")
      /\ UNCHANGED <<msglist, nmsgs, ntpid, sent, pools, held, errcode>>
  BY DEF recv_polled
<1>2. held[t] # NoMsg /\ ~Waits(t) /\ ~waitdog[t]
  BY <1>1, HeldAt, NoDog DEF Keeping, Waits, Event
<1>3. Woke(t, "copy") /\ Cared(t, "full")
  <2>1. "copy" \in Label \ Event /\ "full" \in Event
    BY DEF Label, Event
  <2> QED BY <1>1, <1>2, <2>1, TaskWakes
<1>4. Messages'
  BY <1>1, MessagesKept DEF IInv
<1>5. Serves(t)
  <2>1. t \notin Wakers("empty") /\ Room("full")' <= Room("full") /\ Room("empty")' <= Room("empty")
    BY <1>1, RoomIs DEF Wakers
  <2> QED BY <1>1, <1>3, <2>1, WokeServes DEF Keeps
<1>6. Stage(t)'
  BY <1>1, <1>2, <1>3, QuietStage DEF Woke, Event, Keeping
<1>7. Leaves(t)
  BY <1>1 DEF Leaves, ModeKept, IInv, Locals
<1>8. Own(t)
  BY <1>1, <1>3 DEF Own, Acts, Taken, Woke
<1> QED BY <1>4, <1>5, <1>6, <1>7, <1>8, StepDone

\* send_failed and recv_copied
LEMMA FreeStep ==
    ASSUME IInv, NEW t \in Task, pc[t] \in {"drop", "copy"}, ModeKept(t),
           nxmq_free_msg({held[t].buf}), held' = [held EXCEPT ![t] = NoMsg],
           Goto(t, "run"), UNCHANGED <<queue, errcode, waitdog>>
    PROVE  IInv' /\ Visible(t)
<1>1. UNCHANGED <<msglist, nmsgs, sent, ntpid, waitlist, nwait, errcode, waitdog>>
  BY DEF queue
<1>2. held[t] # NoMsg /\ ~Waits(t) /\ ~waitdog[t]
  BY HeldAt, NoDog DEF Keeping, Waits, Event
<1>3. Messages' /\ held'[t] = NoMsg /\ \A u \in Task \ {t} : held'[u] = held[u]
  BY <1>1, <1>2, MessagesFreed DEF IInv
<1>4. GoesOn(t, "run")
  <2>1. "run" \in Label \ Event
    BY DEF Label, Event
  <2> QED BY <1>1, <1>2, <2>1, GoTo
<1>5. Serves(t)
  <2>1. t \notin Wakers("full") /\ t \notin Wakers("empty")
    BY DEF Wakers
  <2>2. Room("full")' <= Room("full") /\ Room("empty")' <= Room("empty")
    BY <1>1, RoomIs
  <2> QED BY <1>4, <2>1, <2>2 DEF Serves, Keeps, GoesOn
<1>6. Stage(t)'
  BY <1>1, <1>2, <1>3, <1>4, QuietStage DEF GoesOn, Event, Keeping
<1>7. Leaves(t)
  BY <1>1, <1>3 DEF Leaves, ModeKept, IInv, Locals
<1>8. Own(t)
  BY <1>1, <1>4, OwnQuiet DEF GoesOn
<1> QED BY <1>3, <1>5, <1>6, <1>7, <1>8, StepDone

LEMMA CallStepInv ==
    ASSUME IInv, NEW t \in Task, CallStep(t)
    PROVE  IInv' /\ Visible(t)
<1>1. ModeKept(t)
  <2>1. mode \in [Task -> Mode] /\ "block" \in Mode
    BY DEF IInv, Locals, Mode
  <2> QED BY <2>1 DEF CallStep, ModeKept
<1>2. CASE send_section(t)
  BY <1>1, <1>2, send_section_step
<1>3. CASE send_resume(t)
  BY <1>1, <1>3, send_resume_step
<1>4. CASE send_polled(t)
  BY <1>1, <1>4, send_polled_step
<1>5. CASE send_notified(t)
  BY <1>1, <1>5, send_notified_step
<1>6. CASE send_failed(t)
  BY <1>1, <1>6, FreeStep DEF send_failed
<1>7. CASE recv_resume(t)
  BY <1>1, <1>7, recv_resume_step
<1>8. CASE recv_polled(t)
  BY <1>1, <1>8, recv_polled_step
<1>9. CASE recv_copied(t)
  BY <1>1, <1>9, FreeStep DEF recv_copied
<1> QED BY <1>2, <1>3, <1>4, <1>5, <1>6, <1>7, <1>8, <1>9 DEF CallStep

\* A wait that a timeout or a signal ends
LEMMA InterruptStep ==
    ASSUME IInv, NEW t \in Task, Waits(t), NEW err \in Error, nxmq_wait_irq(t, err),
           err = "ETIMEDOUT" => mode[t] = "timed",
           waitdog' = waitdog \/ waitdog' = [waitdog EXCEPT ![t] = FALSE],
           UNCHANGED <<msglist, nmsgs, ntpid, sent, pools, held, mode>>
    PROVE  IInv' /\ Visible(NoTask)
<1>1. Woke(NoTask, "run") /\ NoTask \notin Task
  BY IrqInterrupts, MQueueAssumption
<1>2. Messages'
  BY MessagesKept DEF IInv
<1>3. Serves(NoTask)
  <2>1. NoTask \notin Wakers("full") /\ NoTask \notin Wakers("empty")
    BY <1>1 DEF Wakers
  <2>2. Room("full")' <= Room("full") /\ Room("empty")' <= Room("empty")
    BY RoomIs
  <2> QED BY <1>1, <2>1, <2>2, WokeServes DEF Keeps
<1>4. Leaves(NoTask)
  BY DEF Leaves, IInv, Locals
<1>5. Own(NoTask)
  BY <1>1, OwnQuiet
<1> QED BY <1>1, <1>2, <1>3, <1>4, <1>5, StepDone

LEMMA nxmq_timeout_step ==
    ASSUME IInv, NEW t \in Task, nxmq_timeout(t)
    PROVE  IInv' /\ \E u : Visible(u)
<1>1. /\ waitdog' = [waitdog EXCEPT ![t] = FALSE] /\ waitdog[t]
      /\ UNCHANGED <<msglist, nmsgs, ntpid, sent, pools, held, mode>>
  BY DEF nxmq_timeout
<1>2. CASE Waits(t)
  <2>1. mode[t] = "timed"
    BY <1>1 DEF IInv, Stages, Stage
  <2> QED BY <1>1, <1>2, <2>1, InterruptStep DEF nxmq_timeout, Error
<1>3. CASE ~Waits(t)
  <2>1. UNCHANGED <<waitlist, nwait, errcode, pc>>
    BY <1>3 DEF nxmq_timeout
  <2>2. waitdog \in [Task -> BOOLEAN] /\ errcode \in [Task -> {"OK", "EINTR", "ETIMEDOUT"}]
        /\ Stage(t) /\ WaitOK(Waiting(pc))
    BY DEF IInv, Locals, Stages
  <2>3. waitdog' \in [Task -> BOOLEAN] /\ ~waitdog'[t] /\ \A u \in Task \ {t} : waitdog'[u] = waitdog[u]
    BY <1>1, <2>2
  <2>4. Others(t)
    BY <2>1, <2>2, <2>3 DEF Others, Passive, WaitOK, Waiting
  <2>5. Stage(t)'
    BY <1>1, <2>1, <2>2, <2>3 DEF Stage, Waits
  <2>6. Messages'
    BY <1>1, MessagesKept DEF IInv
  <2>7. Serves(t)
    <3>1. pc[t] # "dead"
      BY <1>1, <1>3, <2>2 DEF Stage
    <3>2. (t \in Wakers("full") => Cared(t, "full")) /\ (t \in Wakers("empty") => Cared(t, "empty"))
      BY <2>1 DEF Cared, Wakers
    <3>3. Room("full")' <= Room("full") /\ Room("empty")' <= Room("empty")
      BY <1>1, RoomIs
    <3> QED BY <2>1, <2>4, <3>1, <3>2, <3>3 DEF Serves, Keeps
  <2>8. Leaves(t)
    BY <1>1 DEF Leaves, IInv, Locals
  <2>9. Own(t)
    BY <1>1, <2>1 DEF Own, Acts, Taken
  <2> QED BY <2>5, <2>6, <2>7, <2>8, <2>9, StepDone
<1> QED BY <1>2, <1>3

LEMMA nxsig_tcbdispatch_step ==
    ASSUME IInv, NEW t \in Task, nxsig_tcbdispatch(t)
    PROVE  IInv' /\ \E u : Visible(u)
BY InterruptStep DEF nxsig_tcbdispatch, Error

LEMMA mq_notify_step ==
    ASSUME IInv, NEW t \in Task, mq_notify(t)
    PROVE  IInv' /\ Visible(NoTask)
<1>1. /\ UNCHANGED <<msglist, nmsgs, waitlist, nwait, sent, pools, held, mode, pc, errcode, waitdog>>
      /\ ntpid' \in Task \cup {NoTask}
  BY DEF mq_notify
<1>2. NoTask \notin Task
  BY MQueueAssumption
<1>3. Others(NoTask)
  BY <1>1 DEF Others, Passive, IInv, WaitOK, Waiting, Locals
<1>4. Messages'
  BY <1>1, MessagesKept DEF IInv
<1>5. Serves(NoTask)
  <2>1. NoTask \notin Wakers("full") /\ NoTask \notin Wakers("empty")
    BY <1>2 DEF Wakers
  <2>2. Room("full")' <= Room("full") /\ Room("empty")' <= Room("empty")
    BY <1>1, RoomIs
  <2> QED BY <1>1, <1>2, <1>3, <2>1, <2>2 DEF Serves, Keeps
<1>6. Leaves(NoTask)
  BY <1>1 DEF Leaves, IInv, Locals
<1>7. Own(NoTask)
  BY <1>1, <1>2, OwnQuiet
<1> QED BY <1>2, <1>4, <1>5, <1>6, <1>7, StepDone

\* A task is deleted: it leaves the list in which it waits.
LEMMA Unlinked ==
    ASSUME IInv, NEW t \in Task, Waits(t),
           waitlist' = [waitlist EXCEPT ![pc[t]] = dq_rem(waitlist[pc[t]], t)],
           nwait' = [nwait EXCEPT ![pc[t]] = nwait[pc[t]] - 1], Goto(t, "dead")
    PROVE  WaitOK(Waiting(pc))'
<1> DEFINE w == Waiting(pc)
           w2 == unblock(w, t)
<1>1. /\ WaitOK(w) /\ w.at = pc /\ w.list = waitlist /\ w.n = nwait
      /\ w2 = unblock(w, t) /\ w.at[t] \in Event
  BY DEF IInv, Waiting, Waits
<1>2. waitlist' = w2.list /\ nwait' = w2.n
  BY <1>1 DEF unblock
<1> HIDE DEF w, w2
<1>3. WaitOK(w2) /\ w2.at = [w.at EXCEPT ![t] = Woken(w.at[t])]
  BY <1>1, UnblockOK
<1>4. pc \in [Task -> Label] /\ Woken(pc[t]) \notin Event /\ "dead" \in Label \ Event
  BY <1>1 DEF WaitOK, Woken, Event, Label
<1>5. /\ pc' \in [Task -> Label]
      /\ \A u \in Task, ev \in Event : w2.at[u] = ev <=> pc'[u] = ev
  BY <1>1, <1>3, <1>4 DEF Goto, At
<1>6. ASSUME NEW ev \in Event
      PROVE  {u \in Task : w2.at[u] = ev} = {u \in Task : pc'[u] = ev}
  BY <1>5
<1>7. /\ w2.list \in [Event -> Seq(Task)] /\ w2.n \in [Event -> Nat]
      /\ \A ev \in Event : /\ Proper(w2.list[ev], Task, Prio) /\ w2.n[ev] = Len(w2.list[ev])
                           /\ Members(w2.list[ev]) = {u \in Task : w2.at[u] = ev}
  BY <1>3 DEF WaitOK
<1> QED BY ONLY <1>2, <1>5, <1>6, <1>7 DEF WaitOK, Waiting

LEMMA nxmq_recover_step ==
    ASSUME IInv, NEW t \in Task, nxmq_recover(t)
    PROVE  IInv' /\ Visible(t)
<1>1. /\ pc[t] # "dead" /\ Goto(t, "dead") /\ waitdog' = [waitdog EXCEPT ![t] = FALSE]
      /\ UNCHANGED <<msglist, nmsgs, ntpid, sent, pools, held, mode, errcode>>
  BY DEF nxmq_recover
<1>2. pc \in [Task -> Label] /\ waitdog \in [Task -> BOOLEAN]
      /\ errcode \in [Task -> {"OK", "EINTR", "ETIMEDOUT"}]
  BY DEF IInv, WaitOK, Waiting, Locals
<1>3. pc'[t] = "dead" /\ \A u \in Task \ {t} : pc'[u] = pc[u]
  BY <1>1, <1>2 DEF Goto, At
<1>4. waitdog' \in [Task -> BOOLEAN] /\ ~waitdog'[t] /\ \A u \in Task \ {t} : waitdog'[u] = waitdog[u]
  BY <1>1, <1>2
<1>5. WaitOK(Waiting(pc))'
  <2>1. CASE Waits(t)
    BY <1>1, <2>1, Unlinked DEF nxmq_recover
  <2>2. CASE ~Waits(t)
    <3>1. UNCHANGED <<waitlist, nwait>> /\ "dead" \in Label \ Event
      BY <2>2 DEF nxmq_recover, Label, Event
    <3>2. GoesOn(t, "dead")
      BY <1>1, <2>2, <3>1, GoTo
    <3> QED BY <3>2 DEF GoesOn, Others
  <2> QED BY <2>1, <2>2
<1>6. Others(t)
  BY <1>1, <1>2, <1>3, <1>4, <1>5 DEF Others, Passive
<1>7. Messages'
  BY <1>1, MessagesKept DEF IInv
<1>8. Stage(t)'
  BY <1>3, <1>4 DEF Stage, Waits, Event
<1>9. Served("full")' /\ Served("empty")'
  BY <1>3 DEF Served
<1>10. Own(t)
  BY <1>1, <1>3, OwnQuiet
<1>11. ntpid' \in Task \cup {NoTask} /\ mode' \in [Task -> Mode]
       /\ \A u \in Task \ {t} : held'[u] = held[u] /\ mode'[u] = mode[u]
  BY <1>1 DEF IInv, Locals
<1> QED BY <1>6, <1>7, <1>8, <1>9, <1>10, <1>11, Together

LEMMA nxmq_free_msgq_step ==
    ASSUME IInv, nxmq_free_msgq
    PROVE  IInv' /\ Visible(NoTask)
<1>1. /\ \A t \in Task : pc[t] \in {"run", "dead"}
      /\ nxmq_free_msg({msglist[i].buf : i \in DOMAIN msglist})
      /\ msglist' = <<>> /\ nmsgs' = 0 /\ ntpid' = NoTask /\ sent' = <<>>
      /\ UNCHANGED <<waitlist, nwait, held, mode, pc, errcode, waitdog>>
  BY DEF nxmq_free_msgq
<1>2. NoTask \notin Task
  BY MQueueAssumption
<1>3. Others(NoTask)
  BY <1>1 DEF Others, Passive, IInv, WaitOK, Waiting, Locals
<1>4. Messages'
  BY <1>1, MessagesClosed DEF IInv
<1>5. Serves(NoTask)
  <2>1. \A ev \in Event : waitlist[ev] = <<>>
    <3> DEFINE w == Waiting(pc)
    <3>1. WaitOK(w) /\ w.list = waitlist /\ w.at = pc
      BY DEF IInv, Waiting
    <3> HIDE DEF w
    <3>2. ASSUME NEW ev \in Event PROVE w.list[ev] = <<>> <=> \A t \in Task : w.at[t] # ev
      BY <3>1, NoneWait
    <3> QED BY <1>1, <3>1, <3>2 DEF Event
  <2> QED BY <1>1, <1>2, <1>3, <2>1 DEF Serves, Keeps, Event
<1>6. Leaves(NoTask)
  BY <1>1 DEF Leaves, IInv, Locals
<1>7. Own(NoTask)
  BY <1>1, <1>2 DEF Own, Acts
<1> QED BY <1>2, <1>4, <1>5, <1>6, <1>7, StepDone

LEMMA irq_send_step ==
    ASSUME IInv, NEW p \in MsgPrio, irq_send(p)
    PROVE  IInv' /\ Visible(NoTask)
<1>1. nmsgs < maxmsgs /\ ntpid' = NoTask /\ UNCHANGED <<held, mode>> /\ NoTask \notin Task
  BY MQueueAssumption DEF irq_send
<1>2. PICK b \in nxmq_alloc_msg(TRUE) : Allocated(b) /\ Queued([buf |-> b, prio |-> p])
  BY DEF irq_send
<1>3. Messages' /\ nmsgs' = nmsgs + 1
  BY <1>1, <1>2, MessagesFromIrq DEF IInv
<1>4. Woke(NoTask, "run") /\ Cared(NoTask, "empty")
  <2>1. CASE nxmq_notify(Waiting(pc), "empty") /\ UNCHANGED errcode
    BY <2>1, IrqWakes DEF Event
  <2>2. CASE /\ ntpid # NoTask /\ Waits(ntpid)
             /\ nxmq_notify(unblock(Waiting(pc), ntpid), "empty")
             /\ errcode' = [errcode EXCEPT ![ntpid] = "EINTR"]
    <3>1. ntpid \in Task
      BY <2>2 DEF IInv, Locals
    <3> QED BY <2>2, <3>1, IrqNotifyWakes
  <2> QED BY <2>1, <2>2 DEF irq_send
<1>5. Serves(NoTask)
  <2>1. NoTask \notin Wakers("full") /\ NoTask \notin Wakers("empty")
    BY <1>1 DEF Wakers
  <2>2. Room("full")' <= Room("full") - 1 /\ Room("empty")' <= Room("empty") + 1
    BY <1>3, RoomIs
  <2> QED BY <1>1, <1>4, <2>1, <2>2, WokeServes DEF Keeps
<1>6. Leaves(NoTask)
  BY <1>1 DEF Leaves, IInv, Locals
<1>7. Own(NoTask)
  <2>1. b \in Buffer
    BY <1>2, Alloc DEF IInv
  <2>2. [buf |-> b, prio |-> p] \in Message
    BY <2>1, MessagePrioType
  <2>3. Len(sent) < maxmsgs
    BY <1>1 DEF IInv, Messages, Lists, History
  <2> QED BY <1>1, <1>2, <2>2, <2>3 DEF Own, Acts, Queued
<1> QED BY <1>1, <1>3, <1>5, <1>6, <1>7, StepDone

-----------------------------------------------------------------------------
(* Invariance *)

LEMMA InitIInv == ASSUME Init PROVE IInv
<1>1. /\ msglist = <<>> /\ nmsgs = 0 /\ ntpid = NoTask /\ sent = <<>>
      /\ waitlist = [ev \in Event |-> <<>>] /\ nwait = [ev \in Event |-> 0]
      /\ g_msgfree = Fixed /\ g_msgfreeirq = Irq /\ heap = Heap
      /\ held = [t \in Task |-> NoMsg] /\ mode = [t \in Task |-> "block"]
      /\ pc = [t \in Task |-> "run"] /\ errcode = [t \in Task |-> "OK"]
      /\ waitdog = [t \in Task |-> FALSE]
  BY DEF Init
<1>2. WaitOK(Waiting(pc))
  <2>1. \A ev \in Event : /\ waitlist[ev] = <<>> /\ nwait[ev] = 0
                          /\ {t \in Task : pc[t] = ev} = {}
    BY <1>1 DEF Event
  <2>2. Proper(<<>>, Task, Prio) /\ Len(<<>>) = 0 /\ Members(<<>>) = {}
    BY DEF Proper, Distinct, Descending, Members
  <2>3. /\ waitlist \in [Event -> Seq(Task)] /\ nwait \in [Event -> Nat]
        /\ pc \in [Task -> Label]
    BY <1>1 DEF Label
  <2> QED BY <2>1, <2>2, <2>3 DEF WaitOK, Waiting
<1>3. Lists
  <2>1. Proper(<<>>, Message, MessagePrio) /\ Len(<<>>) = 0 /\ Members(<<>>) = {}
        /\ Distinct(<<>>) /\ SameOrder(<<>>, <<>>) /\ <<>> \in Seq(Message)
    BY DEF Proper, Distinct, Descending, Members, SameOrder
  <2>2. 0 \in 0..maxmsgs
    BY MQueueAssumption
  <2> QED BY <1>1, <2>1, <2>2 DEF Lists, History
<1>4. Placed
  <2>1. \A b \in Buffer : InPool(b)
    BY <1>1 DEF InPool, Buffer
  <2>2. Members(msglist) = {} /\ \A t \in Task : held[t] = NoMsg
    BY <1>1 DEF Members
  <2> QED BY <2>1, <2>2 DEF Placed, InQueue, InHand
<1>5. Messages
  BY <1>1, <1>3, <1>4 DEF Messages
<1>6. Locals
  BY <1>1 DEF Locals, Mode
<1>7. Stages
  BY <1>1 DEF Stages, Stage, Keeping, Waits, Event
<1>8. \A ev \in Event : Served(ev)
  BY <1>1 DEF Served
<1> QED BY <1>2, <1>5, <1>6, <1>7, <1>8 DEF IInv

LEMMA NextIInv ==
    ASSUME IInv, Next
    PROVE  IInv' /\ \E t : Visible(t)
<1>1. ASSUME NEW t \in Task, NEW m \in Mode, mq_receive(t, m) PROVE IInv' /\ Visible(t)
  BY <1>1, mq_receive_step
<1>2. ASSUME NEW t \in Task, NEW m \in Mode, NEW p \in MsgPrio, mq_send(t, m, p)
      PROVE  IInv' /\ Visible(t)
  BY <1>2, mq_send_step
<1>3. ASSUME NEW p \in MsgPrio, irq_send(p) PROVE IInv' /\ Visible(NoTask)
  BY <1>3, irq_send_step
<1>4. ASSUME NEW t \in Task, CallStep(t) PROVE IInv' /\ Visible(t)
  BY <1>4, CallStepInv
<1>5. ASSUME NEW t \in Task, mq_notify(t) PROVE IInv' /\ Visible(NoTask)
  BY <1>5, mq_notify_step
<1>6. ASSUME NEW t \in Task, nxmq_timeout(t) PROVE IInv' /\ \E u : Visible(u)
  BY <1>6, nxmq_timeout_step
<1>7. ASSUME NEW t \in Task, nxsig_tcbdispatch(t) PROVE IInv' /\ \E u : Visible(u)
  BY <1>7, nxsig_tcbdispatch_step
<1>8. ASSUME NEW t \in Task, nxmq_recover(t) PROVE IInv' /\ Visible(t)
  BY <1>8, nxmq_recover_step
<1>9. ASSUME nxmq_free_msgq PROVE IInv' /\ Visible(NoTask)
  BY <1>9, nxmq_free_msgq_step
<1> QED BY <1>1, <1>2, <1>3, <1>4, <1>5, <1>6, <1>7, <1>8, <1>9 DEF Next

LEMMA StutterIInv ==
    ASSUME IInv, UNCHANGED vars
    PROVE  IInv'
<1>1. UNCHANGED <<msglist, nmsgs, waitlist, nwait, ntpid, sent, g_msgfree, g_msgfreeirq, heap,
                  held, mode, pc, errcode, waitdog>>
  BY DEF vars, queue, pools
<1>2. WaitOK(Waiting(pc))' /\ Locals' /\ Stages'
  BY <1>1 DEF IInv, WaitOK, Waiting, Locals, Stages, Stage, Waits
<1>3. Messages'
  BY <1>1, MessagesKept DEF IInv, pools
<1>4. \A ev \in Event : Served(ev)'
  <2>1. \A ev \in Event : Wakers(ev)' = Wakers(ev)
    BY <1>1 DEF Wakers
  <2> QED BY <1>1, <2>1 DEF IInv, Served, Room
<1> QED BY <1>2, <1>3, <1>4 DEF IInv

THEOREM Invariance == Spec => []IInv
<1>1. Init => IInv
  BY InitIInv
<1>2. IInv /\ [Next]_vars => IInv'
  BY NextIInv, StutterIInv
<1> QED BY <1>1, <1>2, PTL DEF Spec

-----------------------------------------------------------------------------
(* What follows *)

\* The variables of the message queue keep their types: nwaitnotfull and
\* nwaitnotempty never go below zero, and nmsgs never above maxmsgs.
THEOREM MQueueTypeCorrect == Spec => []TypeOK
<1>1. IInv => TypeOK
  BY DEF IInv, WaitOK, Waiting, Messages, Lists, History, Proper, Locals, TypeOK
<1> QED BY <1>1, Invariance, PTL

\* The counts that decide whether somebody is woken are the lengths of the lists
\* from which he is taken, and these hold the tasks that wait, no others.
THEOREM MQueueCounts == Spec => []CountsMatchLists
<1>1. IInv => CountsMatchLists
  BY DEF IInv, WaitOK, Waiting, Messages, Lists, CountsMatchLists
<1> QED BY <1>1, Invariance, PTL

LEMMA NumberOf ==
    ASSUME NEW a, NEW b, NEW c, NEW S,
           S \subseteq {t \in Task : pc[t] \in {a, b, c}}
    PROVE  /\ Number(a) \in Nat /\ Number(b) \in Nat /\ Number(c) \in Nat
           /\ Cardinality(S) <= Number(a) + Number(b) + Number(c)
<1> DEFINE A == {t \in Task : pc[t] = a}
           B == {t \in Task : pc[t] = b}
           C == {t \in Task : pc[t] = c}
<1>1. IsFiniteSet(A) /\ IsFiniteSet(B) /\ IsFiniteSet(C)
  <2>1. IsFiniteSet(Task) /\ A \in SUBSET Task /\ B \in SUBSET Task /\ C \in SUBSET Task
    BY MQueueAssumption
  <2> QED BY <2>1, FS_Subset
<1>2. Number(a) = Cardinality(A) /\ Number(b) = Cardinality(B) /\ Number(c) = Cardinality(C)
  BY DEF Number
<1>3. S \subseteq (A \cup B) \cup C
  OBVIOUS
<1> HIDE DEF A, B, C
<1>4. Cardinality(A) \in Nat /\ Cardinality(B) \in Nat /\ Cardinality(C) \in Nat
  BY <1>1, FS_CardinalityType
<1>5. /\ IsFiniteSet(A \cup B) /\ Cardinality(A \cap B) \in Nat
      /\ Cardinality(A \cup B) = Cardinality(A) + Cardinality(B) - Cardinality(A \cap B)
  BY <1>1, FS_Union, FS_Intersection, FS_CardinalityType
<1>6. /\ IsFiniteSet((A \cup B) \cup C) /\ Cardinality((A \cup B) \cap C) \in Nat
      /\ Cardinality((A \cup B) \cup C)
            = Cardinality(A \cup B) + Cardinality(C) - Cardinality((A \cup B) \cap C)
  BY <1>1, <1>5, FS_Union, FS_Intersection, FS_CardinalityType
<1>7. Cardinality(S) <= Cardinality((A \cup B) \cup C) /\ Cardinality(S) \in Nat
  BY <1>3, <1>6, FS_Subset, FS_CardinalityType
<1> QED BY <1>2, <1>4, <1>5, <1>6, <1>7

\* While no task has been deleted, nobody is left waiting beside what he waits for.
\* Wakers is what makes it inductive: of the tasks that were woken only those count
\* that were woken without an error.
THEOREM MQueueNoStrandedWaiter == Spec => []NoStrandedWaiter
<1>1. ASSUME IInv PROVE NoStrandedWaiter
  <2> SUFFICES ASSUME Alive
               PROVE  /\ waitlist["full"] # <<>> =>
                           maxmsgs - nmsgs <= Number("sendwoken") + Number("pollout")
                      /\ waitlist["empty"] # <<>> =>
                           nmsgs <= Number("recvwoken") + Number("pollin") + Number("notify")
    BY DEF NoStrandedWaiter, Alive
  <2>1. /\ Room("full") = maxmsgs - nmsgs /\ Room("empty") = nmsgs
        /\ nmsgs \in Nat /\ maxmsgs \in Nat
    BY <1>1, RoomIs
  <2>2. /\ waitlist["full"] # <<>> => Room("full") <= Cardinality(Wakers("full"))
        /\ waitlist["empty"] # <<>> => Room("empty") <= Cardinality(Wakers("empty"))
    BY <1>1 DEF IInv, Served, Alive, Event
  <2>3. Cardinality(Wakers("full")) \in Nat /\ Cardinality(Wakers("empty")) \in Nat
    <3>1. Wakers("full") \subseteq Task /\ Wakers("empty") \subseteq Task
      BY DEF Wakers
    <3> QED BY <3>1, Cards
  <2>4. /\ Number("recvwoken") \in Nat /\ Number("pollin") \in Nat /\ Number("notify") \in Nat
        /\ Cardinality(Wakers("empty")) <= Number("recvwoken") + Number("pollin") + Number("notify")
    <3>1. Wakers("empty") \subseteq {t \in Task : pc[t] \in {"recvwoken", "pollin", "notify"}}
      BY DEF Wakers
    <3> QED BY ONLY <3>1, NumberOf
  <2>5. /\ Number("sendwoken") \in Nat /\ Number("pollout") \in Nat
        /\ Cardinality(Wakers("full")) <= Number("sendwoken") + Number("pollout")
    <3>1. Wakers("full") \subseteq {t \in Task : pc[t] \in {"sendwoken", "pollout", "none"}}
      BY DEF Wakers
    <3>2. /\ Number("sendwoken") \in Nat /\ Number("pollout") \in Nat /\ Number("none") \in Nat
          /\ Cardinality(Wakers("full")) <= Number("sendwoken") + Number("pollout") + Number("none")
      BY ONLY <3>1, NumberOf
    <3>3. Number("none") = 0
      <4>1. {t \in Task : pc[t] = "none"} = {}
        BY <1>1 DEF IInv, WaitOK, Waiting, Label
      <4> QED BY <4>1, FS_EmptySet DEF Number
    <3> QED BY <3>2, <3>3, <2>3
  <2> QED BY ONLY <2>1, <2>2, <2>3, <2>4, <2>5
<1> QED BY <1>1, Invariance, PTL

\* As many structures are in the queue as there are messages in it.
LEMMA QueuedLen ==
    ASSUME IInv
    PROVE  Cardinality({msglist[i].buf : i \in DOMAIN msglist}) = Len(msglist)
<1> DEFINE n == Len(msglist)
           Q == {msglist[i].buf : i \in DOMAIN msglist}
           f == [i \in 1..n |-> msglist[i].buf]
<1>1. Lists /\ Placed
  BY DEF IInv, Messages
<1>2. n \in Nat /\ DOMAIN msglist = 1..n
  BY <1>1, ListFacts
<1>3. \A i, j \in 1..n : msglist[i].buf = msglist[j].buf => i = j
  BY <1>1, <1>2 DEF Placed, Members, Lists, Proper, Distinct
<1>4. f \in Bijection(1..n, Q)
  <2>1. f \in [1..n -> Q]
    BY <1>2
  <2>2. \A i, j \in 1..n : f[i] = f[j] => i = j
    BY <1>3
  <2>3. \A x \in Q : \E i \in 1..n : f[i] = x
    BY <1>2
  <2> HIDE DEF f, Q
  <2> QED BY <2>1, <2>2, <2>3 DEF Bijection, Injection, Surjection, IsInjective
<1>5. ExistsBijection(1..n, Q)
  BY <1>4 DEF ExistsBijection
<1> HIDE DEF Q
<1>6. Cardinality(Q) = n
  BY <1>2, <1>5, FS_CountingElements, FS_NatBijection
<1> QED BY <1>6 DEF Q

\* No message structure is lost or in two places.
THEOREM MQueueStructuresConserved == Spec => []StructuresConserved
<1>1. ASSUME IInv PROVE StructuresConserved
  <2> DEFINE queued == {msglist[i].buf : i \in DOMAIN msglist}
             free == g_msgfree \cup g_msgfreeirq \cup heap
             owned == UNION {Holds(t) : t \in Task}
  <2>1. Lists /\ Placed /\ g_msgfree \subseteq Fixed /\ g_msgfreeirq \subseteq Irq /\ heap \subseteq Heap
        /\ held \in [Task -> Message \cup {NoMsg}]
    BY <1>1 DEF IInv, Messages
  <2>2. \A c : c \in queued <=> InQueue(c)
    BY DEF InQueue, Members
  <2>3. \A c : c \in free <=> InPool(c)
    BY DEF InPool
  <2>4. ASSUME NEW t \in Task PROVE \A c : c \in Holds(t) <=> InHand(t, c)
    BY DEF Holds, InHand
  <2>5. \A c : c \in owned <=> \E t \in Task : InHand(t, c)
    BY <2>4
  <2>6. queued \subseteq Buffer
    <3>1. \A i \in DOMAIN msglist : msglist[i] \in Message
      BY <2>1, ListFacts
    <3> QED BY <3>1, MessagePrioType
  <2>7. \A t \in Task : Holds(t) \subseteq Buffer
    BY <2>1, MessagePrioType DEF Holds
  <2>8. free \subseteq Buffer
    BY <2>1 DEF Buffer
  <2>9. g_msgfreeirq = free \cap Irq /\ heap = free \cap Heap
    <3>1. Fixed \cap Irq = {} /\ Fixed \cap Heap = {} /\ Irq \cap Heap = {}
      BY MQueueAssumption
    <3> QED BY <2>1, <3>1
  <2>10. Cardinality(queued) = Len(msglist)
    BY <1>1, QueuedLen
  <2>11. owned \subseteq Buffer
    BY <2>7
  <2> HIDE DEF queued, free, owned
  <2>12. free \cup queued \cup owned = Buffer
    BY <2>1, <2>2, <2>3, <2>5, <2>6, <2>8, <2>11 DEF Placed
  <2>13. free \cap (queued \cup owned) = {} /\ queued \cap owned = {}
    BY <2>1, <2>2, <2>3, <2>5, <2>6, <2>8 DEF Placed
  <2>14. \A t, u \in Task : t # u => Holds(t) \cap Holds(u) = {}
    BY <2>1, <2>4, <2>7 DEF Placed
  <2> QED BY <2>9, <2>10, <2>12, <2>13, <2>14 DEF StructuresConserved, queued, free, owned
<1> QED BY <1>1, Invariance, PTL

\* A timeout only ends a call that was given one: a watchdog that runs belongs to a
\* task that waits with a timeout, or that was interrupted in such a wait.
THEOREM MQueueNoStaleTimeout == Spec => NoStaleTimeout
<1>1. ASSUME IInv, [Next]_vars
      PROVE  [\A t \in Task : errcode'[t] = "ETIMEDOUT" /\ errcode[t] # "ETIMEDOUT"
                    => mode[t] = "timed"]_vars
  BY <1>1, NextIInv DEF Visible, Timely
<1> QED BY <1>1, Invariance, PTL DEF Spec, NoStaleTimeout

-----------------------------------------------------------------------------
(* The queue implements AbsMQueue *)

LEMMA InitAbs == ASSUME Init PROVE Abs!Init
BY DEF Init, Abs!Init

LEMMA NextAbs ==
    ASSUME IInv, NEW t, Visible(t)
    PROVE  Abs!Next \/ UNCHANGED Abs!vars
<1> DEFINE taken == [u \in Task |-> IF pc[u] \in {"pollout", "copy"} THEN held[u] ELSE NoMsg]
<1>1. \A u \in Task : taken[u] = Taken(u) /\ taken'[u] = Taken(u)'
  BY DEF Taken
<1>2. \A u \in Task \ {t} : taken'[u] = taken[u]
  BY <1>1 DEF Visible
<1>3. taken = [u \in Task |-> taken[u]] /\ taken' = [u \in Task |-> taken'[u]]
  OBVIOUS
<1>4. (t \in Task => taken'[t] = taken[t]) => taken' = taken
  BY <1>2
<1>5. t \in Task => taken' = [taken EXCEPT ![t] = Taken(t)']
  BY <1>1, <1>2
<1>6. CASE sent' = sent /\ (t \in Task => Taken(t)' \in {Taken(t), NoMsg})
  <2>1. CASE t \in Task /\ Taken(t)' = NoMsg
    <3>1. Abs!Return(t)
      BY <1>5, <1>6, <2>1 DEF Abs!Return
    <3> QED BY <2>1, <3>1 DEF Abs!Next
  <2>2. CASE ~(t \in Task /\ Taken(t)' = NoMsg)
    <3>1. taken' = taken
      BY <1>1, <1>4, <1>6, <2>2
    <3> QED BY <1>6, <3>1 DEF Abs!vars
  <2> QED BY <2>1, <2>2
<1>7. ASSUME Len(sent) < maxmsgs, NEW m \in Message, sent' = Append(sent, m),
             t \in Task => Taken(t)' = Taken(t)
      PROVE  Abs!Next
  <2>1. taken' = taken
    BY <1>1, <1>4, <1>7
  <2>2. Abs!Put(m)
    BY <1>7, <2>1 DEF Abs!Put
  <2> QED BY <2>2 DEF Abs!Next
<1>8. ASSUME t \in Task, Taken(t) = NoMsg, NEW i \in DOMAIN sent, Abs!OldestOfHighest(i),
             Taken(t)' = sent[i], sent' = Abs!Without(i)
      PROVE  Abs!Next
  <2>1. taken[t] = NoMsg /\ taken' = [taken EXCEPT ![t] = sent[i]]
    BY <1>1, <1>5, <1>8
  <2>2. Abs!Take(t)
    BY <1>8, <2>1 DEF Abs!Take
  <2> QED BY <1>8, <2>2 DEF Abs!Next
<1>9. CASE sent' = <<>> /\ t \notin Task
  <2>1. taken' = taken
    BY <1>4, <1>9
  <2>2. Abs!Close
    BY <1>9, <2>1 DEF Abs!Close
  <2> QED BY <2>2 DEF Abs!Next
<1> QED BY <1>6, <1>7, <1>8, <1>9 DEF Visible, Acts

\* The message queue implements AbsMQueue: at most maxmsgs messages, each received
\* by one task, the oldest of the highest priority first.
THEOREM MQueueImplementsAbsMQueue == Spec => ImplementsAbsMQueue
<1>1. Init => Abs!Init
  BY InitAbs
<1>2. ASSUME IInv, [Next]_vars
      PROVE  [Abs!Next]_(Abs!vars)
  <2>1. CASE Next
    BY <1>2, <2>1, NextIInv, NextAbs
  <2>2. CASE UNCHANGED vars
    BY <2>2 DEF vars, queue, Abs!vars
  <2> QED BY <1>2, <2>1, <2>2
<1> QED BY <1>1, <1>2, Invariance, PTL DEF Spec, ImplementsAbsMQueue, Abs!Spec
=============================================================================
