------------------------------- MODULE MQueue -------------------------------
(***************************************************************************)
(* A POSIX message queue of NuttX: tasks that send and receive, blocking,  *)
(* without blocking or with a timeout, interrupt handlers that send, the   *)
(* pools that the message structures come from, mq_notify, timeouts,       *)
(* signals, and tasks that are deleted in the middle of a call.            *)
(*                                                                         *)
(* A critical section is one step, except where it calls something that    *)
(* may switch to another task: poll_notify and nxsig_notification.  A task *)
(* that is woken resumes in a later step, and others may come first.       *)
(***************************************************************************)
EXTENDS TaskList, FiniteSets

CONSTANTS Task,             \* the tasks that use the queue
          Prio,             \* their priorities
          NoTask,           \* INVALID_PROCESS_ID
          NoMsg,            \* no message
          Calls,            \* the calls that each task makes
          MayDie,           \* the tasks that may be deleted
          Fixed,            \* the structures preallocated for general use
          Irq,              \* those preallocated for interrupt handlers
          Heap,             \* those that fit into the heap
          MsgPrio,          \* the priorities of messages
          maxmsgs           \* msgq->maxmsgs

Mode == {"block", "timed", "nonblock"}

ASSUME MQueueAssumption ==
    /\ IsFiniteSet(Task) /\ Prio \in [Task -> Nat]
    /\ NoTask \notin Task
    /\ Calls \in [Task -> SUBSET ({"send", "receive"} \X Mode \cup {<<"notify", "block">>})]
    /\ MayDie \subseteq Task
    /\ Fixed \cap Irq = {} /\ Fixed \cap Heap = {} /\ Irq \cap Heap = {}
    /\ MsgPrio \subseteq Nat
    /\ maxmsgs \in Nat \ {0}

Buffer == Fixed \cup Irq \cup Heap
Message == [buf : Buffer, prio : MsgPrio]

ASSUME NoMsgAssumption == NoMsg \notin Message

VARIABLES msglist,      \* msgq->msglist
          nmsgs,        \* msgq->nmsgs
          waitlist,     \* the tasks that wait for not full, for not empty
          nwait,        \* nwaitnotfull and nwaitnotempty
          ntpid,        \* msgq->ntpid: the task that mq_notify registered
          g_msgfree, g_msgfreeirq, heap,    \* the free message structures
          held,         \* the message that the call of each task is about
          mode,         \* how the call of each task waits, while it is in one
          pc, errcode,  \* where each task is, how its wait ended
          waitdog,      \* its watchdog timer is running
          sent          \* history: the queued messages in the order of sending

queue == <<msglist, nmsgs, waitlist, nwait, ntpid, sent>>
pools == <<g_msgfree, g_msgfreeirq, heap>>
vars == <<queue, pools, held, mode, pc, errcode, waitdog>>

Label == {"run", "send", "full", "sendwoken", "pollin", "notify", "drop",
          "empty", "recvwoken", "pollout", "copy", "dead"}
Event == {"full", "empty"}      \* TSTATE_WAIT_MQNOTFULL, TSTATE_WAIT_MQNOTEMPTY

Waits(t) == pc[t] \in Event
At(t, label) == [pc EXCEPT ![t] = label]
Goto(t, label) == pc' = At(t, label)

-----------------------------------------------------------------------------
(* Message structures *)

\* The free structures that nxmq_alloc_msg may return to a task or, if irq is
\* TRUE, to an interrupt handler
nxmq_alloc_msg(irq) ==
    CASE g_msgfree # {} -> g_msgfree
      [] g_msgfree = {} /\ irq -> g_msgfreeirq
      [] OTHER -> heap

Allocated(b) ==
    /\ g_msgfree' = g_msgfree \ {b}
    /\ g_msgfreeirq' = g_msgfreeirq \ {b}
    /\ heap' = heap \ {b}

\* Mutant: a structure of the interrupt handlers goes to the general pool.
free_msg_general(buffers) ==
    /\ g_msgfree' = g_msgfree \cup (buffers \ Heap)
    /\ g_msgfreeirq' = g_msgfreeirq
    /\ heap' = heap \cup (buffers \cap Heap)

\* Each structure goes back to the list that its type names.
nxmq_free_msg(buffers) ==
    /\ g_msgfree' = g_msgfree \cup (buffers \cap Fixed)
    /\ g_msgfreeirq' = g_msgfreeirq \cup (buffers \cap Irq)
    /\ heap' = heap \cup (buffers \cap Heap)

-----------------------------------------------------------------------------
(* Parts of the critical sections *)

\* Mutant: a message overtakes those of its own priority.
add_queue_lifo(msg) ==
    LET k == CHOOSE i \in 0..Len(msglist) :
                /\ \A j \in 1..i : msg.prio < msglist[j].prio
                /\ i < Len(msglist) => msglist[i + 1].prio <= msg.prio
    IN  SubSeq(msglist, 1, k) \o <<msg>> \o SubSeq(msglist, k + 1, Len(msglist))

MessagePrio == [m \in Message |-> m.prio]

\* The message goes behind those of its own or a higher priority: the search is
\* the one of the task lists.
nxmq_add_queue(msg) == nxsched_add_prioritized(msglist, MessagePrio, msg)

Queued(msg) ==
    /\ msglist' = nxmq_add_queue(msg)
    /\ nmsgs' = nmsgs + 1
    /\ sent' = Append(sent, msg)

\* The head of the list is received; the history forgets it.
Received ==
    /\ msglist' = Tail(msglist)
    /\ nmsgs' = nmsgs - 1
    /\ sent' = dq_rem(sent, msglist[1])

\* A task blocks in nxmq_wait_send or nxmq_wait_receive.
Block(t, ev) ==
    /\ waitlist' = [waitlist EXCEPT ![ev] = nxsched_add_prioritized(@, Prio, t)]
    /\ nwait' = [nwait EXCEPT ![ev] = @ + 1]
    /\ errcode' = [errcode EXCEPT ![t] = "OK"]
    /\ Goto(t, ev)

Woken(ev) == IF ev = "full" THEN "sendwoken" ELSE "recvwoken"

\* What a critical section finds in the wait lists, and what it leaves there;
\* after is where the tasks are.
Waiting(after) == [list |-> waitlist, n |-> nwait, at |-> after]
Becomes(w) == waitlist' = w.list /\ nwait' = w.n /\ pc' = w.at

\* A task leaves the list in which it waits and becomes ready.
unblock(w, t) ==
    LET ev == w.at[t]
    IN  [list |-> [w.list EXCEPT ![ev] = dq_rem(w.list[ev], t)],
         n |-> [w.n EXCEPT ![ev] = w.n[ev] - 1],
         at |-> [w.at EXCEPT ![t] = Woken(ev)]]

\* Mutant: nobody is woken while a task that was woken has not resumed yet.
first_waiting_once(w, ev) ==
    IF w.n[ev] > 0 /\ \A t \in Task : w.at[t] # Woken(ev)
    THEN {w.list[ev][1]} ELSE {}

\* Who is woken by nxmq_notify_receive for "full", nxmq_notify_send for "empty"
first_waiting(w, ev) == IF w.n[ev] > 0 THEN {w.list[ev][1]} ELSE {}

\* The first task that waits is woken, and its watchdog is stopped.
nxmq_notify(w, ev) ==
    \/ first_waiting(w, ev) = {} /\ Becomes(w) /\ UNCHANGED waitdog
    \/ \E t \in first_waiting(w, ev) :
        Becomes(unblock(w, t)) /\ waitdog' = [waitdog EXCEPT ![t] = FALSE]

\* Mutant: the count of waiting tasks is left as it is.
wait_irq_keeps_count(t, err) ==
    /\ waitlist' = [waitlist EXCEPT ![pc[t]] = dq_rem(@, t)]
    /\ UNCHANGED nwait
    /\ errcode' = [errcode EXCEPT ![t] = err]
    /\ Goto(t, Woken(pc[t]))

\* A wait ends with an error: by a timeout or by a signal.
nxmq_wait_irq(t, err) ==
    /\ Becomes(unblock(Waiting(pc), t))
    /\ errcode' = [errcode EXCEPT ![t] = err]

-----------------------------------------------------------------------------
(* Sending *)

\* mq_send, mq_timedsend: the message is allocated before anything else; if
\* there is none the call returns ENOMEM.
mq_send(t, m, p) ==
    /\ pc[t] = "run" /\ <<"send", m>> \in Calls[t]
    /\ \E b \in nxmq_alloc_msg(FALSE) :
        /\ Allocated(b)
        /\ held' = [held EXCEPT ![t] = [buf |-> b, prio |-> p]]
    /\ mode' = [mode EXCEPT ![t] = m]
    /\ Goto(t, "send")
    /\ UNCHANGED <<queue, errcode, waitdog>>

\* After the message is in the queue the signal of mq_notify is sent, and the
\* registration is over.  There may be a switch to the task that gets it, and
\* whose wait it may interrupt, before the sender goes on and wakes a receiver.
NotifySend(t) ==
    /\ ntpid' = NoTask
    /\ \/ /\ ntpid # NoTask /\ Waits(ntpid)
          /\ Becomes(unblock(Waiting(At(t, "notify")), ntpid))
          /\ errcode' = [errcode EXCEPT ![ntpid] = "EINTR"]
          /\ UNCHANGED waitdog
       \/ /\ ntpid \notin {NoTask, t} /\ ~Waits(ntpid) /\ pc[ntpid] # "dead"
          /\ Goto(t, "notify")
          /\ UNCHANGED <<waitlist, nwait, errcode, waitdog>>
       \/ nxmq_notify(Waiting(At(t, "run")), "empty") /\ UNCHANGED errcode  \* or masked

\* A message is added to the queue.  If it was empty, poll_notify may switch
\* to a task that polls.
SendAdds(t) ==
    /\ nmsgs < maxmsgs
    /\ Queued(held[t])
    /\ held' = [held EXCEPT ![t] = NoMsg]
    /\ IF nmsgs = 0
       THEN Goto(t, "pollin") /\ UNCHANGED <<waitlist, nwait, ntpid, errcode, waitdog>>
       ELSE NotifySend(t)

\* The critical section of file_mq_timedsend_internal
send_section(t) ==
    /\ pc[t] = "send"
    /\ \/ SendAdds(t)
       \/ /\ nmsgs >= maxmsgs /\ mode[t] = "nonblock"
          /\ Goto(t, "drop")
          /\ UNCHANGED <<queue, held, errcode, waitdog>>
       \/ /\ nmsgs >= maxmsgs /\ mode[t] # "nonblock"
          /\ waitdog' = [waitdog EXCEPT ![t] = @ \/ mode[t] = "timed"]
          /\ Block(t, "full")
          /\ UNCHANGED <<msglist, nmsgs, ntpid, sent, held>>
    /\ UNCHANGED pools

\* Mutant: a task that was woken does not look whether the queue is full again.
send_resume_no_loop(t) ==
    /\ pc[t] = "sendwoken"
    /\ IF errcode[t] = "OK"
       THEN /\ Queued(held[t]) /\ Goto(t, "pollin")
            /\ held' = [held EXCEPT ![t] = NoMsg]
            /\ UNCHANGED <<waitlist, nwait, ntpid, errcode, waitdog>>
       ELSE /\ Goto(t, "drop")
            /\ waitdog' = [waitdog EXCEPT ![t] = FALSE]
            /\ UNCHANGED <<queue, held, errcode>>
    /\ UNCHANGED pools

\* The task resumes in the loop of nxmq_wait_send.  Whoever woke it with OK
\* has stopped its watchdog, and the loop does not start it again.
send_resume(t) ==
    /\ pc[t] = "sendwoken"
    /\ \/ errcode[t] = "OK" /\ SendAdds(t)
       \/ /\ errcode[t] = "OK" /\ nmsgs >= maxmsgs
          /\ Block(t, "full")
          /\ UNCHANGED <<msglist, nmsgs, ntpid, sent, held, waitdog>>
       \/ /\ errcode[t] # "OK"
          /\ Goto(t, "drop")
          /\ waitdog' = [waitdog EXCEPT ![t] = FALSE]
          /\ UNCHANGED <<queue, held, errcode>>
    /\ UNCHANGED pools

\* The sender goes on after poll_notify, and after the signal of mq_notify.
send_polled(t) ==
    /\ pc[t] = "pollin"
    /\ NotifySend(t)
    /\ UNCHANGED <<msglist, nmsgs, sent, pools, held>>

send_notified(t) ==
    /\ pc[t] = "notify"
    /\ nxmq_notify(Waiting(At(t, "run")), "empty")
    /\ UNCHANGED <<msglist, nmsgs, ntpid, sent, pools, held, errcode>>

\* A send that failed frees the message.
send_failed(t) ==
    /\ pc[t] = "drop"
    /\ nxmq_free_msg({held[t].buf})
    /\ held' = [held EXCEPT ![t] = NoMsg]
    /\ Goto(t, "run")
    /\ UNCHANGED <<queue, errcode, waitdog>>

\* An interrupt handler sends: it never waits, and no task runs before it has
\* woken a receiver.  If the queue is full it gives the message back.
irq_send(p) ==
    /\ nmsgs < maxmsgs
    /\ \E b \in nxmq_alloc_msg(TRUE) : Allocated(b) /\ Queued([buf |-> b, prio |-> p])
    /\ ntpid' = NoTask
    /\ \/ nxmq_notify(Waiting(pc), "empty") /\ UNCHANGED errcode
       \/ /\ ntpid # NoTask /\ Waits(ntpid)
          /\ nxmq_notify(unblock(Waiting(pc), ntpid), "empty")
          /\ errcode' = [errcode EXCEPT ![ntpid] = "EINTR"]
    /\ UNCHANGED <<held, mode>>

-----------------------------------------------------------------------------
(* Receiving *)

\* The first message is taken.  If the queue was full, poll_notify may switch
\* to a task that polls before a sender is woken.
Take(t) ==
    /\ msglist # <<>>
    /\ held' = [held EXCEPT ![t] = msglist[1]]
    /\ Received
    /\ IF nmsgs = maxmsgs
       THEN Goto(t, "pollout") /\ UNCHANGED <<waitlist, nwait, waitdog>>
       ELSE nxmq_notify(Waiting(At(t, "copy")), "full")
    /\ UNCHANGED <<ntpid, errcode>>

\* mq_receive and mq_timedreceive
mq_receive(t, m) ==
    /\ pc[t] = "run" /\ <<"receive", m>> \in Calls[t]
    /\ mode' = [mode EXCEPT ![t] = m]
    /\ \/ Take(t)
       \/ /\ msglist = <<>> /\ m # "nonblock"           \* otherwise EAGAIN
          /\ waitdog' = [waitdog EXCEPT ![t] = @ \/ m = "timed"]
          /\ Block(t, "empty")
          /\ UNCHANGED <<msglist, nmsgs, ntpid, sent, held>>
    /\ UNCHANGED pools

\* Mutant: the watchdog is not stopped when a signal ended the wait.
recv_resume_keeps_dog(t) ==
    /\ pc[t] = "recvwoken"
    /\ \/ errcode[t] = "OK" /\ Take(t)
       \/ /\ errcode[t] = "OK" /\ msglist = <<>>
          /\ Block(t, "empty")
          /\ UNCHANGED <<msglist, nmsgs, ntpid, sent, held, waitdog>>
       \/ /\ errcode[t] # "OK"
          /\ Goto(t, "run")
          /\ UNCHANGED <<queue, held, errcode, waitdog>>
    /\ UNCHANGED pools

\* The task resumes in the loop of nxmq_wait_receive.
recv_resume(t) ==
    /\ pc[t] = "recvwoken"
    /\ \/ errcode[t] = "OK" /\ Take(t)
       \/ /\ errcode[t] = "OK" /\ msglist = <<>>
          /\ Block(t, "empty")
          /\ UNCHANGED <<msglist, nmsgs, ntpid, sent, held, waitdog>>
       \/ /\ errcode[t] # "OK"
          /\ Goto(t, "run")
          /\ waitdog' = [waitdog EXCEPT ![t] = FALSE]
          /\ UNCHANGED <<queue, held, errcode>>
    /\ UNCHANGED pools

recv_polled(t) ==
    /\ pc[t] = "pollout"
    /\ nxmq_notify(Waiting(At(t, "copy")), "full")
    /\ UNCHANGED <<msglist, nmsgs, ntpid, sent, pools, held, errcode>>

\* The message has been copied to the caller and is freed.
recv_copied(t) ==
    /\ pc[t] = "copy"
    /\ nxmq_free_msg({held[t].buf})
    /\ held' = [held EXCEPT ![t] = NoMsg]
    /\ Goto(t, "run")
    /\ UNCHANGED <<queue, errcode, waitdog>>

-----------------------------------------------------------------------------
(* Timeouts, signals, deletion, mq_notify and the end of the queue *)

\* nxmq_sndtimeout and nxmq_rcvtimeout, in the timer interrupt
nxmq_timeout(t) ==
    /\ waitdog[t]
    /\ waitdog' = [waitdog EXCEPT ![t] = FALSE]
    /\ IF Waits(t)
       THEN nxmq_wait_irq(t, "ETIMEDOUT")
       ELSE UNCHANGED <<waitlist, nwait, errcode, pc>>
    /\ UNCHANGED <<msglist, nmsgs, ntpid, sent, pools, held, mode>>

\* nxsig_tcbdispatch for a task that waits here, from a task or an interrupt
nxsig_tcbdispatch(t) ==
    /\ Waits(t)
    /\ nxmq_wait_irq(t, "EINTR")
    /\ UNCHANGED <<msglist, nmsgs, ntpid, sent, pools, held, mode, waitdog>>

\* A task is deleted wherever it is: nxmq_recover corrects the count, and the
\* task is unlinked.  The message that it was about to send or to copy is not
\* freed.
nxmq_recover(t) ==
    /\ t \in MayDie /\ pc[t] # "dead"
    /\ IF Waits(t)
       THEN /\ waitlist' = [waitlist EXCEPT ![pc[t]] = dq_rem(@, t)]
            /\ nwait' = [nwait EXCEPT ![pc[t]] = @ - 1]
       ELSE UNCHANGED <<waitlist, nwait>>
    /\ Goto(t, "dead")
    /\ waitdog' = [waitdog EXCEPT ![t] = FALSE]
    /\ UNCHANGED <<msglist, nmsgs, ntpid, sent, pools, held, mode, errcode>>

\* A task registers for the next message, or takes its registration back.
mq_notify(t) ==
    /\ pc[t] = "run" /\ <<"notify", "block">> \in Calls[t]
    /\ \/ ntpid = NoTask /\ ntpid' = t
       \/ ntpid = t /\ ntpid' = NoTask          \* any other case: EBUSY
    /\ UNCHANGED <<msglist, nmsgs, waitlist, nwait, sent, pools, held, mode,
                   pc, errcode, waitdog>>

\* The queue is unlinked and closed for the last time: the messages left in it
\* are freed, and the name is opened again for a new queue.
nxmq_free_msgq ==
    /\ \A t \in Task : pc[t] \in {"run", "dead"}
    /\ msglist # <<>>
    /\ nxmq_free_msg({msglist[i].buf : i \in DOMAIN msglist})
    /\ msglist' = <<>> /\ nmsgs' = 0 /\ ntpid' = NoTask /\ sent' = <<>>
    /\ UNCHANGED <<waitlist, nwait, held, mode, pc, errcode, waitdog>>

-----------------------------------------------------------------------------
Init ==
    /\ msglist = <<>> /\ nmsgs = 0 /\ ntpid = NoTask /\ sent = <<>>
    /\ waitlist = [ev \in Event |-> <<>>]
    /\ nwait = [ev \in Event |-> 0]
    /\ g_msgfree = Fixed /\ g_msgfreeirq = Irq /\ heap = Heap
    /\ held = [t \in Task |-> NoMsg]
    /\ mode = [t \in Task |-> "block"]
    /\ pc = [t \in Task |-> "run"]
    /\ errcode = [t \in Task |-> "OK"]
    /\ waitdog = [t \in Task |-> FALSE]

\* The steps that a call takes once it has been made
CallStep(t) ==
    /\ \/ send_section(t) \/ send_resume(t) \/ send_polled(t) \/ send_notified(t)
       \/ send_failed(t) \/ recv_resume(t) \/ recv_polled(t) \/ recv_copied(t)
    /\ mode' = [mode EXCEPT ![t] = IF pc'[t] = "run" THEN "block" ELSE @]

Next ==
    \/ \E t \in Task, m \in Mode :
        mq_receive(t, m) \/ \E p \in MsgPrio : mq_send(t, m, p)
    \/ \E p \in MsgPrio : irq_send(p)
    \/ \E t \in Task :
        \/ CallStep(t) \/ mq_notify(t)
        \/ nxmq_timeout(t) \/ nxsig_tcbdispatch(t) \/ nxmq_recover(t)
    \/ nxmq_free_msgq

Spec == Init /\ [][Next]_vars

\* A call goes on unless it blocks, and the timer interrupt keeps coming.
Fairness == \A t \in Task : WF_vars(CallStep(t)) /\ WF_vars(nxmq_timeout(t))
LiveSpec == Spec /\ Fairness

-----------------------------------------------------------------------------
(* Properties *)

\* Every variable keeps its type: nwaitnotfull and nwaitnotempty do not go
\* below zero, and nmsgs stays below its limit.
TypeOK ==
    /\ msglist \in Seq(Message) /\ sent \in Seq(Message)
    /\ nmsgs \in 0..maxmsgs
    /\ waitlist \in [Event -> Seq(Task)] /\ nwait \in [Event -> Nat]
    /\ ntpid \in Task \cup {NoTask}
    /\ g_msgfree \subseteq Fixed /\ g_msgfreeirq \subseteq Irq /\ heap \subseteq Heap
    /\ held \in [Task -> Message \cup {NoMsg}] /\ mode \in [Task -> Mode]
    /\ pc \in [Task -> Label] /\ waitdog \in [Task -> BOOLEAN]
    /\ errcode \in [Task -> {"OK", "EINTR", "ETIMEDOUT"}]

\* The counts that decide whether somebody is woken are the lengths of the
\* lists from which he is taken (DEBUGASSERT(btcb)), whatever way a wait ends:
\* woken, timed out, interrupted or deleted.
CountsMatchLists ==
    /\ nmsgs = Len(msglist)
    /\ \A ev \in Event :
        /\ nwait[ev] = Len(waitlist[ev])
        /\ Members(waitlist[ev]) = {t \in Task : pc[t] = ev}

Number(label) == Cardinality({t \in Task : pc[t] = label})

\* Nobody is left waiting beside what he waits for: for each place in the
\* queue, if tasks wait to send, some task has been woken that has not resumed
\* yet or some receiver is about to wake one; and likewise for each message
\* and the tasks that wait to receive.  Deleting a task that was woken loses
\* its wake-up.
NoStrandedWaiter ==
    (\A t \in Task : pc[t] # "dead") =>
        /\ waitlist["full"] # <<>> =>
            maxmsgs - nmsgs <= Number("sendwoken") + Number("pollout")
        /\ waitlist["empty"] # <<>> =>
            nmsgs <= Number("recvwoken") + Number("pollin") + Number("notify")

\* The structures that a task has in its hands
Holds(t) == {m.buf : m \in {held[t]} \ {NoMsg}}

\* No message structure is lost or in two places: it is in the pool that its
\* type names, in the queue, or in the hands of one task.  A task that was
\* deleted keeps what it had.
StructuresConserved ==
    LET queued == {msglist[i].buf : i \in DOMAIN msglist}
        free == g_msgfree \cup g_msgfreeirq \cup heap
        owned == UNION {Holds(t) : t \in Task}
    IN  /\ free \cup queued \cup owned = Buffer
        /\ free \cap (queued \cup owned) = {} /\ queued \cap owned = {}
        /\ g_msgfreeirq = free \cap Irq /\ heap = free \cap Heap
        /\ Cardinality(queued) = Len(msglist)
        /\ \A t, u \in Task : t # u => Holds(t) \cap Holds(u) = {}

\* A timeout only ends a call that was given one, never a later wait.
NoStaleTimeout ==
    [][\A t \in Task : errcode'[t] = "ETIMEDOUT" /\ errcode[t] # "ETIMEDOUT"
            => mode[t] = "timed"]_vars

\* The queue is a queue of at most maxmsgs messages, each received by one task,
\* the oldest of the highest priority first: module AbsMQueue.
Abs == INSTANCE AbsMQueue WITH
    queue <- sent,
    taken <- [t \in Task |-> IF pc[t] \in {"pollout", "copy"} THEN held[t] ELSE NoMsg]
ImplementsAbsMQueue == Abs!Spec

-----------------------------------------------------------------------------
(* What a comment in the code claims, and what it does not keep *)

\* "specifies a ceiling on the time for which the call will block": a task
\* that waits with a timeout does not wait for ever.
TimedCallReturns ==
    \A t \in Task : (Waits(t) /\ mode[t] = "timed") ~> ~(Waits(t) /\ mode[t] = "timed")
=============================================================================
