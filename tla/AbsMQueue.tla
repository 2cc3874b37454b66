----------------------------- MODULE AbsMQueue -----------------------------
(***************************************************************************)
(* What a POSIX message queue promises: at most maxmsgs messages, in the   *)
(* order in which they were sent, of which a receiver takes the oldest of  *)
(* those with the highest priority.                                        *)
(***************************************************************************)
EXTENDS Integers, Sequences

CONSTANTS Task, Message, NoMsg, maxmsgs

VARIABLES queue,        \* the messages in the order in which they were sent
          taken         \* the message that each task is receiving, or NoMsg

vars == <<queue, taken>>

Init == queue = <<>> /\ taken = [t \in Task |-> NoMsg]

Put(m) ==
    /\ Len(queue) < maxmsgs
    /\ queue' = Append(queue, m)
    /\ UNCHANGED taken

OldestOfHighest(i) ==
    /\ i \in DOMAIN queue
    /\ \A j \in DOMAIN queue : queue[j].prio <= queue[i].prio
    /\ \A j \in 1..(i - 1) : queue[j].prio < queue[i].prio

Without(i) == [j \in 1..(Len(queue) - 1) |-> IF j < i THEN queue[j] ELSE queue[j + 1]]

Take(t) ==
    \E i \in DOMAIN queue :
        /\ taken[t] = NoMsg /\ OldestOfHighest(i)
        /\ taken' = [taken EXCEPT ![t] = queue[i]]
        /\ queue' = Without(i)

Return(t) == taken' = [taken EXCEPT ![t] = NoMsg] /\ UNCHANGED queue

\* The queue is closed with the messages that are left in it.
Close == queue' = <<>> /\ UNCHANGED taken

Next ==
    \/ \E m \in Message : Put(m)
    \/ \E t \in Task : Take(t) \/ Return(t)
    \/ Close

Spec == Init /\ [][Next]_vars
=============================================================================
