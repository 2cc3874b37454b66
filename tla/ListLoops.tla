----------------------------- MODULE ListLoops -----------------------------
(***************************************************************************)
(* The two loops of the scheduler that walk task lists with a pointer, one *)
(* iteration per call: the merge of nxsched_merge_pending and the do-while *)
(* of nxsched_running_setpriority that moves tasks aside.  Module Sched    *)
(* uses what they compute in closed form; here the loops run, in every     *)
(* reachable state of the scheduler.                                       *)
(***************************************************************************)
EXTENDS Sched

\* A loop's state: both lists, and the position of rtcb in the ready-to-run list
Loop == [r |-> sched.readytorun, p |-> sched.pending, at |-> 1]

\* The ptcb goes just before rtcb, and the search goes on from ptcb.
Insert(s) ==
    [s EXCEPT !.r = SubSeq(@, 1, s.at - 1) \o <<s.p[1]>> \o SubSeq(@, s.at, Len(@)),
              !.p = Tail(@)]

\* Mutant: the search stops in front of the tasks of the same priority.
MergeStep_strict(s) ==
    IF sched.prio[s.p[1]] < sched.prio[s.r[s.at]]
    THEN [s EXCEPT !.at = @ + 1] ELSE Insert(s)

\* for (; rtcb && ptcb->sched_priority <= rtcb->sched_priority; rtcb = flink)
MergeStep(s) ==
    IF sched.prio[s.p[1]] <= sched.prio[s.r[s.at]]
    THEN [s EXCEPT !.at = @ + 1] ELSE Insert(s)

\* The loop ends when the pending list is empty, or when it runs off the
\* ready-to-run list: DEBUGASSERT(rtcb).
RECURSIVE MergeLoop(_)
MergeLoop(s) ==
    IF s.p = <<>> \/ s.at > Len(s.r) THEN s ELSE MergeLoop(MergeStep(s))

\* One iteration of the do-while: nxttcb to the pending list
MoveAside(s) ==
    [s EXCEPT !.r = dq_rem(@, s.r[2]),
              !.p = nxsched_add_prioritized(@, sched.prio, s.r[2])]

\* while (sched_priority < nxttcb->sched_priority)
AsideAgain(s, newprio) == newprio < sched.prio[s.r[2]]

RECURSIVE AsideLoop(_, _)
AsideLoop(s, newprio) ==
    LET m == MoveAside(s)
    IN  IF AsideAgain(m, newprio) THEN AsideLoop(m, newprio) ELSE m

-----------------------------------------------------------------------------
MergeLoopIsMerge ==
    LET end == MergeLoop(Loop)
    IN  /\ end.p = <<>>
        /\ end.r = Merge(sched.pending, sched.readytorun, sched.prio)

AsideLoopIsMovedAside ==
    LET r == sched.readytorun
    IN  \A newprio \in Prio : Len(r) > 1 /\ newprio <= sched.prio[r[2]] =>
            LET n   == MovedAside(r, sched.prio, newprio)
                end == AsideLoop(Loop, newprio)
            IN  /\ end.p = Merge(SubSeq(r, 2, n + 1), sched.pending, sched.prio)
                /\ end.r = <<r[1]>> \o SubSeq(r, n + 2, Len(r))
                /\ Idle \in Members(end.r)

\* Whatever tasks of whatever priorities are ready and pending, the loops of
\* nxsched_merge_pending and nxsched_running_setpriority compute the closed
\* forms that Sched uses, and neither runs off the ready-to-run list: the idle
\* task stops the search of the merge (DEBUGASSERT(rtcb)) and stays where it is
\* when tasks are moved aside, to whatever priority the running task drops.
LoopsMatchClosedForms == MergeLoopIsMerge /\ AsideLoopIsMovedAside
=============================================================================
