------------------------------ MODULE MCRuntime ------------------------------
(***************************************************************************)
(* What runs the programs: the loop of asyncio with tasks that do anything *)
(* a task may do, the scheduler of callbacks, the dispatch of background   *)
(* work, and the atomic sections of the two cores.  Each is checked by     *)
(* itself; `layer' is the one that runs.                                   *)
(***************************************************************************)
EXTENDS AsyncioLoop, Scheduler, Pendsv, AtomicSection

VARIABLE layer

runtimeVars == <<layer, loopVars, schedVars, pendsvVars, atomicVars>>

Init == /\ layer \in {"loop", "sched", "pendsv", "atomic"}
        /\ LoopInit /\ SchedInit /\ PendsvInit /\ AtomicInit

Next ==
    \/ /\ layer = "loop" /\ LoopNext
       /\ UNCHANGED <<layer, schedVars, pendsvVars, atomicVars>>
    \/ /\ layer = "sched" /\ SchedNext
       /\ UNCHANGED <<layer, loopVars, pendsvVars, atomicVars>>
    \/ /\ layer = "pendsv" /\ PendsvNext
       /\ UNCHANGED <<layer, loopVars, schedVars, atomicVars>>
    \/ /\ layer = "atomic" /\ AtomicNext
       /\ UNCHANGED <<layer, loopVars, schedVars, pendsvVars>>

\* The fairness of LoopFairSpec, SchedSpec, PendsvSpec and AtomicSpec, each
\* where its layer runs.
Loops(A) == layer = "loop" /\ A
Schedules(A) == layer = "sched" /\ A
Dispatches(A) == layer = "pendsv" /\ A
Excludes(A) == layer = "atomic" /\ A

Fairness ==
    /\ WF_loopVars(Loops(Resume)) /\ WF_loopVars(Loops(ResumeEnded))
    /\ WF_loopVars(Loops(Tick))
    /\ \A t \in Tasks : /\ WF_loopVars(Loops(IoReady(t)))
                        /\ SF_loopVars(Loops(cur = t /\ Finishes))
    /\ WF_schedVars(Schedules(TakeException))
    /\ WF_schedVars(Schedules(SeePending))
    /\ WF_schedVars(Schedules(RunPending))
    /\ WF_schedVars(Schedules(NodeReturns))
    /\ WF_schedVars(Schedules(CallReturns))
    /\ WF_schedVars(Schedules(RunEnds))
    /\ WF_schedVars(Schedules(IrqReturns))
    /\ WF_schedVars(Schedules(FinaliserEnds))
    /\ WF_pendsvVars(Dispatches(IrqTriggers))
    /\ \A c \in Cores : /\ WF_pendsvVars(Dispatches(Handlers(c)))
                        /\ WF_pendsvVars(Dispatches(Threads(c)))
                        /\ WF_atomicVars(Excludes(BeginEnters(c)))
                        /\ WF_atomicVars(Excludes(End(c)))

Spec == Init /\ [][Next]_runtimeVars /\ Fairness
=============================================================================
