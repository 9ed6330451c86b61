------------------------------- MODULE Pendsv -------------------------------
(***************************************************************************)
(* The background work of the firmware (ports/rp2/pendsv.c): interrupts    *)
(* put a function into a slot and ask for the PendSV exception, whose      *)
(* handler runs the functions of all slots.  The Wi-Fi driver, lwIP and    *)
(* the soft timers run there.  Code of either core may keep the handler    *)
(* away between pendsv_suspend and pendsv_resume: both take pendsv_mutex,  *)
(* which is recursive and belongs to a core.                               *)
(*                                                                         *)
(* A core has three levels: an interrupt runs before the handler, and both *)
(* run before the thread.  The interrupts that fill slots are those of     *)
(* core 0.  Reading or writing a word, and an operation of the mutex, are  *)
(* one step each.                                                          *)
(***************************************************************************)
EXTENDS Integers, FiniteSets, RecursiveMutex

CONSTANTS NSlots,        \* PENDSV_DISPATCH_NUM_SLOTS
          MaxIrqs,       \* bound: how many interrupts fill a slot
          MaxSuspends    \* bound: how often each core suspends

ASSUME PendsvAssumption ==
    NSlots \in Nat \ {0} /\ MaxIrqs \in Nat /\ MaxSuspends \in Nat

Slots == 0 .. NSlots - 1

VARIABLES table,     \* pendsv_dispatch_table: the slots that are filled
          pendsv_mutex,
          pend,      \* PENDSVSET of a core
          handler,   \* the handler of a core: -1 or the next slot
          irq_slot,  \* the interrupt on core 0: -1 or the slot it filled
          doing,     \* where the thread of a core is
          at,        \* the slot it looks at in pendsv_resume
          unserved,  \* slots that were filled and not yet served since
          nested,    \* an interrupt has come while a handler ran
          irqs, suspends

thread == <<doing, at>>
bounds == <<irqs, suspends>>
pendsvVars == <<table, pendsv_mutex, pend, handler, irq_slot, thread,
                unserved, nested, bounds>>

PendsvInit == /\ table = {} /\ pendsv_mutex = Unowned
              /\ pend = [c \in Cores |-> FALSE]
              /\ handler = [c \in Cores |-> -1] /\ irq_slot = -1
              /\ doing = [c \in Cores |-> "out"]
              /\ at = [c \in Cores |-> 0]
              /\ unserved = {} /\ nested = FALSE
              /\ irqs = 0 /\ suspends = [c \in Cores |-> 0]
-----------------------------------------------------------------------------
Enter(c) == /\ MayEnter(pendsv_mutex, c)
            /\ pendsv_mutex' = Entered(pendsv_mutex, c)
Exit == pendsv_mutex' = Exited(pendsv_mutex)

\* The second half of pendsv_schedule_dispatch, on core c.
Trigger(c) == pend' = [pend EXCEPT ![c] = @ \/ pendsv_mutex.count = 0]

\* An interrupt on core 0 fills a slot, then looks at the mutex.
Irq(s) ==
    /\ irq_slot = -1 /\ irqs < MaxIrqs
    /\ table' = table \cup {s} /\ unserved' = unserved \cup {s}
    /\ irq_slot' = s /\ irqs' = irqs + 1
    /\ nested' = (nested \/ \E c \in Cores : handler[c] # -1)
    /\ UNCHANGED <<pendsv_mutex, pend, handler, thread, suspends>>

IrqTriggers ==
    /\ irq_slot # -1
    /\ Trigger(0)
    /\ irq_slot' = -1
    /\ UNCHANGED <<table, unserved, pendsv_mutex, handler, thread, bounds,
                   nested>>

\* What the levels above leave to a core's handler and to its thread.
HandlerRuns(c) == handler[c] # -1 /\ ~(c = 0 /\ irq_slot # -1)
ThreadRuns(c) == handler[c] = -1 /\ ~pend[c] /\ ~(c = 0 /\ irq_slot # -1)

\* PendSV_Handler starts; it returns if the other core has the mutex.
HandlerStarts(c) ==
    /\ pend[c] /\ handler[c] = -1 /\ ~(c = 0 /\ irq_slot # -1)
    /\ doing[c] # "dead"
    /\ pend' = [pend EXCEPT ![c] = FALSE]
    /\ IF pendsv_mutex.owner = 1 - c THEN UNCHANGED <<pendsv_mutex, handler>>
       ELSE Enter(c) /\ handler' = [handler EXCEPT ![c] = 0]
    /\ UNCHANGED <<table, unserved, irq_slot, thread, bounds, nested>>

\* The handler takes the function of a slot, if there is one, and runs it.
HandlerSlot(c) ==
    /\ HandlerRuns(c) /\ handler[c] < NSlots
    /\ table' = table \ {handler[c]} /\ unserved' = unserved \ {handler[c]}
    /\ handler' = [handler EXCEPT ![c] = @ + 1]
    /\ UNCHANGED <<pendsv_mutex, pend, irq_slot, thread, bounds, nested>>

HandlerEnds(c) ==
    /\ HandlerRuns(c) /\ handler[c] = NSlots
    /\ Exit
    /\ handler' = [handler EXCEPT ![c] = -1]
    /\ UNCHANGED <<table, unserved, pend, irq_slot, thread, bounds, nested>>
-----------------------------------------------------------------------------
\* pendsv_suspend spins until the mutex is free.
Suspend(c) ==
    /\ ThreadRuns(c) /\ doing[c] = "out" /\ suspends[c] < MaxSuspends
    /\ doing' = [doing EXCEPT ![c] = "enter"]
    /\ suspends' = [suspends EXCEPT ![c] = @ + 1]
    /\ UNCHANGED <<table, unserved, pendsv_mutex, pend, handler, irq_slot, at,
                   irqs, nested>>

Suspended(c) ==
    /\ ThreadRuns(c) /\ doing[c] = "enter"
    /\ Enter(c)
    /\ doing' = [doing EXCEPT ![c] = "in"]
    /\ UNCHANGED <<table, unserved, pend, handler, irq_slot, at, bounds,
                   nested>>

\* Mutant of PendsvResume: the slots are not looked at.
PendsvResumeSilent(c) ==
    /\ ThreadRuns(c) /\ doing[c] = "in"
    /\ Exit
    /\ doing' = [doing EXCEPT ![c] = "out"]
    /\ UNCHANGED <<table, unserved, pend, handler, irq_slot, at, bounds,
                   nested>>

\* pendsv_resume: leave the mutex, look for a filled slot from the last one
\* down, and fill it again as pendsv_schedule_dispatch does.
PendsvResume(c) ==
    /\ ThreadRuns(c) /\ doing[c] = "in"
    /\ Exit
    /\ doing' = [doing EXCEPT ![c] = "scan"]
    /\ at' = [at EXCEPT ![c] = NSlots - 1]
    /\ UNCHANGED <<table, unserved, pend, handler, irq_slot, bounds, nested>>

Scan(c) ==
    /\ ThreadRuns(c) /\ doing[c] = "scan"
    /\ \/ /\ at[c] \in table
          /\ doing' = [doing EXCEPT ![c] = "refill"] /\ UNCHANGED at
       \/ /\ at[c] \notin table /\ at[c] > 0
          /\ at' = [at EXCEPT ![c] = @ - 1] /\ UNCHANGED doing
       \/ /\ at[c] \notin table /\ at[c] = 0
          /\ doing' = [doing EXCEPT ![c] = "out"] /\ UNCHANGED at
    /\ UNCHANGED <<table, unserved, pendsv_mutex, pend, handler, irq_slot,
                   bounds, nested>>

Refill(c) ==
    /\ ThreadRuns(c) /\ doing[c] = "refill"
    /\ table' = table \cup {at[c]}
    /\ doing' = [doing EXCEPT ![c] = "trigger"]
    /\ at' = [at EXCEPT ![c] = 0]
    /\ UNCHANGED <<unserved, pendsv_mutex, pend, handler, irq_slot, bounds,
                   nested>>

ResumeTriggers(c) ==
    /\ ThreadRuns(c) /\ doing[c] = "trigger"
    /\ Trigger(c)
    /\ doing' = [doing EXCEPT ![c] = "out"]
    /\ UNCHANGED <<table, unserved, pendsv_mutex, handler, irq_slot, at,
                   bounds, nested>>

\* mp_thread_deinit on core 0, at a soft reset: core 1 stops where it is.
StopCore1 ==
    /\ ThreadRuns(0) /\ doing[0] = "out" /\ doing[1] # "dead"
    /\ doing' = [doing EXCEPT ![1] = "dead"]
    /\ handler' = [handler EXCEPT ![1] = -1]
    /\ pend' = [pend EXCEPT ![1] = FALSE]
    /\ UNCHANGED <<table, unserved, pendsv_mutex, irq_slot, at, bounds,
                   nested>>

\* Both threads do other things, or spin.
Quiet == /\ \A c \in Cores : doing[c] \in {"out", "enter", "dead"}
         /\ UNCHANGED pendsvVars

Interrupts == \E s \in Slots : Irq(s)
Handlers(c) == HandlerStarts(c) \/ HandlerSlot(c) \/ HandlerEnds(c)
Threads(c) == \/ Suspended(c) \/ PendsvResume(c) \/ Scan(c) \/ Refill(c)
              \/ ResumeTriggers(c)
Suspends == \E c \in Cores : Suspend(c)
HandlerSteps == \E c \in Cores : Handlers(c)
ThreadSteps == \E c \in Cores : Threads(c)

PendsvNext == \/ Interrupts \/ IrqTriggers \/ HandlerSteps \/ Suspends
              \/ ThreadSteps \/ StopCore1 \/ Quiet

(***************************************************************************)
(* A core goes on with what it is doing; it need not suspend again.  The   *)
(* mutex is a spin lock and no queue: weak fairness is all a core that     *)
(* spins has, and it gets the mutex once the other core, whose suspends    *)
(* are bounded here, leaves it alone.                                      *)
(***************************************************************************)
PendsvSpec == /\ PendsvInit /\ [][PendsvNext]_pendsvVars
              /\ WF_pendsvVars(IrqTriggers)
              /\ \A c \in Cores : /\ WF_pendsvVars(Handlers(c))
                                  /\ WF_pendsvVars(Threads(c))
-----------------------------------------------------------------------------
\* The assertion of PendSV_Handler ("This core should not already have
\* locked pendsv_mutex", pendsv.c:163), and what pendsv_suspend promises: no
\* handler works on the driver while a thread of either core has suspended
\* it, and no two handlers do.
HandlerIsAlone ==
    \A c \in Cores : handler[c] # -1 =>
        /\ pendsv_mutex.owner = c /\ pendsv_mutex.count = 1
        /\ handler[1 - c] = -1
        /\ \A d \in Cores : doing[d] # "in"

\* "There is a race here where other core calls pendsv_suspend() before ISR
\* can execute so this check fails, but dispatch will happen later when
\* other core calls pendsv_resume()." (pendsv.c:130-132): every slot that an
\* interrupt fills is served.  A core that is stopped does not resume, and
\* when an interrupt has filled a slot that a running handler has passed,
\* nobody resumes: then the slot waits for the next interrupt.
DispatchHappens ==
    \A s \in Slots :
        s \in unserved ~> s \notin unserved \/ nested \/ doing[1] = "dead"

\* A thread that suspends the handler gets to do so, unless core 1 was
\* stopped while it had the mutex.
SuspendReturns ==
    \A c \in Cores : doing[c] = "enter" ~>
        \/ doing[c] \in {"in", "dead"}
        \/ doing[1] = "dead" /\ pendsv_mutex.owner = 1

\* Background work is done, alone, and those who keep it away get their turn
\* (pendsv.c:61-184).
SlotsAreDispatched ==
    []HandlerIsAlone /\ DispatchHappens /\ SuspendReturns
=============================================================================
