----------------------------- MODULE Scheduler ------------------------------
(***************************************************************************)
(* The scheduler of MicroPython (py/scheduler.c): interrupts and the       *)
(* second core put calls into a ring of Python callbacks or a linked list  *)
(* of nodes with C callbacks, and the main thread runs them between two    *)
(* byte codes.  sched_state is IDLE, PENDING, or minus the number of locks *)
(* that are held: by the main thread while it runs a callback, by a hard   *)
(* interrupt, and by core 1 in a finaliser.                                *)
(*                                                                         *)
(* An atomic section is one step.  Calls are numbered, so that their order *)
(* can be seen.                                                            *)
(***************************************************************************)
EXTENDS Integers, SequencesExt

CONSTANTS Depth,     \* MICROPY_SCHEDULER_DEPTH, a power of two
          Nodes,     \* the static nodes, mp_sched_node_t
          NoNode,    \* NULL
          MaxCalls,  \* bound: Python callbacks that are scheduled
          MaxNodes,  \* bound: how often a node is scheduled
          MaxLocks   \* bound: hard interrupts and finalisers

ASSUME SchedulerAssumption ==
    /\ Depth \in Nat \ {0} /\ NoNode \notin Nodes
    /\ MaxCalls \in Nat /\ MaxNodes \in Nat /\ MaxLocks \in Nat

IDLE == 1
PENDING == 0

VARIABLES state,                       \* sched_state
          sched_queue, sched_idx, sched_len,
          head, tail, next, callback,  \* the list and its nodes
          exc,                         \* mp_pending_exception is set
          main,                        \* where the main thread is
          item,                        \* the call it has taken
          irq, core1,                  \* these hold a lock
          ghost                        \* calls: how many were scheduled,
                                       \* due: those in the queue, in order;
                                       \* nodes and locks: see the bounds
ring == <<sched_queue, sched_idx, sched_len>>
list == <<head, tail, next, callback>>
schedVars == <<state, ring, list, exc, main, item, irq, core1, ghost>>
-----------------------------------------------------------------------------
SchedInit == /\ state = IDLE
             /\ sched_queue = [i \in 0 .. Depth - 1 |-> 0]
             /\ sched_idx = 0 /\ sched_len = 0
             /\ head = NoNode /\ tail = NoNode
             /\ next = [n \in Nodes |-> NoNode]
             /\ callback = [n \in Nodes |-> FALSE]
             /\ exc = FALSE /\ main = "vm" /\ item = 0
             /\ irq = FALSE /\ core1 = FALSE
             /\ ghost = [calls |-> 0, due |-> <<>>, nodes |-> 0, locks |-> 0]

Wake(s) == IF s = IDLE THEN PENDING ELSE s

\* mp_sched_lock
Lock(s) == IF s < 0 THEN s - 1 ELSE -1

\* Mutant of Unlock: the ring of calls is not looked at.
UnlockList(s) ==
    IF s + 1 # 0 THEN s + 1
    ELSE IF head # NoNode THEN PENDING ELSE IDLE

\* Mutant of Unlock: the list of nodes is not looked at.
UnlockRing(s) ==
    IF s + 1 # 0 THEN s + 1
    ELSE IF sched_len > 0 THEN PENDING ELSE IDLE

\* mp_sched_unlock
Unlock(s) ==
    IF s + 1 # 0 THEN s + 1
    ELSE IF head # NoNode \/ sched_len > 0 THEN PENDING ELSE IDLE

\* mp_sched_schedule; a full queue refuses the call.
Schedule ==
    /\ ghost.calls < MaxCalls
    /\ IF sched_len < Depth
       THEN /\ state' = Wake(state)
            /\ sched_queue' = [sched_queue EXCEPT
                  ![(sched_idx + sched_len) % Depth] = ghost.calls + 1]
            /\ sched_len' = sched_len + 1
            /\ ghost' = [ghost EXCEPT !.calls = @ + 1,
                            !.due = Append(@, ghost.calls + 1)]
       ELSE /\ ghost' = [ghost EXCEPT !.calls = @ + 1]
            /\ UNCHANGED <<state, sched_queue, sched_len>>
    /\ UNCHANGED <<sched_idx, list, exc, main, item, irq, core1>>

\* mp_sched_schedule_node of a node that is not scheduled already.
ScheduleNode(n) ==
    /\ ghost.nodes < MaxNodes /\ ~callback[n]
    /\ state' = Wake(state)
    /\ callback' = [callback EXCEPT ![n] = TRUE]
    /\ next' = IF tail = NoNode THEN [next EXCEPT ![n] = NoNode]
               ELSE [next EXCEPT ![n] = NoNode, ![tail] = n]
    /\ head' = IF tail = NoNode THEN n ELSE head
    /\ tail' = n
    /\ ghost' = [ghost EXCEPT !.nodes = @ + 1]
    /\ UNCHANGED <<ring, exc, main, item, irq, core1>>

\* mp_sched_exception, for example from the USB interrupt that sees Ctrl-C.
RaiseException ==
    /\ ~exc /\ exc' = TRUE
    /\ ghost.locks < MaxLocks
    /\ ghost' = [ghost EXCEPT !.locks = @ + 1]
    /\ UNCHANGED <<state, ring, list, main, item, irq, core1>>
-----------------------------------------------------------------------------
(***************************************************************************)
(* mp_handle_pending(true), called by the byte code loop and by waiting    *)
(* code.  A pending exception is raised first.  In a Python callback it    *)
(* ends the callback, for that is called protected.                        *)
(***************************************************************************)
TakeException ==
    /\ ~irq /\ main \in {"vm", "call"} /\ exc
    /\ exc' = FALSE
    /\ main' = IF main = "call" THEN "unlock" ELSE main
    /\ UNCHANGED <<state, ring, list, item, irq, core1, ghost>>

\* The state is read without an atomic section.
SeePending ==
    /\ ~irq /\ main = "vm" /\ ~exc /\ state = PENDING
    /\ main' = "enter"
    /\ UNCHANGED <<state, ring, list, exc, item, irq, core1, ghost>>

\* The next node, or at most one Python callback, or nothing.
TakeNext ==
    \/ /\ head # NoNode
       /\ head' = next[head]
       /\ tail' = IF head' = NoNode THEN NoNode ELSE tail
       /\ callback' = [callback EXCEPT ![head] = FALSE]
       /\ main' = "node"
       /\ UNCHANGED <<next, ring, item, ghost>>
    \/ /\ head = NoNode /\ sched_len > 0
       /\ item' = sched_queue[sched_idx]
       /\ sched_idx' = (sched_idx + 1) % Depth
       /\ sched_len' = sched_len - 1
       /\ main' = "call"
       /\ ghost' = [ghost EXCEPT !.due = Tail(@)]
       /\ UNCHANGED <<sched_queue, list>>
    \/ /\ head = NoNode /\ sched_len = 0
       /\ main' = "unlock"
       /\ UNCHANGED <<ring, list, item, ghost>>

\* mp_sched_run_pending up to its first call.
RunPending ==
    /\ ~irq /\ main = "enter"
    /\ IF state # PENDING
       THEN main' = "vm" /\ UNCHANGED <<state, ring, list, item, ghost>>
       ELSE state' = -1 /\ TakeNext
    /\ UNCHANGED <<exc, irq, core1>>

\* The callback of a node returns.
NodeReturns ==
    /\ ~irq /\ main = "node" /\ TakeNext
    /\ UNCHANGED <<state, exc, irq, core1>>

\* The Python callback returns.
CallReturns ==
    /\ ~irq /\ main = "call"
    /\ main' = "unlock"
    /\ UNCHANGED <<state, ring, list, exc, item, irq, core1, ghost>>

RunEnds ==
    /\ ~irq /\ main = "unlock"
    /\ state' = Unlock(state) /\ main' = "vm"
    /\ UNCHANGED <<ring, list, exc, item, irq, core1, ghost>>
-----------------------------------------------------------------------------
\* mp_irq_handler with a hard handler: it may schedule, and be left by an
\* exception, but it unlocks.
IrqEnters ==
    /\ ~irq /\ ghost.locks < MaxLocks
    /\ irq' = TRUE /\ state' = Lock(state)
    /\ ghost' = [ghost EXCEPT !.locks = @ + 1]
    /\ UNCHANGED <<ring, list, exc, main, item, core1>>

IrqReturns ==
    /\ irq /\ irq' = FALSE /\ state' = Unlock(state)
    /\ UNCHANGED <<ring, list, exc, main, item, core1, ghost>>

\* Core 1 runs a finaliser.
FinaliserStarts ==
    /\ ~core1 /\ ghost.locks < MaxLocks
    /\ core1' = TRUE /\ state' = Lock(state)
    /\ ghost' = [ghost EXCEPT !.locks = @ + 1]
    /\ UNCHANGED <<ring, list, exc, main, item, irq>>

FinaliserEnds ==
    /\ core1 /\ core1' = FALSE /\ state' = Unlock(state)
    /\ UNCHANGED <<ring, list, exc, main, item, irq, ghost>>

\* The byte code loop goes on.
Execute == main = "vm" /\ state # PENDING /\ UNCHANGED schedVars

ScheduleNodes == \E n \in Nodes : ScheduleNode(n)

SchedNext ==
    \/ Schedule \/ ScheduleNodes \/ RaiseException \/ TakeException
    \/ SeePending \/ RunPending \/ NodeReturns \/ CallReturns \/ RunEnds
    \/ IrqEnters \/ IrqReturns \/ FinaliserStarts \/ FinaliserEnds
    \/ Execute

(***************************************************************************)
(* The main thread comes to mp_handle_pending again and again, callbacks,  *)
(* interrupts and finalisers return.                                       *)
(***************************************************************************)
SchedFairness ==
    /\ WF_schedVars(TakeException) /\ WF_schedVars(SeePending)
    /\ WF_schedVars(RunPending) /\ WF_schedVars(NodeReturns)
    /\ WF_schedVars(CallReturns) /\ WF_schedVars(RunEnds)
    /\ WF_schedVars(IrqReturns) /\ WF_schedVars(FinaliserEnds)

SchedSpec == SchedInit /\ [][SchedNext]_schedVars /\ SchedFairness
-----------------------------------------------------------------------------
\* A lock is held exactly by those who took one.  So a callback never runs
\* while another one does (mp_handle_pending starts one only in the state
\* PENDING), nor inside a hard interrupt, whatever the others lock and
\* unlock in between.
LockedByHolders ==
    LET holders == (IF main \in {"node", "call", "unlock"} THEN 1 ELSE 0)
                   + (IF irq THEN 1 ELSE 0) + (IF core1 THEN 1 ELSE 0)
    IN  IF holders > 0 THEN state = -holders ELSE state \in {IDLE, PENDING}

\* The byte code loop looks at sched_state only.  An unlocked scheduler is
\* pending whenever something is queued: no wake-up is lost between the
\* interrupt that schedules and the unlock of somebody else.
NothingForgotten ==
    state >= 0 /\ (head # NoNode \/ sched_len > 0) => state = PENDING

\* The nodes that are linked from head are the scheduled ones, each once,
\* and tail is the last of them.
NodeListIsSound ==
    LET Linked(s) == /\ ToSet(s) = {n \in Nodes : callback[n]}
                     /\ s = <<>> => head = NoNode /\ tail = NoNode
                     /\ s # <<>> => /\ head = s[1] /\ tail = Last(s)
                                    /\ next[tail] = NoNode
                     /\ \A i \in 1 .. Len(s) - 1 : next[s[i]] = s[i + 1]
    IN  \E s \in SetToSeqs({n \in Nodes : callback[n]}) : Linked(s)

\* The ring holds the calls that are due, in the order of their scheduling,
\* also when it has wrapped around or refused a call.
RingIsFifo ==
    /\ sched_len = Len(ghost.due)
    /\ \A i \in 1 .. sched_len :
           sched_queue[(sched_idx + i - 1) % Depth] = ghost.due[i]

\* Every call that was accepted is made.
CallsAreMade ==
    \A i \in 1 .. MaxCalls :
        i \in ToSet(ghost.due) ~> i \notin ToSet(ghost.due)

\* The scheduler's books are exact (scheduler.c:34-249): the lock count has
\* its holders, a pending call leaves the state PENDING or locked, the list
\* of nodes is whole and the ring is first in, first out, up to its limit.
ScheduleIsKept ==
    LockedByHolders /\ NothingForgotten /\ NodeListIsSound /\ RingIsFifo
=============================================================================
