------------------------------ MODULE TaskQueue -----------------------------
(***************************************************************************)
(* What asyncio's TaskQueue promises: a queue of tasks in the order of     *)
(* their times, and of two tasks with the same time the one that was       *)
(* pushed first comes first.                                               *)
(***************************************************************************)
EXTENDS Integers, SequencesExt

CONSTANTS Nodes, MaxTime

VARIABLES order,   \* the queue, its first task first
          due      \* the time each task was last pushed with

Queued == Range(order)

\* Behind every task that is due at the same time or earlier.
Place(q, d, time) == 1 + Cardinality({i \in DOMAIN q : d[q[i]] <= time})

Init == order = <<>> /\ due = [n \in Nodes |-> 0]

Push(n, time) ==
    /\ n \notin Queued
    /\ order' = InsertAt(order, Place(order, due, time), n)
    /\ due' = [due EXCEPT ![n] = time]

Pop == order # <<>> /\ order' = Tail(order) /\ UNCHANGED due

RemoveTask(n) ==
    /\ n \in Queued
    /\ order' = SelectSeq(order, LAMBDA m : m # n)
    /\ UNCHANGED due

Next == \/ \E n \in Nodes, time \in 0 .. MaxTime : Push(n, time)
        \/ Pop
        \/ \E n \in Nodes : RemoveTask(n)

Spec == Init /\ [][Next]_<<order, due>>
=============================================================================
