------------------------------ MODULE MCQueues ------------------------------
(***************************************************************************)
(* Three data structures of asyncio, each by itself: the pairing heap of   *)
(* the task queue, the map of the tasks that wait for a stream, and the    *)
(* output buffer of a stream.                                              *)
(*                                                                         *)
(* The heap's nodes are interchangeable: neither the heap nor the queue it *)
(* implements depends on which node is which, and the run has no liveness  *)
(* property, so that the symmetry is sound.                                *)
(***************************************************************************)
EXTENDS PairHeap, IOQueue, StreamOut, TLC

VARIABLE structure

queueVars == <<structure, heapVars, ioQueueVars, streamVars>>

Symmetry == Permutations(Nodes)

Init == /\ structure \in {"heap", "io", "stream"}
        /\ HeapInit /\ IOQueueInit /\ StreamInit

Next ==
    \/ /\ structure = "heap" /\ HeapNext
       /\ UNCHANGED <<structure, ioQueueVars, streamVars>>
    \/ /\ structure = "io" /\ IOQueueNext
       /\ UNCHANGED <<structure, heapVars, streamVars>>
    \/ /\ structure = "stream" /\ StreamNext
       /\ UNCHANGED <<structure, heapVars, ioQueueVars>>

Spec == Init /\ [][Next]_queueVars
=============================================================================
