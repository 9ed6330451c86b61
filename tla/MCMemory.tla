------------------------------ MODULE MCMemory ------------------------------
(***************************************************************************)
(* The MicroPython heap for model checking: allocation by two cores, with  *)
(* collections that free any set of objects not in use, and by itself the  *)
(* collection that finds this set.  `part' is the one that runs.           *)
(***************************************************************************)
EXTENDS Gc

VARIABLE part

memoryVars == <<part, gcVars, markVars>>

\* A collection that does not run has an empty heap before it.
Init == /\ part \in {"alloc", "mark"}
        /\ GcInit /\ MarkInit
        /\ part = "alloc" => \A b \in Cells : before[b] = "FREE"

Next == \/ part = "alloc" /\ GcNext /\ UNCHANGED <<part, markVars>>
        \/ part = "mark" /\ MarkNext /\ UNCHANGED <<part, gcVars>>

\* The thread that collects runs on; a program need not allocate.
Spec == /\ Init /\ [][Next]_memoryVars
        /\ WF_markVars(part = "mark" /\ MarkNext)

\* The rescans come to an end, each of them for an overflow that marked an
\* object for the first time (gc_deal_with_stack_overflow).
CollectionEnds == part = "mark" ~> at = "done"

\* A collection keeps exactly what can be reached, however often its stack
\* overflows, and it ends (gc.c:394-670).
CollectionIsExact ==
    [](KeepsExactlyTheLive /\ SweptToTheEnd) /\ CollectionEnds
=============================================================================
