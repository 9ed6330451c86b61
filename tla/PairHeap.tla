------------------------------ MODULE PairHeap ------------------------------
(***************************************************************************)
(* The pairing heap of py/pairheap.c with the nodes and the comparison of  *)
(* extmod/modasyncio.c: the C implementation of asyncio's TaskQueue.       *)
(*                                                                         *)
(* A heap is a graph of pointers: child is a node's first child, child_last*)
(* its last one, and next is either a sibling or, in the last child, the   *)
(* parent with its lowest bit set.  The operators below take and return    *)
(* the memory m, a record of these fields, and [m |-> ..., top |-> ...]    *)
(* where the C function returns a heap.                                    *)
(*                                                                         *)
(* The keys are ticks, which wrap.  `due' is the time a key stands for.    *)
(***************************************************************************)
EXTENDS Integers, SequencesExt

CONSTANTS Nodes, NULL,
          Period,     \* MICROPY_PY_TIME_TICKS_PERIOD
          MaxAhead,   \* bound: how far in the future a task is pushed
          MaxLate,    \* bound: how late a task may be popped
          StartTime,  \* the time when the queue is made
          MaxTime     \* bound: the last time

ASSUME HeapAssumption ==
    /\ NULL \notin Nodes
    /\ Period \in Nat /\ MaxAhead \in Nat /\ MaxLate \in Nat
    /\ MaxTime \in Nat /\ StartTime \in 0 .. MaxTime
    /\ MaxAhead + MaxLate < Period \div 2

VARIABLES mem,     \* child, child_last, next and key of every node
          heap,    \* self->heap of the queue
          clock,   \* the time, without wrapping
          due      \* the time each task was pushed with

heapVars == <<mem, heap, clock, due>>

Nil == [kind |-> "null", node |-> NULL]
Sibling(n) == IF n = NULL THEN Nil ELSE [kind |-> "sibling", node |-> n]
RightmostParent(n) == [kind |-> "parent", node |-> n]
IsRightmost(link) == link.kind = "parent"

\* The element of a set of one.  TLC evaluates the bound x in
\* The({f(x) : x \in {e}}) once, however often f uses it.
The(S) == CHOOSE x \in S : TRUE
-----------------------------------------------------------------------------
\* ticks_diff
TicksDiff(t1, t0) ==
    ((t1 - t0 + Period \div 2) % Period) - Period \div 2

\* Mutant of TaskLt: the raw ticks are compared.
TaskLtRaw(m, a, b) == m.key[a] < m.key[b]

TaskLt(m, a, b) == TicksDiff(m.key[a], m.key[b]) < 0

\* mp_pairheap_meld: the greater heap becomes a child of the other one, the
\* last child if it is the second, the first one if it is the first.
Meld(m, a, b) ==
    CASE a = NULL -> [m |-> m, top |-> b]
      [] b = NULL -> [m |-> m, top |-> a]
      [] TaskLt(m, a, b) ->
           [m |-> [m EXCEPT
                     !.child[a] = IF @ = NULL THEN b ELSE @,
                     !.next = IF m.child[a] = NULL
                              THEN [@ EXCEPT ![b] = RightmostParent(a)]
                              ELSE [@ EXCEPT ![m.child_last[a]] = Sibling(b),
                                             ![b] = RightmostParent(a)],
                     !.child_last[a] = b],
            top |-> a]
      [] OTHER ->
           [m |-> [m EXCEPT
                     !.next[a] = IF m.child[b] = NULL
                                 THEN RightmostParent(b)
                                 ELSE Sibling(m.child[b]),
                     !.child[b] = a,
                     !.child_last[b] = IF m.child[b] = NULL THEN a ELSE @],
            top |-> b]

\* The nodes from c to the last of its siblings.
Siblings(m, c) ==
    LET chain[n \in Nodes] ==
            IF m.next[n].kind = "sibling"
            THEN <<n>> \o chain[m.next[n].node] ELSE <<n>>
    IN  IF c = NULL THEN <<>> ELSE chain[c]

\* The memory with the links of s[i] and s[i + 1] cleared.
Cut(m, s, i) ==
    [m EXCEPT !.next = [n \in Nodes |->
        IF \E j \in {i, i + 1} \cap DOMAIN s : s[j] = n THEN Nil ELSE @[n]]]

\* Two siblings, or the one left over, melded and then melded to the heap.
PairStep(r, s, i) ==
    LET pair == The({IF i + 1 \in DOMAIN s THEN Meld(cut, s[i], s[i + 1])
                     ELSE [m |-> cut, top |-> s[i]] :
                        cut \in {Cut(r.m, s, i)}})
    IN  The({Meld(p.m, r.top, p.top) : p \in {pair}})

\* mp_pairheap_pairing of the siblings s.
PairAll(m, s) ==
    LET melded[i \in Nat] ==
            IF i = 0 THEN [m |-> m, top |-> NULL]
            ELSE The({PairStep(r, s, 2 * i - 1) : r \in {melded[i - 1]}})
    IN  The({[all EXCEPT !.m.next[all.top] = Nil] :
                 all \in {melded[(Len(s) + 1) \div 2]}})

\* mp_pairheap_pairing: meld the siblings that begin with c in pairs.
Pairing(m, c) ==
    IF c = NULL THEN [m |-> m, top |-> NULL]
    ELSE The({PairAll(m, s) : s \in {Siblings(m, c)}})

\* The first node's parent: the link of its last sibling.
ParentOf(m, n) == m.next[Last(Siblings(m, n))].node

(***************************************************************************)
(* mp_pairheap_delete of a node below the top: it is replaced by p, the    *)
(* pairing of its children, at its place among its siblings.               *)
(***************************************************************************)
Replace(m, n, p) ==
    LET parent == ParentOf(m, n)
        first == n = m.child[parent]
        before == CHOOSE b \in Nodes : m.next[b] = Sibling(n)
        put == IF p.top = NULL THEN before ELSE p.top
        linked == IF first \/ p.top = NULL THEN p.m.next
                  ELSE [p.m.next EXCEPT ![before] = Sibling(put)]
    IN  [p.m EXCEPT !.child[parent] = IF first THEN put ELSE @,
                    !.next = [linked EXCEPT ![put] = m.next[n]],
                    !.child_last[parent] = IF IsRightmost(m.next[n])
                                           THEN put ELSE @]

DeleteInner(m, n) ==
    LET parent == ParentOf(m, n)
        freed == [m EXCEPT !.child[n] = NULL, !.next[n] = Nil]
    IN  IF n = m.child[parent] /\ m.child[n] = NULL
        THEN [freed EXCEPT !.child[parent] =
                 IF IsRightmost(m.next[n]) THEN NULL ELSE m.next[n].node]
        ELSE The({Replace(m, n, p) : p \in {Pairing(freed, m.child[n])}})

\* mp_pairheap_pop
PopTop(m, top) == Pairing([m EXCEPT !.child[top] = NULL], m.child[top])

\* mp_pairheap_delete
Delete(m, top, n) ==
    CASE n = top -> PopTop(m, top)
      [] n # top /\ m.next[n] = Nil -> [m |-> m, top |-> top]
      [] OTHER -> [m |-> DeleteInner(m, n), top |-> top]
-----------------------------------------------------------------------------
\* Every node below n, n included.
Below(m, top) ==
    LET tree[n \in Nodes] ==
            {n} \cup UNION {tree[c] : c \in
                               Range(Siblings(m, m.child[n]))}
    IN  IF top = NULL THEN {} ELSE tree[top]

InHeap == Below(mem, heap)

HeapInit == /\ mem = [child |-> [n \in Nodes |-> NULL],
                      child_last |-> [n \in Nodes |-> NULL],
                      next |-> [n \in Nodes |-> Nil],
                      key |-> [n \in Nodes |-> 0]]
            /\ heap = NULL
            /\ clock = StartTime
            /\ due = [n \in Nodes |-> 0]

\* task_queue_push of a task that is on no queue.
Push(n, time) ==
    /\ n \notin InHeap
    /\ time \in clock .. clock + MaxAhead
    /\ time <= MaxTime
    /\ \E r \in {Meld([mem EXCEPT !.key[n] = time % Period], n, heap)} :
           mem' = r.m /\ heap' = r.top
    /\ due' = [due EXCEPT ![n] = time]
    /\ UNCHANGED clock

PushAny == \E n \in Nodes, time \in clock .. clock + MaxAhead : Push(n, time)

\* task_queue_pop
Pop ==
    /\ heap # NULL
    /\ \E r \in {PopTop(mem, heap)} : mem' = r.m /\ heap' = r.top
    /\ UNCHANGED <<clock, due>>

\* task_queue_remove, also of a task that is on no queue.
RemoveTask(n) ==
    /\ heap # NULL
    /\ \E r \in {Delete(mem, heap, n)} : mem' = r.m /\ heap' = r.top
    /\ UNCHANGED <<clock, due>>

RemoveAny == \E n \in Nodes : RemoveTask(n)

\* Time goes by, as long as no task would wait too long.
Tick ==
    /\ clock < MaxTime
    /\ \A n \in InHeap : clock + 1 - due[n] <= MaxLate
    /\ clock' = clock + 1
    /\ UNCHANGED <<mem, heap, due>>

HeapNext == PushAny \/ Pop \/ RemoveAny \/ Tick

HeapSpec == HeapInit /\ [][HeapNext]_heapVars
-----------------------------------------------------------------------------
\* The pointers form a tree in which every last child, and only a last
\* child, points back to its parent, and child_last is that child
\* (pairheap.c:29-35); a node that is not in the heap is ready for
\* the assertion of mp_pairheap_push (pairheap.h:93).
HeapWellFormed ==
    /\ heap # NULL => mem.next[heap] = Nil
    /\ \A n \in InHeap : mem.child[n] # NULL =>
           LET s == Siblings(mem, mem.child[n])
           IN  /\ mem.next[Last(s)] = RightmostParent(n)
               /\ mem.child_last[n] = Last(s)
               /\ \A i \in 1 .. Len(s) - 1 : mem.next[s[i]] = Sibling(s[i+1])
    /\ \A n \in Nodes \ InHeap : mem.child[n] = NULL /\ mem.next[n] = Nil

\* Popping the heap until it is empty gives the tasks in this order.
Drained ==
    LET pop(r) == IF r.top = NULL THEN r
                  ELSE The({[m |-> p.m, top |-> p.top,
                             out |-> Append(r.out, r.top)] :
                                p \in {PopTop(r.m, r.top)}})
        popped[i \in Nat] ==
            IF i = 0 THEN [m |-> mem, top |-> heap, out |-> <<>>]
            ELSE The({pop(r) : r \in {popped[i - 1]}})
    IN  popped[Cardinality(Nodes)].out

Queue == INSTANCE TaskQueue WITH order <- Drained

\* "amortised O(log N), stable" (pairheap.c:66, 89): with pushes, pops and
\* removals in any order, and with the ticks wrapping, the heap is a queue
\* in the order of time, first come first served among equals.
HeapIsStableQueue == Queue!Spec

\* The links of the heap stay whole through every meld, pairing and deletion
\* (pairheap.c:34-147), and what it hands out is what a queue ordered by time
\* would, first come first served among equals.
HeapImplementsQueue == []HeapWellFormed /\ HeapIsStableQueue
=============================================================================
