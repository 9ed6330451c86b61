--------------------------------- MODULE Gc ----------------------------------
(***************************************************************************)
(* The MicroPython heap, py/gc.c, in two parts.                            *)
(*                                                                         *)
(* The first part is the heap as gc_alloc, gc_free and gc_realloc keep it, *)
(* used from both cores: the port has no global interpreter lock, so each  *)
(* of them holds the GC mutex only while it looks at the allocation table  *)
(* and lets go of it before it collects, before it sets the finaliser flag *)
(* and between the parts of a realloc that moves.  An action is one        *)
(* stretch under the mutex.  A collection is one such stretch; which       *)
(* objects it finds unreachable is any set that no call in progress holds: *)
(* gc_collect traces the stacks of both cores.  Calls made while           *)
(* gc_lock_depth is not zero return without a change and are left out.     *)
(*                                                                         *)
(* The second part is how a collection finds these objects: it is below,   *)
(* with a state of its own.                                                *)
(***************************************************************************)
EXTENDS Naturals, SequencesExt

CONSTANTS Threads,           \* the threads that allocate, one per core
          BLOCKS_PER_ATB,    \* blocks described by one byte of the table
          ByteLen,           \* gc_alloc_table_byte_len
          MaxBlocks          \* the largest request, in blocks

ASSUME GcAllocAssumption ==
    /\ BLOCKS_PER_ATB \in Nat \ {0} /\ ByteLen \in Nat \ {0}
    /\ MaxBlocks \in 1 .. BLOCKS_PER_ATB * ByteLen

NBlocks == BLOCKS_PER_ATB * ByteLen
Blocks == 0 .. NBlocks - 1
NULL == NBlocks

VARIABLES atb,         \* the kind of each block, and of the gap byte's first
          ftb,         \* the blocks with the finaliser flag
          gc_last_free_atb_index,
          gc_last_used_block,
          gc_auto_collect_enabled,
          pc,          \* what each thread is in the middle of
          obj          \* history: the objects that exist, by first block

indices == <<gc_last_free_atb_index, gc_last_used_block>>
gcVars == <<atb, ftb, indices, gc_auto_collect_enabled, pc, obj>>

Idle == [at |-> "idle", n |-> 0, fin |-> FALSE, new |-> NULL, old |-> NULL]

\* The heap after gc_init.
GcInit == /\ atb = [b \in 0 .. NBlocks |-> "FREE"] /\ ftb = {}
          /\ gc_last_free_atb_index = 0 /\ gc_last_used_block = 0
          /\ gc_auto_collect_enabled = TRUE
          /\ pc = [t \in Threads |-> Idle]
          /\ obj = [b \in {} |-> Idle]
-----------------------------------------------------------------------------
\* The blocks of the object at b, and its size: a head and the tails after.
Chain(b) ==
    {c \in b .. NBlocks : \A d \in b + 1 .. c : atb[d] = "TAIL"}

Size(b) == Cardinality(Chain(b))

\* The objects that a call in progress has a pointer to.
Held == UNION {{pc[t].new, pc[t].old} : t \in Threads}

\* Where a run of n free blocks ends, in the part of the table searched.
Runs(n, from) ==
    {i \in Blocks : /\ i + 1 >= from + n
                    /\ \A b \in i + 1 - n .. i : atb[b] = "FREE"}

With(f, b, v) == [c \in DOMAIN f \cup {b} |-> IF c = b THEN v ELSE f[c]]
Without(f, S) == [c \in DOMAIN f \ S |-> f[c]]
-----------------------------------------------------------------------------
\* gc_alloc has found a run of n blocks that ends at i.
Place(t, n, fin, old, i) ==
    /\ gc_last_free_atb_index' =
         IF n = 1 THEN (i + 1) \div BLOCKS_PER_ATB
                  ELSE gc_last_free_atb_index
    /\ gc_last_used_block' = Max({gc_last_used_block, i})
    /\ atb' = [b \in DOMAIN atb |->
                 IF b = i + 1 - n THEN "HEAD"
                 ELSE IF b \in i + 2 - n .. i THEN "TAIL" ELSE atb[b]]
    /\ obj' = With(obj, i + 1 - n, [n |-> n, fin |-> fin])
    /\ pc' = [pc EXCEPT ![t] =
                IF fin \/ old # NULL
                  THEN [at |-> IF fin THEN "flag" ELSE "move", n |-> n,
                        fin |-> fin, new |-> i + 1 - n, old |-> old]
                  ELSE Idle]
    /\ UNCHANGED ftb

\* The search of gc_alloc: the first run from the last-free byte on, or the
\* call goes on at the given place.
Search(t, n, fin, old, otherwise) ==
    LET runs == Runs(n, gc_last_free_atb_index * BLOCKS_PER_ATB) IN
    \/ runs # {} /\ Place(t, n, fin, old, Min(runs))
    \/ /\ runs = {}
       /\ pc' = [pc EXCEPT ![t] = [at |-> otherwise, n |-> n, fin |-> fin,
                                   new |-> NULL, old |-> old]]
       /\ UNCHANGED <<atb, ftb, indices, obj>>

\* Without success the first search ends in a collection, or in NULL after
\* gc.disable().
Otherwise == IF gc_auto_collect_enabled THEN "collect" ELSE "refused"

\* gc_alloc.
Alloc(t, n, fin) ==
    pc[t].at = "idle" /\ Search(t, n, fin, NULL, Otherwise)

\* The search after the collection; without success gc_alloc returns NULL.
AllocAgain(t) ==
    /\ pc[t].at = "again"
    /\ Search(t, pc[t].n, pc[t].fin, pc[t].old, "refused")

\* NULL reaches the caller: MemoryError, or gc_realloc returns NULL.
Refused(t) ==
    /\ pc[t].at = "refused"
    /\ pc' = [pc EXCEPT ![t] = Idle]
    /\ UNCHANGED <<atb, ftb, indices, obj>>

\* The second stretch of gc_alloc, for an object with a finaliser.
SetFlag(t) ==
    /\ pc[t].at = "flag"
    /\ ftb' = ftb \cup {pc[t].new}
    /\ pc' = [pc EXCEPT ![t] = IF @.old = NULL THEN Idle
                               ELSE [@ EXCEPT !.at = "move"]]
    /\ UNCHANGED <<atb, indices, obj>>
-----------------------------------------------------------------------------
\* gc_free.
Freed(b) ==
    /\ ftb' = ftb \ {b}
    /\ gc_last_free_atb_index' =
         Min({gc_last_free_atb_index, b \div BLOCKS_PER_ATB})
    /\ atb' = [c \in DOMAIN atb |-> IF c \in Chain(b) THEN "FREE" ELSE atb[c]]
    /\ obj' = Without(obj, {b})
    /\ UNCHANGED gc_last_used_block

\* The program frees an object that is its own.
Free(t, b) == pc[t].at = "idle" /\ Freed(b) /\ UNCHANGED pc

\* Mutant of Shrink: the index is not looked at.
ShrinkQuiet(t, b, n) ==
    /\ pc[t].at = "idle" /\ n < Size(b)
    /\ atb' = [c \in DOMAIN atb |->
                 IF c \in Chain(b) /\ c >= b + n THEN "FREE" ELSE atb[c]]
    /\ obj' = [obj EXCEPT ![b].n = n]
    /\ UNCHANGED <<ftb, indices, pc>>

\* gc_realloc to fewer blocks: the last ones are freed.
Shrink(t, b, n) ==
    /\ pc[t].at = "idle" /\ n < Size(b)
    /\ atb' = [c \in DOMAIN atb |->
                 IF c \in Chain(b) /\ c >= b + n THEN "FREE" ELSE atb[c]]
    /\ gc_last_free_atb_index' =
         Min({gc_last_free_atb_index, (b + n) \div BLOCKS_PER_ATB})
    /\ obj' = [obj EXCEPT ![b].n = n]
    /\ UNCHANGED <<ftb, gc_last_used_block, pc>>

\* The free blocks right after the object at b are enough for n in all.
RoomAfter(b, n) ==
    b + n <= NBlocks /\ \A c \in b + Size(b) .. b + n - 1 : atb[c] = "FREE"

\* gc_realloc in place.  The last used block becomes the one after the
\* object, which at the end of the heap is the gap byte's.
Expand(t, b, n) ==
    /\ pc[t].at = "idle" /\ n > Size(b) /\ RoomAfter(b, n)
    /\ atb' = [c \in DOMAIN atb |->
                 IF c \in b + Size(b) .. b + n - 1 THEN "TAIL" ELSE atb[c]]
    /\ gc_last_used_block' = Max({gc_last_used_block, b + n})
    /\ obj' = [obj EXCEPT ![b].n = n]
    /\ UNCHANGED <<ftb, gc_last_free_atb_index, pc>>

\* gc_realloc lets go of the mutex and calls gc_alloc, with the flag it read.
\* (Called with allow_move false it returns NULL here and changes nothing.)
MoveBegins(t, b, n) ==
    /\ pc[t].at = "idle" /\ n > Size(b) /\ ~RoomAfter(b, n)
    /\ pc' = [pc EXCEPT ![t] = [at |-> "alloc", n |-> n, fin |-> b \in ftb,
                                new |-> NULL, old |-> b]]
    /\ UNCHANGED <<atb, ftb, indices, obj>>

MoveAllocs(t) ==
    /\ pc[t].at = "alloc"
    /\ Search(t, pc[t].n, pc[t].fin, pc[t].old, Otherwise)

\* The bytes have been copied; gc_realloc frees the old object.
MoveFrees(t) ==
    /\ pc[t].at = "move"
    /\ Freed(pc[t].old)
    /\ pc' = [pc EXCEPT ![t] = Idle]
-----------------------------------------------------------------------------
\* gc_collect, finding the objects of D unreachable.  The sweep stops at the
\* last used block: above it nothing is freed and a mark stays.
Collect(D) ==
    LET gone == UNION {Chain(b) : b \in D}
        swept(b) == b <= gc_last_used_block
        kept == {b \in Blocks : /\ swept(b) /\ atb[b] # "FREE"
                                /\ b \notin gone}
    IN /\ atb' = [b \in DOMAIN atb |->
                    IF swept(b) /\ b \in gone THEN "FREE"
                    ELSE IF ~swept(b) /\ b \in DOMAIN obj \ D THEN "MARK"
                    ELSE atb[b]]
       /\ ftb' = ftb \ D
       /\ gc_last_used_block' = Max(kept \cup {0})
       /\ gc_last_free_atb_index' = 0
       /\ obj' = Without(obj, D)

\* gc_alloc collects when it has found nothing.
AllocCollects(t, D) ==
    /\ pc[t].at = "collect" /\ Collect(D)
    /\ pc' = [pc EXCEPT ![t].at = "again"]

\* gc.collect() of the program.
ProgramCollects(t, D) ==
    pc[t].at = "idle" /\ Collect(D) /\ UNCHANGED pc

\* Every stretch under the mutex that some thread can be at.
Allocs == \E t \in Threads, n \in 1 .. MaxBlocks, fin \in BOOLEAN :
            Alloc(t, n, fin)
AllocGoesOn == \E t \in Threads :
                 AllocAgain(t) \/ Refused(t) \/ SetFlag(t)
Frees == \E t \in Threads : \E b \in DOMAIN obj \ Held : Free(t, b)
Reallocs == \E t \in Threads, n \in 1 .. MaxBlocks :
              \E b \in DOMAIN obj \ Held :
                Shrink(t, b, n) \/ Expand(t, b, n) \/ MoveBegins(t, b, n)
MoveSteps == \E t \in Threads : MoveAllocs(t) \/ MoveFrees(t)
Collects == \E t \in Threads : \E D \in SUBSET (DOMAIN obj \ Held) :
              AllocCollects(t, D) \/ ProgramCollects(t, D)

HeapSteps == \/ Allocs \/ AllocGoesOn \/ Frees
             \/ Reallocs \/ MoveSteps \/ Collects

\* gc.enable() and gc.disable().
Enable == /\ gc_auto_collect_enabled' = TRUE
          /\ UNCHANGED <<atb, ftb, indices, pc, obj>>
Disable == /\ gc_auto_collect_enabled' = FALSE
           /\ UNCHANGED <<atb, ftb, indices, pc, obj>>

GcNext == \/ HeapSteps /\ UNCHANGED gc_auto_collect_enabled
          \/ Enable \/ Disable

GcSpec == GcInit /\ [][GcNext]_gcVars
-----------------------------------------------------------------------------
\* The allocation table says what the calls have promised: the objects that
\* exist, each of its size and apart from the others, no marks between
\* collections, and every other block free, the gap byte included.
TableIsObjects ==
    \A b \in 0 .. NBlocks :
      atb[b] = IF b \in DOMAIN obj THEN "HEAD"
               ELSE IF \E h \in DOMAIN obj : h < b /\ b < h + obj[h].n
                 THEN "TAIL" ELSE "FREE"

\* The finaliser runs for the objects that were allocated with one, whatever
\* was freed, moved or collected before: the flags are theirs, but for an
\* allocation that has not come to set its own.
FlagsAreObjects ==
    ftb = {b \in DOMAIN obj : obj[b].fin}
            \ {pc[t].new : t \in {u \in Threads : pc[u].at = "flag"}}

\* "guarantees that there are no free blocks before this one": the index
\* that the search begins at hides no free block.
NoFreeBelow ==
    \A b \in Blocks :
      atb[b] = "FREE" => b >= gc_last_free_atb_index * BLOCKS_PER_ATB

\* The sweep reaches every object.
LastUsedCovers == \A b \in Blocks : atb[b] # "FREE" => b <= gc_last_used_block

\* gc_alloc and gc_realloc give up only when no run of free blocks anywhere
\* in the heap is long enough.
RefusedOnlyWhenFull ==
    [][\A t \in Threads :
         pc[t].at # "refused" /\ pc'[t].at = "refused"
           => Runs(pc'[t].n, 0) = {}]_gcVars

\* The table, the finaliser flags and the indexes are those of the objects
\* that exist, whatever the cores do between two stretches under the mutex
\* (gc.c:756-1190), and therefore memory is refused only if there is none.
HeapIsSound ==
    /\ [](TableIsObjects /\ FlagsAreObjects /\ NoFreeBelow /\ LastUsedCovers)
    /\ RefusedOnlyWhenFull

-----------------------------------------------------------------------------
(***************************************************************************)
(* A collection: marking from a root with a stack of limited size, the     *)
(* rescans of the heap after the stack has overflowed, and the sweep.      *)
(* Nothing else touches the heap meanwhile (the GC mutex is held), so the  *)
(* only steps are the algorithm's.                                         *)
(*                                                                         *)
(* A block holds one word here.  A word that is not a pointer to the head  *)
(* of an object (a number, a pointer to a free or to a tail block) is      *)
(* passed over by the code and is NULL here.  Finalisers are left out.     *)
(***************************************************************************)
CONSTANTS HeapCells,     \* blocks of the heap
          MaxWords,    \* bound: pointers in the heap
          StackSize    \* MICROPY_ALLOC_GC_STACK_SIZE

ASSUME GcMarkAssumption ==
    /\ HeapCells \in Nat \ {0} /\ StackSize \in Nat \ {0}
    /\ MaxWords \in Nat

Cells == 0 .. HeapCells - 1
Nowhere == HeapCells

VARIABLES before,      \* the allocation table when the collection begins
          word,        \* the word in each block
          root,        \* the root pointer
          table,       \* the allocation table, with the gap byte's block
          at,          \* where the collection is
          stack,       \* gc_block_stack
          gc_stack_overflow,
          cur,         \* the object that gc_mark_subtree looks at
          block,       \* the block that a rescan or the sweep has come to
          free_tail,
          last_used_block

heap == <<before, word, root>>
marking == <<stack, gc_stack_overflow, cur>>
sweeping == <<free_tail, last_used_block>>
markVars == <<heap, table, at, marking, block, sweeping>>

\* Rows of blocks in which tails follow a head and free blocks come last.
Layouts ==
    {f \in [0 .. HeapCells -> {"FREE", "HEAD", "TAIL"}] :
       /\ f[0] # "TAIL" /\ f[HeapCells] = "FREE"
       /\ \A b \in Cells \ {0} : f[b] # "FREE" => f[b - 1] # "FREE"}

Heads == {b \in Cells : before[b] = "HEAD"}

\* Any heap of that size; gc_collect_start has been called.
MarkInit == /\ before \in Layouts
            /\ root \in Heads \cup {Nowhere}
            /\ word \in [Cells -> Heads \cup {Nowhere}]
            /\ \A b \in Cells : before[b] = "FREE" => word[b] = Nowhere
            /\ Cardinality({b \in Cells : word[b] # Nowhere}) <= MaxWords
            /\ table = before /\ at = "root"
            /\ stack = <<>> /\ gc_stack_overflow = FALSE /\ cur = Nowhere
            /\ block = 0 /\ free_tail = FALSE /\ last_used_block = 0

\* The blocks of the object at b.
ObjectAt(b) == {c \in b .. HeapCells : \A d \in b + 1 .. c : table[d] = "TAIL"}
-----------------------------------------------------------------------------
\* gc_collect_root: the root's object is marked, and what it leads to next.
MarkRoot ==
    /\ at = "root"
    /\ \/ /\ root # Nowhere
          /\ table' = [table EXCEPT ![root] = "MARK"]
          /\ cur' = root /\ at' = "mark"
       \/ /\ root = Nowhere /\ at' = "overflow" /\ UNCHANGED <<table, cur>>
    /\ UNCHANGED <<heap, stack, gc_stack_overflow, block, sweeping>>

\* The unmarked objects that cur points to, in the order it does.
Children ==
    LET first == {c \in ObjectAt(cur) :
                    /\ word[c] # Nowhere /\ table[word[c]] = "HEAD"
                    /\ \A d \in ObjectAt(cur) : d < c => word[d] # word[c]}
        order == CHOOSE f \in [1 .. Cardinality(first) -> first] :
                   \A i, j \in DOMAIN f : i < j => f[i] < f[j]
    IN [i \in DOMAIN order |-> word[order[i]]]

\* Mutant of Overflows: the stack takes one entry more than it has.
OverflowsLate(n) == Len(stack) + n > StackSize + 1

\* n more objects do not fit on the stack.
Overflows(n) == Len(stack) + n > StackSize

\* gc_mark_subtree, one object: its children are marked and pushed as far as
\* there is room, then the topmost is popped.  With nothing on the stack the
\* function returns to its caller: gc_collect_root, before the first rescan
\* has moved block, or a rescan.
MarkObject ==
    LET all == stack \o Children
        pushed == SubSeq(all, 1, Min({StackSize, Len(all)}))
    IN
    /\ at = "mark"
    /\ table' = [b \in DOMAIN table |->
                 IF b \in Range(Children) THEN "MARK" ELSE table[b]]
    /\ gc_stack_overflow' =
         (gc_stack_overflow \/ Overflows(Len(Children)))
    /\ \/ /\ pushed # <<>>
          /\ cur' = Last(pushed) /\ stack' = Front(pushed)
          /\ UNCHANGED <<at, block>>
       \/ /\ pushed = <<>>
          /\ at' = IF block = 0 THEN "overflow" ELSE "scan"
          /\ UNCHANGED <<cur, stack, block>>
    /\ UNCHANGED <<heap, sweeping>>

\* gc_deal_with_stack_overflow, its loop: a rescan, or on to the sweep.
CheckOverflow ==
    /\ at = "overflow"
    /\ at' = IF gc_stack_overflow THEN "scan" ELSE "sweep"
    /\ gc_stack_overflow' = FALSE
    /\ block' = 0
    /\ UNCHANGED <<heap, table, stack, cur, sweeping>>

\* The rescan goes on to the next marked object, or has come to the end.
Rescan ==
    /\ at = "scan"
    /\ LET marked == {b \in Cells : b >= block /\ table[b] = "MARK"} IN
       \/ /\ marked # {}
          /\ cur' = Min(marked) /\ block' = Min(marked) + 1
          /\ at' = "mark"
       \/ /\ marked = {}
          /\ block' = 0 /\ at' = "overflow" /\ UNCHANGED cur
    /\ UNCHANGED <<heap, table, stack, gc_stack_overflow, sweeping>>

\* gc_sweep_free_blocks, one block.
SweepBlock ==
    /\ at = "sweep" /\ block < HeapCells
    /\ LET frees == \/ table[block] = "HEAD"
                    \/ table[block] = "TAIL" /\ free_tail
       IN /\ free_tail' = CASE table[block] = "HEAD" -> TRUE
                            [] table[block] = "MARK" -> FALSE
                            [] OTHER -> free_tail
          /\ table' = [table EXCEPT ![block] = IF frees THEN "FREE"
                                           ELSE IF @ = "MARK" THEN "HEAD"
                                           ELSE @]
          /\ last_used_block' = IF table'[block] # "FREE" THEN block
                                ELSE last_used_block
    /\ block' = block + 1
    /\ UNCHANGED <<heap, at, marking>>

\* gc_collect_end.
End == /\ at = "sweep" /\ block = HeapCells
       /\ at' = "done"
       /\ UNCHANGED <<heap, table, marking, block, sweeping>>

Done == at = "done" /\ UNCHANGED markVars

MarkNext == MarkRoot \/ MarkObject \/ CheckOverflow \/ Rescan \/ SweepBlock
              \/ End \/ Done

\* The thread that collects runs on.
MarkSpec == MarkInit /\ [][MarkNext]_markVars /\ WF_markVars(MarkNext)
-----------------------------------------------------------------------------
\* Reachability in the heap as it was, by the definition: the least set
\* with the root that is closed under the words of its objects.
Of(b) == {c \in b .. HeapCells : \A d \in b + 1 .. c : before[d] = "TAIL"}

Closed(S) ==
    \A h \in S : \A c \in Of(h) : word[c] # Nowhere => word[c] \in S

Live == CHOOSE S \in SUBSET Heads :
          /\ root # Nowhere => root \in S
          /\ Closed(S)
          /\ \A R \in SUBSET S :
               (root # Nowhere => root \in R) /\ Closed(R) => R = S

\* A collection keeps the objects that can be reached from the root, with
\* all their blocks, and frees every other block, however small the stack.
KeepsExactlyTheLive ==
    at = "done" => \A b \in Cells :
        table[b] = IF \E h \in Live : b \in Of(h) THEN before[b] ELSE "FREE"

\* The next collection sweeps up to where this one has left something: what
\* lies behind would never be freed.
SweptToTheEnd ==
    at = "done" => \A b \in Cells : table[b] # "FREE" => b <= last_used_block
=============================================================================
