------------------------------ MODULE LockOps ------------------------------
(***************************************************************************)
(* The state of one uasyncio.Lock and what its methods do to it            *)
(* (micropython/extmod/asyncio/lock.py), as operators on a record, so that *)
(* every module whose tasks share a lock uses the same definitions.        *)
(*                                                                         *)
(* "state" is 0 (unlocked), 1 (locked) or a task: unlocked, but that task  *)
(* has been scheduled to take the lock next.  "waiting" is the TaskQueue   *)
(* of the waiters.  The queue orders by the tick at which a task was       *)
(* pushed and is stable, and ticks do not run backwards, so it is a FIFO.  *)
(***************************************************************************)
EXTENDS Naturals, Sequences

CONSTANT Tasks

\* 0 and 1 are the two values of Lock.state that are not tasks.
ASSUME TasksAssumption == 0 \notin Tasks /\ 1 \notin Tasks

Unlocked == 0
Locked   == 1

Locks == [state : {Unlocked, Locked} \cup Tasks, waiting : Seq(Tasks)]

\* Lock.__init__
NewLock == [state |-> Unlocked, waiting |-> << >>]

\* Mutant of Free: a lock that is promised to a task counts as free.
FreeUnlessLocked(lk) == lk.state # Locked

\* acquire() may take the lock without waiting.
Free(lk) == lk.state = Unlocked

\* The end of acquire(): "Lock available, set it as locked".
Take(lk) == [lk EXCEPT !.state = Locked]

\* Mutant of Enqueue: the caller jumps the queue.
EnqueueFirst(lk, t) == [lk EXCEPT !.waiting = << t >> \o @]

\* acquire() of a lock that is not free: the caller goes on the queue.
Enqueue(lk, t) == [lk EXCEPT !.waiting = Append(@, t)]

\* Mutant of Release: the lock goes to the newest waiter.
ReleaseToNewest(lk) ==
    IF lk.waiting # << >>
    THEN [state   |-> lk.waiting[Len(lk.waiting)],
          waiting |-> SubSeq(lk.waiting, 1, Len(lk.waiting) - 1)]
    ELSE [lk EXCEPT !.state = Unlocked]

\* release(): the first waiter becomes the task that takes the lock next.
Release(lk) ==
    IF lk.waiting # << >>
    THEN [state |-> Head(lk.waiting), waiting |-> Tail(lk.waiting)]
    ELSE [lk EXCEPT !.state = Unlocked]

IsWaiting(lk, t) == \E i \in 1..Len(lk.waiting) : lk.waiting[i] = t

\* The sequence s without the element at position i.
WithoutAt(s, i) ==
    [j \in 1..(Len(s) - 1) |-> IF j < i THEN s[j] ELSE s[j + 1]]

PositionOf(s, t) == CHOOSE i \in 1..Len(s) : s[i] = t

\* Task.cancel() of a task whose data is the lock's queue: queue.remove(t).
Dequeue(lk, t) ==
    [lk EXCEPT !.waiting = WithoutAt(@, PositionOf(@, t))]

\* Mutant of Abandon: the promise is not passed on.
AbandonPromise(lk, t) == lk

\* acquire() when CancelledError is thrown into the waiting caller.
Abandon(lk, t) == IF lk.state = t THEN Release(Take(lk)) ELSE lk
=============================================================================
