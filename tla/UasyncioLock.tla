---------------------------- MODULE UasyncioLock ----------------------------
(***************************************************************************)
(* Tasks of one event loop that share a uasyncio.Lock and may be cancelled *)
(* at any await.  An action is what a task does between two awaits: the    *)
(* loop (core.py, run_until_complete) runs one task at a time, and which   *)
(* of the runnable tasks runs next is left open.                           *)
(*                                                                         *)
(*   pc[t] = "idle"     t is outside "async with lock"                     *)
(*           "acquire"  t has yielded inside acquire()                     *)
(*           "body"     t is suspended in the body of the "async with"     *)
(*   cancelled[t]       t.data is CancelledError: the loop will throw it   *)
(*                      into t the next time t runs                        *)
(***************************************************************************)
EXTENDS LockOps

VARIABLES lock, pc, cancelled

vars == << lock, pc, cancelled >>

Init ==
    /\ lock = NewLock
    /\ pc = [t \in Tasks |-> "idle"]
    /\ cancelled = [t \in Tasks |-> FALSE]

\* acquire() of a free lock does not yield.
AcquireFree(t) ==
    /\ pc[t] = "idle"
    /\ Free(lock)
    /\ lock' = Take(lock)
    /\ pc' = [pc EXCEPT ![t] = "body"]
    /\ UNCHANGED cancelled

\* acquire() of a lock that is held or promised to another task.
AcquireWait(t) ==
    /\ pc[t] = "idle"
    /\ ~Free(lock)
    /\ lock' = Enqueue(lock, t)
    /\ pc' = [pc EXCEPT ![t] = "acquire"]
    /\ UNCHANGED cancelled

\* The loop resumes a task that release() took off the lock's queue and pushed
\* on the run queue; the task takes the lock without looking at its state.
Resume(t) ==
    /\ pc[t] = "acquire"
    /\ ~IsWaiting(lock, t)
    /\ ~cancelled[t]
    /\ lock' = Take(lock)
    /\ pc' = [pc EXCEPT ![t] = "body"]
    /\ UNCHANGED cancelled

\* __aexit__: the body ended, by itself or by the CancelledError thrown in it.
Exit(t) ==
    /\ pc[t] = "body"
    /\ lock' = Release(lock)
    /\ pc' = [pc EXCEPT ![t] = "idle"]
    /\ cancelled' = [cancelled EXCEPT ![t] = FALSE]

\* Task.cancel(): a waiter leaves the lock's queue for the run queue; a task
\* already on the run queue stays where it is; both have the error pending.
Cancel(t) ==
    /\ pc[t] # "idle"
    /\ ~cancelled[t]
    /\ cancelled' = [cancelled EXCEPT ![t] = TRUE]
    /\ lock' = IF pc[t] = "acquire" /\ IsWaiting(lock, t)
               THEN Dequeue(lock, t)
               ELSE lock
    /\ UNCHANGED pc

\* The loop throws CancelledError into a task that had yielded in acquire().
ThrowInAcquire(t) ==
    /\ pc[t] = "acquire"
    /\ cancelled[t]
    /\ lock' = Abandon(lock, t)
    /\ pc' = [pc EXCEPT ![t] = "idle"]
    /\ cancelled' = [cancelled EXCEPT ![t] = FALSE]

Step(t) ==
    \/ AcquireFree(t)
    \/ AcquireWait(t)
    \/ Resume(t)
    \/ Exit(t)
    \/ Cancel(t)
    \/ ThrowInAcquire(t)

Next == \E t \in Tasks : Step(t)

\* The loop runs every task on its run queue, and a body that holds the lock
\* comes to an end.  Nothing makes a task ask for the lock or be cancelled.
Fairness ==
    \A t \in Tasks : /\ WF_vars(Resume(t))
                     /\ WF_vars(ThrowInAcquire(t))
                     /\ WF_vars(Exit(t))

Spec == Init /\ [][Next]_vars

FairSpec == Spec /\ Fairness

-----------------------------------------------------------------------------
(***************************************************************************)
(* Properties                                                              *)
(***************************************************************************)

\* Lock.state, its queue and the tasks' positions have their types.
TypeOK ==
    /\ lock \in Locks
    /\ pc \in [Tasks -> {"idle", "acquire", "body"}]
    /\ cancelled \in [Tasks -> BOOLEAN]

\* Mutual exclusion: no two tasks are inside "async with lock", also when
\* waiters are cancelled before or after release() has chosen them.
MutualExclusion ==
    \A t, u \in Tasks : pc[t] = "body" /\ pc[u] = "body" => t = u

\* The lock is marked locked exactly while a task is inside the body, so a
\* release() in __aexit__ never raises "Lock not acquired".
LockedIffInBody ==
    (lock.state = Locked) <=> (\E t \in Tasks : pc[t] = "body")

\* No lost wake-up: while a task waits on the queue, the lock is held or is
\* promised to a task that will run, so a later release() or throw wakes the
\* next waiter.  Nobody waits for a free lock.
NoLostWakeup ==
    /\ lock.waiting # << >> => lock.state # Unlocked
    /\ lock.state \in Tasks => pc[lock.state] = "acquire"

\* The queue holds exactly the tasks that sleep in acquire(), each once: a
\* cancelled task is never woken by release(), a waiting one is never missed.
QueueIsExact ==
    /\ \A i, j \in 1..Len(lock.waiting) :
          lock.waiting[i] = lock.waiting[j] => i = j
    /\ \A t \in Tasks :
          IsWaiting(lock, t)
             <=> pc[t] = "acquire" /\ ~cancelled[t] /\ lock.state # t

\* A CancelledError is only ever pending for a task inside acquire() or the
\* body, so a task that comes back for the lock starts without one.
NoStaleCancel == \A t \in Tasks : cancelled[t] => pc[t] # "idle"

\* The inductive invariant of the specification.
Inv ==
    /\ TypeOK
    /\ NoStaleCancel
    /\ MutualExclusion
    /\ LockedIffInBody
    /\ NoLostWakeup
    /\ QueueIsExact

\* A task that waits gets the lock, unless it is cancelled first: handing the
\* lock over first-in first-out starves nobody.
EveryWaiterServed ==
    \A t \in Tasks :
       (pc[t] = "acquire") ~> (pc[t] = "body" \/ cancelled[t])

-----------------------------------------------------------------------------
(***************************************************************************)
(* The lock implements the abstract first-come first-served mutex.         *)
(***************************************************************************)
Holders == {t \in Tasks : pc[t] = "body"}

\* The requests in the order they will be granted.
Requests ==
    IF lock.state \in Tasks
    THEN << lock.state >> \o lock.waiting
    ELSE lock.waiting

AbstractMutex == INSTANCE Mutex WITH Users <- Tasks, holders <- Holders,
                                     requests <- Requests

\* Every step of the lock is a step of the abstract mutex: the lock is granted
\* in the order in which it was asked for, and a cancelled request vanishes.
ImplementsMutex == AbstractMutex!Spec
=============================================================================
