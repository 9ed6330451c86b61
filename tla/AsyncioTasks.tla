---------------------------- MODULE AsyncioTasks ----------------------------
(***************************************************************************)
(* The tasks of asyncio: the class Task of extmod/modasyncio.c and what    *)
(* run_until_complete (extmod/asyncio/core.py) does to them.               *)
(*                                                                         *)
(* The operators take and return the loop k, a record:                     *)
(*   runq   _task_queue, in the order of the times; PairHeap shows that    *)
(*          the heap is such a queue                                       *)
(*   key    ph_key, the time a task was pushed with                        *)
(*   data   what a task waits on, or its exception                         *)
(*   state  "new" (no task yet), "running" (True), "queue" (a queue of the *)
(*          tasks that wait for it), "done" (None) or "waited" (False)     *)
(*   wait   that queue                                                     *)
(* Time is a natural number that the operators are given.                  *)
(***************************************************************************)
EXTENDS Integers, SequencesExt

CONSTANTS Tasks

None == [kind |-> "none"]
OnTask(t) == [kind |-> "task", task |-> t]
OnIo == [kind |-> "io"]
Cancelled == [kind |-> "cancelled"]
CancelledWith(status) == [kind |-> "status", status |-> status]
Ended(how) == [kind |-> "ended", how |-> how]

\* How a task ends.
Outcomes == {"return", "cancelled", "exception"}

Live(k, t) == k.state[t] \in {"running", "queue"}
IsDone(k, t) == k.state[t] \in {"done", "waited"}

NewLoop == [runq |-> <<>>,
            key |-> [t \in Tasks |-> 0],
            data |-> [t \in Tasks |-> None],
            state |-> [t \in Tasks |-> "new"],
            wait |-> [t \in Tasks |-> <<>>]]
-----------------------------------------------------------------------------
\* How many tasks are in front of one that is pushed with this time.
Due(k, time) == Cardinality({i \in DOMAIN k.runq : k.key[k.runq[i]] <= time})

\* TaskQueue.push on _task_queue.
Push(k, t, time) == [k EXCEPT !.data[t] = None,
                              !.key[t] = time,
                              !.runq = InsertAt(@, Due(k, time) + 1, t)]

\* create_task(): Task.__init__ and a push.
Create(k, t, now) ==
    Push([k EXCEPT !.state[t] = "running"], t, now)

\* The task that run_until_complete would run now, if there is one.
Ready(k, now) == k.runq # <<>> /\ k.key[Head(k.runq)] <= now

\* It is taken off the queue; its exception, if any, is thrown into it.
Resumed(k) == [k EXCEPT !.runq = Tail(@), !.data[Head(k.runq)] = None]

(***************************************************************************)
(* task_getiter and task_iternext: the running task cur awaits t.  A task  *)
(* that is done is marked as waited on and cur goes on at once, with what  *)
(* the task ended with.                                                    *)
(***************************************************************************)
Await(k, cur, t, now) ==
    IF IsDone(k, t)
    THEN [k EXCEPT !.state[t] = "waited"]
    ELSE [k EXCEPT !.state[t] = "queue",
                   !.wait[t] = Append(@, cur),
                   !.key[cur] = now,
                   !.data[cur] = OnTask(t)]

\* Where a cancellation of t goes: along the tasks that are waited on.
CancelTarget(k, t) ==
    LET target[u \in Tasks] == IF k.data[u].kind = "task"
                               THEN target[k.data[u].task] ELSE u
    IN  target[t]

\* Mutant of Cancel: the exception is stored before the task is pushed.
CancelThenPush(k, t, now) ==
    LET u == CancelTarget(k, t)
        marked == [k EXCEPT !.data[u] = Cancelled]
    IN  IF IsDone(k, t) THEN k
        ELSE IF k.data[u] = OnIo THEN Push(marked, u, now)
        ELSE IF k.key[u] > now
        THEN Push([marked EXCEPT !.runq = RemoveFirst(@, u)], u, now)
        ELSE marked

(***************************************************************************)
(* task_cancel of a task that is not running: take the innermost task off  *)
(* the queue it is on, or bring it forward if it sleeps, and leave the     *)
(* exception in its data.                                                  *)
(***************************************************************************)
Cancel(k, t, now) ==
    LET u == CancelTarget(k, t)
        moved == IF k.data[u] = OnIo THEN Push(k, u, now)
                 ELSE IF k.key[u] > now
                 THEN Push([k EXCEPT !.runq = RemoveFirst(@, u)], u, now)
                 ELSE k
    IN  IF IsDone(k, t) THEN k ELSE [moved EXCEPT !.data[u] = Cancelled]

\* Every task of the queue q is pushed, in its order: as none of them is on
\* the run queue, each comes right behind the one before it.
PushAll(k, q, now) ==
    [k EXCEPT !.data = [t \in Tasks |-> IF t \in Range(q) THEN None ELSE @[t]],
              !.key = [t \in Tasks |-> IF t \in Range(q) THEN now ELSE @[t]],
              !.runq = SubSeq(@, 1, Due(k, now)) \o q
                         \o SubSeq(@, Due(k, now) + 1, Len(@))]

\* Mutant of Finish: only the first of the waiting tasks is woken.
FinishWakesOne(k, t, how, now) ==
    LET woken == IF k.wait[t] = <<>> THEN k
                 ELSE Push([k EXCEPT !.wait[t] = Tail(@)],
                           Head(k.wait[t]), now)
        ended == [woken EXCEPT !.state[t] = IF k.state[t] = "queue"
                                            THEN "waited" ELSE "done"]
        queued == IF k.wait[t] = <<>> /\ how = "exception"
                  THEN Push(ended, t, now) ELSE ended
    IN  [queued EXCEPT !.data[t] = Ended(how)]

(***************************************************************************)
(* The task t, which is running, ends: by a return, a CancelledError or    *)
(* another exception.  A detached task that ends with an exception goes    *)
(* back to the run queue, so that the exception handler gets it unless     *)
(* somebody awaits the task first.                                         *)
(***************************************************************************)
Finish(k, t, how, now) ==
    LET waiting == k.wait[t] # <<>>
        woken == PushAll([k EXCEPT !.wait[t] = <<>>], k.wait[t], now)
        ended == [woken EXCEPT !.state[t] = IF k.state[t] = "queue"
                                            THEN "waited" ELSE "done"]
        queued == IF ~waiting /\ how = "exception"
                  THEN Push(ended, t, now) ELSE ended
    IN  [queued EXCEPT !.data[t] = Ended(how)]
=============================================================================
