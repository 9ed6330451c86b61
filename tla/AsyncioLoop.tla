----------------------------- MODULE AsyncioLoop ----------------------------
(***************************************************************************)
(* run_until_complete with tasks that do whatever a task may do: create,   *)
(* await and cancel each other, sleep, wait for a stream, and end in any   *)
(* way, also when a CancelledError is thrown into them, which a task may   *)
(* ignore.                                                                 *)
(***************************************************************************)
EXTENDS AsyncioTasks

CONSTANTS NoTask,
          Main,        \* the task that the loop runs for
          MaxTime,     \* bound: the clock stops here
          MaxCancels   \* bound: how often cancel() is called

ASSUME LoopAssumption ==
    Main \in Tasks /\ NoTask \notin Tasks
    /\ MaxTime \in Nat /\ MaxCancels \in Nat

VARIABLES k,        \* the loop, see AsyncioTasks
          now,      \* ticks()
          cur,      \* cur_task
          stopped,  \* run_until_complete has returned
          cancels,  \* how often cancel() was called
          owed,     \* tasks that were cancelled and have not seen it yet
          awaited,  \* tasks that some task has awaited
          handled,  \* tasks whose exception the handler was given
          late      \* tasks awaited after they had ended by an exception
                    \* and before the loop found them ended

ghosts == <<cancels, owed, awaited, handled, late>>
loopVars == <<k, now, cur, stopped, ghosts>>
-----------------------------------------------------------------------------
LoopInit == /\ k = Create(NewLoop, Main, 0)
            /\ now = 0 /\ cur = NoTask /\ stopped = FALSE
            /\ cancels = 0 /\ owed = {} /\ awaited = {} /\ handled = {}
            /\ late = {}

\* The head of the queue is due and is a task that goes on.
Resume ==
    /\ cur = NoTask /\ ~stopped /\ Ready(k, now)
    /\ LET t == Head(k.runq)
       IN  /\ Live(k, t)
           /\ k' = Resumed(k)
           /\ cur' = t
           /\ owed' = IF k.data[t] = None THEN owed ELSE owed \ {t}
    /\ UNCHANGED <<now, stopped, cancels, awaited, handled, late>>

(***************************************************************************)
(* The head of the queue has ended with an exception.  Throwing it into    *)
(* the coroutine raises StopIteration; if nobody has awaited the task, the *)
(* handler is called (core.py:221-231).                                    *)
(***************************************************************************)
ResumeEnded ==
    /\ cur = NoTask /\ ~stopped /\ Ready(k, now)
    /\ LET t == Head(k.runq)
       IN  /\ IsDone(k, t)
           /\ IF k.state[t] = "done"
              THEN /\ k' = [Resumed(k) EXCEPT !.data[t] = k.data[t]]
                   /\ handled' = handled \cup {t}
              ELSE /\ k' = Resumed(k)
                   /\ UNCHANGED handled
    /\ UNCHANGED <<now, cur, stopped, cancels, owed, awaited, late>>

CreateTask(t) ==
    /\ cur # NoTask /\ k.state[t] = "new"
    /\ k' = Create(k, t, now)
    /\ UNCHANGED <<now, cur, stopped, ghosts>>

\* cancel() of another task; it returns False if the task has ended.
CancelTask(t) ==
    /\ cur \notin {NoTask, t} /\ k.state[t] # "new"
    /\ cancels < MaxCancels
    /\ k' = Cancel(k, t, now)
    /\ cancels' = cancels + 1
    /\ owed' = IF Live(k, t) THEN owed \cup ({CancelTarget(k, t)} \ {cur})
               ELSE owed
    /\ UNCHANGED <<now, cur, stopped, awaited, handled, late>>

\* await t; tasks that await each other in a circle are not meant.
AwaitTask(t) ==
    /\ cur \notin {NoTask, t} /\ k.state[t] # "new"
    /\ CancelTarget(k, t) # cur
    /\ k' = Await(k, cur, t, now)
    /\ cur' = IF IsDone(k, t) THEN cur ELSE NoTask
    /\ awaited' = awaited \cup {t}
    /\ late' = IF t \in Range(k.runq) /\ IsDone(k, t)
               THEN late \cup {t} ELSE late
    /\ UNCHANGED <<now, stopped, cancels, owed, handled>>

\* await sleep_ms(d)
Sleep(d) ==
    /\ cur # NoTask /\ now + d <= MaxTime
    /\ k' = Push(k, cur, now + d)
    /\ cur' = NoTask
    /\ UNCHANGED <<now, stopped, ghosts>>

\* Waiting for a stream, and the stream becoming ready.
WaitIo ==
    /\ cur # NoTask
    /\ k' = [k EXCEPT !.data[cur] = OnIo]
    /\ cur' = NoTask
    /\ UNCHANGED <<now, stopped, ghosts>>

IoReady(t) ==
    /\ cur = NoTask /\ ~stopped /\ k.data[t] = OnIo
    /\ k' = Push(k, t, now)
    /\ UNCHANGED <<now, cur, stopped, ghosts>>

\* The running task ends; the end of the main task is the end of the loop.
FinishTask(how) ==
    /\ cur # NoTask
    /\ IF cur = Main THEN stopped' = TRUE /\ UNCHANGED k
       ELSE UNCHANGED stopped /\ k' = Finish(k, cur, how, now)
    /\ cur' = NoTask
    /\ owed' = owed \ {cur}
    /\ UNCHANGED <<now, cancels, awaited, handled, late>>

Tick == /\ now < MaxTime /\ now' = now + 1
        /\ UNCHANGED <<k, cur, stopped, ghosts>>

\* Nothing more happens in a loop that has returned: its main task has
\* ended, or no task is due and no stream is waited for.
Returned ==
    /\ cur = NoTask
    /\ stopped \/ (k.runq = <<>> /\ \A t \in Tasks : k.data[t] # OnIo)
    /\ UNCHANGED loopVars

Creates == \E t \in Tasks : CreateTask(t)
Cancels == \E t \in Tasks : CancelTask(t)
Awaits == \E t \in Tasks : AwaitTask(t)
Sleeps == \E d \in 0 .. 1 : Sleep(d)
IoEvent == \E t \in Tasks : IoReady(t)
Finishes == \E how \in Outcomes : FinishTask(how)

LoopNext == \/ Resume \/ ResumeEnded \/ Creates \/ Cancels \/ Awaits \/ Sleeps
            \/ WaitIo \/ IoEvent \/ Finishes \/ Tick \/ Returned

LoopSpec == LoopInit /\ [][LoopNext]_loopVars

(***************************************************************************)
(* The loop runs what is ready, time goes on and streams become ready; a   *)
(* task that runs ends or waits, and does not wait for ever.               *)
(***************************************************************************)
LoopFairSpec ==
    /\ LoopSpec
    /\ WF_loopVars(Resume) /\ WF_loopVars(ResumeEnded) /\ WF_loopVars(Tick)
    /\ \A t \in Tasks : /\ WF_loopVars(IoReady(t))
                        /\ SF_loopVars(cur = t /\ Finishes)
-----------------------------------------------------------------------------
\* How often a task is on some queue: the run queue, the queue of a task it
\* awaits, the streams'.
Places(t) ==
    Cardinality({i \in DOMAIN k.runq : k.runq[i] = t})
    + Cardinality({u \in Tasks : t \in Range(k.wait[u])})
    + (IF k.data[t] = OnIo THEN 1 ELSE 0)

\* A heap node can be on one heap only (modasyncio.c:115-151).  Whatever
\* tasks do to each other, a task that has not ended and does not run is on
\* exactly one queue, and the running task on none: no task is lost, and
\* none is linked twice.
OnOneQueue ==
    ~stopped => \A t \in Tasks :
        Live(k, t) => Places(t) = IF t = cur THEN 0 ELSE 1

\* The double link of task_iternext (modasyncio.c:295-300): a task whose
\* data names another task is on that task's queue, and that task has not
\* ended.  A cancellation that follows the links therefore ends at a task
\* that can be cancelled.
AwaitLinksHold ==
    \A t, u \in Tasks : k.data[t] = OnTask(u) <=> t \in Range(k.wait[u])

\* "An exception ended this detached task, so queue it for later execution
\* to handle the uncaught exception if no other task retrieves the
\* exception in the meantime" (core.py:215-217): the handler is never given
\* the exception of a task that somebody awaited.
HandlerOnlyForUnawaited ==
    [][ \A t \in handled' \ handled : t \notin awaited ]_loopVars

\* "Save return value of coro to pass up to caller" (core.py:219): a task
\* that has ended keeps what it ended with, for whoever awaits it later.
\* Not so if it was awaited while it was queued for the handler: throwing
\* the exception into it clears it (core.py:185).
EndedKeepsResult ==
    \A t \in Tasks \ late : IsDone(k, t) => k.data[t].kind = "ended"

\* "Cancel the task by injecting asyncio.CancelledError into it"
\* (docs/library/asyncio.rst, Task.cancel): after cancel() has returned
\* True, the error stays with the task until it is thrown into it.  Not
\* so if the task awaits the one that calls cancel(): the error goes to
\* the caller, whose next wait overwrites it.
CancelIsDelivered ==
    \A t \in owed : t # cur /\ Live(k, t) => k.data[t] = Cancelled

\* Every task that awaits another one runs again, however the other one
\* ends: returned, cancelled, or by an exception, and with any number of
\* tasks on its queue (core.py:206-212).
WaiterRunsAgain ==
    \A t \in Tasks : k.data[t].kind = "task" ~> cur = t \/ stopped

\* The one field `data' of a task always says the right thing
\* (modasyncio.c:115-239, core.py:156-236): the queue it is on, the task it
\* awaits, the cancellation it is owed, or what it ended with.
TasksAreConsistent ==
    OnOneQueue /\ AwaitLinksHold /\ EndedKeepsResult /\ CancelIsDelivered

\* How a task ends is told to those who await it and to nobody else: all of
\* them run again, and the exception handler is not called.
ResultsReachWaiters == HandlerOnlyForUnawaited /\ WaiterRunsAgain
=============================================================================
