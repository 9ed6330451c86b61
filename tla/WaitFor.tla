------------------------------ MODULE WaitFor -------------------------------
(***************************************************************************)
(* wait_for() (extmod/asyncio/funcs.py), with which the request handler    *)
(* reads every line under a time limit.  A call makes two tasks: one for   *)
(* the awaitable, which reads a stream, and a runner, which awaits it and  *)
(* cancels the waiter's sleep when it has ended.                           *)
(*                                                                         *)
(* The waiter W calls wait_for() a number of times, whatever the calls     *)
(* before have ended with except a CancelledError, and may sleep between   *)
(* them: handle_client catches Exception, which CancelledError is not.     *)
(* Call number i has the awaitable Aw(i) and the runner Runner(i).  X is   *)
(* any other task: it may cancel W whenever it runs.                       *)
(***************************************************************************)
EXTENDS AsyncioTasks

CONSTANTS Calls,      \* bound: how often wait_for() is called
          Timeout,    \* the time limit of a call
          MaxTime,    \* bound: the clock stops here
          MaxCancels  \* bound: how often X cancels W

Aw(i) == <<"aw", i>>
Runner(i) == <<"runner", i>>
W == <<"W", 0>>
X == <<"X", 0>>
NoTask == <<"none", 0>>

ASSUME WaitForAssumption ==
    /\ Calls \in Nat \ {0} /\ Timeout \in Nat
    /\ MaxTime \in Nat /\ MaxCancels \in Nat
    /\ Tasks = {W, X} \cup {Aw(i) : i \in 1 .. Calls}
                      \cup {Runner(i) : i \in 1 .. Calls}

VARIABLES k,        \* the loop, see AsyncioTasks
          now,      \* ticks()
          cur,      \* cur_task
          exc,      \* what is thrown into it, or None
          waiter,   \* where W is
          call,     \* number of the current or the last call
          outcome,  \* how that call ended, "none" before it has
          cancels,  \* how often X has called W.cancel()
          told,     \* X has cancelled W during the sleep of this call
          late      \* this call's time limit was over before Aw returned

waitForVars == <<k, now, cur, exc, waiter, call, outcome, cancels, told, late>>
-----------------------------------------------------------------------------
WaitForInit == /\ k = Create(Create(NewLoop, W, 0), X, 0)
               /\ now = 0 /\ cur = NoTask /\ exc = None
               /\ waiter = "idle" /\ call = 0 /\ outcome = "none"
               /\ cancels = 0 /\ told = FALSE /\ late = FALSE

Resume ==
    /\ cur = NoTask /\ Ready(k, now)
    /\ cur' = Head(k.runq)
    /\ exc' = IF Live(k, cur') THEN k.data[cur'] ELSE None
    /\ k' = Resumed(k)
    /\ UNCHANGED <<now, waiter, call, outcome, cancels, told, late>>

\* wait_for() up to its sleep, lines 26-35.
Call ==
    /\ cur = W /\ waiter = "idle" /\ exc = None
    /\ outcome # "cancelled"
    /\ call < Calls /\ now + Timeout <= MaxTime
    /\ call' = call + 1
    /\ LET made == Create(Create(k, Aw(call + 1), now),
                          Runner(call + 1), now)
       IN  k' = Push(made, W, now + Timeout)
    /\ waiter' = "sleep" /\ cur' = NoTask
    /\ outcome' = "none" /\ told' = FALSE /\ late' = FALSE
    /\ UNCHANGED <<now, exc, cancels>>

Leave(how) == outcome' = how /\ waiter' = "idle" /\ exc' = None

\* The sleep is cancelled from outside, lines 38-41.
CancelledInSleep ==
    /\ cur = W /\ waiter = "sleep" /\ exc = Cancelled
    /\ k' = Cancel(k, Runner(call), now)
    /\ Leave("cancelled")
    /\ UNCHANGED <<now, cur, call, cancels, told, late>>

\* The sleep is cancelled by the runner, lines 42-47.
Answered ==
    /\ cur = W /\ waiter = "sleep" /\ exc.kind = "status"
    /\ Leave(exc.status)
    /\ UNCHANGED <<k, now, cur, call, cancels, told, late>>

\* The sleep ends: cancel the runner and await it, lines 50-51.
TimedOut ==
    /\ cur = W /\ waiter = "sleep" /\ exc = None
    /\ LET stopped == Cancel(k, Runner(call), now)
       IN  k' = Await(stopped, W, Runner(call), now)
    /\ waiter' = "await"
    /\ cur' = IF IsDone(k, Runner(call)) THEN W ELSE NoTask
    /\ UNCHANGED <<now, exc, call, outcome, cancels, told, late>>

\* The runner has ended; line 52, or what was thrown into W.
AfterRunner ==
    /\ cur = W /\ waiter = "await"
    /\ Leave(IF exc # None \/ k.data[Runner(call)] # Ended("return")
             THEN "cancelled" ELSE "timeout")
    /\ UNCHANGED <<k, now, cur, call, cancels, told, late>>

\* Between the calls W may sleep, catch what is thrown into it, and end.
SleepElsewhere ==
    /\ cur = W /\ waiter = "idle" /\ now < MaxTime
    /\ k' = Push(k, W, now + 1) /\ cur' = NoTask /\ exc' = None
    /\ UNCHANGED <<now, waiter, call, outcome, cancels, told, late>>

CatchElsewhere ==
    /\ cur = W /\ waiter = "idle" /\ exc # None /\ exc' = None
    /\ UNCHANGED <<k, now, cur, waiter, call, outcome, cancels, told, late>>

EndWaiter ==
    /\ cur = W /\ waiter = "idle"
    /\ k' = Finish(k, W, "return", now)
    /\ cur' = NoTask /\ exc' = None
    /\ UNCHANGED <<now, waiter, call, outcome, cancels, told, late>>
-----------------------------------------------------------------------------
\* The end of the awaitable as the waiter is told of it.
Status(end) == CASE end = Ended("return") -> "result"
                 [] end = Ended("exception") -> "exception"
                 [] OTHER -> "cancelled"

\* Mutant of Tell: the waiter is cancelled whatever its data is.
TellAlways(l, i, status) ==
    IF l.data[W].kind # "task" /\ ~IsDone(l, W)
    THEN [Cancel(l, W, now) EXCEPT !.data[W] = CancelledWith(status)]
    ELSE l

\* The end of _run, lines 14-21.
Tell(l, i, status) ==
    IF l.data[W] = None /\ ~IsDone(l, W)
    THEN [Cancel(l, W, now) EXCEPT !.data[W] = CancelledWith(status)]
    ELSE l

\* _run starts, and awaits the awaitable, which has not ended: it was
\* pushed just before the runner and has to wait for its stream.
RunnerStarts(i) ==
    /\ cur = Runner(i) /\ k.state[Aw(i)] # "new" /\ exc = None
    /\ Live(k, Aw(i))
    /\ k' = Await(k, cur, Aw(i), now) /\ cur' = NoTask
    /\ UNCHANGED <<now, exc, waiter, call, outcome, cancels, told, late>>

\* The awaitable has ended, or a CancelledError is thrown at the await.  The
\* runner has started by then: W sleeps behind it in the run queue.
RunnerEnds(i) ==
    /\ cur = Runner(i) /\ k.state[Aw(i)] # "running"
    /\ exc # None \/ IsDone(k, Aw(i))
    /\ LET status == IF exc # None THEN "cancelled" ELSE Status(k.data[Aw(i)])
       IN  k' = Finish(Tell(k, i, status), cur, "return", now)
    /\ cur' = NoTask /\ exc' = None
    /\ UNCHANGED <<now, waiter, call, outcome, cancels, told, late>>

\* The awaitable is StreamReader.readline(): it waits until the stream is
\* ready, then reads, and waits again if the line is not complete.
AwWaits(i) ==
    /\ cur = Aw(i) /\ exc = None
    /\ k' = [k EXCEPT !.data[cur] = OnIo] /\ cur' = NoTask
    /\ UNCHANGED <<now, exc, waiter, call, outcome, cancels, told, late>>

\* It has been ready, and it returns or raises.
AwEnds(i) ==
    /\ cur = Aw(i) /\ exc = None /\ k.state[cur] = "queue"
    /\ \E how \in {"return", "exception"} : k' = Finish(k, cur, how, now)
    /\ late' = (late \/ (i = call /\ k.key[W] <= now))
    /\ cur' = NoTask
    /\ UNCHANGED <<now, exc, waiter, call, outcome, cancels, told>>

AwCancelled(i) ==
    /\ cur = Aw(i) /\ exc # None
    /\ k' = Finish(k, cur, "cancelled", now)
    /\ cur' = NoTask /\ exc' = None
    /\ UNCHANGED <<now, waiter, call, outcome, cancels, told, late>>

StreamReady(i) ==
    /\ cur = NoTask /\ k.data[Aw(i)] = OnIo
    /\ k' = Push(k, Aw(i), now)
    /\ UNCHANGED <<now, cur, exc, waiter, call, outcome, cancels, told, late>>
-----------------------------------------------------------------------------
CancelWaiter ==
    /\ cur = X /\ cancels < MaxCancels /\ Live(k, W)
    /\ k' = Cancel(k, W, now)
    /\ cancels' = cancels + 1
    /\ told' = (told \/ waiter = "sleep")
    /\ UNCHANGED <<now, cur, exc, waiter, call, outcome, late>>

OtherSleeps ==
    /\ cur = X /\ now < MaxTime
    /\ k' = Push(k, X, now + 1) /\ cur' = NoTask
    /\ UNCHANGED <<now, exc, waiter, call, outcome, cancels, told, late>>

OtherEnds ==
    /\ cur = X
    /\ k' = Finish(k, X, "return", now) /\ cur' = NoTask
    /\ UNCHANGED <<now, exc, waiter, call, outcome, cancels, told, late>>

Tick == /\ now < MaxTime /\ now' = now + 1
        /\ UNCHANGED <<k, cur, exc, waiter, call, outcome, cancels, told,
                       late>>

\* No task is left to run but readers whose stream is never ready.
Quiet == cur = NoTask /\ k.runq = <<>> /\ UNCHANGED waitForVars

Runs == \E i \in 1 .. Calls : \/ RunnerStarts(i) \/ RunnerEnds(i)
ReaderSteps == \E i \in 1 .. Calls :
                   AwWaits(i) \/ AwEnds(i) \/ AwCancelled(i)
StreamEvent == \E i \in 1 .. Calls : StreamReady(i)
WaitForSteps == \/ Call \/ CancelledInSleep \/ Answered \/ TimedOut
                \/ AfterRunner
WaiterSteps == SleepElsewhere \/ CatchElsewhere \/ EndWaiter
OtherSteps == CancelWaiter \/ OtherSleeps \/ OtherEnds

WaitForNext == \/ Resume \/ WaitForSteps \/ WaiterSteps \/ Runs \/ ReaderSteps
               \/ StreamEvent \/ OtherSteps \/ Tick \/ Quiet

(***************************************************************************)
(* The loop runs, tasks go on until they wait, and time goes by.  A stream *)
(* need never become ready.                                                *)
(***************************************************************************)
WaitForSpec ==
    /\ WaitForInit /\ [][WaitForNext]_waitForVars
    /\ WF_waitForVars(Resume) /\ WF_waitForVars(WaitForSteps)
    /\ WF_waitForVars(EndWaiter) /\ WF_waitForVars(Runs)
    /\ WF_waitForVars(ReaderSteps) /\ WF_waitForVars(OtherEnds)
    /\ WF_waitForVars(Tick)
-----------------------------------------------------------------------------
\* The reader of a call that has ended is gone, or will be as soon as it
\* runs: the error is thrown into it and it does not wait for its stream
\* any longer.  So no reader that was given up takes the line that the next
\* call waits for, and no two tasks are registered for reading the stream
\* (core.py:83 asserts that, and the assertion is compiled out).
NoReaderLeftBehind ==
    \A i \in 1 .. call :
        (i < call \/ outcome # "none")
            => \/ IsDone(k, Aw(i)) \/ k.data[Aw(i)] = Cancelled
               \/ cur = Aw(i) /\ exc = Cancelled

\* "If the wait_for task subsequently gets cancelled externally then this
\* instance will be reset to a CancelledError instance without arguments"
\* (funcs.py:19-20): whichever comes first, the answer of the runner or a
\* cancellation from outside during the sleep, the caller sees the
\* cancellation.
OutsideCancelWins == told /\ outcome # "none" => outcome = "cancelled"

\* The time limit and a late answer: an awaitable that returned before the
\* limit was over, and was not cancelled, is never reported as a time-out.
InTimeIsNoTimeout ==
    /\ outcome = "timeout" /\ k.data[Aw(call)] = Ended("return") => late
    /\ outcome = "result" => k.data[Aw(call)] = Ended("return")

\* Every call ends, also if the stream is never ready (html_controler.py:
\* 361 and 381 rely on it).
CallEnds == \A i \in 1 .. Calls :
                call = i /\ outcome = "none" ~> call = i /\ outcome # "none"

\* A call of wait_for() ends, with what really happened (funcs.py:7-51): the
\* answer, the time limit or a cancel from outside, and no reader stays
\* behind.
AnswerLimitOrCancel ==
    /\ [](NoReaderLeftBehind /\ OutsideCancelWins /\ InTimeIsNoTimeout)
    /\ CallEnds
=============================================================================
