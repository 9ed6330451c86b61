----------------------------- MODULE PicoBoard -----------------------------
(***************************************************************************)
(* The Digital Twin firmware as a whole: the pin worker, the input scanner *)
(* and the clients' pin, BLE and Wi-Fi requests, all on one hw_lock, and   *)
(* the clean-up that main() does when it is interrupted (html_server.py):  *)
(* cancel the background tasks, wait 200 ms, stop advertising within 1 s,  *)
(* end the event loop.  A KeyboardInterrupt outside of main()'s own code   *)
(* leaves run_until_complete, which catches only CancelledError and        *)
(* Exception: the loop ends and main() is never told.                      *)
(*                                                                         *)
(*   pc[Main]  "m_beat"    the heartbeat sleep                             *)
(*             "m_settle"  200 ms after the cancellations                  *)
(*             "m_wait"    in wait_for(stop_task, 1.0)                     *)
(*             "m_end"     main() has returned; the loop runs no task      *)
(*             "m_lost"    the loop was interrupted; it runs no task       *)
(***************************************************************************)
EXTENDS PinActions, BleControl, WifiControl

CONSTANTS
    Main,       \* the main() task
    Closer      \* its stop_task; a client for what BleControl says of it

ASSUME PicoBoardAssumption ==
    Main \in Tasks \ (Clients \cup {Worker, Scanner}) /\ Closer \in Clients

VARIABLES
    cancelled,  \* the tasks with a CancelledError pending
    due         \* the tasks that run before main()'s 200 ms have passed

boardVars == << hw_lock, pc, pinVars, bleVars, wifiVars, cancelled, due >>

Browsers == Clients \ {Closer}

BoardInit ==
    /\ hw_lock = NewLock
    /\ pc = [t \in Tasks |-> CASE t = Worker  -> "w_get"
                               [] t = Scanner -> "s_sleep"
                               [] t = Main    -> "m_beat"
                               [] OTHER       -> "idle"]
    /\ PinInit /\ BleInit /\ WifiInit
    /\ cancelled = {}
    /\ due = {}

LoopRuns == pc[Main] \notin {"m_end", "m_lost"}

\* Task t may run: the loop goes on, and no CancelledError is thrown into t.
Runs(t) == LoopRuns /\ t \notin cancelled

-----------------------------------------------------------------------------
(***************************************************************************)
(* Steps of the parts.  The input pins keep their levels here: no task     *)
(* does anything else than copy them, and PinActions is about that.        *)
(***************************************************************************)
PinPart ==
    /\ \/ Runs(Worker) /\ WorkerStep
       \/ Runs(Scanner) /\ ScannerStep
       \/ \E c \in Browsers : Runs(c) /\ PinRequest(c)
    /\ UNCHANGED << bleVars, wifiVars, cancelled, due >>

BlePart(c) ==
    /\ Runs(c)
    /\ BleStep(c) \/ (c \in Browsers /\ BleRequest(c))
    /\ due' = due \ {c}
    /\ UNCHANGED << pinVars, wifiVars, cancelled >>

WifiPart(c) ==
    /\ Runs(c)
    /\ WifiStep(c) \/ (c \in Browsers /\ WifiRequest(c))
    /\ UNCHANGED << pinVars, bleVars, cancelled, due >>

LinkPart ==
    /\ Link
    /\ UNCHANGED << pinVars, bleVars, cancelled, due >>

-----------------------------------------------------------------------------
(***************************************************************************)
(* Cancellation.  Task.cancel() takes a waiter off the queue it is on; the *)
(* loop then throws CancelledError at its await.                           *)
(***************************************************************************)
Cancelled(lk, t) == IF IsWaiting(lk, t) THEN Dequeue(lk, t) ELSE lk

\* Mutant of Unwound: a task that was promised the lock does not pass the
\* promise on.
UnwoundKeepsPromise(t) ==
    IF pc[t] \in {"w_inner", "w_yield", "s_read", "stop_sleep"}
    THEN Release(hw_lock)
    ELSE hw_lock

\* "async with" unwinds: a task in acquire() abandons it, one in the body of
\* hw_lock releases it.  In "w_inner" the inner acquire() raises and the outer
\* "async with" releases.
Unwound(t) ==
    CASE pc[t] \in {"w_lock", "s_lock", "stop_lock"} -> Abandon(hw_lock, t)
      [] pc[t] \in {"w_inner", "w_yield", "s_read", "stop_sleep"}
           -> Release(hw_lock)
      [] OTHER -> hw_lock

ThrowCancelled(t) ==
    /\ LoopRuns
    /\ t \in cancelled
    /\ cancelled' = cancelled \ {t}
    /\ due' = due \ {t}
    /\ hw_lock' = Unwound(t)
    /\ Goto(t, "cancelled")
    /\ UNCHANGED << pinVars, bleVars, wifiVars >>

-----------------------------------------------------------------------------
(***************************************************************************)
(* main()                                                                  *)
(***************************************************************************)

\* KeyboardInterrupt while another task runs, while the loop waits for the next
\* one, or during the clean-up: run() raises it.
InterruptLoop ==
    /\ LoopRuns
    /\ Goto(Main, "m_lost")
    /\ UNCHANGED << hw_lock, pinVars, bleVars, wifiVars, cancelled, due >>

\* KeyboardInterrupt in the heartbeat, while main() runs: cancel the tasks and
\* sleep 200 ms.  Cancelled tasks run at once, and a 10 ms sleep ends before.
Interrupt ==
    /\ pc[Main] = "m_beat"
    /\ cancelled' = {Worker, Scanner}
    /\ due' = {Worker, Scanner}
                \cup {c \in Browsers : pc[c] \in {"start_sleep", "stop_sleep"}}
    /\ hw_lock' = Cancelled(Cancelled(hw_lock, Worker), Scanner)
    /\ Goto(Main, "m_settle")
    /\ UNCHANGED << pinVars, bleVars, wifiVars >>

\* main wakes, creates stop_task and waits for it.
StopBle ==
    /\ pc[Main] = "m_settle"
    /\ due = {}
    /\ pc' = [pc EXCEPT ![Main] = "m_wait", ![Closer] = "stop_due"]
    /\ UNCHANGED << hw_lock, pinVars, bleVars, wifiVars, cancelled, due >>

\* stop_task runs stop_ble_advertising.
CloserStarts ==
    /\ LoopRuns
    /\ pc[Closer] = "stop_due"
    /\ StopAdvertising(Closer, "idle")
    /\ UNCHANGED << pinVars, ble, ble_name, new_name, wifiVars, cancelled,
                    due >>

\* Mutant of WaitEnds: a stop_task that was cancelled is waited for as well.
WaitEndsOnStop ==
    /\ pc[Main] = "m_wait"
    /\ pc[Closer] = "idle"
    /\ Goto(Main, "m_end")
    /\ UNCHANGED << hw_lock, pinVars, bleVars, wifiVars, cancelled, due >>

\* stop_task is done, or wait_for cancels it and raises TimeoutError.
WaitEnds ==
    /\ pc[Main] = "m_wait"
    /\ pc[Closer] \in {"idle", "cancelled"}
    /\ Closer \notin cancelled
    /\ Goto(Main, "m_end")
    /\ UNCHANGED << hw_lock, pinVars, bleVars, wifiVars, cancelled, due >>

WaitTimesOut ==
    /\ pc[Main] = "m_wait"
    /\ pc[Closer] \in {"stop_lock", "stop_sleep"}
    /\ Closer \notin cancelled
    /\ cancelled' = cancelled \cup {Closer}
    /\ hw_lock' = Cancelled(hw_lock, Closer)
    /\ UNCHANGED << pc, pinVars, bleVars, wifiVars, due >>

CleanUp == StopBle \/ CloserStarts \/ WaitEnds \/ WaitTimesOut

MainPart == Interrupt \/ InterruptLoop \/ CleanUp

-----------------------------------------------------------------------------
\* The loop has ended and the firmware with it: not a deadlock.
Ended == ~LoopRuns /\ UNCHANGED boardVars

BoardNext ==
    \/ PinPart
    \/ \E c \in Clients : BlePart(c) \/ WifiPart(c)
    \/ LinkPart
    \/ \E t \in cancelled : ThrowCancelled(t)
    \/ MainPart
    \/ Ended

\* The loop runs every task that is due; an interrupt may never come.  The
\* timer of wait_for runs out.
BoardFairness ==
    /\ WF_boardVars(Runs(Worker) /\ WorkerStep
                      /\ UNCHANGED << bleVars, wifiVars, cancelled, due >>)
    /\ WF_boardVars(Runs(Scanner) /\ ScannerStep
                      /\ UNCHANGED << bleVars, wifiVars, cancelled, due >>)
    /\ \A c \in Clients :
          /\ WF_boardVars(BlePart(c) /\ BleStep(c))
          /\ WF_boardVars(WifiPart(c) /\ WifiStep(c))
    /\ \A t \in Tasks : WF_boardVars(ThrowCancelled(t))
    /\ WF_boardVars(CleanUp)

BoardSpec == BoardInit /\ [][BoardNext]_boardVars /\ BoardFairness

-----------------------------------------------------------------------------
(***************************************************************************)
(* Properties                                                              *)
(***************************************************************************)

\* The tasks that have yielded in hw_lock.acquire().
Outside ==
    {t \in Tasks : pc[t] \in {"w_lock", "w_inner", "s_lock", "init_lock",
                              "start_lock", "stop_lock", "wifi_lock"}}

\* All parts of the firmware together keep the promise of the one lock, also
\* while the clean-up cancels tasks inside it and in front of it.
OneTaskInside == \A t, u \in Inside : t = u

\* The lock is locked exactly while a task is inside, and it is never left
\* free, or promised to a task that will not take it, in front of a waiter.
NobodyWaitsInVain ==
    /\ (hw_lock.state = Locked) <=> (Inside # {})
    /\ Free(hw_lock) => hw_lock.waiting = << >>
    /\ hw_lock.state \in Tasks => hw_lock.state \in Outside

\* An error of the BLE driver never leaves the board reporting "Advertising"
\* with the radio off, in start_ble_advertising and stop_ble_advertising alike,
\* as long as main() has not given up its stop_task: a stop that is cancelled
\* in its 10 ms leaves the flag set.
FlagOutlivesErrors == Closer \notin cancelled /\ pc[Closer] # "cancelled"
                          => FlagTracksRadio

\* Every client is answered, however the parts take turns with the lock, unless
\* the worker waits for itself or the event loop ends.
AnsweredUnlessWedged ==
    \A c \in Browsers :
       pc[c] # "idle" ~> (pc[c] = "idle" \/ Wedged \/ ~LoopRuns)

\* Once interrupted, main() ends, although the clients go on and although the
\* worker may be waiting for itself: the cancellation breaks that deadlock.
ShutdownCompletes == pc[Main] = "m_settle" ~> ~LoopRuns

\* Stated by the clean-up's comments, "Stop BLE synchronously during cleanup"
\* and "assume stop_ble_advertising is robust enough if called async": when
\* main() has ended without a time-out, the radio does not advertise.
SilentAfterCleanup ==
    pc[Main] = "m_end" /\ pc[Closer] = "idle" => radio = Off

\* The promise of hw_lock with all its users, through cancellations at any
\* await and errors of the driver: at most one is inside, and nobody waits
\* for a lock that nobody will release.
BoardLockHolds == OneTaskInside /\ NobodyWaitsInVain
-----------------------------------------------------------------------------
(***************************************************************************)
(* For TLC, one input pin, one output pin and a queue of one.  Clients ask *)
(* for an action that is ignored and for "red", which makes the worker     *)
(* wait for itself; PinActions is checked with the other actions.          *)
(***************************************************************************)
MCBoardInPins == << 0 >>
MCBoardRgbPins == << 13 >>
MCBoardActions == { [kind |-> "pwm", pin |-> 13, value |-> 0] }
=============================================================================
