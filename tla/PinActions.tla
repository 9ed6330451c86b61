----------------------------- MODULE PinActions -----------------------------
(***************************************************************************)
(* The pins of the Digital Twin: the requests that clients put on          *)
(* pin_action_queue, the worker that takes them off it, and the background *)
(* task that reads the input pins (pico_board.py, pico_pin.py,             *)
(* request_handler.py, html_controler.py).                                 *)
(*                                                                         *)
(* uasyncio.Queue is not in the MicroPython tree of this repository; it is *)
(* modelled as the queue the code expects: bounded, first-in first-out,    *)
(* counting the items that task_done() has not acknowledged.  Nor does     *)
(* that tree have uasyncio.iscoroutinefunction, which the request handler  *)
(* asks which kind of method it has (request_handler.py:75): with it every *)
(* request ends in "Internal error".  Requests are modelled with one that  *)
(* tells them apart.                                                       *)
(*                                                                         *)
(* The mode of a pin is a constant.  Only Pico_pin.init changes it, only   *)
(* the worker calls init, and the arguments of that call raise             *)
(* AttributeError first: str_to_mode, str_to_pull and                      *)
(* mode_str_to_controller are commented out (pico_board.py:392-396).  For  *)
(* the same reason no pin ever has a pwm_instance.                         *)
(*                                                                         *)
(*   pc[Worker]  "w_get"    awaits pin_action_queue.get()                  *)
(*               "w_lock"   awaits hw_lock                                 *)
(*               "w_inner"  holds hw_lock and awaits it again, inside      *)
(*                          set_value_async                                *)
(*               "w_yield"  holds hw_lock, yields after the action         *)
(*               "w_error"  sleeps 100 ms after an exception               *)
(*   pc[Scanner] "s_sleep"  sleeps between two scans                       *)
(*               "s_lock"   awaits hw_lock for the pin InPins[scan]        *)
(*               "s_read"   holds hw_lock, yields before reading that pin  *)
(***************************************************************************)
EXTENDS BoardTasks

CONSTANTS
    InPins,         \* the pins in mode IN, in the order of all_gpio_pins
    OutPins,        \* the pins in mode OUT: 13, 14, 15 and 25
    AdcPins,        \* the pins in mode ADC: 26, 27 and 28
    UnknownIds,     \* numbers a client may send that are the id of no pin
    ClientActions,  \* the single actions that clients ask for
    RgbPins,        \* the pins of the console command "red", in its order
    QueueSize,      \* maxsize of pin_action_queue: 30 in the code
    MaxUnfinished   \* bound: clients stop when so many items are unfinished

Inputs == {InPins[i] : i \in 1..Len(InPins)}
PinIds == Inputs \cup OutPins \cup AdcPins \cup UnknownIds
Bits == {0, 1}

\* The tuples that set_pin_mode, set_pin_value and set_pwm_params queue.  A
\* mode and the PWM parameters are not told apart: no pin ever gets them.
Actions == [kind : {"mode", "pwm"}, pin : PinIds, value : {0}]
             \cup [kind : {"value"}, pin : PinIds, value : Bits]

\* "action = None" at the top of the worker's loop.
NoAction == [kind |-> "none", pin |-> 0, value |-> 0]

ASSUME PinActionsAssumption ==
    /\ InPins \in Seq(Nat)
    /\ OutPins \subseteq Nat
    /\ AdcPins \subseteq Nat
    /\ UnknownIds \subseteq Nat
    /\ ClientActions \subseteq Actions
    /\ RgbPins \in Seq(OutPins)
    /\ QueueSize \in Nat \ {0}
    /\ MaxUnfinished \in Nat

VARIABLES
    queue,          \* the actions on pin_action_queue
    unfinished,     \* how many task_done() calls the queue still expects
    action,         \* the action the worker took last
    scan,           \* which of InPins the scanner is at
    level,          \* what the input pins read, set by the world outside
    value_cache,    \* Pico_pin._value_cache of the input pins
    last_out_value  \* Pico_pin._last_out_value of the output pins

pinVars == << queue, unfinished, action, scan, level, value_cache,
              last_out_value >>

PinInit ==
    /\ queue = << >>
    /\ unfinished = 0
    /\ action = NoAction
    /\ scan = 1
    /\ level \in [Inputs -> Bits]
    /\ value_cache = level
    /\ last_out_value = [p \in OutPins |-> 0]

-----------------------------------------------------------------------------
(***************************************************************************)
(* Client requests.  The handlers are synchronous: a request is queued or  *)
(* refused ("Queue full.") in one step of the client's task.               *)
(***************************************************************************)

\* Queue.put_nowait for each action of a list; QueueFull is caught each time.
Room(n) == IF n < QueueSize - Len(queue) THEN n ELSE QueueSize - Len(queue)

PutAll(actions) ==
    LET kept == Room(Len(actions))
    IN  /\ queue' = queue \o SubSeq(actions, 1, kept)
        /\ unfinished' = unfinished + kept

\* handle_pin_mode, handle_pin_value, handle_pin_pull, handle_pwm_set and the
\* console commands led_on and led_off: one action.
RequestAction(c, a) ==
    /\ pc[c] = "idle"
    /\ unfinished < MaxUnfinished
    /\ PutAll(<< a >>)
    /\ UNCHANGED << hw_lock, pc, action, scan, level, value_cache,
                    last_out_value >>

\* The console command "red": three value actions, whose results are dropped.
RequestRed(c) ==
    /\ pc[c] = "idle"
    /\ unfinished < MaxUnfinished
    /\ PutAll([i \in 1..Len(RgbPins) |->
                 [kind |-> "value", pin |-> RgbPins[i],
                  value |-> IF i = 1 THEN 1 ELSE 0]])
    /\ UNCHANGED << hw_lock, pc, action, scan, level, value_cache,
                    last_out_value >>

-----------------------------------------------------------------------------
(***************************************************************************)
(* The worker                                                              *)
(***************************************************************************)

\* get_pin_by_id finds a pin.
PinFound(p) == p \in Inputs \cup OutPins \cup AdcPins

\* Mutant of PerformAction: the exception leaves the lock locked.
PerformActionKeepsLock(a, q, lk) ==
    \/ /\ a.kind = "mode"
       /\ hw_lock' = lk
       /\ unfinished' = IF q = << >> THEN unfinished - 1 ELSE unfinished
       /\ Goto(Worker, "w_error")
    \/ /\ a.kind # "mode"
       /\ hw_lock' = lk
       /\ Goto(Worker, "w_yield")
       /\ UNCHANGED unfinished

\* The action a, from the moment the worker has the lock (lk) until it next
\* yields; q is what is left on the queue.
PerformAction(a, q, lk) ==
    \/ \* AttributeError; the lock is released and the error handled.
       /\ a.kind = "mode"
       /\ hw_lock' = Release(lk)
       /\ unfinished' = IF q = << >> THEN unfinished - 1 ELSE unfinished
       /\ Goto(Worker, "w_error")
    \/ \* set_value_async awaits the lock that its caller holds.
       /\ a.kind = "value" /\ a.pin \in OutPins
       /\ hw_lock' = Enqueue(lk, Worker)
       /\ Goto(Worker, "w_inner")
       /\ UNCHANGED unfinished
    \/ \* Ignored: the pin is not GPIO OUT, or has no PWM instance.
       /\ a.kind = "pwm" \/ (a.kind = "value" /\ a.pin \notin OutPins)
       /\ hw_lock' = lk
       /\ Goto(Worker, "w_yield")
       /\ UNCHANGED unfinished

\* get() returns an action; the pin is unknown, or the lock is asked for.
WorkerGet ==
    /\ pc[Worker] = "w_get"
    /\ queue # << >>
    /\ queue' = Tail(queue)
    /\ action' = IF PinFound(Head(queue).pin) THEN Head(queue) ELSE NoAction
    /\ \/ /\ ~PinFound(Head(queue).pin)
          /\ unfinished' = unfinished - 1
          /\ UNCHANGED << hw_lock, pc >>
       \/ /\ PinFound(Head(queue).pin)
          /\ Free(hw_lock)
          /\ PerformAction(Head(queue), Tail(queue), Take(hw_lock))
       \/ /\ PinFound(Head(queue).pin)
          /\ ~Free(hw_lock)
          /\ hw_lock' = Enqueue(hw_lock, Worker)
          /\ Goto(Worker, "w_lock")
          /\ UNCHANGED unfinished
    /\ UNCHANGED << scan, level, value_cache, last_out_value >>

WorkerResume ==
    /\ pc[Worker] = "w_lock"
    /\ Promised(Worker)
    /\ PerformAction(action, queue, Take(hw_lock))
    /\ UNCHANGED << queue, action, scan, level, value_cache, last_out_value >>

\* After sleep_ms(0): leave the lock, task_done(), back to get().
WorkerDone ==
    /\ pc[Worker] = "w_yield"
    /\ hw_lock' = Release(hw_lock)
    /\ unfinished' = unfinished - 1
    /\ action' = NoAction
    /\ Goto(Worker, "w_get")
    /\ UNCHANGED << queue, scan, level, value_cache, last_out_value >>

\* Mutant of WorkerRetry: task_done() once more, as in a "finally".
WorkerRetryAcknowledges ==
    /\ pc[Worker] = "w_error"
    /\ unfinished' = unfinished - 1
    /\ action' = NoAction
    /\ Goto(Worker, "w_get")
    /\ UNCHANGED << hw_lock, queue, scan, level, value_cache,
                    last_out_value >>

\* After the delay of the error path.
WorkerRetry ==
    /\ pc[Worker] = "w_error"
    /\ action' = NoAction
    /\ Goto(Worker, "w_get")
    /\ UNCHANGED << hw_lock, queue, unfinished, scan, level, value_cache,
                    last_out_value >>

-----------------------------------------------------------------------------
(***************************************************************************)
(* The background scan of the input pins                                   *)
(***************************************************************************)

\* update_inputs from the k-th input pin on, with the lock in the state lk.
ScanFrom(k, lk) ==
    IF k > Len(InPins)
    THEN /\ hw_lock' = lk
         /\ Goto(Scanner, "s_sleep")
         /\ scan' = 1
    ELSE /\ EnterLock(Scanner, lk, "s_lock", "s_read")
         /\ scan' = k

ScanStart ==
    /\ pc[Scanner] = "s_sleep"
    /\ ScanFrom(1, hw_lock)
    /\ UNCHANGED << queue, unfinished, action, level, value_cache,
                    last_out_value >>

ScanResume ==
    /\ pc[Scanner] = "s_lock"
    /\ Promised(Scanner)
    /\ hw_lock' = Take(hw_lock)
    /\ Goto(Scanner, "s_read")
    /\ UNCHANGED pinVars

\* Mutant of ScanRead: every other pin is left out.
ScanReadSkips ==
    /\ pc[Scanner] = "s_read"
    /\ value_cache' = [value_cache EXCEPT ![InPins[scan]] =
                                                       level[InPins[scan]]]
    /\ ScanFrom(scan + 2, Release(hw_lock))
    /\ UNCHANGED << queue, unfinished, action, level, last_out_value >>

\* read_input_value after its yield: read, release, go on to the next pin.
\* (Pin.value() of the rp2 port does not raise, so that the error value -1
\* does not come up.)
ScanRead ==
    /\ pc[Scanner] = "s_read"
    /\ value_cache' = [value_cache EXCEPT ![InPins[scan]] =
                                                       level[InPins[scan]]]
    /\ ScanFrom(scan + 1, Release(hw_lock))
    /\ UNCHANGED << queue, unfinished, action, level, last_out_value >>

\* The world changes what an input pin reads.
InputChanges(p) ==
    /\ level' = [level EXCEPT ![p] = 1 - @]
    /\ UNCHANGED << hw_lock, pc, queue, unfinished, action, scan, value_cache,
                    last_out_value >>

-----------------------------------------------------------------------------
WorkerStep == WorkerGet \/ WorkerResume \/ WorkerDone \/ WorkerRetry

ScannerStep == ScanStart \/ ScanResume \/ ScanRead

PinRequest(c) == \/ \E a \in ClientActions : RequestAction(c, a)
                 \/ RequestRed(c)

PinNext ==
    \/ WorkerStep
    \/ ScannerStep
    \/ \E c \in Clients : PinRequest(c)
    \/ \E p \in Inputs : InputChanges(p)

PinSystemInit ==
    /\ hw_lock = NewLock
    /\ pc = [t \in Tasks |-> IF t = Worker THEN "w_get"
                             ELSE IF t = Scanner THEN "s_sleep"
                             ELSE "idle"]
    /\ PinInit

pinAllVars == << hw_lock, pc, pinVars >>

PinSpec ==
    /\ PinSystemInit
    /\ [][PinNext]_pinAllVars
    /\ WF_pinAllVars(WorkerStep)
    /\ WF_pinAllVars(ScannerStep)

-----------------------------------------------------------------------------
(***************************************************************************)
(* Properties                                                              *)
(***************************************************************************)

PinTypeOK ==
    /\ hw_lock \in Locks
    /\ pc[Worker] \in {"w_get", "w_lock", "w_inner", "w_yield", "w_error"}
    /\ pc[Scanner] \in {"s_sleep", "s_lock", "s_read"}
    /\ queue \in Seq(Actions) /\ Len(queue) <= QueueSize
    /\ unfinished \in Nat
    /\ action \in Actions \cup {NoAction}
    /\ scan \in 1..(Len(InPins) + 1)
    /\ level \in [Inputs -> Bits]
    /\ value_cache \in [Inputs -> Bits]
    /\ last_out_value \in [OutPins -> Bits]

\* The worker waits for a lock that it holds itself.
Wedged == pc[Worker] = "w_inner"

PinHolders ==
    {t \in {Worker, Scanner} : pc[t] \in {"w_inner", "w_yield", "s_read"}}

\* The pin code's use of hw_lock is sound as far as mutual exclusion goes: the
\* lock is locked exactly while one of the tasks is inside "async with", so a
\* pin is never read by the scanner in the middle of a worker's action, and a
\* lock that nobody holds or is promised has no waiters.
PinLockDiscipline ==
    /\ \A t, u \in PinHolders : t = u
    /\ (hw_lock.state = Locked) <=> (PinHolders # {})
    /\ Free(hw_lock) => hw_lock.waiting = << >>
    /\ hw_lock.state \in Tasks =>
          pc[hw_lock.state] \in {"w_lock", "s_lock"}

\* task_done() is never called more often than get(): its ValueError, which
\* the normal path of the worker does not expect, cannot happen.
TaskDoneNeverOverrun ==
    unfinished >= Len(queue)
                   + (IF pc[Worker] \in {"w_lock", "w_inner", "w_yield"}
                      THEN 1 ELSE 0)

\* The lock always comes back, whatever the clients queue, unless the worker
\* waits for itself: an exception in an action does not leave it locked.
LockComesBack == []<>(hw_lock.state # Locked) \/ <>[]Wedged

\* A full queue is read again: clients are not told "Queue full." for ever,
\* unless the worker waits for itself.
FullQueueDrains ==
    (Len(queue) = QueueSize) ~> (Len(queue) < QueueSize \/ Wedged)

\* An input that has settled is what export_state_dict reports in the end,
\* however the scanner and the worker take turns with the lock.
CacheCatchesUp ==
    \A p \in Inputs, b \in Bits :
       <>[](level[p] = b) => <>[](value_cache[p] = b) \/ <>Wedged

\* Stated by set_value_async, "Sets the pin's value (only if in GPIO OUT
\* mode)", and by the comment "No timeout needed if lock usage is correct": a
\* queued 1 for an output pin reaches the pin.
QueuedValueReachesPin ==
    \A p \in OutPins :
       (\E i \in 1..Len(queue) :
           queue[i] = [kind |-> "value", pin |-> p, value |-> 1])
         ~> (last_out_value[p] = 1)

\* The queue stays within its size, whoever is inside has the lock, and no
\* item is acknowledged twice (pico_board.py:105-176), whatever the actions
\* raise.
WorkerIsSound == PinTypeOK /\ PinLockDiscipline /\ TaskDoneNeverOverrun

\* Unless the worker waits for itself, no action that raises keeps the lock,
\* and a full queue is worked off.
WorkerServes == LockComesBack /\ FullQueueDrains
-----------------------------------------------------------------------------
(***************************************************************************)
(* Pins and a queue small enough for TLC: two input pins, so that a scan   *)
(* passes the lock on between two reads; two of the three RGB pins, so     *)
(* that "red" fits in the queue, fits partly and does not fit; an action   *)
(* of each kind the worker treats differently.                             *)
(***************************************************************************)
MCInPins == << 0, 1 >>
MCRgbPins == << 13, 14 >>
MCClientActions ==
    { [kind |-> "mode",  pin |-> 0,  value |-> 0],
      [kind |-> "value", pin |-> 13, value |-> 1],
      [kind |-> "value", pin |-> 26, value |-> 1],
      [kind |-> "pwm",   pin |-> 13, value |-> 0],
      [kind |-> "value", pin |-> 99, value |-> 1] }
=============================================================================
