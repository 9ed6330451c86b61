# A verification project for rpi-pico

This directory models the firmware of this repository in TLA+, checks the models
with TLC on small instances and proves theorems about them with TLAPS. The
repository holds several MicroPython programs for the Raspberry Pi Pico W and a
copy of the MicroPython tree they run on. The largest program is the *Digital
Twin* of `pico2w/`: a web server that shows the board's pins, sets them, and
controls BLE advertising and Wi-Fi, with several asyncio tasks on one hardware
lock. Below it the project models what the programs rest on: asyncio, the
scheduler, PendSV and atomic sections of the rp2 port, TCP sockets, the heap and
the file system. Beside it are the thermostat, the lamp, the encoders and the
infrared receiver.

## 1. Inventory

### The Digital Twin (`src/pico2w`)

| component | state | operations | interacts with |
|---|---|---|---|
| `uasyncio.Lock` (`micropython/extmod/asyncio/lock.py`) | `state` (0, 1 or a task), `waiting` | `acquire`, `release`, `async with` | the loop resumes and cancels its waiters |
| loop and tasks (`core.py`, `task.py`, `funcs.py`) | run queue, `Task.data` | run, `cancel`, throw, `wait_for` | everything |
| pin actions (`pico_board.py`) | `pin_action_queue`, the worker's place | `set_pin_mode`, `set_pin_value`, `set_pwm_params`, `_process_pin_actions` | handlers put, the worker gets under `hw_lock` |
| pins (`pico_pin.py`) | mode, pull, controller, `_value_cache`, `_last_out_value` | `init`, `read_input_value`, `set_value_async` | share `hw_lock` as `_lock` |
| input scanner (`html_controler.py`, `pico_board.py`) | its place in the list of pins | `background_update_task`, `update_inputs` | takes `hw_lock` once per input pin |
| BLE (`pico_board.py`) | `ble`, `_ble_adv_active`, `ble_name`, the radio | `init_ble`, `start_…`, `stop_ble_advertising`, `set_ble_name` | client tasks, under `hw_lock` in part |
| Wi-Fi (`pico_board.py`, `boot.py`) | `ssid`, `password`, the nic | `connect_wifi` | client tasks, under `hw_lock` in part |
| request handler (`request_handler.py`) | none | one handler per path | calls the board |
| web server (`html_controler.py`) | template cache, log buffer | `handle_client`, `load_templates`, `serve_async` | one task per client |
| life cycle (`html_server.py`) | the tasks | `main` with its clean-up | creates and cancels the tasks |
| PWM, ADC (`pico_pwm.py`, `pico_adc.py`) | frequency, duty | setters, conversions | through the pins |
| page (`app.js`) | `boardState`, `isUpdating` | polling, action functions | HTTP |

What is hard here: a task gives way at every `await`, so flags that were read
before an `await hw_lock` are stale after it; the lock is handed over in two
steps (`release()` picks a task, the loop runs it later) and the chosen task may
be cancelled in between; the same lock is taken in nested calls; the clean-up
cancels tasks wherever they are and gives a stop 1 s; a driver call may raise
between two assignments.

What makes the parts correct: the lock excludes, loses no wake-up and is fair;
every error path gives the lock back; the queue's bookkeeping is exact; the flags
the page shows agree with the hardware; every client gets its answer; the
clean-up ends and leaves a quiet board.

### The other programs

| program | state | operations | hard |
|---|---|---|---|
| thermostat (`picow/main.py`) | temperature and its tick, set point, pause, the file | one loop | ticks wrap, power cycles, a press seen over many passes |
| rotary encoder (`rotary.py`, `rotary_irq_rp2.py`) | table state, value | interrupt per edge, `set`, `reset` | bounces, missed edges, range limits |
| infrared receiver (`picow/ir_rx`) | edge times and count, timer | edge callback, timer, decoder | three callbacks on one array, a full scheduler queue |
| lamp (`lampbox/main.py`) | mode, lamp, press | one loop | a button that changes between two reads, ticks that wrap |
| disk motor (`picow/hdd_encoder.py`) | last coil, counter | polling | skipped coils |
| drivers, experiments | none shared | byte-level I/O | nothing concurrent |

### What they run on (`src/micropython`)

| part | state | hard |
|---|---|---|
| run queue (`pairheap.c`, `modasyncio.c`) | an intrusive pairing heap | deletion anywhere, ticks that wrap |
| tasks and loop (`core.py`, `modasyncio.c`) | `Task.state`, `Task.data`, two kinds of queues | one field holds the queue, the task waited on, the exception and the result |
| `wait_for` (`funcs.py`) | caller, runner, awaited task | answer, time limit and cancel in any order |
| `IOQueue` (`core.py`), streams (`stream.py`) | stream map, poller, `out_buf` | two waiters per stream, cancelled and shared writers |
| scheduler (`scheduler.c`) | one variable for state and lock count, ring, node list | interrupts, core 1, finalisers |
| PendSV (`pendsv.c`) | dispatch table, recursive mutex | two cores, interrupts, core 1 stopped |
| atomic sections (`mpthreadport.c`, `mutex_extra.c`) | mutex, interrupt state | threads that start and end within a section |
| TCP sockets (`modlwip.c`) | state, pbuf, ring of connections | callbacks between any two statements outside the lwIP lock |
| heap (`gc.c`) | allocation table, flags, three indexes, mark stack | two cores, in-place growth, overflow of the stack |
| littlefs (`lfs2.c`) | metadata pairs, the threaded list, global state | loss of power between any two writes |

`PROJECT.json` lists all components, with what is modelled of each, and the
hazards, each at its line.

## 2. Modules

    LockOps ──┬── UasyncioLock ── UasyncioLockProofs
              │        └ (refines) Mutex
              └── BoardTasks ──┬── PinActions ──┐
                               ├── BleControl ──┼── PicoBoard
                               └── WifiControl ─┘
    TaskQueue (abstract) <── PairHeap
    PairHeap, IOQueue, StreamOut ── MCQueues
    AsyncioTasks ──┬── AsyncioLoop
                   └── WaitFor
    RecursiveMutex ──┬── Pendsv
                     └── AtomicSection
    AsyncioLoop, Scheduler, Pendsv, AtomicSection ── MCRuntime
    WaitFor, WebServer, PageClient, AcceptQueue, LwipSocket ── MCWeb
    Gc ── MCMemory
    LfsPair, LfsTree ── MCFlash
    HeaterControl, Rotary, IrReceiver, LampBox, HddEncoder ── MCPrograms
    BleControl, WifiControl ── MCRadio
    PicoBoard, MCRadio ── BoardProofs
    HeaterControl, Rotary, LampBox, HddEncoder, IrReceiver ── ProgramProofs
    IOQueue, Scheduler, Pendsv, AtomicSection, StreamOut, LfsPair ── RuntimeProofs
    AsyncioTasks ── TaskLemmas
    AsyncioLoop, TaskLemmas ── AsyncioProofs
    WaitFor, WebServer, PageClient, AcceptQueue, LwipSocket, TaskLemmas ── WebProofs
    Gc, LfsTree ── StorageProofs

The constants of the runs of `PinActions` and `PicoBoard` are at the end of these two
modules.

`MCRadio` and `PicoBoard` are compositions: their components share `hw_lock` and
interleave. `MCPrograms`, `MCQueues`, `MCRuntime`, `MCWeb`, `MCMemory` and `MCFlash`
put components side by side that do not share state: a variable (`program`,
`structure`, `layer`, `stage`, `part`, `level`) is chosen in `Init` and says which of
them runs, against everything its neighbours may do to it; the others stay as
they are. The specification of each component by itself (`PendsvSpec`, `WebSpec`
and so on) is in its own module.

In the modules on asyncio one action is what a task does from one `await` that
yields to the next. asyncio is cooperative, so this is exactly the grain at which
tasks interleave: an `acquire()` of a free lock does not yield, one of a busy lock
does, `sleep_ms(0)` does. Which runnable task runs next is left open; the loop's
order by time is one of the orders allowed.

* **LockOps** has the operators on a lock's record: `Free`, `Take`, `Enqueue`,
  `Release`, `Dequeue`, `Abandon`, which all users of a lock share. The waiting
  queue is a sequence: asyncio's `TaskQueue` is a pairing heap ordered by the tick of the
  push, which PairHeap shows to be a stable queue. (Ticks wrap; the order would be
  wrong only for waiters that have waited more than 2^29 ms, about six days.)
* **UasyncioLock** lets tasks acquire and leave the lock and be cancelled at any
  await. `lock.state` has the three kinds of values of the source. A task that
  `release()` has chosen is off the queue but not inside yet; that state is where
  the subtle cases are.
* **Mutex** is the abstract specification: a set of holders and a sequence of
  requests, granted in order, possibly withdrawn.
* **BoardTasks** names the tasks of the firmware and declares `hw_lock` and `pc`;
  `Inside` are the tasks between taking and giving back the lock.
  `ReadBegins` and `ReadGoesOn` are what the scanner does to the lock, for the BLE
  and Wi-Fi modules when they run without PinActions.
* **PinActions** has the queue, the worker (`WorkerGet`, `WorkerResume`,
  `WorkerDone`, `WorkerRetry` and, shared by two of them, `PerformAction`), the
  scanner (`ScanStart`, `ScanResume`, `ScanRead`) and the client's requests.
  The mode of a pin is a constant: only `Pico_pin.init` could change it, and the
  worker's call of it evaluates `Pico_pin.str_to_mode`, which is commented out
  (`pico_board.py:392-396`), so it raises `AttributeError` first. `uasyncio.Queue`
  is not part of the MicroPython tree here; it is modelled as the code uses it. The
  same holds of `uasyncio.iscoroutinefunction`, which `request_handler.py:75` asks
  whether to await a method: with the tree here that raises `AttributeError` and
  every request to the board ends in "Internal error". The requests of the three
  modules are those of a MicroPython that has it. `Pin.value()` of the rp2 port does
  not raise, so that `ScanRead` has no error value.
* **BleControl** has the three BLE operations. `StartFrom` and the operators
  around it take the lock's state as an argument because `init_ble` and
  `start_ble_advertising` may release and take the lock in one step.
  `GapFails` says whether driver calls may raise.
* **WifiControl** has `connect_wifi`. The nic is external: `target` is the
  network it was last told to join, and the link comes and goes by itself.
* **PicoBoard** puts all of them on one lock and adds `main()`: the interrupt, the
  cancellations, the 200 ms, `wait_for` with its time-out, the end of the loop. A
  `KeyboardInterrupt` reaches `main()` only if `main()` is the task that is
  running; otherwise it leaves `run_until_complete` (`InterruptLoop`). Time is not
  modelled, except that the 200 ms are longer than the 10 ms sleeps that began
  before them (`due`). The input levels stay as they are in this module: nothing
  but the cache depends on them.
* **PairHeap** is `pairheap.c` field by field (`child`, `child_last`, `next` with
  the mark of the rightmost child) with the order of `modasyncio.c`;
  **TaskQueue** is what it promises. Time is bounded by `MaxTime`, and keys are at
  most `MaxAhead` ahead and `MaxLate` behind, on a clock of `Period` 8 that wraps
  during the run.
* **AsyncioTasks** has the operators on the tasks' fields (`Push`, `Cancel`,
  `Finish`), **AsyncioLoop** lets three tasks create, await and cancel one another,
  **WaitFor** puts `wait_for` and its runner on the same operators, with a stream
  that gets ready at any time and another task that cancels the caller.
* **IOQueue** is the class of that name with its poller. **StreamOut** is a stream's
  output buffer; bytes are numbered, so that what is lost or doubled shows.
* **WebServer** is `handle_client` between its awaits and the template cache. The
  requested path is one of the routes. `Raises` is an exception other than
  `OSError`; its handler fails in turn, because `Stream` has no `is_closing`.
  `PeerFallsQuiet` is the peer's: from then on it sends no lines and takes what it is
  sent, or is gone.
* **PageClient** is `app.js`: versions of the board's state stand for its content.
  No script or page defines `logToConsole`, so that a call of it throws: after a
  fetch that fails `isUpdating` stays set and polling goes on (`FetchFails`), no
  action is followed by its refresh (`ActionReturns`), and `setWifi` does not stop
  the polling. `failed` is a history variable.
* **Scheduler** is `scheduler.c` and the VM's check, with a hard interrupt, core 1
  and finalisers; atomic sections are atomic steps, which AtomicSection is about.
* **Pendsv** and **AtomicSection** are at the grain of single reads of the shared
  variables. A reset of core 1 (`mp_thread_deinit`) is a step of core 0.
* **AcceptQueue** is the ring of connections of a listening socket, **LwipSocket**
  a TCP socket between its looks at the state; lwIP's callbacks come whenever the
  code does not hold the lwIP lock.
* **Gc** has two parts. The first is the allocation table with blocks of four kinds,
  its indexes and its mutex; contents are left out, so a collection frees any objects
  that are not in use. The second has the contents, a mark stack of one entry and
  every heap of five blocks with at most three pointers. `gc_enable` and `gc_disable` are actions;
  a collection because of the threshold is one the program makes itself, and a
  `gc_realloc` that may not move its object changes nothing where it would have to.
* **LfsPair** is one metadata pair, with the program and erase operations of a
  commit and of a compaction as steps that power may fail between. **LfsTree** is
  the tree of directories at the grain of whole commits, which LfsPair shows to be
  atomic, with the threaded list, the global move state and the repair of the next
  write after a mount. Programs are taken not to move a directory below itself,
  which littlefs does not check.
* **HeaterControl**, **LampBox**: one pass of the loop is one or two actions, where
  the button may change between two reads; tick counters have a small period.
* **Rotary** has both tables, a shaft in quarter turns and interrupts that lag
  behind it. **HddEncoder** polls three coils. **IrReceiver** has the edge
  interrupt, the alarm and the scheduler's queue between them and the callbacks, and
  three decoders: NEC, and `IR_GET` with and without its display.

## 3. Runs

Every run explores all its states. A component's promise is mostly one property
whose parts are named in its module, each with its own comment; section 5 refers
to the parts. Passing runs:

| run | bounds | what it shows |
|---|---|---|
| `lock` | 4 tasks; 623 states | `MutualExclusion`, `NoLostWakeup`, `EveryWaiterServed`, `ImplementsMutex`. Four tasks give a holder, a chosen task and two waiters, so that a waiter can be cancelled in front of and behind another one. |
| `pins` | 1 client, 2 inputs, 2 outputs, a queue of 2; 62,720 states | `WorkerIsSound`: lock discipline, `task_done()` never too often. Unless the worker deadlocks, the lock comes back and a full queue drains (`WorkerServes`) and the cache follows the inputs (`CacheCatchesUp`). One client is enough because a request is one step; a queue of 2 makes "red" fit, fit in part and not fit. `MaxUnfinished` bounds the count that the failing error path lets grow. |
| `radio` | 3 clients, the scanner, 2 names, 2 networks, nic errors; 676,788 states | BLE and Wi-Fi under the one lock. The flag is exact outside the 10 ms windows (`FlagTracksRadio`), clients use the radios one at a time and advertise once (`OneRadioUser`), the nic joins the network asked for last (`NicJoinsReportedSsid`), `RequestsAnswered`. Three clients give one inside, one chosen, one waiting; with two names and two networks a request can overtake one for another. |
| `board` | 2 clients, stop task, worker, scanner, main, BLE errors; 236,664 states | The lock's promise with all its users, interrupts and cancellations (`BoardLockHolds`); no error leaves a flag that says advertising while the radio is off (`FlagOutlivesErrors`); `AnsweredUnlessWedged`; the end of the clean-up, also out of the worker's deadlock (`ShutdownCompletes`). |
| `programs` | see `Programs.cfg`, interrupts up to 3 edges late; 901,876 states | *Rotary* (`CountsTurns`): with edges that bounce a detent counts once, in the right direction; with edges served late it counts only at a detent and never against the last movement; values stay in range. *Thermostat*: it heats only on a recent temperature and not in a pause (`HeatsSafely`), a press toggles once (`LongPressToggles`), the set point survives power cuts (`TargetSurvivesRestart`). *Infrared* (`BurstsAreDecoded`): a result is one whole burst, what is stored has a decoder on its way, and the receiver gets ready again unless it has gone deaf. *Lamp* (`PressesSwitchLamp`): the lamp agrees with the mode, a press acts once and by its length. *Disk motor* (`CountKeepsPhase`): exact unless a coil is missed, and then wrong by whole turns. |
| `queues` | heap: 4 nodes, clock of period 8 that wraps; I/O: 3 tasks, 2 streams; output: 2 writers, 4 bytes; 198,284 states | The pairing heap implements `TaskQueue` (`HeapImplementsQueue`); map and poller agree and name the waiters (`WaitersAreWatched`); what is written goes out once, whole and in order (`SentOnceInOrder`). Four nodes are the fewest in which an inner child with siblings on both sides is deleted. |
| `runtime` | 3 tasks, 2 cancels; a ring of 2, 2 nodes; 2 slots, 2 interrupts; sections 3 deep; 99,809 states | *Loop*: a task is on one queue, links of awaits hold, cancels and results arrive (`TasksAreConsistent`, `ResultsReachWaiters`). *Scheduler*: the lock count is exact, nothing scheduled is forgotten, the ring is first in first out at its limit (`ScheduleIsKept`), calls are made (`CallsAreMade`). *PendSV* (`SlotsAreDispatched`): the handler is alone, slots are served, a suspend returns. *Atomic sections* (`SectionsAreAtomic`) exclude one another, are left as they were entered, are entered. |
| `web` | 2 calls of `wait_for`, time limit 2; 2 clients; 2 actions; 4 connections, backlog 3; 4 bytes in, 2 out; 142,060 states | A page never shows an older state, and catches up until one of its fetches fails (`PageFollowsBoard`); the ring of connections is exact and served (`WaitingAreServed`); the stream arrives in order and ends after its data (`StreamIsDelivered`); a call of `wait_for` ends as it should and leaves no reader behind (`AnswerLimitOrCancel`); an answer is what its head announced, and connections are closed unless peer or handler hold them up (`AnswersAreWhole`). |
| `memory` | 2 threads, 4 blocks, objects of up to 2; collection: 5 blocks, 3 pointers, stack of 1; 879,688 states | `HeapIsSound`: the table is the objects that exist, with their finaliser flags; the search indexes skip nothing free and sweep covers all; an allocation is refused only if no gap fits. `CollectionIsExact`: a collection keeps exactly what is reachable, through overflows of the stack, and ends. |
| `flash` | pair: 2 files, 2 values, 2 commits per block, revisions of 3 bits; tree: 2 directories, 2 entries each, 7 operations; 103,621 states up to symmetry | After a loss of power at any write a mount finds the old or the new content (`PairSurvives`) and tree, and the next write finds the orphans (`TreeSurvives`). Three bits let the revision wrap within a few compactions. |

Runs that refute what the repository says of itself (see `findings`):

| run | property | what happens |
|---|---|---|
| `pin_value` | `QueuedValueReachesPin` | The worker takes `hw_lock` and awaits `set_value_async`, which awaits it again: the first value for an output pin stops the worker and, with it, everything that needs the lock. |
| `cleanup` | `SilentAfterCleanup` | A start is in its 10 ms window when the clean-up calls `stop_ble_advertising`: the stop sees the flag unset and returns, and the radio goes on. |

Deadlock is checked in every run. Where a component may rest (no interrupt comes,
the program does something else) it has an explicit stuttering action for that
(`Quiet`, `Other`, `Nothing`, `Closed`, `Ended`), so that a component that is stuck
shows in the temporal properties. The worker's deadlock on itself is of this kind:
it does not stop the other tasks' steps.

**Symmetry** is used in `queues` (nodes of the heap) and `flash` (names,
directories other than the root, files, values): none of these is told apart by the
code, and neither run has a liveness property.

**Fairness.** `run_until_complete` runs every task on its run queue in the order of
time, and every sleep ends, so each task's continuation is weakly fair. Clients
need not send requests, inputs need not change, the link need not come up (the
poll of `connect_wifi` has a time-out) and interrupts need not come: none of these
is fair. In `lock`, the body of the `async with` is assumed to end, which is the
obligation of the lock's users; the other runs check it. In `AsyncioLoop` a task
that runs again and again ends some time (strong fairness, because it is not
always the running one). In `PageClient` the interval goes on, and a fetch is answered
if it does not fail. In `WebServer` the request line has its time limit; header lines
have one each, but no limit in number, and writes have none, so that routing and
sending are fair only once the peer has fallen quiet (`RoutesQuiet`, `SendsQuiet`).
That a handler returns is not assumed there: the worker's deadlock keeps it waiting
for `hw_lock`. The cores in `Pendsv`, `AtomicSection` and the
collector go on with what they do; the mutexes there are spin locks, for which
weak fairness is enough only because the other core's sections are bounded
(`MaxSuspends`, `MaxSections`).

**Bounds.** All `Max…` constants are named bounds on counters that only grow in the
code (time, cancels, bytes, interrupts, versions) and stand in guards of the
environment's actions. Tick counters have a small period (`HeaterPeriod`,
`LampPeriod`, `Period`) so that they wrap during the run.

**Mutants.** Next to the definitions are mutated forms of them, one for each
property of each passing run (a dropped re-check, a lock kept on an error path, a
promise not passed on, an off-by-one in a ring). Replacing the definition by its
mutant makes the property fail.

## 4. Proofs

Eight modules hold theorems. All of them are about every value of the constants
that satisfies the named assumptions of the modules; the `Max…` constants are
arbitrary, so that a theorem says of the code what the run says up to a bound.

**The lock by itself.** `UasyncioLockProofs` proves, for every set of tasks that
does not contain the values 0 and 1 (`TasksAssumption`), the safety properties of
the lock. They are not inductive by themselves: that a resumed task finds nobody
inside follows from the lock being promised to it, which follows from its not being
on the queue, which needs the queue to be exact. `Inv` is their conjunction with the
type invariant and `NoStaleCancel`; `InitInv` and `NextInv` show that it is inductive,
one step per action. `TypeCorrect`, `MutualExclusionHolds`, `LockedIffInBodyHolds`,
`NoLostWakeupHolds` and `QueueIsExactHolds` follow from `InvHolds`.
`ImplementsMutexHolds` is `Spec => ImplementsMutex`. The mapping takes the chosen
task as the first request: `release()` is the abstract Leave, the resumption is
the Grant, and a cancellation is a Withdraw of a request in the queue or, when the
promise is passed on, of the first one. `RefinesNext` goes through the actions
under `Inv`; `InFront`, `AppendInFront` and `HeadInFront` are the facts about
sequences it needs.

**The lock with any users.** `BoardProofs` begins with what the operators of
`LockOps` do to `LockOK(lk, In, Out, Gone)`: `In` are the tasks inside, at most one; `Out` those that
sleep in `acquire()`; the queue holds each of `Out` once, except the task the lock is
promised to; a lock that is neither taken nor promised has an empty queue; `Gone` are
the tasks with a cancellation pending, which `Task.cancel()` has taken off it. One lemma
per operator (`TakeFreeOK`, `EnqueueOK`, `TakePromisedOK`, `ReleaseOK`, `CancelOK`,
`LeaveOK`, `AbandonOK`) carries it over a step of any user.

**The firmware.** `BoardProofs` instantiates `LockOK` with the tasks whose label is
between taking and giving back `hw_lock` (`LockKept`).

* `RadioInv` adds, for the composition of BLE and Wi-Fi: the flag is exact unless the
  task inside is in its 10 ms (`BleFlag`); what was read of the flag before the lock
  was awaited is not used, because the code reads it again; and as long as nobody
  is on the way to the nic it has the `ssid` set last. From it follow `FlagIsHonest`,
  `LastConnectWins` and `RadioIsShared`.
* `PinInv` adds the queue of pin actions with the number of unfinished items
  (`PinData`) and the labels that worker and scanner may be at; `WorkerStaysSound`.
* `BoardInv` is over all tasks at once, with `cancelled` as `Gone`. The flag's
  exactness is kept as `GivenUp \/ BleFlag`: only a `stop_task` that is cancelled in
  its 10 ms breaks it, which is the exception `FlagOutlivesErrors` states.
  `BoardLockIsKept` and `ErrorsKeepFlagHonest` follow.

**The other programs.** `ProgramProofs`: `HeaterInv` relates the ticks read to the
true ages of the temperature and of the press, which the program cannot see
(`TicksTellAge`, `PressIsTimed`), bounds the age by the place in the loop
(`FreshByStep`) and says that the file holds the set point unless a save failed
(`SavedIsTarget`); from it `HeaterIsSafe`, `HeaterLongPress`, `HeaterTargetSurvives`.
`LampInv` relates `button_start` to the length of the press; `TicksDiffIsHeld` is the
arithmetic of `ticks_diff` across the wrap. `HddInv` relates the last coil to the
shaft modulo 3. Their theorems are `LampSwitches` and `HddCounts`. `RotaryInv`
(theorem `RotaryCounts`) says what a state of the tables stands for: how far the shaft
is from the detent counted last, exactly so while no edge was missed (`FullExact`,
`HalfExact`), and otherwise only which phases, modulo 4, it can have been read at
(`LastReading`). `FullTable` and `HalfTable` go through the tables row by row;
`WrapFacts` and `BoundFacts` are the arithmetic of the range. `IrInv` is inductive as
it stands: what was stored belongs to the burst under way, and its decoding is on its
way unless the receiver is deaf in one of the three ways of section 5
(`BurstsStayWhole`).

**What they run on.** `RuntimeProofs`:

* `IOQueueInv`: map and poller agree, and the tasks that lost their registration to
  the cancellation of another one still wait (`OrphansWait`). `IOWaitersAreWatched`.
* Scheduler: three invariants that need one another little. `SchedLockInv` counts the
  holders of the lock against the state variable; `SchedRingInv` relates indexes
  modulo `Depth` to the sequence of calls due (`RingPlacesDiffer` is the fact that no
  two of at most `Depth` places coincide); `SchedListInv` says that the links spell a
  sequence that has each queued node once (`ListOf`, `ListGrows`, `ListShrinks`).
  `SchedulerIsKept`.
* `PendsvInv` and `HandlersAreAlone`: who has the mutex, at every place a core can be
  at, the reset of core 1 included.
* `AtomicInv` and `SectionsAreExclusive`: core 0 may have fewer locks on the mutex
  than open sections, because an inner section that begins after the end of the
  thread takes none and its end gives one back; while core 1 runs there are exactly
  as many. Core 1 has as many as it has open sections unless it was reset in one.
* `StreamInv` and `StreamIsSentInOrder`: unless a drain was cancelled or shared, what
  was sent, followed by what the one drain has not sent yet and what was written
  behind it, is everything written, in order.
* `PairInv` and `DirectorySurvives`: one block is live, in that it can be read and, if
  the other can be read too, has the revision after that one's (`Live`). A mount takes
  it, also where the count wraps (`NextIsNewer`, `FetchesLive`). While the driver works
  its block is the live one and reads as the directory known to callers, with the
  change from the step that writes the CRC on; every other step leaves its log alone
  (`SameLive`). What a log reads as needs the last commit that sets a file, and so the
  fact that a bounded set of numbers has a greatest element (`GreatestOf`, from the
  library's theorem that `<` is well-founded).

**asyncio.** `TaskLemmas` is about any set of tasks, whatever they do. It has what each
operator of `AsyncioTasks` does to two things. One is `LoopOK`, the consistency of the
queues and of the links that a run checks, in the form in which a step can be shown
to keep it. Two facts are needed for it. `cancel()` follows the links from a task to
the one it waits for, and that walk has an end: the links can be ranked (`Ranked`),
each step that adds one keeps a ranking (`RankedGrows`), and an induction over ranks
shows that `CancelTarget` exists. And the splice of a queue that the end of a task
wakes into the run queue keeps every task in one place (`PlacesAre`). The other is the
order of the run queue: it is sorted by key (`InOrder`), a task that is pushed goes
behind those with the same key or an earlier one and in front of the others
(`Inserted`), and what is in front of another task stays so until one of the two is
taken off (`Before`). The last section says the same from
where one task stands (`ResumedEffect`, `CancelEffect`, `FinishEffect` and so on).

`AsyncioProofs` has the loop. `LoopInv` has three parts: `LoopOK`; `HistoryOK`, what a
task's `state` and `data` say of its past; and `CurOK`, about the running task.
`TasksStayConsistent` is `TasksAreConsistent`; `HandlerSparesAwaited` says that the
exception handler is only given exceptions that nobody has awaited.

**The web server and its sockets.** `WebProofs`:

* `AcceptInv` (`RingStaysInOrder`): `RingOK` relates the array, its two indices and
  the states of the connections to the order of their arrival, by the arithmetic of
  the slots modulo the size of the ring; a connection that fails shifts those behind
  it by one slot each.
* `WaitForInv` (`CallsEndRight`), for any number of calls and any time limit: a call is
  in one of four phases. `Fresh`: the runner has not run yet. `Reading`: the runner
  awaits the reader. `Woken`: the reader has ended and the runner has not told the
  caller. `Finished`: both have ended, and what the caller has got or will be thrown
  agrees with it. That an answer in time is never a time-out needs the order of the
  run queue: the runner is in front of the caller when it is made and again when the
  reader's end wakes it before the limit, so it cancels the caller's sleep before the
  loop can run the caller at the limit. The tasks of earlier calls have ended
  (`OthersOK`), and nobody but caller and runner awaits anybody (`Links`).
* `FilesOK` and `ClientsOK` (`AnswersStayWhole`): the cache holds all files or none,
  and what a client was promised in the head of a response is what it has been sent
  and has still to get.
* `PageInv` (`PageNeverGoesBack`): at most one fetch is under way, and none without
  `isUpdating`, which stays set when it fails (`OneFetch`); what it brings lies between the state that is shown and the
  board's (`Between`).
* `SocketInv` (`StreamStaysInOrder`): the segments that wait are runs of consecutive
  bytes, each beginning where the one before ends (`Chained`). That they flatten to
  one run (`FlattenIs`) would be an induction over their number; it is shown by
  looking at the first place where the two sequences would differ.

**Memory and flash.** `StorageProofs`:

* `HeapInv` (`HeapStaysSound`): objects do not overlap (`Apart`), the table is the one
  they spell (`TableOf`), no two calls under way hold the same object (`CallsOK`),
  nothing free is below the index at which a search begins nor anything used above
  the one at which a sweep ends, and finaliser flags are on heads only.
* `MarkInv` (`CollectionKeepsTheLive`): the live objects are the least set that
  has the root and what its members point to. Only live objects are marked; and a
  marked object has its children marked (`Dark`), or is on the mark stack, or is ahead
  of the scan, or the overflow flag is set. When marking ends, nothing but the first
  is left, so that the marked set is closed and hence the live one. For the sweep, the
  part done is as it has to be and the part ahead as marking left it.
* `TreeInv` (`TreeStaysWhole`): the threaded list and the tree are least closed sets
  of directories (`IsClosure`), which `Closure` computes in as many rounds as there
  are directories. The list is a line; directories of the tree have one entry each;
  the shares of the global state on the list sum up to it (`Shares`, by the parity of
  the holders); what is on the list alone is empty. `Phase` says which of these is
  between two commits, in an insertion, a drop or a removal. `DropLeaf`, `Bypass`,
  `AddLeaf`, `AddBetween` and `MoveEdge` are the facts about closures under a change
  of one edge.

**Parts of properties.** Where a run's property has a liveness part, the theorem states
the other one: `HandlersAreAlone` of `SlotsAreDispatched`, `SectionsAreExclusive` of
`SectionsAreAtomic`, `HandlerSparesAwaited` of `ResultsReachWaiters`,
`AnswersStayWhole` of `AnswersAreWhole`, `PageNeverGoesBack` of `PageFollowsBoard`,
`StreamStaysInOrder` of `StreamIsDelivered`, `RingStaysInOrder` of
`WaitingAreServed`, `CallsEndRight` of `AnswerLimitOrCancel`, `BurstsStayWhole` of
`BurstsAreDecoded` and `CollectionKeepsTheLive` of `CollectionIsExact`.

**Only model-checked.** Liveness everywhere: fairness and ENABLED are out of the
proof system's reach. `HeapImplementsQueue`: the pairing heap is a tree of any
shape, and what it does to one is an induction over it.

## 5. Where the code falls short

Besides the two findings, modelling met places where the code does not do what
its comments or documentation say. The properties of the passing runs state the
exception where there is one, so that they hold of the code as it is.

| where | what happens | how the property treats it |
|---|---|---|
| `pico_board.py:167` | A failed pin action is acknowledged only if the queue is empty at that moment ("Ensure task_done is called if get() succeeded but processing failed"), so a `join()` would never return. | `TaskDoneNeverOverrun` is the other direction. |
| `pico_board.py:369` | A rename during the 10 ms of a start sees the flag unset and does not restart: the board advertises its old name. | `FlagTracksRadio` is about the flag. |
| `pico_board.py:353-364` | A stop that `wait_for` cancels in its 10 ms leaves the flag set with the radio off. | excepted in `FlagOutlivesErrors`. |
| `html_server.py:121` | A `KeyboardInterrupt` reaches `main()` only while `main()` runs; otherwise it leaves `run()` and no clean-up is made. | `InterruptLoop` is an action of PicoBoard. |
| `html_controler.py:547` | The handler of unexpected errors calls `writer.is_closing()`, which `Stream` does not have: no 500 is ever sent. | `ConnectionCloses` holds all the same. |
| `html_controler.py:378` | Each header line has a time limit, their number has none: a client that keeps sending them is read from without end. | `ConnectionCloses` is about peers that have fallen quiet. |
| `pico_board.py:140` | A `/ble/` or `/wifi/` handler waits for the lock that the worker of the finding `pin_value` keeps; its connection stays open. | excepted in `ConnectionCloses` and `AnsweredUnlessWedged`. |
| `request_handler.py:75` | `uasyncio.iscoroutinefunction` is not in the asyncio of this tree. | Requests are modelled as if it were. |
| `app.js:78`, `:334` | `logToConsole` is not defined. A fetch of the state that fails throws out of `refreshBoardState` before `isUpdating` is cleared and before polling is stopped ("Stop polling if connection seems lost"): the page polls for ever and never refreshes again. | excepted (`failed`) in `ShownCatchesUp`. |
| `app.js:56`, `:88` | The answer to an action always carries a message, which throws at the same place: actions do not "then trigger a UI refresh". | `ShownCatchesUp` holds by the next poll. |
| `app.js:147` | `setWifi` throws before it stops the polling. | Its request is part of `Idle`. |
| `app.js:109` | A second click toggles the state shown, not the pin's. | `BoardSets` sets the value the page asked for. |
| `picow/main.py:120` | Raw ticks are compared: after the wrap no temperature is read for a whole period of 12.4 days, while the heater stays as it is. | `FreshWhileHeating` is stated for the first period. |
| `picow/rotary.py:41` | The half-step table counts in the direction opposite to the full-step table. | `CountsDetents` has the direction of the table. |
| `ir_rx/acquire.py:26` | Noise leaves the edge counter as it is; no later burst starts the timer. | excepted in `ReadyAgain` and `StoredEdgesAreDecoded`. |
| `ir_rx/acquire.py:30`, `:82` | With its display, `IR_GET` raises on a burst whose second pulse is longer than 10 ms, because a single pulse is left of it: `do_callback` is not reached, with the same result. | the same. |
| `machine_timer.c:49` | A full scheduler queue loses the receiver's decoding, with the same result. | the same. |
| `lampbox/main.py:55` | A press that begins at tick 0 is never a long one. | excepted in `PressByLength`. |
| `hdd_encoder.py:26` | Coils passed between two polls are folded into a turn. | `ErrorIsWholeTurns` |
| `asyncio/core.py:185` | A task that failed, and was awaited after its end but before the loop ran it once more, loses its exception for later awaits. | excepted in `EndedKeepsResult`. |
| `modasyncio.c:209` | A cancel may be forwarded to the running task, where it is lost. | excepted in `CancelIsDelivered`. |
| `asyncio/funcs.py:14` | The runner of a `wait_for` that was cancelled may cancel a later sleep of its caller. | The web server ends its task on a `CancelledError`. |
| `asyncio/core.py:109` | Cancelling one waiter of a stream takes the other one off the poller. | excepted in `WaiterIsRegistered`. |
| `asyncio/stream.py:88` | A cancelled `drain()` leaves bytes to be sent twice; one shared by two tasks drops what the other wrote. | excepted in `StreamIsWhole` and `NothingDropped`. |
| `pendsv.c:133` | A slot filled by an interrupt that the handler has already passed waits for the next interrupt or resume. | excepted (`nested`) in `DispatchHappens`. |
| `mpthreadport.c:88` | Core 1 is reset wherever it is: it may keep `pendsv_mutex` or `atomic_mutex`. | excepted in `SuspendReturns`, `NothingIsLeftLocked`, `SectionIsEntered`. |
| `modlwip.c:357-361` | Closing a listening socket frees no connection if the backlog is 1, and skips one when the abort shifts the ring. | `RingHoldsWaiting` is about open sockets. |
| `modlwip.c:787` | A non-blocking `recv()` may report the end of the stream when the last data has just come. | excepted in `EofAfterData`. |
| `modlwip.c:684`, `:820` | The state is checked outside the lwIP lock; a reset in between leaves a NULL pcb. | The call ends in state `crashed`, from which the socket does nothing more. |
| `modlwip.c:753` | After the last retry without memory `send()` reports bytes that were not queued. | `out` and `reported` differ. |
| `modlwip.c:1156` | A peer that accepts and closes at once makes `connect()` look up an error for a state that is not one. | part of `ConnectEnds`. |

## 6. Not modelled

`src/micropython` is a copy of the MicroPython tree: 2,175 C files with some 530,000
lines, against some 4,200 lines of it that the modules here translate (of
`gc.c`, `lfs2.c`, `modlwip.c`, `scheduler.c`, `pairheap.c`, `modasyncio.c` and the files
of the rp2 port named above). Most of the rest is not part of this firmware: the
other ports and their vendor libraries, register headers of other processors,
drivers for other boards. What is part of it is mostly sequential processing of
data of any size (compiler, virtual machine, number and string types, format
parsers), where a small instance shows little and a faithful translation would be
the interpreter over again. The modules take the parts in which several actors, a
loss of power or a limit meet. Of the libraries that are within reach and left out:

* `oofatfs`: the board's file system is littlefs;
* `modbluetooth.c` and the BLE stack below it: the firmware uses one call of it,
  `gap_advertise`, whose effect is in BleControl;
* littlefs below and beside the directories: block allocation, file data,
  directory splits, relocation of worn blocks; LfsTree takes it that programs do
  not move a directory below itself, which littlefs does not check;
* of asyncio what the programs do not use: `gather`, `Event`, `ThreadSafeFlag`;
* UDP and raw sockets; lwIP itself, whose callbacks are the environment;
* the garbage collector's other areas (`MICROPY_GC_SPLIT_HEAP` is set only with PSRAM).

Of the programs: the parsing of requests and the log buffer (they share no state
with the lock's users); the drawing of the page, whose script ends with a stray
`</script>` that a browser refuses and the module leaves out; PWM, because no pin
ever gets a `pwm_instance`; the conversions of the ADC and the thermistor; the
protocols of the infrared decoders other than NEC, which differ in pulse widths;
`hdd_encoder_interupt.py`, which stops at a missing import; the drivers and
experiments, each a script with one device. Real time is modelled only where a
limit depends on it (`WaitFor`, the programs with ticks).

## 7. Plan

What is left is `HeapImplementsQueue` for heaps of any size, when a prover for
structural induction is at hand.
