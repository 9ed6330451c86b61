----------------------------- MODULE BoardTasks -----------------------------
(***************************************************************************)
(* The asyncio tasks of the Digital Twin firmware (pico2w/) and the one    *)
(* lock they share: Pico_board.hw_lock, which every Pico_pin also keeps as *)
(* its _lock.  An action of a module built on this one is what a task does *)
(* from one await that yields to the next.                                 *)
(***************************************************************************)
EXTENDS LockOps

CONSTANTS
    Clients,    \* the handle_client tasks
    Worker,     \* the _process_pin_actions task
    Scanner     \* the background_update_task task

ASSUME BoardTasksAssumption ==
    /\ Clients \subseteq Tasks
    /\ {Worker, Scanner} \subseteq Tasks
    /\ Worker # Scanner
    /\ {Worker, Scanner} \cap Clients = {}

VARIABLES
    hw_lock,    \* Pico_board.hw_lock
    pc          \* where each task is suspended

Goto(t, label) == pc' = [pc EXCEPT ![t] = label]

\* Task t yielded in acquire() and release() has put it back on the run queue.
Promised(t) == ~IsWaiting(hw_lock, t)

\* "async with hw_lock" up to the first await that yields, of a task whose
\* body yields at once: t is now at inside, or waits for the lock at outside.
EnterLock(t, lk, outside, inside) ==
    IF Free(lk)
    THEN hw_lock' = Take(lk) /\ Goto(t, inside)
    ELSE hw_lock' = Enqueue(lk, t) /\ Goto(t, outside)

\* The tasks inside "async with hw_lock", whatever they do there.
Inside ==
    {t \in Tasks : pc[t] \in {"w_inner", "w_yield", "s_read", "read_body",
                              "start_sleep", "stop_sleep", "wifi_sleep"}}

-----------------------------------------------------------------------------
(***************************************************************************)
(* What the scanner does to the lock when it reads a pin, for the modules  *)
(* of the other parts: it takes the lock, yields, and releases it.         *)
(***************************************************************************)
ReadBegins ==
    /\ pc[Scanner] = "idle"
    /\ EnterLock(Scanner, hw_lock, "read_lock", "read_body")

ReadGoesOn ==
    \/ /\ pc[Scanner] = "read_lock"
       /\ Promised(Scanner)
       /\ hw_lock' = Take(hw_lock)
       /\ Goto(Scanner, "read_body")
    \/ /\ pc[Scanner] = "read_body"
       /\ hw_lock' = Release(hw_lock)
       /\ Goto(Scanner, "idle")
=============================================================================
