------------------------------- MODULE IOQueue -------------------------------
(***************************************************************************)
(* The queue of the tasks that wait for a stream, class IOQueue of         *)
(* extmod/asyncio/core.py, and the poller it keeps in step.                *)
(*                                                                         *)
(* A stream has at most one task that waits to read and one that waits to  *)
(* write.  The poller reports the events it was asked for, and an error or *)
(* a hang-up also when it was not.                                         *)
(***************************************************************************)
EXTENDS Integers, FiniteSets

CONSTANTS Tasks, Streams, NoTask

ASSUME IOQueueAssumption == NoTask \notin Tasks

Directions == {"read", "write"}

VARIABLES map,      \* the task that waits on a stream in a direction
          poller,   \* the events a registered stream is polled for
          waiting,  \* what a task waits for, since its queue_read or
                    \* queue_write and until it is woken or cancelled
          orphans   \* tasks whose entry another task's cancel dropped
ioQueueVars == <<map, poller, waiting, orphans>>

Nothing == [s \in {} |-> {}]
Idle == [stream |-> "none", dir |-> "none"]
-----------------------------------------------------------------------------
IOQueueInit == /\ map = Nothing /\ poller = Nothing
               /\ waiting = [t \in Tasks |-> Idle]
               /\ orphans = {}

Without(f, s) == [r \in DOMAIN f \ {s} |-> f[r]]
With(f, s, v) == [r \in DOMAIN f \cup {s} |-> IF r = s THEN v ELSE f[r]]

Waits(entry) == {d \in Directions : entry[d] # NoTask}

\* _enqueue, for a task that runs.  Its assertions are the guard: nobody
\* else waits for the stream in that direction.
Enqueue(t, s, d) ==
    /\ waiting[t] = Idle
    /\ s \in DOMAIN map => map[s][d] = NoTask
    /\ LET old == IF s \in DOMAIN map THEN map[s]
                  ELSE [e \in Directions |-> NoTask]
       IN  map' = With(map, s, [old EXCEPT ![d] = t])
    /\ poller' = With(poller, s,
                      IF s \in DOMAIN map THEN Directions ELSE {d})
    /\ waiting' = [waiting EXCEPT ![t] = [stream |-> s, dir |-> d]]
    /\ UNCHANGED orphans

\* remove, when a waiting task is cancelled: every entry that names the task
\* is dropped, with the stream's registration, and with the other task that
\* the entry may name: no event of the stream reaches that task any more.
RemoveWaiter(t) ==
    /\ waiting[t] # Idle
    /\ LET gone == {s \in DOMAIN map : \E d \in Directions : map[s][d] = t}
       IN  /\ map' = [s \in DOMAIN map \ gone |-> map[s]]
           /\ poller' = [s \in DOMAIN poller \ gone |-> poller[s]]
           /\ orphans' = (orphans \ {t})
                  \cup ({map[s][d] : s \in gone, d \in Directions}
                           \ {t, NoTask})
    /\ waiting' = [waiting EXCEPT ![t] = Idle]

\* Mutant of Keep: the entry is dropped with the first event.
KeepNone(s, entry) ==
    map' = Without(map, s) /\ poller' = Without(poller, s)

\* The end of wait_io_event: what is left of the entry.
Keep(s, entry) ==
    /\ map' = IF Waits(entry) = {} THEN Without(map, s)
              ELSE With(map, s, entry)
    /\ poller' = IF Waits(entry) = {} THEN Without(poller, s)
                 ELSE With(poller, s, Waits(entry))

\* The tasks that the event ev of the stream s wakes.
Woken(s, ev) ==
    IF ev = "error" THEN {map[s][d] : d \in Directions} ELSE {map[s][ev]}

\* wait_io_event, one stream with one event.
IoEvent(s, ev) ==
    /\ s \in DOMAIN poller /\ ev \in poller[s] \cup {"error"}
    /\ LET woken == Woken(s, ev) \ {NoTask}
           entry == [d \in Directions |->
                        IF map[s][d] \in woken THEN NoTask ELSE map[s][d]]
       IN  /\ Keep(s, entry)
           /\ waiting' = [t \in Tasks |->
                             IF t \in woken THEN Idle ELSE waiting[t]]
    /\ UNCHANGED orphans

Enqueues == \E t \in Tasks, s \in Streams, d \in Directions : Enqueue(t, s, d)
Removes == \E t \in Tasks : RemoveWaiter(t)
Events == \E s \in Streams : \E ev \in Directions \cup {"error"} :
              IoEvent(s, ev)

IOQueueNext == Enqueues \/ Removes \/ Events

IOQueueSpec == IOQueueInit /\ [][IOQueueNext]_ioQueueVars
-----------------------------------------------------------------------------
\* The poller is asked for exactly what some task waits for: for less, a
\* task is never woken; for more, a stream that is always writable makes
\* the loop spin instead of sleeping until the next task is due.
PollerMatchesMap ==
    /\ DOMAIN poller = DOMAIN map
    /\ \A s \in DOMAIN map : poller[s] = Waits(map[s]) /\ poller[s] # {}

\* An entry names a task only while that task waits: an event that finds
\* the task in an old entry would push it a second time, and a task that is
\* on two heaps breaks both (see PairHeap and OnOneQueue of AsyncioLoop).
EntryNamesWaiter ==
    \A s \in DOMAIN map : \A d \in Directions :
        map[s][d] # NoTask
            => waiting[map[s][d]] = [stream |-> s, dir |-> d]

\* "maps id(stream) to [task_waiting_read, task_waiting_write, stream]"
\* (core.py:73): a task that waits for a stream is the one its entry names,
\* so that the stream's events reach it.  Only the cancellation of the task
\* that waits on the same stream in the other direction takes that away.
WaiterIsRegistered ==
    \A t \in Tasks : waiting[t] # Idle =>
        \/ t \in orphans
        \/ /\ waiting[t].stream \in DOMAIN map
           /\ map[waiting[t].stream][waiting[t].dir] = t

\* Map, poller and waiting tasks agree (core.py:70-130): the poller watches
\* what the map says, the map names tasks that wait, and a task that waits is
\* in it.
WaitersAreWatched == PollerMatchesMap /\ EntryNamesWaiter /\ WaiterIsRegistered
=============================================================================
