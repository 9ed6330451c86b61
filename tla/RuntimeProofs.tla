---------------------------- MODULE RuntimeProofs ----------------------------
(***************************************************************************)
(* What runs the programs, for any number of tasks, streams, slots, nodes  *)
(* and calls: the queue of asyncio for the tasks that wait for a stream    *)
(* and the output of a stream, the scheduler of callbacks, the dispatch of *)
(* background work and the atomic sections of the two cores, and the       *)
(* directories of the file system.  The inductive invariants behind what   *)
(* the runs "queues", "runtime" and "flash" check, and their proofs.       *)
(***************************************************************************)
EXTENDS IOQueue, Scheduler, Pendsv, AtomicSection, StreamOut, LfsPair,
        FiniteSetTheorems, SequenceTheorems, WellFoundedInduction, TLAPS

-----------------------------------------------------------------------------
(***************************************************************************)
(* The tasks that wait for a stream                                        *)
(***************************************************************************)

\* A task that waits does so on a stream, in a direction.
WaitsForOne(w) ==
    w # Idle => \E s \in Streams, d \in Directions :
                    w = [stream |-> s, dir |-> d]

\* The types of the map, the poller and the tasks.
IOTypes ==
    /\ map = [s \in DOMAIN map |-> map[s]]
    /\ poller = [s \in DOMAIN poller |-> poller[s]]
    /\ DOMAIN map \subseteq Streams
    /\ \A s \in DOMAIN map : map[s] \in [Directions -> Tasks \cup {NoTask}]
    /\ waiting = [t \in Tasks |-> waiting[t]]
    /\ \A t \in Tasks : WaitsForOne(waiting[t])

\* A task that lost its entry waits on, and no entry names it.
OrphansWait ==
    \A t \in orphans :
        /\ t \in Tasks /\ waiting[t] # Idle
        /\ \A s \in DOMAIN map : \A d \in Directions : map[s][d] # t

IOQueueInv == IOTypes /\ WaitersAreWatched /\ OrphansWait

\* A record that names a direction is not Idle, and names just that one.
LEMMA WaitRecord ==
    ASSUME NEW s, NEW r, NEW d \in Directions, NEW e
    PROVE  /\ [stream |-> s, dir |-> d] # Idle
           /\ [stream |-> s, dir |-> d].stream = s
           /\ [stream |-> s, dir |-> d].dir = d
           /\ [stream |-> s, dir |-> d] = [stream |-> r, dir |-> e]
                  => s = r /\ d = e
<1>1. [stream |-> s, dir |-> d].stream = s /\ [stream |-> s, dir |-> d].dir = d
  OBVIOUS
<1>2. d # "none"
  BY DEF Directions
<1>3. Idle.dir = "none"
  BY DEF Idle
<1>4. [stream |-> r, dir |-> e].stream = r /\ [stream |-> r, dir |-> e].dir = e
  OBVIOUS
<1> QED
  BY <1>1, <1>2, <1>3, <1>4, Zenon

\* The queue is empty at first.
LEMMA IOQueueInitInv == IOQueueInit => IOQueueInv
<1> SUFFICES ASSUME IOQueueInit PROVE IOQueueInv
  OBVIOUS
<1>1. DOMAIN map = {} /\ DOMAIN poller = {}
  BY DEF IOQueueInit, Nothing
<1>2. map = [s \in DOMAIN map |-> map[s]]
      /\ poller = [s \in DOMAIN poller |-> poller[s]]
  BY DEF IOQueueInit, Nothing
<1>3. waiting = [t \in Tasks |-> Idle] /\ orphans = {}
  BY DEF IOQueueInit
<1> QED
  BY <1>1, <1>2, <1>3
     DEF IOQueueInv, IOTypes, WaitsForOne, WaitersAreWatched,
         PollerMatchesMap, EntryNamesWaiter, WaiterIsRegistered, OrphansWait

\* _enqueue adds the task to the entry of its stream.
LEMMA EnqueueKeeps ==
    ASSUME IOQueueInv, NEW t \in Tasks, NEW s \in Streams,
           NEW d \in Directions, Enqueue(t, s, d)
    PROVE  IOQueueInv'
<1> DEFINE old == IF s \in DOMAIN map THEN map[s]
                  ELSE [e \in Directions |-> NoTask]
           new == [old EXCEPT ![d] = t]
<1>1. old \in [Directions -> Tasks \cup {NoTask}] /\ old[d] = NoTask
  BY DEF IOQueueInv, IOTypes, Enqueue
<1>2. new \in [Directions -> Tasks \cup {NoTask}] /\ new[d] = t
      /\ \A e \in Directions \ {d} : new[e] = old[e]
  BY <1>1
<1>3. /\ map' = [r \in DOMAIN map \cup {s} |->
                    IF r = s THEN new ELSE map[r]]
      /\ poller' = [r \in DOMAIN poller \cup {s} |->
                       IF r = s THEN IF s \in DOMAIN map THEN Directions
                                     ELSE {d}
                       ELSE poller[r]]
      /\ waiting' = [waiting EXCEPT ![t] = [stream |-> s, dir |-> d]]
      /\ waiting[t] = Idle /\ orphans' = orphans
  BY DEF Enqueue, With
<1> HIDE DEF new
<1>4. /\ DOMAIN map' = DOMAIN map \cup {s}
      /\ map'[s] = new
      /\ \A r \in DOMAIN map \ {s} : map'[r] = map[r]
      /\ map' = [r \in DOMAIN map' |-> map'[r]]
  BY <1>3
<1>5. /\ DOMAIN poller' = DOMAIN poller \cup {s}
      /\ poller'[s] = IF s \in DOMAIN map THEN Directions ELSE {d}
      /\ \A r \in DOMAIN poller \ {s} : poller'[r] = poller[r]
      /\ poller' = [r \in DOMAIN poller' |-> poller'[r]]
  BY <1>3
<1>6. /\ waiting' = [u \in Tasks |-> waiting'[u]]
      /\ waiting'[t] = [stream |-> s, dir |-> d]
      /\ \A u \in Tasks \ {t} : waiting'[u] = waiting[u]
  BY <1>3 DEF IOQueueInv, IOTypes
<1>7. IOTypes'
  <2>1. \A u \in Tasks : WaitsForOne(waiting'[u])
    BY <1>6 DEF IOQueueInv, IOTypes, WaitsForOne
  <2>2. \A r \in DOMAIN map' : map'[r] \in [Directions -> Tasks \cup {NoTask}]
    BY <1>2, <1>4 DEF IOQueueInv, IOTypes
  <2> QED
    BY <1>4, <1>5, <1>6, <2>1, <2>2 DEF IOQueueInv, IOTypes
<1>8. Waits(new) = IF s \in DOMAIN map THEN Directions ELSE {d}
  <2>1. t # NoTask
    BY IOQueueAssumption
  <2>2. CASE s \in DOMAIN map
    <3>1. \E e \in Directions : old[e] # NoTask /\ e # d
      BY <1>1, <2>2 DEF IOQueueInv, WaitersAreWatched, PollerMatchesMap,
                        Waits
    <3> QED
      BY <1>2, <2>1, <2>2, <3>1 DEF Directions, Waits
  <2>3. CASE s \notin DOMAIN map
    BY <1>2, <2>1, <2>3 DEF Waits
  <2> QED
    BY <2>2, <2>3
<1>9. PollerMatchesMap'
  <2>1. DOMAIN poller = DOMAIN map
        /\ \A r \in DOMAIN map : poller[r] = Waits(map[r]) /\ poller[r] # {}
    BY DEF IOQueueInv, WaitersAreWatched, PollerMatchesMap
  <2>2. \A r \in DOMAIN map' : poller'[r] = Waits(map'[r])
    BY <1>4, <1>5, <1>8, <2>1
  <2>3. \A r \in DOMAIN map' : poller'[r] # {}
    BY <1>4, <1>5, <2>1
  <2>4. DOMAIN poller' = DOMAIN map'
    BY <1>4, <1>5, <2>1
  <2> QED
    BY <2>2, <2>3, <2>4 DEF PollerMatchesMap, Waits
<1>10. \A r \in DOMAIN map : \A e \in Directions : map[r][e] # t
  <2> SUFFICES ASSUME NEW r \in DOMAIN map, NEW e \in Directions,
                      map[r][e] = t
               PROVE  FALSE
    OBVIOUS
  <2>1. map[r][e] # NoTask
    BY IOQueueAssumption
  <2>2. waiting[t] = [stream |-> r, dir |-> e]
    BY <2>1 DEF IOQueueInv, WaitersAreWatched, EntryNamesWaiter
  <2> QED
    BY <1>3, <2>2, WaitRecord
<1>11. EntryNamesWaiter'
  <2> SUFFICES ASSUME NEW r \in DOMAIN map', NEW e \in Directions,
                      map'[r][e] # NoTask
               PROVE  waiting'[map'[r][e]] = [stream |-> r, dir |-> e]
    BY DEF EntryNamesWaiter
  <2>1. CASE r = s /\ e = d
    BY <2>1, <1>2, <1>4, <1>6
  <2>2. CASE ~(r = s /\ e = d)
    <3>1. r \in DOMAIN map /\ map'[r][e] = map[r][e]
      BY <1>2, <1>4, <2>2
    <3>2. map[r][e] \in Tasks \ {t}
      BY <1>10, <3>1 DEF IOQueueInv, IOTypes
    <3>3. waiting[map[r][e]] = [stream |-> r, dir |-> e]
      BY <3>1 DEF IOQueueInv, WaitersAreWatched, EntryNamesWaiter
    <3> QED
      BY <1>6, <3>1, <3>2, <3>3
  <2> QED
    BY <2>1, <2>2
<1>12. WaiterIsRegistered'
  <2> SUFFICES ASSUME NEW u \in Tasks, waiting'[u] # Idle, u \notin orphans'
               PROVE  /\ waiting'[u].stream \in DOMAIN map'
                      /\ map'[waiting'[u].stream][waiting'[u].dir] = u
    BY DEF WaiterIsRegistered
  <2>1. CASE u = t
    BY <2>1, <1>2, <1>4, <1>6, WaitRecord
  <2>2. CASE u # t
    <3>1. waiting'[u] = waiting[u] /\ u \notin orphans
      BY <1>3, <1>6, <2>2
    <3>2. PICK r \in Streams, e \in Directions :
              waiting[u] = [stream |-> r, dir |-> e]
      BY <3>1 DEF IOQueueInv, IOTypes, WaitsForOne
    <3>3. waiting[u].stream = r /\ waiting[u].dir = e
      BY <3>2
    <3>4. r \in DOMAIN map /\ map[r][e] = u
      BY <3>1, <3>3 DEF IOQueueInv, WaitersAreWatched, WaiterIsRegistered
    <3>5. r = s => e # d
      BY <1>1, <3>4, IOQueueAssumption
    <3>6. r \in DOMAIN map' /\ map'[r][e] = u
      BY <1>2, <1>4, <3>4, <3>5
    <3> QED
      BY <3>1, <3>3, <3>6
  <2> QED
    BY <2>1, <2>2
<1>13. OrphansWait'
  <2> SUFFICES ASSUME NEW u \in orphans
               PROVE  /\ u \in Tasks /\ waiting'[u] # Idle
                      /\ \A r \in DOMAIN map' : \A e \in Directions :
                             map'[r][e] # u
    BY <1>3 DEF OrphansWait
  <2>1. u \in Tasks /\ waiting[u] # Idle /\ u # t
    BY <1>3 DEF IOQueueInv, OrphansWait
  <2>2. u # NoTask
    BY <2>1, IOQueueAssumption
  <2> QED
    BY <1>1, <1>2, <1>4, <1>6, <2>1, <2>2 DEF IOQueueInv, OrphansWait
<1> QED
  BY <1>7, <1>9, <1>11, <1>12, <1>13 DEF IOQueueInv, WaitersAreWatched

\* remove drops the entries that name a task, and with them the tasks that
\* wait in the other direction.
LEMMA RemoveKeeps ==
    ASSUME IOQueueInv, NEW t \in Tasks, RemoveWaiter(t)
    PROVE  IOQueueInv'
<1> DEFINE gone == {s \in DOMAIN map : \E d \in Directions : map[s][d] = t}
           lost == {map[s][d] : s \in gone, d \in Directions} \ {t, NoTask}
<1>1. /\ map' = [s \in DOMAIN map \ gone |-> map[s]]
      /\ poller' = [s \in DOMAIN poller \ gone |-> poller[s]]
      /\ orphans' = (orphans \ {t}) \cup lost
      /\ waiting' = [waiting EXCEPT ![t] = Idle]
  BY DEF RemoveWaiter
<1>2. \A u \in lost : \E s \in gone, d \in Directions : map[s][d] = u
  OBVIOUS
<1>3. \A s \in gone, d \in Directions :
          map[s][d] \in lost \cup {t, NoTask}
  OBVIOUS
<1>4. \A s \in DOMAIN map \ gone : \A d \in Directions : map[s][d] # t
  OBVIOUS
<1>5. gone \subseteq DOMAIN map /\ t \notin lost /\ NoTask \notin lost
  OBVIOUS
<1> HIDE DEF gone, lost
<1>6. /\ DOMAIN map' = DOMAIN map \ gone
      /\ \A s \in DOMAIN map' : map'[s] = map[s]
      /\ map' = [s \in DOMAIN map' |-> map'[s]]
  BY <1>1
<1>7. /\ DOMAIN poller' = DOMAIN poller \ gone
      /\ \A s \in DOMAIN poller' : poller'[s] = poller[s]
      /\ poller' = [s \in DOMAIN poller' |-> poller'[s]]
  BY <1>1
<1>8. /\ waiting' = [u \in Tasks |-> waiting'[u]]
      /\ waiting'[t] = Idle
      /\ \A u \in Tasks \ {t} : waiting'[u] = waiting[u]
  BY <1>1 DEF IOQueueInv, IOTypes
<1>9. IOTypes'
  <2>1. \A u \in Tasks : WaitsForOne(waiting'[u])
    BY <1>8 DEF IOQueueInv, IOTypes, WaitsForOne
  <2> QED
    BY <1>6, <1>7, <1>8, <2>1 DEF IOQueueInv, IOTypes
<1>10. PollerMatchesMap'
  BY <1>6, <1>7 DEF IOQueueInv, WaitersAreWatched, PollerMatchesMap, Waits
<1>11. EntryNamesWaiter'
  <2> SUFFICES ASSUME NEW r \in DOMAIN map', NEW e \in Directions,
                      map'[r][e] # NoTask
               PROVE  waiting'[map'[r][e]] = [stream |-> r, dir |-> e]
    BY DEF EntryNamesWaiter
  <2>1. map'[r][e] = map[r][e] /\ r \in DOMAIN map /\ map[r][e] # t
    BY <1>4, <1>6
  <2>2. waiting[map[r][e]] = [stream |-> r, dir |-> e]
    BY <2>1 DEF IOQueueInv, WaitersAreWatched, EntryNamesWaiter
  <2>3. map[r][e] \in Tasks \ {t}
    BY <2>1 DEF IOQueueInv, IOTypes
  <2> QED
    BY <1>8, <2>1, <2>2, <2>3
<1>12. WaiterIsRegistered'
  <2> SUFFICES ASSUME NEW u \in Tasks, waiting'[u] # Idle, u \notin orphans'
               PROVE  /\ waiting'[u].stream \in DOMAIN map'
                      /\ map'[waiting'[u].stream][waiting'[u].dir] = u
    BY DEF WaiterIsRegistered
  <2>1. u # t /\ waiting'[u] = waiting[u] /\ u \notin orphans /\ u \notin lost
    BY <1>1, <1>8
  <2>2. PICK r \in Streams, e \in Directions :
            waiting[u] = [stream |-> r, dir |-> e]
    BY <2>1 DEF IOQueueInv, IOTypes, WaitsForOne
  <2>3. waiting[u].stream = r /\ waiting[u].dir = e
    BY <2>2
  <2>4. r \in DOMAIN map /\ map[r][e] = u
    BY <2>1, <2>3 DEF IOQueueInv, WaitersAreWatched, WaiterIsRegistered
  <2>5. r \notin gone
    BY <1>3, <2>1, <2>4, IOQueueAssumption
  <2> QED
    BY <1>6, <2>1, <2>3, <2>4, <2>5
<1>13. OrphansWait'
  <2> SUFFICES ASSUME NEW u \in orphans'
               PROVE  /\ u \in Tasks /\ waiting'[u] # Idle
                      /\ \A r \in DOMAIN map' : \A e \in Directions :
                             map'[r][e] # u
    BY DEF OrphansWait
  <2>1. CASE u \in orphans /\ u # t
    BY <1>6, <1>8, <2>1 DEF IOQueueInv, OrphansWait
  <2>2. CASE u \in lost
    <3>1. PICK r \in gone, e \in Directions : map[r][e] = u
      BY <1>2, <2>2
    <3>2. u \in Tasks /\ u # t /\ u # NoTask /\ r \in DOMAIN map
      BY <1>5, <2>2, <3>1 DEF IOQueueInv, IOTypes
    <3>3. waiting[u] = [stream |-> r, dir |-> e]
      BY <3>1, <3>2 DEF IOQueueInv, WaitersAreWatched, EntryNamesWaiter
    <3>4. \A q \in DOMAIN map \ {r} : \A f \in Directions : map[q][f] # u
      <4> SUFFICES ASSUME NEW q \in DOMAIN map \ {r}, NEW f \in Directions,
                          map[q][f] = u
                   PROVE  FALSE
        OBVIOUS
      <4>1. waiting[u] = [stream |-> q, dir |-> f]
        BY <3>2 DEF IOQueueInv, WaitersAreWatched, EntryNamesWaiter
      <4> QED
        BY <3>3, <4>1, WaitRecord
    <3> QED
      BY <1>6, <1>8, <3>2, <3>3, <3>4, WaitRecord
  <2> QED
    BY <1>1, <2>1, <2>2
<1> QED
  BY <1>9, <1>10, <1>11, <1>12, <1>13 DEF IOQueueInv, WaitersAreWatched

\* wait_io_event wakes the tasks of an entry that the event is for, and the
\* poller goes on with the rest of the entry.
LEMMA IoEventKeeps ==
    ASSUME IOQueueInv, NEW s \in Streams,
           NEW ev \in Directions \cup {"error"}, IoEvent(s, ev)
    PROVE  IOQueueInv'
<1> DEFINE woken == Woken(s, ev) \ {NoTask}
           new == [d \in Directions |->
                       IF map[s][d] \in woken THEN NoTask ELSE map[s][d]]
<1>1. s \in DOMAIN map /\ DOMAIN poller = DOMAIN map
      /\ map[s] \in [Directions -> Tasks \cup {NoTask}]
  BY DEF IoEvent, IOQueueInv, WaitersAreWatched, PollerMatchesMap, IOTypes
<1>2. ev \in Directions \/ ev = "error"
  OBVIOUS
<1>3. \A u \in woken : \E d \in Directions : map[s][d] = u
  <2>1. CASE ev = "error"
    BY <2>1 DEF Woken
  <2>2. CASE ev # "error"
    BY <1>2, <2>2 DEF Woken
  <2> QED
    BY <2>1, <2>2
<1>4. new \in [Directions -> Tasks \cup {NoTask}]
      /\ \A d \in Directions :
             new[d] = IF map[s][d] \in woken THEN NoTask ELSE map[s][d]
  BY <1>1
<1>5. /\ Keep(s, new)
      /\ waiting' = [t \in Tasks |-> IF t \in woken THEN Idle ELSE waiting[t]]
      /\ orphans' = orphans
  BY DEF IoEvent
<1>6. NoTask \notin woken
  OBVIOUS
<1> HIDE DEF woken, new
<1>7. \A u \in woken : u \in Tasks
  BY <1>1, <1>3, <1>6
<1>8. /\ \A r \in DOMAIN map' : r \in DOMAIN map
      /\ \A r \in DOMAIN map \ {s} : r \in DOMAIN map' /\ map'[r] = map[r]
      /\ s \in DOMAIN map' <=> Waits(new) # {}
      /\ s \in DOMAIN map' => map'[s] = new
      /\ map' = [r \in DOMAIN map' |-> map'[r]]
  BY <1>1, <1>5 DEF Keep, With, Without
<1>9. /\ DOMAIN poller' = DOMAIN map'
      /\ \A r \in DOMAIN map \ {s} : poller'[r] = poller[r]
      /\ s \in DOMAIN map' => poller'[s] = Waits(new)
      /\ poller' = [r \in DOMAIN poller' |-> poller'[r]]
  BY <1>1, <1>5 DEF Keep, With, Without
<1>10. \A u \in Tasks :
           waiting'[u] = IF u \in woken THEN Idle ELSE waiting[u]
  BY <1>5
<1>11. IOTypes'
  <2>1. \A u \in Tasks : WaitsForOne(waiting'[u])
    BY <1>10 DEF IOQueueInv, IOTypes, WaitsForOne
  <2>2. waiting' = [u \in Tasks |-> waiting'[u]]
    BY <1>5
  <2>3. \A r \in DOMAIN map' : map'[r] \in [Directions -> Tasks \cup {NoTask}]
    BY <1>4, <1>8 DEF IOQueueInv, IOTypes
  <2> QED
    BY <1>8, <1>9, <2>1, <2>2, <2>3 DEF IOQueueInv, IOTypes
<1>12. PollerMatchesMap'
  <2>1. \A r \in DOMAIN map : poller[r] = Waits(map[r]) /\ poller[r] # {}
    BY DEF IOQueueInv, WaitersAreWatched, PollerMatchesMap
  <2>2. \A r \in DOMAIN map' : poller'[r] = Waits(map'[r]) /\ poller'[r] # {}
    BY <1>8, <1>9, <2>1
  <2> QED
    BY <1>9, <2>2 DEF PollerMatchesMap, Waits
\* A task that is woken is in no other entry.
<1>13. \A r \in DOMAIN map \ {s} : \A e \in Directions :
           map[r][e] \notin woken
  <2> SUFFICES ASSUME NEW r \in DOMAIN map \ {s}, NEW e \in Directions,
                      map[r][e] \in woken
               PROVE  FALSE
    OBVIOUS
  <2>1. PICK d \in Directions : map[s][d] = map[r][e]
    BY <1>3
  <2>2. waiting[map[r][e]] = [stream |-> r, dir |-> e]
    BY <1>6 DEF IOQueueInv, WaitersAreWatched, EntryNamesWaiter
  <2>3. waiting[map[s][d]] = [stream |-> s, dir |-> d]
    BY <1>1, <1>6, <2>1 DEF IOQueueInv, WaitersAreWatched, EntryNamesWaiter
  <2> QED
    BY <2>1, <2>2, <2>3, WaitRecord
<1>14. EntryNamesWaiter'
  <2> SUFFICES ASSUME NEW r \in DOMAIN map', NEW e \in Directions,
                      map'[r][e] # NoTask
               PROVE  waiting'[map'[r][e]] = [stream |-> r, dir |-> e]
    BY DEF EntryNamesWaiter
  <2>1. map'[r][e] = map[r][e] /\ r \in DOMAIN map /\ map[r][e] \notin woken
    BY <1>4, <1>8, <1>13
  <2>2. waiting[map[r][e]] = [stream |-> r, dir |-> e] /\ map[r][e] \in Tasks
    BY <2>1 DEF IOQueueInv, WaitersAreWatched, EntryNamesWaiter, IOTypes
  <2> QED
    BY <1>10, <2>1, <2>2
<1>15. WaiterIsRegistered'
  <2> SUFFICES ASSUME NEW u \in Tasks, waiting'[u] # Idle, u \notin orphans'
               PROVE  /\ waiting'[u].stream \in DOMAIN map'
                      /\ map'[waiting'[u].stream][waiting'[u].dir] = u
    BY DEF WaiterIsRegistered
  <2>1. waiting'[u] = waiting[u] /\ u \notin orphans /\ u \notin woken
    BY <1>5, <1>10
  <2>2. PICK r \in Streams, e \in Directions :
            waiting[u] = [stream |-> r, dir |-> e]
    BY <2>1 DEF IOQueueInv, IOTypes, WaitsForOne
  <2>3. waiting[u].stream = r /\ waiting[u].dir = e
    BY <2>2
  <2>4. r \in DOMAIN map /\ map[r][e] = u
    BY <2>1, <2>3 DEF IOQueueInv, WaitersAreWatched, WaiterIsRegistered
  <2>5. r = s => new[e] = u /\ Waits(new) # {}
    BY <1>4, <2>1, <2>4, IOQueueAssumption DEF Waits
  <2> QED
    BY <1>8, <2>1, <2>3, <2>4, <2>5
<1>16. OrphansWait'
  <2> SUFFICES ASSUME NEW u \in orphans
               PROVE  /\ u \in Tasks /\ waiting'[u] # Idle
                      /\ \A r \in DOMAIN map' : \A e \in Directions :
                             map'[r][e] # u
    BY <1>5 DEF OrphansWait
  <2>1. u \in Tasks /\ waiting[u] # Idle /\ u # NoTask
        /\ \A r \in DOMAIN map : \A e \in Directions : map[r][e] # u
    BY IOQueueAssumption DEF IOQueueInv, OrphansWait
  <2>2. u \notin woken
    BY <1>1, <1>3, <2>1
  <2> QED
    BY <1>1, <1>4, <1>8, <1>10, <2>1, <2>2
<1> QED
  BY <1>11, <1>12, <1>14, <1>15, <1>16 DEF IOQueueInv, WaitersAreWatched

\* Map, poller and waiting tasks agree (core.py:70-130), for any number of
\* tasks and streams: the poller watches exactly what some task waits for, an
\* entry names a task only while it waits there, and only a task whose entry
\* the cancellation of another one dropped waits without an entry.
THEOREM IOWaitersAreWatched == IOQueueSpec => []WaitersAreWatched
<1>1. IOQueueInv /\ [IOQueueNext]_ioQueueVars => IOQueueInv'
  <2> SUFFICES ASSUME IOQueueInv, [IOQueueNext]_ioQueueVars
               PROVE  IOQueueInv'
    OBVIOUS
  <2>1. CASE Enqueues
    BY <2>1, EnqueueKeeps DEF Enqueues
  <2>2. CASE Removes
    BY <2>2, RemoveKeeps DEF Removes
  <2>3. CASE Events
    BY <2>3, IoEventKeeps DEF Events
  <2>4. CASE UNCHANGED ioQueueVars
    <3>1. /\ map' = map /\ poller' = poller
          /\ waiting' = waiting /\ orphans' = orphans
      BY <2>4 DEF ioQueueVars
    <3>2. IOTypes'
      BY <3>1, Zenon DEF IOQueueInv, IOTypes, WaitsForOne, Idle, Directions
    <3>3. PollerMatchesMap'
      BY <3>1 DEF IOQueueInv, WaitersAreWatched, PollerMatchesMap, Waits
    <3>4. EntryNamesWaiter' /\ WaiterIsRegistered'
      BY <3>1 DEF IOQueueInv, WaitersAreWatched, EntryNamesWaiter,
                  WaiterIsRegistered
    <3>5. OrphansWait'
      BY <3>1 DEF IOQueueInv, OrphansWait
    <3> QED
      BY <3>2, <3>3, <3>4, <3>5 DEF IOQueueInv, WaitersAreWatched
  <2> QED
    BY <2>1, <2>2, <2>3, <2>4 DEF IOQueueNext
<1>2. IOQueueInv => WaitersAreWatched
  BY DEF IOQueueInv
<1> QED
  BY IOQueueInitInv, <1>1, <1>2, PTL DEF IOQueueSpec

-----------------------------------------------------------------------------
(***************************************************************************)
(* The scheduler: its lock                                                 *)
(***************************************************************************)

\* How many locks are held when the main thread is at m, and i and c say
\* whether a hard interrupt and a finaliser on core 1 run.
Holders(m, i, c) ==
    (IF m \in {"node", "call", "unlock"} THEN 1 ELSE 0)
    + (IF i THEN 1 ELSE 0) + (IF c THEN 1 ELSE 0)

\* sched_state counts n locks.
Counts(s, n) == IF n > 0 THEN s = -n ELSE s \in {IDLE, PENDING}

\* LockedByHolders in these terms.
LEMMA LockedByCount ==
    LockedByHolders <=> Counts(state, Holders(main, irq, core1))
  BY DEF LockedByHolders, Counts, Holders

\* There are at most three locks.
LEMMA HoldersType ==
    ASSUME NEW m, NEW i, NEW c PROVE Holders(m, i, c) \in 0 .. 3
  BY DEF Holders

\* mp_sched_lock counts one lock more.
LEMMA LockCounts ==
    ASSUME NEW s, NEW n \in Nat, Counts(s, n)
    PROVE  Counts(Lock(s), n + 1) /\ Lock(s) < 0 /\ Lock(s) \in Int
  BY DEF Counts, Lock, IDLE, PENDING

\* mp_sched_unlock counts one lock less, and with the last one sees what is
\* queued.
LEMMA UnlockCounts ==
    ASSUME NEW s, NEW n \in Nat, Counts(s, n + 1)
    PROVE  /\ Counts(Unlock(s), n) /\ Unlock(s) \in Int
           /\ Unlock(s) >= 0 /\ (head # NoNode \/ sched_len > 0)
                  => Unlock(s) = PENDING
<1>1. s \in Int /\ s = -(n + 1)
  BY DEF Counts
<1>2. CASE n = 0
  BY <1>1, <1>2 DEF Counts, Unlock, IDLE, PENDING
<1>3. CASE n > 0
  <2>1. s + 1 = -n /\ s + 1 # 0 /\ s + 1 \in Int
    BY <1>1, <1>3
  <2>2. Unlock(s) = s + 1
    BY <2>1 DEF Unlock
  <2>3. ~(Unlock(s) >= 0)
    BY <1>3, <2>1, <2>2
  <2> QED
    BY <1>3, <2>1, <2>2, <2>3 DEF Counts
<1> QED
  BY <1>2, <1>3

\* Waking an unlocked scheduler makes it pending, and waking a locked one
\* does nothing.
LEMMA WakeCounts ==
    ASSUME NEW s, NEW n \in Nat, Counts(s, n)
    PROVE  /\ Counts(Wake(s), n) /\ Wake(s) \in Int
           /\ Wake(s) >= 0 => Wake(s) = PENDING
<1>1. CASE n = 0
  BY <1>1 DEF Counts, Wake, IDLE, PENDING
<1>2. CASE n > 0
  <2>1. s = -n /\ s \in Int /\ s < 0
    BY <1>2 DEF Counts
  <2>2. Wake(s) = s
    BY <2>1 DEF Wake, IDLE
  <2> QED
    BY <1>2, <2>1, <2>2 DEF Counts
<1> QED
  BY <1>1, <1>2

\* The lock count is exact and nothing that is queued is forgotten.
SchedLockInv ==
    /\ irq \in BOOLEAN /\ core1 \in BOOLEAN
    /\ LockedByHolders /\ NothingForgotten

\* Who has the lock, after a step that starts or ends nobody.
LEMMA SameHolders ==
    ASSUME SchedLockInv, irq' = irq, core1' = core1, main' = main,
           UNCHANGED <<state, head, sched_len>>
    PROVE  SchedLockInv'
<1>1. irq' \in BOOLEAN /\ core1' \in BOOLEAN
  BY Zenon DEF SchedLockInv
<1>2. LockedByHolders'
  BY DEF SchedLockInv, LockedByHolders
<1>3. NothingForgotten'
  BY DEF SchedLockInv, NothingForgotten
<1> QED
  BY <1>1, <1>2, <1>3 DEF SchedLockInv

\* A step that takes a lock.
LEMMA LockStep ==
    ASSUME SchedLockInv, state' = Lock(state),
           Holders(main', irq', core1') = Holders(main, irq, core1) + 1,
           irq' \in BOOLEAN, core1' \in BOOLEAN
    PROVE  SchedLockInv'
<1>1. Counts(state, Holders(main, irq, core1))
  BY LockedByCount DEF SchedLockInv
<1>2. Counts(state', Holders(main', irq', core1')) /\ ~(state' >= 0)
  BY <1>1, HoldersType, LockCounts
<1>3. LockedByHolders'
  BY <1>2 DEF LockedByHolders, Counts, Holders
<1>4. NothingForgotten'
  BY <1>2 DEF NothingForgotten
<1> QED
  BY <1>3, <1>4 DEF SchedLockInv

\* A step that gives a lock back.
LEMMA UnlockStep ==
    ASSUME SchedLockInv, state' = Unlock(state),
           Holders(main, irq, core1) = Holders(main', irq', core1') + 1,
           irq' \in BOOLEAN, core1' \in BOOLEAN,
           head' = head, sched_len' = sched_len
    PROVE  SchedLockInv'
<1>1. Counts(state, Holders(main, irq, core1))
  BY LockedByCount DEF SchedLockInv
<1>2. /\ Counts(state', Holders(main', irq', core1'))
      /\ state' >= 0 /\ (head # NoNode \/ sched_len > 0) => state' = PENDING
  BY <1>1, HoldersType, UnlockCounts
<1>3. LockedByHolders'
  BY <1>2 DEF LockedByHolders, Counts, Holders
<1>4. NothingForgotten'
  BY <1>2 DEF NothingForgotten
<1> QED
  BY <1>3, <1>4 DEF SchedLockInv

\* A step that queues something.
LEMMA WakeStep ==
    ASSUME SchedLockInv, state' = Wake(state), UNCHANGED <<main, irq, core1>>
    PROVE  SchedLockInv'
<1>1. Counts(state, Holders(main, irq, core1))
  BY LockedByCount DEF SchedLockInv
<1>2. /\ Counts(state', Holders(main, irq, core1))
      /\ state' >= 0 => state' = PENDING
  BY <1>1, HoldersType, WakeCounts
<1>3. LockedByHolders'
  BY <1>2 DEF LockedByHolders, Counts, Holders
<1>4. NothingForgotten'
  BY <1>2 DEF NothingForgotten
<1>5. irq' \in BOOLEAN /\ core1' \in BOOLEAN
  BY Zenon DEF SchedLockInv
<1> QED
  BY <1>3, <1>4, <1>5 DEF SchedLockInv

\* A step of the main thread that keeps its lock, or its being without one.
LEMMA MainStep ==
    ASSUME SchedLockInv, UNCHANGED <<irq, core1, state>>,
           Holders(main', irq, core1) = Holders(main, irq, core1),
           \/ UNCHANGED <<head, sched_len>>
           \/ main \in {"node", "call", "unlock"}
    PROVE  SchedLockInv'
<1>1. Counts(state, Holders(main, irq, core1))
  BY LockedByCount DEF SchedLockInv
<1>2. LockedByHolders'
  BY <1>1 DEF LockedByHolders, Counts, Holders
<1>3. NothingForgotten'
  <2>1. CASE UNCHANGED <<head, sched_len>>
    BY <2>1 DEF SchedLockInv, NothingForgotten
  <2>2. CASE main \in {"node", "call", "unlock"}
    <3>1. Holders(main, irq, core1) > 0
      BY <2>2 DEF Holders
    <3>2. ~(state >= 0)
      BY <1>1, <3>1, HoldersType DEF Counts
    <3> QED
      BY <3>2 DEF NothingForgotten
  <2> QED
    BY <2>1, <2>2
<1>4. irq' \in BOOLEAN /\ core1' \in BOOLEAN
  BY Zenon DEF SchedLockInv
<1> QED
  BY <1>2, <1>3, <1>4 DEF SchedLockInv

\* Where the next call leaves the main thread.
LEMMA TakeNextMain ==
    ASSUME TakeNext PROVE main' \in {"node", "call", "unlock"}
  BY DEF TakeNext

\* Every step keeps the lock's books.
LEMMA SchedLockNext ==
    ASSUME SchedLockInv, [SchedNext]_schedVars PROVE SchedLockInv'
<1>0. irq \in BOOLEAN /\ core1 \in BOOLEAN
  BY DEF SchedLockInv
<1>1. CASE Schedule
  <2>1. CASE sched_len < Depth
    BY <1>1, <2>1, WakeStep DEF Schedule
  <2>2. CASE ~(sched_len < Depth)
    BY <1>1, <2>2, SameHolders DEF Schedule, list
  <2> QED
    BY <2>1, <2>2
<1>2. CASE ScheduleNodes
  BY <1>2, WakeStep DEF ScheduleNodes, ScheduleNode
<1>3. CASE RaiseException
  BY <1>3, SameHolders DEF RaiseException, ring, list
<1>4. CASE TakeException
  <2>1. Holders(main', irq, core1) = Holders(main, irq, core1)
    BY <1>4 DEF TakeException, Holders
  <2> QED
    BY <1>4, <2>1, MainStep DEF TakeException, ring, list
<1>5. CASE SeePending
  <2>1. Holders(main', irq, core1) = Holders(main, irq, core1)
    BY <1>5 DEF SeePending, Holders
  <2> QED
    BY <1>5, <2>1, MainStep DEF SeePending, ring, list
<1>6. CASE RunPending
  <2>1. CASE state # PENDING
    <3>1. Holders(main', irq, core1) = Holders(main, irq, core1)
      BY <1>6, <2>1 DEF RunPending, Holders
    <3> QED
      BY <1>6, <2>1, <3>1, MainStep DEF RunPending, ring, list
  <2>2. CASE state = PENDING
    <3>1. state' = -1 /\ TakeNext /\ main = "enter"
          /\ irq' = irq /\ core1' = core1
      BY <1>6, <2>2 DEF RunPending
    <3>2. state' = Lock(state)
      BY <2>2, <3>1 DEF Lock, PENDING
    <3>3. Holders(main', irq, core1) = Holders(main, irq, core1) + 1
      BY <3>1, TakeNextMain DEF Holders
    <3>4. irq' \in BOOLEAN /\ core1' \in BOOLEAN
      BY <1>0, <3>1, Zenon
    <3> QED
      BY <3>1, <3>2, <3>3, <3>4, LockStep
  <2> QED
    BY <2>1, <2>2
<1>7. CASE NodeReturns
  <2>1. Holders(main', irq, core1) = Holders(main, irq, core1)
    BY <1>7, TakeNextMain DEF NodeReturns, Holders
  <2> QED
    BY <1>7, <2>1, MainStep DEF NodeReturns
<1>8. CASE CallReturns
  <2>1. Holders(main', irq, core1) = Holders(main, irq, core1)
    BY <1>8 DEF CallReturns, Holders
  <2> QED
    BY <1>8, <2>1, MainStep DEF CallReturns, ring, list
<1>9. CASE RunEnds
  <2>1. irq' = irq /\ core1' = core1 /\ main = "unlock" /\ main' = "vm"
    BY <1>9 DEF RunEnds
  <2>2. Holders(main, irq, core1) = Holders(main', irq', core1') + 1
    BY <2>1 DEF Holders
  <2>3. irq' \in BOOLEAN /\ core1' \in BOOLEAN
    BY <1>0, <2>1, Zenon
  <2> QED
    BY <1>9, <2>2, <2>3, UnlockStep DEF RunEnds, ring, list
<1>10. CASE IrqEnters
  <2>1. ~irq /\ irq' /\ irq' \in BOOLEAN
    BY <1>10, Zenon DEF IrqEnters
  <2>2. main' = main /\ core1' = core1 /\ state' = Lock(state)
    BY <1>10 DEF IrqEnters
  <2>3. Holders(main', irq', core1') = Holders(main, irq, core1) + 1
    BY <2>1, <2>2 DEF Holders
  <2>4. core1' \in BOOLEAN
    BY <1>0, <2>2, Zenon
  <2> QED
    BY <2>1, <2>2, <2>3, <2>4, LockStep
<1>11. CASE IrqReturns
  <2>1. irq /\ ~irq' /\ irq' \in BOOLEAN
    BY <1>11, Zenon DEF IrqReturns
  <2>2. main' = main /\ core1' = core1 /\ state' = Unlock(state)
        /\ head' = head /\ sched_len' = sched_len
    BY <1>11 DEF IrqReturns, ring, list
  <2>3. Holders(main, irq, core1) = Holders(main', irq', core1') + 1
    BY <2>1, <2>2 DEF Holders
  <2>4. core1' \in BOOLEAN
    BY <1>0, <2>2, Zenon
  <2> QED
    BY <2>1, <2>2, <2>3, <2>4, UnlockStep
<1>12. CASE FinaliserStarts
  <2>1. ~core1 /\ core1' /\ core1' \in BOOLEAN
    BY <1>12, Zenon DEF FinaliserStarts
  <2>2. main' = main /\ irq' = irq /\ state' = Lock(state)
    BY <1>12 DEF FinaliserStarts
  <2>3. Holders(main', irq', core1') = Holders(main, irq, core1) + 1
    BY <2>1, <2>2 DEF Holders
  <2>4. irq' \in BOOLEAN
    BY <1>0, <2>2, Zenon
  <2> QED
    BY <2>1, <2>2, <2>3, <2>4, LockStep
<1>13. CASE FinaliserEnds
  <2>1. core1 /\ ~core1' /\ core1' \in BOOLEAN
    BY <1>13, Zenon DEF FinaliserEnds
  <2>2. main' = main /\ irq' = irq /\ state' = Unlock(state)
        /\ head' = head /\ sched_len' = sched_len
    BY <1>13 DEF FinaliserEnds, ring, list
  <2>3. Holders(main, irq, core1) = Holders(main', irq', core1') + 1
    BY <2>1, <2>2 DEF Holders
  <2>4. irq' \in BOOLEAN
    BY <1>0, <2>2, Zenon
  <2> QED
    BY <2>1, <2>2, <2>3, <2>4, UnlockStep
<1>14. CASE UNCHANGED schedVars
  BY <1>14, SameHolders DEF schedVars, ring, list
<1>15. Execute => UNCHANGED schedVars
  BY DEF Execute
<1> QED
  BY <1>1, <1>2, <1>3, <1>4, <1>5, <1>6, <1>7, <1>8, <1>9, <1>10, <1>11,
     <1>12, <1>13, <1>14, <1>15 DEF SchedNext

-----------------------------------------------------------------------------
(***************************************************************************)
(* The scheduler: its ring of calls                                        *)
(***************************************************************************)

\* A multiple of p, by a number that is not 0, is not between -p and p.
LEMMA MultipleIsFar ==
    ASSUME NEW k \in Int, NEW p \in Nat \ {0}, k # 0
    PROVE  k * p >= p \/ k * p <= -p
<1>1. \A m \in Int : m > 0 => m * p >= p
  OBVIOUS
<1>2. k > 0 \/ -k > 0
  OBVIOUS
<1>3. (-k) * p = -(k * p) /\ k * p \in Int
  OBVIOUS
<1> QED
  BY <1>1, <1>2, <1>3

\* The remainder is determined by what it is for.
LEMMA RemainderIs ==
    ASSUME NEW x \in Int, NEW p \in Nat \ {0}, NEW q \in Int,
           NEW r \in 0 .. p - 1, x = (q * p) + r
    PROVE  x % p = r
<1> DEFINE d == x \div p
<1>1. x = (p * d) + (x % p) /\ d \in Int /\ x % p \in 0 .. p - 1
  OBVIOUS
<1> HIDE DEF d
<1>2. (q - d) * p = (x % p) - r
  BY <1>1
<1>3. q - d = 0
  BY <1>1, <1>2, MultipleIsFar
<1> QED
  BY <1>1, <1>3

\* The index of a place in the ring.
LEMMA RingIndex ==
    ASSUME NEW p \in Nat \ {0}, NEW x \in 0 .. p + p - 1
    PROVE  x % p = IF x < p THEN x ELSE x - p
<1>1. CASE x < p
  <2>1. x = (0 * p) + x
    OBVIOUS
  <2> QED
    BY <1>1, <2>1, RemainderIs
<1>2. CASE x >= p
  <2>1. x = (1 * p) + (x - p) /\ x - p \in 0 .. p - 1
    BY <1>2
  <2> QED
    BY <1>2, <2>1, RemainderIs
<1> QED
  BY <1>1, <1>2

\* The places of a ring of p entries that holds at most p calls are
\* different.
LEMMA RingPlacesDiffer ==
    ASSUME NEW p \in Nat \ {0}, NEW i \in 0 .. p - 1,
           NEW a \in 0 .. p - 1, NEW b \in 0 .. p - 1, a # b
    PROVE  (i + a) % p # (i + b) % p
<1> DEFINE x == i + a
           y == i + b
<1>1. /\ x \in 0 .. p + p - 1 /\ y \in 0 .. p + p - 1
      /\ x # y /\ x - p # y /\ y - p # x /\ x - p # y - p
  OBVIOUS
<1> HIDE DEF x, y
<1>2. /\ x % p = IF x < p THEN x ELSE x - p
      /\ y % p = IF y < p THEN y ELSE y - p
  BY <1>1, RingIndex
<1>3. x % p # y % p
  BY <1>1, <1>2
<1> QED
  BY <1>3 DEF x, y

\* The place after another one.
LEMMA RingPlaceAfter ==
    ASSUME NEW p \in Nat \ {0}, NEW i \in 0 .. p - 1, NEW a \in 0 .. p - 1
    PROVE  (((i + 1) % p) + a) % p = (i + 1 + a) % p
<1> DEFINE x == i + 1
           j == x % p
<1>1. x \in 0 .. p + p - 1 /\ x = i + 1
  OBVIOUS
<1> HIDE DEF x
<1>2. j = IF x < p THEN x ELSE x - p
  BY <1>1, RingIndex
<1> HIDE DEF j
<1>3. CASE i + 1 < p
  <2>1. j + a = i + 1 + a
    BY <1>1, <1>2, <1>3
  <2> QED
    BY <2>1 DEF j, x
<1>4. CASE i + 1 >= p
  <2>1. j = 0 /\ i + 1 = p
    BY <1>1, <1>2, <1>4
  <2>2. i + 1 + a = (1 * p) + a /\ a = (0 * p) + a
    BY <2>1
  <2>3. (i + 1 + a) % p = a /\ a % p = a
    BY <2>2, RemainderIs
  <2>4. (j + a) % p = a
    BY <2>1, <2>3
  <2> QED
    BY <2>3, <2>4 DEF j, x
<1> QED
  BY <1>3, <1>4

\* The types of the ring, and RingIsFifo.
SchedRingInv ==
    /\ sched_queue \in [0 .. Depth - 1 -> Nat]
    /\ sched_idx \in 0 .. Depth - 1 /\ sched_len \in 0 .. Depth
    /\ ghost \in [calls : Nat, due : Seq(Nat), nodes : Nat, locks : Nat]
    /\ RingIsFifo

\* A call that is accepted becomes the last one.
LEMMA RingGrows ==
    ASSUME SchedRingInv, Schedule PROVE SchedRingInv'
<1>1. /\ Depth \in Nat \ {0} /\ sched_idx \in 0 .. Depth - 1
      /\ sched_len \in 0 .. Depth
      /\ ghost \in [calls : Nat, due : Seq(Nat), nodes : Nat, locks : Nat]
      /\ sched_queue \in [0 .. Depth - 1 -> Nat]
  BY SchedulerAssumption DEF SchedRingInv
<1>2. sched_idx' = sched_idx
  BY DEF Schedule
<1>3. CASE sched_len < Depth
  <2> DEFINE w == (sched_idx + sched_len) % Depth
             n == ghost.calls + 1
  <2>1. /\ sched_queue' = [sched_queue EXCEPT ![w] = n]
        /\ sched_len' = sched_len + 1
        /\ ghost' = [ghost EXCEPT !.calls = n,
                                  !.due = Append(ghost.due, n)]
    BY <1>3 DEF Schedule
  <2>2. w \in 0 .. Depth - 1 /\ n \in Nat /\ ghost.due \in Seq(Nat)
    BY <1>1
  <2> HIDE DEF w, n
  <2>0. Append(ghost.due, n) \in Seq(Nat)
    BY <2>2
  <2>3. /\ ghost' \in [calls : Nat, due : Seq(Nat), nodes : Nat, locks : Nat]
        /\ ghost'.due = Append(ghost.due, n)
    BY <1>1, <2>0, <2>1, <2>2
  <2>4. /\ sched_queue' \in [0 .. Depth - 1 -> Nat] /\ sched_queue'[w] = n
        /\ \A j \in 0 .. Depth - 1 : j # w => sched_queue'[j] = sched_queue[j]
    BY <1>1, <2>1, <2>2
  <2>5. sched_len = Len(ghost.due)
        /\ \A i \in 1 .. sched_len :
               sched_queue[(sched_idx + i - 1) % Depth] = ghost.due[i]
    BY DEF SchedRingInv, RingIsFifo
  <2>6. sched_len' = Len(ghost'.due)
    BY <2>1, <2>2, <2>3, <2>5
  <2>7. ASSUME NEW i \in 1 .. sched_len'
        PROVE  sched_queue'[(sched_idx' + i - 1) % Depth] = ghost'.due[i]
    <3>1. CASE i = sched_len + 1
      <4>1. sched_idx' + i - 1 = sched_idx + sched_len
        BY <1>1, <1>2, <3>1
      <4>2. ghost'.due[i] = n
        BY <2>2, <2>3, <2>5, <3>1
      <4> QED
        BY <2>4, <4>1, <4>2 DEF w
    <3>2. CASE i # sched_len + 1
      <4> DEFINE a == i - 1
      <4>1. /\ i \in 1 .. sched_len /\ a \in 0 .. Depth - 1 /\ a # sched_len
            /\ sched_len \in 0 .. Depth - 1
            /\ sched_idx' + i - 1 = sched_idx + a
            /\ sched_idx + i - 1 = sched_idx + a
        BY <1>1, <1>2, <1>3, <2>1, <3>2
      <4> HIDE DEF a
      <4>2. (sched_idx + a) % Depth # w
        BY <1>1, <4>1, RingPlacesDiffer DEF w
      <4>3. (sched_idx + a) % Depth \in 0 .. Depth - 1
        BY <1>1, <4>1
      <4>4. sched_queue'[(sched_idx + a) % Depth] = ghost.due[i]
        BY <2>4, <2>5, <4>1, <4>2, <4>3
      <4>5. ghost'.due[i] = ghost.due[i]
        BY <2>2, <2>3, <2>5, <4>1
      <4> QED
        BY <4>1, <4>4, <4>5
    <3> QED
      BY <3>1, <3>2
  <2>8. RingIsFifo'
    BY <2>6, <2>7 DEF RingIsFifo
  <2>9. sched_idx' \in 0 .. Depth - 1 /\ sched_len' \in 0 .. Depth
    BY <1>1, <1>2, <1>3, <2>1
  <2> QED
    BY <2>3, <2>4, <2>8, <2>9 DEF SchedRingInv
<1>4. CASE ~(sched_len < Depth)
  <2>1. /\ sched_queue' = sched_queue /\ sched_len' = sched_len
        /\ ghost' = [ghost EXCEPT !.calls = ghost.calls + 1]
    BY <1>4 DEF Schedule
  <2>2. /\ ghost' \in [calls : Nat, due : Seq(Nat), nodes : Nat, locks : Nat]
        /\ ghost'.due = ghost.due
    <3>1. ghost.calls + 1 \in Nat
      BY <1>1
    <3> QED
      BY <1>1, <2>1, <3>1
  <2> QED
    BY <1>2, <2>1, <2>2 DEF SchedRingInv, RingIsFifo
<1> QED
  BY <1>3, <1>4

\* The main thread takes the first call of the ring, if there is no node.
LEMMA RingShrinks ==
    ASSUME SchedRingInv, TakeNext PROVE SchedRingInv'
<1>1. /\ Depth \in Nat \ {0} /\ sched_idx \in 0 .. Depth - 1
      /\ sched_len \in 0 .. Depth
      /\ ghost \in [calls : Nat, due : Seq(Nat), nodes : Nat, locks : Nat]
      /\ sched_queue \in [0 .. Depth - 1 -> Nat]
  BY SchedulerAssumption DEF SchedRingInv
<1>2. CASE UNCHANGED <<ring, ghost>>
  BY <1>2 DEF SchedRingInv, RingIsFifo, ring
<1>3. CASE ~UNCHANGED <<ring, ghost>>
  <2>1. /\ sched_len > 0 /\ sched_queue' = sched_queue
        /\ sched_idx' = (sched_idx + 1) % Depth
        /\ sched_len' = sched_len - 1
        /\ ghost' = [ghost EXCEPT !.due = Tail(ghost.due)]
    BY <1>3 DEF TakeNext
  <2>2. sched_len = Len(ghost.due)
        /\ \A i \in 1 .. sched_len :
               sched_queue[(sched_idx + i - 1) % Depth] = ghost.due[i]
    BY DEF SchedRingInv, RingIsFifo
  <2>3. ghost.due \in Seq(Nat) /\ ghost.due # <<>>
    BY <1>1, <2>1, <2>2
  <2>4. /\ Tail(ghost.due) \in Seq(Nat)
        /\ Len(Tail(ghost.due)) = sched_len - 1
        /\ \A i \in 1 .. sched_len - 1 : Tail(ghost.due)[i] = ghost.due[i + 1]
    BY <2>2, <2>3
  <2>5. /\ ghost' \in [calls : Nat, due : Seq(Nat), nodes : Nat, locks : Nat]
        /\ ghost'.due = Tail(ghost.due)
    BY <1>1, <2>1, <2>4
  <2>6. sched_idx' \in 0 .. Depth - 1 /\ sched_len' \in 0 .. Depth
    BY <1>1, <2>1
  <2>7. ASSUME NEW i \in 1 .. sched_len'
        PROVE  sched_queue'[(sched_idx' + i - 1) % Depth] = ghost'.due[i]
    <3> DEFINE a == i - 1
    <3>0. sched_len' = sched_len - 1
      BY <2>1
    <3>1. /\ i \in 1 .. sched_len - 1 /\ a \in 0 .. Depth - 1
          /\ i + 1 \in 1 .. sched_len
          /\ sched_idx' + i - 1 = sched_idx' + a
          /\ sched_idx + (i + 1) - 1 = sched_idx + 1 + a
      BY <1>1, <2>6, <3>0
    <3> HIDE DEF a
    <3>2. (sched_idx' + a) % Depth = (sched_idx + 1 + a) % Depth
      BY <1>1, <2>1, <3>1, RingPlaceAfter
    <3>3. sched_queue[(sched_idx + 1 + a) % Depth] = ghost.due[i + 1]
      BY <2>2, <3>1
    <3> QED
      BY <2>1, <2>4, <2>5, <3>1, <3>2, <3>3
  <2>8. RingIsFifo'
    BY <2>1, <2>4, <2>5, <2>7 DEF RingIsFifo
  <2> QED
    BY <1>1, <2>1, <2>5, <2>6, <2>8 DEF SchedRingInv
<1> QED
  BY <1>2, <1>3

\* Every step keeps the ring first in, first out.
LEMMA SchedRingNext ==
    ASSUME SchedRingInv, [SchedNext]_schedVars PROVE SchedRingInv'
<1>1. CASE Schedule
  BY <1>1, RingGrows
<1>2. CASE TakeNext
  BY <1>2, RingShrinks
<1>3. CASE UNCHANGED <<ring, ghost>>
  BY <1>3 DEF SchedRingInv, RingIsFifo, ring
\* The bounds on nodes and locks are counted in the same record.
<1>4. ASSUME UNCHANGED ring,
             \/ ghost' = [ghost EXCEPT !.nodes = @ + 1]
             \/ ghost' = [ghost EXCEPT !.locks = @ + 1]
      PROVE  SchedRingInv'
  <2>1. ghost \in [calls : Nat, due : Seq(Nat), nodes : Nat, locks : Nat]
    BY DEF SchedRingInv
  <2>2. /\ ghost' \in [calls : Nat, due : Seq(Nat), nodes : Nat, locks : Nat]
        /\ ghost'.due = ghost.due
    BY <1>4, <2>1, SMTT(30)
  <2>3. RingIsFifo'
    BY <1>4, <2>2 DEF SchedRingInv, RingIsFifo, ring
  <2> QED
    BY <1>4, <2>2, <2>3 DEF SchedRingInv, ring
<1>5. CASE ScheduleNodes \/ RaiseException \/ IrqEnters \/ FinaliserStarts
  BY <1>4, <1>5 DEF ScheduleNodes, ScheduleNode, RaiseException, IrqEnters,
                    FinaliserStarts
<1>6. CASE TakeException \/ SeePending \/ CallReturns \/ RunEnds
  BY <1>3, <1>6 DEF TakeException, SeePending, CallReturns, RunEnds
<1>7. CASE IrqReturns \/ FinaliserEnds \/ Execute \/ UNCHANGED schedVars
  BY <1>3, <1>7 DEF IrqReturns, FinaliserEnds, Execute, schedVars
<1>8. CASE RunPending
  BY <1>2, <1>3, <1>8 DEF RunPending
<1>9. CASE NodeReturns
  BY <1>2, <1>9 DEF NodeReturns
<1> QED
  BY <1>1, <1>5, <1>6, <1>7, <1>8, <1>9 DEF SchedNext

-----------------------------------------------------------------------------
(***************************************************************************)
(* The scheduler: its list of nodes                                        *)
(***************************************************************************)

\* The k nodes of C are linked by nx from h to t, in the order of s.
ListOf(C, k, s, h, t, nx) ==
    /\ s \in [1 .. k -> C]
    /\ \A i, j \in 1 .. k : i # j => s[i] # s[j]
    /\ \A n \in C : \E i \in 1 .. k : s[i] = n
    /\ IF k = 0 THEN h = NoNode /\ t = NoNode
                ELSE h = s[1] /\ t = s[k] /\ nx[t] = NoNode
    /\ \A i \in 1 .. k - 1 : nx[s[i]] = s[i + 1]

\* mp_sched_schedule_node links a node behind the last one.
LEMMA ListGrows ==
    ASSUME NEW C \in SUBSET Nodes, NEW k \in Nat, NEW s, NEW h, NEW t,
           NEW nx \in [Nodes -> Nodes \cup {NoNode}],
           ListOf(C, k, s, h, t, nx), NEW n \in Nodes \ C,
           NEW ny, ny = IF t = NoNode THEN [nx EXCEPT ![n] = NoNode]
                        ELSE [nx EXCEPT ![n] = NoNode, ![t] = n]
    PROVE  ListOf(C \cup {n}, k + 1,
                  [i \in 1 .. k + 1 |-> IF i = k + 1 THEN n ELSE s[i]],
                  IF t = NoNode THEN n ELSE h, n, ny)
<1> DEFINE z == [i \in 1 .. k + 1 |-> IF i = k + 1 THEN n ELSE s[i]]
<1>1. /\ s \in [1 .. k -> C]
      /\ \A i, j \in 1 .. k : i # j => s[i] # s[j]
      /\ \A m \in C : \E i \in 1 .. k : s[i] = m
      /\ \A i \in 1 .. k - 1 : nx[s[i]] = s[i + 1]
  BY DEF ListOf
<1>2. \A i \in 1 .. k + 1 : i = k + 1 \/ i \in 1 .. k
  OBVIOUS
<1>3. /\ z \in [1 .. k + 1 -> C \cup {n}] /\ z[k + 1] = n
      /\ \A i \in 1 .. k : z[i] = s[i] /\ s[i] # n /\ s[i] \in C
  BY <1>1, <1>2
<1>4. /\ t = NoNode => k = 0
      /\ t # NoNode => k \in Nat \ {0} /\ h = s[1] /\ t = s[k] /\ t \in C
  BY <1>1, SchedulerAssumption DEF ListOf
<1> HIDE DEF z
<1>5. \A i, j \in 1 .. k + 1 : i # j => z[i] # z[j]
  BY <1>1, <1>2, <1>3
<1>6. \A m \in C \cup {n} : \E i \in 1 .. k + 1 : z[i] = m
  <2>1. k + 1 \in 1 .. k + 1 /\ \A i \in 1 .. k : i \in 1 .. k + 1
    OBVIOUS
  <2> QED
    BY <1>1, <1>3, <2>1
<1>7. ny[n] = NoNode /\ n # NoNode
  BY <1>4, SchedulerAssumption
<1>8. (IF t = NoNode THEN n ELSE h) = z[1]
  BY <1>3, <1>4
<1>9. ASSUME NEW i \in 1 .. k PROVE ny[z[i]] = z[i + 1]
  <2>1. t # NoNode /\ t \in Nodes \ {n} /\ z[i] = s[i] /\ s[i] \in Nodes \ {n}
    BY <1>3, <1>4
  <2>2. CASE i = k
    BY <1>3, <1>4, <2>1, <2>2
  <2>3. CASE i # k
    <3>1. i \in 1 .. k - 1 /\ i + 1 \in 1 .. k /\ k \in 1 .. k
      BY <2>3
    <3>2. s[i] # t
      BY <1>1, <1>4, <2>1, <2>3, <3>1
    <3>3. ny[s[i]] = nx[s[i]]
      BY <2>1, <3>2
    <3> QED
      BY <1>1, <1>3, <2>1, <3>1, <3>3
  <2> QED
    BY <2>2, <2>3
<1>10. /\ k + 1 # 0 /\ n = z[k + 1] /\ \A i \in 1 .. (k + 1) - 1 : i \in 1 .. k
  BY <1>3
<1>11. ListOf(C \cup {n}, k + 1, z, IF t = NoNode THEN n ELSE h, n, ny)
  BY <1>3, <1>5, <1>6, <1>7, <1>8, <1>9, <1>10 DEF ListOf
<1> QED
  BY <1>11 DEF z

\* mp_sched_run_pending takes the first node off the list.
LEMMA ListShrinks ==
    ASSUME NEW C \in SUBSET Nodes, NEW k \in Nat, NEW s, NEW h, NEW t, NEW nx,
           ListOf(C, k, s, h, t, nx), h # NoNode
    PROVE  /\ k - 1 \in Nat /\ h \in C
           /\ ListOf(C \ {h}, k - 1, [i \in 1 .. k - 1 |-> s[i + 1]], nx[h],
                     IF nx[h] = NoNode THEN NoNode ELSE t, nx)
<1> DEFINE z == [i \in 1 .. k - 1 |-> s[i + 1]]
<1>1. /\ s \in [1 .. k -> C]
      /\ \A i, j \in 1 .. k : i # j => s[i] # s[j]
      /\ \A m \in C : \E i \in 1 .. k : s[i] = m
      /\ \A i \in 1 .. k - 1 : nx[s[i]] = s[i + 1]
      /\ k \in Nat \ {0} /\ h = s[1] /\ t = s[k] /\ nx[t] = NoNode
  BY DEF ListOf
<1>2. k - 1 \in Nat /\ 1 \in 1 .. k /\ h \in C
  BY <1>1
<1>3. \A i \in 1 .. k - 1 : i + 1 \in 2 .. k /\ i + 1 \in 1 .. k /\ i + 1 # 1
  BY <1>1
<1>4. /\ z \in [1 .. k - 1 -> C \ {h}]
      /\ \A i \in 1 .. k - 1 : z[i] = s[i + 1]
  BY <1>1, <1>2, <1>3
<1> HIDE DEF z
<1>5. \A i, j \in 1 .. k - 1 : i # j => z[i] # z[j]
  BY <1>1, <1>3, <1>4
<1>6. ASSUME NEW m \in C \ {h} PROVE \E i \in 1 .. k - 1 : z[i] = m
  <2>1. PICK i \in 1 .. k : s[i] = m
    BY <1>1
  <2>2. i - 1 \in 1 .. k - 1 /\ (i - 1) + 1 = i
    BY <1>1, <2>1
  <2> QED
    BY <1>4, <2>1, <2>2
<1>7. ASSUME NEW i \in 1 .. (k - 1) - 1 PROVE nx[z[i]] = z[i + 1]
  <2>1. i \in 1 .. k - 1 /\ i + 1 \in 1 .. k - 1
    BY <1>1
  <2> QED
    BY <1>1, <1>4, <2>1
<1>8. CASE k = 1
  BY <1>1, <1>2, <1>4, <1>5, <1>6, <1>7, <1>8 DEF ListOf, z
<1>9. CASE k # 1
  <2>1. k - 1 # 0 /\ 1 \in 1 .. k - 1 /\ k - 1 \in 1 .. k - 1
        /\ (k - 1) + 1 = k /\ k \in 1 .. k
    BY <1>1, <1>9
  <2>2. nx[h] = z[1] /\ t = z[k - 1] /\ z[1] \in Nodes
    BY <1>1, <1>4, <2>1
  <2>3. nx[h] # NoNode
    BY <2>2, SchedulerAssumption
  <2>4. ListOf(C \ {h}, k - 1, z, nx[h],
               IF nx[h] = NoNode THEN NoNode ELSE t, nx)
    BY <1>1, <1>4, <1>5, <1>6, <1>7, <2>1, <2>2, <2>3 DEF ListOf
  <2> QED
    BY <1>2, <2>4 DEF z
<1> QED
  BY <1>8, <1>9

\* The nodes that are scheduled.
Queued == {n \in Nodes : callback[n]}

\* The types of the nodes, and their list.
SchedListInv ==
    /\ callback = [n \in Nodes |-> callback[n]]
    /\ next \in [Nodes -> Nodes \cup {NoNode}]
    /\ IsFiniteSet(Queued)
    /\ \E s : ListOf(Queued, Cardinality(Queued), s, head, tail, next)

\* The list in terms of NodeListIsSound.
LEMMA ListIsSound == SchedListInv => NodeListIsSound
<1> SUFFICES ASSUME SchedListInv PROVE NodeListIsSound
  OBVIOUS
<1> DEFINE k == Cardinality(Queued)
<1>1. PICK s : ListOf(Queued, k, s, head, tail, next)
  BY DEF SchedListInv
<1>2. k \in Nat
  BY FS_CardinalityType DEF SchedListInv
<1> HIDE DEF k
<1>3. /\ s \in [1 .. k -> Queued]
      /\ \A i, j \in 1 .. k : i # j => s[i] # s[j]
      /\ \A m \in Queued : \E i \in 1 .. k : s[i] = m
      /\ \A i \in 1 .. k - 1 : next[s[i]] = s[i + 1]
      /\ IF k = 0 THEN head = NoNode /\ tail = NoNode
                  ELSE head = s[1] /\ tail = s[k] /\ next[tail] = NoNode
  BY <1>1 DEF ListOf
<1>4. s \in Seq(Queued) /\ Len(s) = k /\ DOMAIN s = 1 .. k
  BY <1>2, <1>3
<1>5. s \in SetToSeqs(Queued)
  BY <1>3 DEF SetToSeqs, k
<1>6. ToSet(s) = Queued
  BY <1>3, <1>4 DEF ToSet
<1>7. s = <<>> <=> k = 0
  BY <1>4
<1>8. k # 0 => Last(s) = s[k]
  BY <1>4 DEF Last
<1> QED
  BY <1>3, <1>4, <1>5, <1>6, <1>7, <1>8 DEF NodeListIsSound, Queued

\* A node is put behind the last one.
LEMMA NodeQueued ==
    ASSUME SchedListInv, NEW n \in Nodes, ScheduleNode(n)
    PROVE  SchedListInv'
<1> DEFINE k == Cardinality(Queued)
<1>1. PICK s : ListOf(Queued, k, s, head, tail, next)
  BY DEF SchedListInv
<1>2. n \notin Queued /\ Queued \in SUBSET Nodes
  BY DEF ScheduleNode, Queued
<1>3. Queued' = Queued \cup {n}
  <2>1. callback'[n] /\ \A m \in Nodes \ {n} : callback'[m] = callback[m]
    BY Zenon DEF ScheduleNode, SchedListInv
  <2> QED
    BY <2>1 DEF Queued
<1>4. IsFiniteSet(Queued') /\ Cardinality(Queued') = k + 1 /\ k \in Nat
  BY <1>2, <1>3, FS_AddElement, FS_CardinalityType DEF SchedListInv
<1>5. next \in [Nodes -> Nodes \cup {NoNode}]
  BY DEF SchedListInv
<1>6. /\ next' = IF tail = NoNode THEN [next EXCEPT ![n] = NoNode]
                 ELSE [next EXCEPT ![n] = NoNode, ![tail] = n]
      /\ head' = IF tail = NoNode THEN n ELSE head
      /\ tail' = n
  BY DEF ScheduleNode
<1>7. next' \in [Nodes -> Nodes \cup {NoNode}]
  BY <1>5, <1>6
<1>8. callback' = [m \in Nodes |-> callback'[m]]
  BY DEF ScheduleNode, SchedListInv
<1> HIDE DEF k
<1>9. \E z : ListOf(Queued \cup {n}, k + 1, z,
                    IF tail = NoNode THEN n ELSE head, n, next')
  BY <1>1, <1>2, <1>4, <1>5, <1>6, ListGrows
<1>10. \E z : ListOf(Queued', Cardinality(Queued'), z, head', tail', next')
  BY <1>3, <1>4, <1>6, <1>9
<1> QED
  BY <1>4, <1>7, <1>8, <1>10 DEF SchedListInv, ListOf

\* The main thread takes the first node.
LEMMA NodeTaken ==
    ASSUME SchedListInv, head # NoNode, head' = next[head], next' = next,
           tail' = IF head' = NoNode THEN NoNode ELSE tail,
           callback' = [callback EXCEPT ![head] = FALSE]
    PROVE  SchedListInv'
<1> DEFINE k == Cardinality(Queued)
<1>1. PICK s : ListOf(Queued, k, s, head, tail, next)
  BY DEF SchedListInv
<1>2. k \in Nat /\ IsFiniteSet(Queued)
  BY FS_CardinalityType DEF SchedListInv
<1>3. Queued \in SUBSET Nodes
  BY DEF Queued
<1> HIDE DEF k
<1>4. /\ k - 1 \in Nat /\ head \in Queued
      /\ \E z : ListOf(Queued \ {head}, k - 1, z, next[head],
                       IF next[head] = NoNode THEN NoNode ELSE tail, next)
  BY <1>1, <1>2, <1>3, ListShrinks
<1>5. Queued' = Queued \ {head}
  <2>1. ~callback'[head]
        /\ \A m \in Nodes \ {head} : callback'[m] = callback[m]
    BY <1>3, <1>4, Zenon DEF SchedListInv
  <2> QED
    BY <2>1 DEF Queued
<1>6. IsFiniteSet(Queued') /\ Cardinality(Queued') = k - 1
  BY <1>2, <1>4, <1>5, FS_RemoveElement DEF k
<1>7. callback' = [m \in Nodes |-> callback'[m]]
  BY DEF SchedListInv
<1>8. \E z : ListOf(Queued', Cardinality(Queued'), z, head', tail', next')
  BY <1>4, <1>5, <1>6
<1>9. next' \in [Nodes -> Nodes \cup {NoNode}]
  BY DEF SchedListInv
<1> QED
  BY <1>6, <1>7, <1>8, <1>9 DEF SchedListInv, ListOf

\* Every step keeps the list whole.
LEMMA SchedListNext ==
    ASSUME SchedListInv, [SchedNext]_schedVars PROVE SchedListInv'
<1>1. CASE ScheduleNodes
  BY <1>1, NodeQueued DEF ScheduleNodes
<1>2. CASE UNCHANGED list
  <2>1. /\ callback' = callback /\ next' = next /\ head' = head
        /\ tail' = tail /\ Queued' = Queued
    BY <1>2 DEF list, Queued
  <2> QED
    BY <2>1 DEF SchedListInv, ListOf
<1>3. CASE TakeNext
  BY <1>2, <1>3, NodeTaken DEF TakeNext
<1>4. CASE Schedule \/ RaiseException \/ TakeException \/ SeePending
  BY <1>2, <1>4 DEF Schedule, RaiseException, TakeException, SeePending
<1>5. CASE CallReturns \/ RunEnds \/ IrqEnters \/ IrqReturns
  BY <1>2, <1>5 DEF CallReturns, RunEnds, IrqEnters, IrqReturns
<1>6. CASE \/ FinaliserStarts \/ FinaliserEnds \/ Execute
           \/ UNCHANGED schedVars
  BY <1>2, <1>6 DEF FinaliserStarts, FinaliserEnds, Execute, schedVars
<1>7. CASE RunPending
  BY <1>2, <1>3, <1>7 DEF RunPending
<1>8. CASE NodeReturns
  BY <1>3, <1>8 DEF NodeReturns
<1> QED
  BY <1>1, <1>4, <1>5, <1>6, <1>7, <1>8 DEF SchedNext

\* The scheduler starts idle and empty.
LEMMA SchedInitInv ==
    SchedInit => SchedLockInv /\ SchedRingInv /\ SchedListInv
<1> SUFFICES ASSUME SchedInit
             PROVE  SchedLockInv /\ SchedRingInv /\ SchedListInv
  OBVIOUS
<1>1. SchedLockInv
  <2>1. irq \in BOOLEAN /\ core1 \in BOOLEAN /\ ~irq /\ ~core1
    BY Zenon DEF SchedInit
  <2>2. LockedByHolders /\ NothingForgotten
    BY <2>1 DEF SchedInit, LockedByHolders, NothingForgotten, IDLE, PENDING
  <2> QED
    BY <2>1, <2>2 DEF SchedLockInv
<1>2. SchedRingInv
  <2>1. <<>> \in Seq(Nat) /\ Len(<<>>) = 0
    OBVIOUS
  <2>2. /\ ghost \in [calls : Nat, due : Seq(Nat), nodes : Nat, locks : Nat]
        /\ ghost.due = <<>>
    BY <2>1 DEF SchedInit
  <2> QED
    BY <2>1, <2>2, SchedulerAssumption
       DEF SchedInit, SchedRingInv, RingIsFifo
<1>3. SchedListInv
  <2>1. Queued = {}
    <3>1. \A n \in Nodes : ~callback[n]
      BY Zenon DEF SchedInit
    <3> QED
      BY <3>1 DEF Queued
  <2>2. IsFiniteSet(Queued) /\ Cardinality(Queued) = 0
    BY <2>1, FS_EmptySet
  <2>3. next \in [Nodes -> Nodes \cup {NoNode}]
        /\ callback = [n \in Nodes |-> callback[n]]
    BY DEF SchedInit
  <2>4. ListOf(Queued, 0, [i \in 1 .. 0 |-> NoNode], head, tail, next)
    BY <2>1 DEF SchedInit, ListOf
  <2> QED
    BY <2>2, <2>3, <2>4 DEF SchedListInv
<1> QED
  BY <1>1, <1>2, <1>3

\* The scheduler's books are exact (scheduler.c:34-249), for every depth of
\* the ring, any nodes and any number of calls, interrupts and finalisers: the
\* lock count has its holders, a pending call leaves the state PENDING or
\* locked, the list of nodes is whole and the ring is first in, first out.
THEOREM SchedulerIsKept == SchedSpec => []ScheduleIsKept
<1> DEFINE Inv == SchedLockInv /\ SchedRingInv /\ SchedListInv
<1>1. Inv /\ [SchedNext]_schedVars => Inv'
  BY SchedLockNext, SchedRingNext, SchedListNext
<1>2. Inv => ScheduleIsKept
  BY ListIsSound DEF ScheduleIsKept, SchedLockInv, SchedRingInv
<1> QED
  BY SchedInitInv, <1>1, <1>2, PTL DEF SchedSpec

-----------------------------------------------------------------------------
(***************************************************************************)
(* The dispatch of background work                                         *)
(***************************************************************************)

\* Who has pendsv_mutex: the handler of a core or its suspended thread, once;
\* or core 1, if it was stopped there.  A core whose thread has suspended the
\* handler has no PendSV pending, so that its handler does not start.
PendsvInv ==
    /\ pendsv_mutex \in [owner : {0, 1, Free}, count : {0, 1}]
    /\ pendsv_mutex.owner = Free <=> pendsv_mutex.count = 0
    /\ handler \in [Cores -> Nat \cup {-1}]
    /\ doing = [c \in Cores |-> doing[c]] /\ pend = [c \in Cores |-> pend[c]]
    /\ doing[0] # "dead"
    /\ \A c \in Cores :
           /\ pend[c] => doing[c] # "in"
           /\ handler[c] # -1 => pendsv_mutex.owner = c /\ doing[c] # "in"
           /\ doing[c] = "in" => pendsv_mutex.owner = c
           /\ pendsv_mutex.owner = c
                  => \/ handler[c] # -1
                     \/ doing[c] \in {"in", "dead"}

\* The states of the mutex.
LEMMA MutexStates ==
    ASSUME PendsvInv
    PROVE  /\ pendsv_mutex.owner \in {0, 1, 2}
           /\ pendsv_mutex.owner = 2 => pendsv_mutex.count = 0
           /\ pendsv_mutex.owner # 2 => pendsv_mutex.count = 1
  BY DEF PendsvInv, Free

\* Entering the free mutex, and leaving it.
LEMMA MutexOnce ==
    ASSUME PendsvInv, NEW c \in Cores
    PROVE  /\ pendsv_mutex.owner = Free
                  => Entered(pendsv_mutex, c) = [owner |-> c, count |-> 1]
           /\ pendsv_mutex.owner = c
                  => Exited(pendsv_mutex) = [owner |-> Free, count |-> 0]
<1>1. pendsv_mutex.owner = Free => pendsv_mutex.count = 0
  BY MutexStates DEF Free
<1>2. pendsv_mutex.owner = c => pendsv_mutex.count = 1
  BY MutexStates DEF Free, Cores
<1> QED
  BY <1>1, <1>2 DEF Entered, Exited

\* HandlerIsAlone follows.
LEMMA AloneHolds == PendsvInv => HandlerIsAlone
<1> SUFFICES ASSUME PendsvInv, NEW c \in Cores, handler[c] # -1
             PROVE  /\ pendsv_mutex.owner = c /\ pendsv_mutex.count = 1
                    /\ handler[1 - c] = -1
                    /\ \A d \in Cores : doing[d] # "in"
  BY DEF HandlerIsAlone
<1>1. pendsv_mutex.owner = c
  BY DEF PendsvInv
<1>2. pendsv_mutex.count = 1
  BY <1>1, MutexStates DEF Cores
<1>3. 1 - c \in Cores /\ 1 - c # c
  BY DEF Cores
<1>4. handler[1 - c] = -1
  BY <1>1, <1>3 DEF PendsvInv
<1>5. \A d \in Cores : doing[d] # "in"
  BY <1>1 DEF PendsvInv
<1> QED
  BY <1>1, <1>2, <1>4, <1>5

\* A step that does not touch the mutex, the handlers and the threads, and
\* makes PendSV pending only where no thread has suspended it.
LEMMA PendStep ==
    ASSUME PendsvInv, UNCHANGED <<pendsv_mutex, handler, doing>>,
           pend' = [c \in Cores |-> pend'[c]],
           \A c \in Cores : pend'[c] => pend[c] \/ pendsv_mutex.count = 0
    PROVE  PendsvInv'
<1>1. \A c \in Cores : pend'[c] => doing'[c] # "in"
  BY MutexStates DEF PendsvInv, Cores
<1> QED
  BY <1>1 DEF PendsvInv

\* Trigger makes PendSV pending on its core if the mutex is free.
LEMMA TriggerPends ==
    ASSUME PendsvInv, NEW d \in Cores, Trigger(d)
    PROVE  /\ pend' = [c \in Cores |-> pend'[c]]
           /\ \A c \in Cores : pend'[c] => pend[c] \/ pendsv_mutex.count = 0
<1>1. pend = [c \in Cores |-> pend[c]]
  BY DEF PendsvInv
<1>2. pend' = [pend EXCEPT ![d] = pend[d] \/ pendsv_mutex.count = 0]
  BY DEF Trigger
<1>3. pend' = [c \in Cores |-> pend'[c]]
  BY <1>1, <1>2
<1>4. \A c \in Cores : pend'[c] =
          IF c = d THEN pend[d] \/ pendsv_mutex.count = 0 ELSE pend[c]
  BY <1>1, <1>2, Zenon
<1>5. \A c \in Cores : pend'[c] => pend[c] \/ pendsv_mutex.count = 0
  BY <1>4, Zenon
<1> QED
  BY <1>3, <1>5

\* Each step of an interrupt, a handler or a thread keeps the mutex with the
\* one who took it.
LEMMA PendsvNextInv ==
    ASSUME PendsvInv, [PendsvNext]_pendsvVars PROVE PendsvInv'
<1>1. CASE Interrupts
  <2>1. UNCHANGED <<pendsv_mutex, handler, doing, pend>>
    BY <1>1 DEF Interrupts, Irq, thread
  <2> QED
    BY <2>1, PendStep DEF PendsvInv
<1>2. CASE IrqTriggers
  BY <1>2, TriggerPends, PendStep DEF IrqTriggers, thread, Cores
<1>3. ASSUME NEW c \in Cores, HandlerStarts(c) PROVE PendsvInv'
  <2>1. /\ pend' = [d \in Cores |-> pend'[d]] /\ ~pend'[c]
        /\ \A d \in Cores : pend'[d] => pend[d]
    <3>1. /\ pend' = [pend EXCEPT ![c] = FALSE]
          /\ pend = [d \in Cores |-> pend[d]]
      BY <1>3 DEF HandlerStarts, PendsvInv
    <3>2. \A d \in Cores : pend'[d] = IF d = c THEN FALSE ELSE pend[d]
      BY <3>1, Zenon
    <3>3. pend' = [d \in Cores |-> pend'[d]]
      BY <3>1
    <3> QED
      BY <3>2, <3>3, Zenon
  <2>2. CASE pendsv_mutex.owner = 1 - c
    <3>1. UNCHANGED <<pendsv_mutex, handler, doing>>
      BY <1>3, <2>2 DEF HandlerStarts, thread
    <3> QED
      BY <2>1, <3>1, PendStep
  <2>3. CASE pendsv_mutex.owner # 1 - c
    <3>1. /\ handler[c] = -1 /\ pend[c] /\ doing[c] # "dead"
          /\ MayEnter(pendsv_mutex, c)
          /\ pendsv_mutex' = Entered(pendsv_mutex, c)
          /\ handler' = [handler EXCEPT ![c] = 0] /\ doing' = doing
      BY <1>3, <2>3 DEF HandlerStarts, Enter, thread
    <3>2. doing[c] # "in"
      BY <3>1 DEF PendsvInv
    <3>3. pendsv_mutex.owner = Free
      BY <3>1, <3>2 DEF MayEnter, PendsvInv
    <3>4. pendsv_mutex' = [owner |-> c, count |-> 1]
      BY <3>1, <3>3, MutexOnce
    <3>5. /\ handler' \in [Cores -> Nat \cup {-1}] /\ handler'[c] = 0
          /\ \A d \in Cores \ {c} : handler'[d] = handler[d]
      BY <3>1 DEF PendsvInv
    <3>6. \A d \in Cores : doing[d] # "in" /\ handler[d] = -1
      BY <3>3 DEF PendsvInv, Cores, Free
    <3>7. /\ pendsv_mutex' \in [owner : {0, 1, Free}, count : {0, 1}]
          /\ pendsv_mutex'.owner = c /\ pendsv_mutex'.count = 1 /\ c # Free
      BY <3>4 DEF Cores, Free
    <3> QED
      BY <2>1, <3>1, <3>5, <3>6, <3>7 DEF PendsvInv
  <2> QED
    BY <2>2, <2>3
<1>4. ASSUME NEW c \in Cores, HandlerSlot(c) PROVE PendsvInv'
  <2>1. /\ handler' \in [Cores -> Nat \cup {-1}]
        /\ \A d \in Cores : handler'[d] # -1 <=> handler[d] # -1
    <3>1. handler' = [handler EXCEPT ![c] = handler[c] + 1]
          /\ handler[c] # -1 /\ handler \in [Cores -> Nat \cup {-1}]
      BY <1>4 DEF HandlerSlot, HandlerRuns, PendsvInv
    <3>2. handler[c] \in Nat
      BY <3>1
    <3> QED
      BY <3>1, <3>2
  <2> QED
    BY <1>4, <2>1 DEF PendsvInv, HandlerSlot, thread
<1>5. ASSUME NEW c \in Cores, HandlerEnds(c) PROVE PendsvInv'
  <2>1. /\ handler[c] # -1 /\ UNCHANGED <<pend, doing>>
        /\ pendsv_mutex' = Exited(pendsv_mutex)
        /\ handler' = [handler EXCEPT ![c] = -1]
    BY <1>5 DEF HandlerEnds, HandlerRuns, Exit, thread
  <2>2. pendsv_mutex.owner = c
    BY <2>1 DEF PendsvInv
  <2>3. pendsv_mutex' = [owner |-> Free, count |-> 0]
    BY <2>1, <2>2, MutexOnce
  <2>4. /\ handler' \in [Cores -> Nat \cup {-1}] /\ handler'[c] = -1
        /\ \A d \in Cores \ {c} : handler'[d] = handler[d]
    BY <2>1 DEF PendsvInv
  <2>5. \A d \in Cores : doing[d] # "in" /\ (d # c => handler[d] = -1)
    BY <2>1, <2>2 DEF PendsvInv
  <2>6. /\ pendsv_mutex' \in [owner : {0, 1, Free}, count : {0, 1}]
        /\ pendsv_mutex'.owner = Free /\ pendsv_mutex'.count = 0
        /\ \A d \in Cores : d # Free
    BY <2>3 DEF Cores, Free
  <2> QED
    BY <2>1, <2>4, <2>5, <2>6 DEF PendsvInv
\* A thread that goes on without the mutex.
<1>6. ASSUME NEW c \in Cores, doing[c] \notin {"in", "dead"},
             NEW w \in {"out", "enter", "scan", "refill", "trigger"},
             doing' = [doing EXCEPT ![c] = w],
             UNCHANGED <<pendsv_mutex, handler>>,
             pend' = [d \in Cores |-> pend'[d]],
             \A d \in Cores : pend'[d] => pend[d] \/ pendsv_mutex.count = 0
      PROVE  PendsvInv'
  <2>1. /\ doing' = [d \in Cores |-> doing'[d]] /\ doing'[c] = w
        /\ \A d \in Cores \ {c} : doing'[d] = doing[d]
    BY <1>6 DEF PendsvInv
  <2>2. \A d \in Cores : /\ doing'[d] = "in" <=> doing[d] = "in"
                         /\ doing'[d] = "dead" <=> doing[d] = "dead"
    BY <1>6, <2>1
  <2>3. \A d \in Cores : pend'[d] => doing'[d] # "in"
    BY <1>6, <2>2, MutexStates DEF PendsvInv, Cores
  <2>4. 0 \in Cores
    BY DEF Cores
  <2> QED
    BY <1>6, <2>1, <2>2, <2>3, <2>4 DEF PendsvInv
<1>7. ASSUME NEW c \in Cores, Suspend(c) PROVE PendsvInv'
  BY <1>6, <1>7 DEF Suspend, PendsvInv
<1>8. ASSUME NEW c \in Cores, Suspended(c) PROVE PendsvInv'
  <2>1. /\ handler[c] = -1 /\ ~pend[c] /\ doing[c] = "enter"
        /\ MayEnter(pendsv_mutex, c)
        /\ pendsv_mutex' = Entered(pendsv_mutex, c)
        /\ doing' = [doing EXCEPT ![c] = "in"]
        /\ UNCHANGED <<pend, handler>>
    BY <1>8 DEF Suspended, ThreadRuns, Enter
  <2>2. pendsv_mutex.owner = Free
    BY <2>1 DEF MayEnter, PendsvInv
  <2>3. pendsv_mutex' = [owner |-> c, count |-> 1]
    BY <2>1, <2>2, MutexOnce
  <2>4. /\ doing' = [d \in Cores |-> doing'[d]] /\ doing'[c] = "in"
        /\ \A d \in Cores \ {c} : doing'[d] = doing[d]
    BY <2>1 DEF PendsvInv
  <2>5. \A d \in Cores : doing[d] # "in" /\ handler[d] = -1
    BY <2>2 DEF PendsvInv, Cores, Free
  <2>6. /\ pendsv_mutex' \in [owner : {0, 1, Free}, count : {0, 1}]
        /\ pendsv_mutex'.owner = c /\ pendsv_mutex'.count = 1 /\ c # Free
    BY <2>3 DEF Cores, Free
  <2>7. doing'[0] # "dead"
    BY <2>4 DEF PendsvInv, Cores
  <2> QED
    BY <2>1, <2>4, <2>5, <2>6, <2>7 DEF PendsvInv
<1>9. ASSUME NEW c \in Cores, PendsvResume(c) PROVE PendsvInv'
  <2>1. /\ handler[c] = -1 /\ ~pend[c] /\ doing[c] = "in"
        /\ pendsv_mutex' = Exited(pendsv_mutex)
        /\ doing' = [doing EXCEPT ![c] = "scan"]
        /\ UNCHANGED <<pend, handler>>
    BY <1>9 DEF PendsvResume, ThreadRuns, Exit
  <2>2. pendsv_mutex.owner = c
    BY <2>1 DEF PendsvInv
  <2>3. pendsv_mutex' = [owner |-> Free, count |-> 0]
    BY <2>1, <2>2, MutexOnce
  <2>4. /\ doing' = [d \in Cores |-> doing'[d]] /\ doing'[c] = "scan"
        /\ \A d \in Cores \ {c} : doing'[d] = doing[d]
    BY <2>1 DEF PendsvInv
  <2>5. \A d \in Cores : handler[d] = -1 /\ (d # c => doing[d] # "in")
    BY <2>1, <2>2 DEF PendsvInv
  <2>6. /\ pendsv_mutex' \in [owner : {0, 1, Free}, count : {0, 1}]
        /\ pendsv_mutex'.owner = Free /\ pendsv_mutex'.count = 0
        /\ \A d \in Cores : d # Free
    BY <2>3 DEF Cores, Free
  <2>7. doing'[0] # "dead"
    BY <2>4 DEF PendsvInv, Cores
  <2> QED
    BY <2>1, <2>4, <2>5, <2>6, <2>7 DEF PendsvInv
<1>10. ASSUME NEW c \in Cores, Scan(c) PROVE PendsvInv'
  <2>1. CASE UNCHANGED doing
    BY <1>10, <2>1, PendStep DEF Scan, PendsvInv
  <2>2. CASE ~UNCHANGED doing
    BY <1>6, <1>10, <2>2 DEF Scan, PendsvInv
  <2> QED
    BY <2>1, <2>2
<1>11. ASSUME NEW c \in Cores, Refill(c) PROVE PendsvInv'
  BY <1>6, <1>11 DEF Refill, PendsvInv
<1>12. ASSUME NEW c \in Cores, ResumeTriggers(c) PROVE PendsvInv'
  BY <1>6, <1>12, TriggerPends DEF ResumeTriggers
<1>13. CASE StopCore1
  <2>1. /\ doing' = [doing EXCEPT ![1] = "dead"]
        /\ handler' = [handler EXCEPT ![1] = -1]
        /\ pend' = [pend EXCEPT ![1] = FALSE]
        /\ pendsv_mutex' = pendsv_mutex
    BY <1>13 DEF StopCore1
  <2>0. 0 \in Cores /\ 1 \in Cores /\ \A d \in Cores : d = 0 \/ d = 1
    BY DEF Cores
  <2>2. /\ doing' = [d \in Cores |-> doing'[d]] /\ doing'[1] = "dead"
        /\ doing'[0] = doing[0]
    BY <2>0, <2>1 DEF PendsvInv
  <2>3. /\ handler' \in [Cores -> Nat \cup {-1}] /\ handler'[1] = -1
        /\ handler'[0] = handler[0]
    BY <2>0, <2>1 DEF PendsvInv
  <2>4. pend' = [d \in Cores |-> pend'[d]]
    <3>1. /\ pend' = [pend EXCEPT ![1] = FALSE]
          /\ pend = [d \in Cores |-> pend[d]]
      BY <2>1 DEF PendsvInv
    <3> QED
      BY ONLY <3>1
  <2>5. ~pend'[1] /\ pend'[0] = pend[0]
    <3>1. 0 # 1
      OBVIOUS
    <3> QED
      BY <2>0, <2>1, <3>1, Zenon DEF PendsvInv
  <2> QED
    BY <2>0, <2>1, <2>2, <2>3, <2>4, <2>5 DEF PendsvInv
<1>14. CASE UNCHANGED pendsvVars
  BY <1>14 DEF pendsvVars, thread, PendsvInv
<1>15. Quiet => UNCHANGED pendsvVars
  BY DEF Quiet
<1> QED
  BY <1>1, <1>2, <1>3, <1>4, <1>5, <1>7, <1>8, <1>9, <1>10, <1>11, <1>12,
     <1>13, <1>14, <1>15
     DEF PendsvNext, HandlerSteps, Handlers, Suspends, ThreadSteps, Threads

\* A handler of PendSV never runs beside another one, nor while a thread of
\* either core has suspended it, for any number of slots and interrupts: the
\* assertion of pendsv.c:163 holds and pendsv_suspend keeps its promise.
THEOREM HandlersAreAlone == PendsvSpec => []HandlerIsAlone
<1>1. PendsvInit => PendsvInv
  <2> SUFFICES ASSUME PendsvInit PROVE PendsvInv
    OBVIOUS
  <2>1. \A c \in Cores : ~pend[c]
    BY Zenon DEF PendsvInit
  <2> QED
    BY <2>1 DEF PendsvInit, PendsvInv, Unowned, Free, Cores
<1> QED
  BY <1>1, PendsvNextInv, AloneHolds, PTL DEF PendsvSpec

-----------------------------------------------------------------------------
(***************************************************************************)
(* The atomic sections of the two cores                                    *)
(***************************************************************************)

\* How the state of core 1 is seen: a thread runs only with its entry set, and
\* a core that does not run has neither begun nor opened a section.
CoreOneInv ==
    /\ running => entry /\ ~resetting
    /\ ~running => want[1] = "no" /\ saved[1] = <<>>
    /\ want[1] # "plain"

\* Who has atomic_mutex.  Core 0 may have fewer locks than open sections, for
\* inner sections that begin after the end of the thread take none and give
\* one back; while core 1 runs it has as many.  Core 1 has as many as it has
\* open sections, unless it was cut off with some.
AtomicMutexInv ==
    /\ atomic_mutex.owner = Free <=> atomic_mutex.count = 0
    /\ running => want[0] # "plain"
    /\ running /\ saved[0] # <<>> => atomic_mutex.owner = 0
    /\ atomic_mutex.owner = 0 => atomic_mutex.count <= Len(saved[0])
    /\ running /\ atomic_mutex.owner = 0
           => atomic_mutex.count = Len(saved[0])
    /\ saved[1] # <<>> => atomic_mutex.owner = 1
    /\ atomic_mutex.owner = 1 => atomic_mutex.count >= Len(saved[1])
    /\ atomic_mutex.owner = 1 /\ ~cut => atomic_mutex.count = Len(saved[1])

\* Only the outermost section has found the interrupts enabled.
InterruptsInv ==
    \A c \in Cores :
        /\ enabled[c] <=> saved[c] = <<>>
        /\ \A i \in 1 .. Len(saved[c]) : saved[c][i] <=> i = 1

AtomicTypes ==
    /\ atomic_mutex \in [owner : {0, 1, Free}, count : Nat]
    /\ want = [c \in Cores |-> want[c]]
    /\ saved \in [Cores -> Seq(BOOLEAN)]
    /\ enabled \in [Cores -> BOOLEAN]

AtomicInv == AtomicTypes /\ CoreOneInv /\ AtomicMutexInv /\ InterruptsInv

\* Mutual exclusion, and nothing left locked, follow.
LEMMA AtomicHolds ==
    AtomicInv => SectionsExclude /\ NothingIsLeftLocked
<1> SUFFICES ASSUME AtomicInv PROVE SectionsExclude /\ NothingIsLeftLocked
  OBVIOUS
<1>1. SectionsExclude
  BY DEF AtomicInv, CoreOneInv, AtomicMutexInv, SectionsExclude, Inside
<1>2. \A c \in Cores : enabled[c] <=> ~Inside(c)
  BY DEF AtomicInv, InterruptsInv, Inside
<1>3. ASSUME ~Inside(0), ~Inside(1), ~cut
      PROVE  atomic_mutex.owner = Free
  <2>1. saved[0] = <<>> /\ saved[1] = <<>>
    BY <1>3 DEF Inside
  <2>2. Len(saved[0]) = 0 /\ Len(saved[1]) = 0
    BY <2>1
  <2>3. atomic_mutex.owner \in {0, 1, Free} /\ atomic_mutex.count \in Nat
    BY DEF AtomicInv, AtomicTypes
  <2>4. atomic_mutex.owner \in {0, 1} => atomic_mutex.count = 0
    BY <1>3, <2>2, <2>3 DEF AtomicInv, AtomicMutexInv
  <2> QED
    BY <2>3, <2>4 DEF AtomicInv, AtomicMutexInv
<1> QED
  BY <1>1, <1>2, <1>3 DEF NothingIsLeftLocked

\* A step that changes nothing but begun and threads, or core 0's intention,
\* or makes and ends the thread while no section is open there.
LEMMA AtomicControl ==
    ASSUME AtomicInv, UNCHANGED <<atomic_mutex, saved, enabled, cut>>,
           want' = [c \in Cores |-> want'[c]], CoreOneInv',
           running' => want'[0] # "plain",
           running' => running \/ saved[0] = <<>>
    PROVE  AtomicInv'
<1>1. AtomicTypes'
  BY DEF AtomicInv, AtomicTypes
<1>2. InterruptsInv'
  BY DEF AtomicInv, InterruptsInv
<1>3. AtomicMutexInv'
  <2>1. saved[0] = <<>> => Len(saved[0]) = 0
    OBVIOUS
  <2>2. atomic_mutex.owner \in {0, 1, Free} /\ atomic_mutex.count \in Nat
    BY DEF AtomicInv, AtomicTypes
  <2>3. saved[0] = <<>> => atomic_mutex.owner # 0
    BY <2>1, <2>2 DEF AtomicInv, AtomicMutexInv, Free
  <2> QED
    BY <2>3 DEF AtomicInv, AtomicMutexInv
<1> QED
  BY <1>1, <1>2, <1>3 DEF AtomicInv

\* mp_thread_begin_atomic_section reads core1_entry.
LEMMA BeginReadsKeeps ==
    ASSUME AtomicInv, NEW c \in Cores, BeginReads(c)
    PROVE  AtomicInv'
<1>1. /\ c = 1 => running
      /\ want' = [want EXCEPT ![c] = IF entry THEN "mutex" ELSE "plain"]
      /\ UNCHANGED <<entry, running, atomic_mutex, saved, enabled, resetting,
                     cut>>
  BY DEF BeginReads, reset
<1>2. 0 \in Cores /\ 1 \in Cores
  BY DEF Cores
<1>3. /\ want' = [d \in Cores |-> want'[d]]
      /\ \A d \in Cores : d # c => want'[d] = want[d]
      /\ entry => want'[c] = "mutex"
  BY <1>1 DEF AtomicInv, AtomicTypes
<1>4. CoreOneInv'
  BY <1>1, <1>2, <1>3 DEF AtomicInv, CoreOneInv
<1>5. running' => want'[0] # "plain"
  BY <1>1, <1>2, <1>3 DEF AtomicInv, CoreOneInv, AtomicMutexInv
<1> QED
  BY <1>1, <1>3, <1>4, <1>5, AtomicControl

\* The thread is created and ends.
LEMMA ThreadKeeps ==
    ASSUME AtomicInv, CreateThread \/ ThreadReturns \/ ClearEntry
    PROVE  AtomicInv'
<1>1. UNCHANGED <<atomic_mutex, saved, enabled, cut, want>>
  BY DEF CreateThread, ThreadReturns, ClearEntry, cores, reset
<1>2. CASE CreateThread
  <2>1. /\ want[0] = "no" /\ saved[0] = <<>> /\ ~resetting
        /\ resetting' = resetting
    BY <1>2 DEF CreateThread
  <2>2. running' /\ entry'
    BY <1>2, Zenon DEF CreateThread
  <2>3. CoreOneInv'
    BY <1>1, <2>1, <2>2 DEF AtomicInv, CoreOneInv
  <2> QED
    BY <1>1, <2>1, <2>3, AtomicControl DEF AtomicInv, AtomicTypes
<1>3. CASE ThreadReturns
  <2>1. want[1] = "no" /\ saved[1] = <<>>
    BY <1>3 DEF ThreadReturns
  <2>2. ~running'
    BY <1>3, Zenon DEF ThreadReturns
  <2>3. CoreOneInv'
    BY <1>1, <2>1, <2>2 DEF AtomicInv, CoreOneInv
  <2> QED
    BY <1>1, <2>2, <2>3, AtomicControl DEF AtomicInv, AtomicTypes
<1>4. CASE ClearEntry
  <2>1. ~running /\ running' = running
    BY <1>4 DEF ClearEntry, AtomicInv, CoreOneInv
  <2>2. ~running'
    BY <2>1, Zenon
  <2>3. CoreOneInv'
    BY <1>1, <2>1, <2>2 DEF AtomicInv, CoreOneInv
  <2> QED
    BY <1>1, <2>2, <2>3, AtomicControl DEF AtomicInv, AtomicTypes
<1> QED
  BY <1>2, <1>3, <1>4

\* A core opens a section: it saves whether interrupts are enabled, and
\* disables them.
LEMMA SectionOpens ==
    ASSUME AtomicInv, NEW c \in Cores,
           saved' = [saved EXCEPT ![c] = Append(saved[c], enabled[c])],
           enabled' = [enabled EXCEPT ![c] = FALSE]
    PROVE  /\ saved' \in [Cores -> Seq(BOOLEAN)]
           /\ enabled' \in [Cores -> BOOLEAN]
           /\ saved'[c] # <<>> /\ Len(saved'[c]) = Len(saved[c]) + 1
           /\ \A d \in Cores \ {c} : saved'[d] = saved[d]
           /\ InterruptsInv'
<1>1. /\ saved \in [Cores -> Seq(BOOLEAN)] /\ saved[c] \in Seq(BOOLEAN)
      /\ enabled \in [Cores -> BOOLEAN] /\ enabled[c] \in BOOLEAN
  BY DEF AtomicInv, AtomicTypes
<1>2. enabled' \in [Cores -> BOOLEAN]
  BY <1>1, Zenon
<1>3. ~enabled'[c] /\ \A d \in Cores \ {c} : enabled'[d] = enabled[d]
  BY <1>1, Zenon
<1>4. /\ saved'[c] = Append(saved[c], enabled[c])
      /\ \A d \in Cores \ {c} : saved'[d] = saved[d]
      /\ saved' \in [Cores -> Seq(BOOLEAN)]
  BY <1>1
<1>5. /\ saved'[c] # <<>> /\ Len(saved'[c]) = Len(saved[c]) + 1
      /\ Len(saved[c]) \in Nat
      /\ saved'[c][Len(saved[c]) + 1] = enabled[c]
      /\ \A i \in 1 .. Len(saved[c]) : saved'[c][i] = saved[c][i]
  BY <1>1, <1>4
<1>6. enabled[c] <=> Len(saved[c]) = 0
  BY <1>1 DEF AtomicInv, InterruptsInv
<1>7. ASSUME NEW i \in 1 .. Len(saved'[c]) PROVE saved'[c][i] <=> i = 1
  <2>1. CASE i = Len(saved[c]) + 1
    BY <1>5, <1>6, <2>1
  <2>2. CASE i # Len(saved[c]) + 1
    <3>1. i \in 1 .. Len(saved[c])
      BY <1>5, <2>2
    <3> QED
      BY <1>5, <3>1 DEF AtomicInv, InterruptsInv
  <2> QED
    BY <2>1, <2>2
<1>8. InterruptsInv'
  BY <1>3, <1>4, <1>5, <1>7 DEF AtomicInv, InterruptsInv
<1> QED
  BY <1>2, <1>4, <1>5, <1>8

\* All but the last element of a sequence.
LEMMA WithoutLast ==
    ASSUME NEW S, NEW q \in Seq(S), q # <<>>
    PROVE  /\ Len(q) \in Nat \ {0}
           /\ SubSeq(q, 1, Len(q) - 1) \in Seq(S)
           /\ Len(SubSeq(q, 1, Len(q) - 1)) = Len(q) - 1
           /\ \A i \in 1 .. Len(q) - 1 : SubSeq(q, 1, Len(q) - 1)[i] = q[i]
<1>1. Len(q) \in Nat \ {0} /\ \A i \in 1 .. Len(q) - 1 : q[i] \in S
  OBVIOUS
<1> DEFINE n == Len(q) - 1
<1>2. n \in Nat
  BY <1>1
<1> HIDE DEF n
<1>3. /\ SubSeq(q, 1, n) \in Seq(S)
      /\ Len(SubSeq(q, 1, n)) = IF 1 <= n THEN n - 1 + 1 ELSE 0
      /\ \A i \in 1 .. n - 1 + 1 : SubSeq(q, 1, n)[i] = q[1 + i - 1]
  BY <1>1, <1>2, SubSeqProperties DEF n
<1>4. Len(SubSeq(q, 1, n)) = n
  BY <1>2, <1>3
<1>5. \A i \in 1 .. n : SubSeq(q, 1, n)[i] = q[i]
  <2>1. \A i \in 1 .. n : i \in 1 .. n - 1 + 1 /\ 1 + i - 1 = i
    BY <1>2
  <2> QED
    BY <1>3, <2>1
<1> QED
  BY <1>1, <1>3, <1>4, <1>5 DEF n

\* A core leaves its innermost section and restores what it found.
LEMMA SectionCloses ==
    ASSUME AtomicInv, NEW c \in Cores, saved[c] # <<>>,
           enabled' = [enabled EXCEPT ![c] = saved[c][Len(saved[c])]],
           saved' = [saved EXCEPT ![c] = SubSeq(saved[c], 1,
                                                Len(saved[c]) - 1)]
    PROVE  /\ saved' \in [Cores -> Seq(BOOLEAN)]
           /\ enabled' \in [Cores -> BOOLEAN]
           /\ Len(saved[c]) = Len(saved'[c]) + 1 /\ Len(saved'[c]) \in Nat
           /\ saved'[c] = <<>> <=> Len(saved'[c]) = 0
           /\ \A d \in Cores \ {c} : saved'[d] = saved[d]
           /\ InterruptsInv'
<1> DEFINE n == Len(saved[c])
<1>1. /\ saved \in [Cores -> Seq(BOOLEAN)] /\ saved[c] \in Seq(BOOLEAN)
      /\ enabled \in [Cores -> BOOLEAN] /\ n \in Nat \ {0}
      /\ saved[c][n] \in BOOLEAN
  BY DEF AtomicInv, AtomicTypes
<1>2. enabled' \in [Cores -> BOOLEAN]
  BY <1>1, Zenon
<1>3. /\ enabled'[c] = saved[c][n]
      /\ \A d \in Cores \ {c} : enabled'[d] = enabled[d]
  BY <1>1, Zenon
<1>4. /\ saved'[c] = SubSeq(saved[c], 1, n - 1)
      /\ \A d \in Cores \ {c} : saved'[d] = saved[d]
      /\ saved' \in [Cores -> Seq(BOOLEAN)]
  BY <1>1
<1>5. /\ Len(saved'[c]) = n - 1
      /\ \A i \in 1 .. n - 1 : saved'[c][i] = saved[c][i]
  BY <1>1, <1>4, WithoutLast
<1>6. enabled'[c] <=> n = 1
  <2>1. \A i \in 1 .. n : saved[c][i] <=> i = 1
    BY DEF AtomicInv, InterruptsInv
  <2>2. n \in 1 .. n
    BY <1>1
  <2> QED
    BY <1>3, <2>1, <2>2, Zenon
<1>7. /\ saved'[c] = <<>> <=> Len(saved'[c]) = 0
      /\ saved'[c] = <<>> <=> n = 1
  <2>1. saved'[c] \in Seq(BOOLEAN)
    BY <1>4
  <2>2. saved'[c] = <<>> <=> Len(saved'[c]) = 0
    BY <2>1, EmptySeq
  <2> QED
    BY <1>1, <1>5, <2>2
<1>8. \A i \in 1 .. Len(saved'[c]) : saved'[c][i] <=> i = 1
  BY <1>1, <1>5 DEF AtomicInv, InterruptsInv
<1>9. InterruptsInv'
  BY <1>3, <1>4, <1>6, <1>7, <1>8 DEF AtomicInv, InterruptsInv
<1> QED
  BY <1>1, <1>2, <1>4, <1>5, <1>7, <1>9

\* The facts about the mutex that the next steps use.
LEMMA AtomicMutexFacts ==
    ASSUME AtomicInv
    PROVE  /\ atomic_mutex.owner \in {0, 1, 2} /\ atomic_mutex.count \in Nat
           /\ atomic_mutex.owner = 2 <=> atomic_mutex.count = 0
           /\ 0 \in Cores /\ 1 \in Cores /\ Free = 2
           /\ Len(saved[0]) \in Nat /\ Len(saved[1]) \in Nat
           /\ \A c \in Cores : saved[c] = <<>> <=> Len(saved[c]) = 0
           /\ \A c \in Cores : c \in {0, 1}
<1>1. 0 \in Cores /\ 1 \in Cores /\ Free = 2 /\ \A c \in Cores : c \in {0, 1}
  BY DEF Cores, Free
<1> QED
  BY <1>1 DEF AtomicInv, AtomicTypes, AtomicMutexInv

\* A core enters the section that it has begun.
LEMMA BeginEntersKeeps ==
    ASSUME AtomicInv, NEW c \in Cores, BeginEnters(c)
    PROVE  AtomicInv'
<1>1. /\ want[c] # "no"
      /\ \/ want[c] = "plain" /\ atomic_mutex' = atomic_mutex
         \/ /\ want[c] = "mutex" /\ MayEnter(atomic_mutex, c)
            /\ atomic_mutex' = Entered(atomic_mutex, c)
      /\ want' = [want EXCEPT ![c] = "no"]
      /\ saved' = [saved EXCEPT ![c] = Append(saved[c], enabled[c])]
      /\ enabled' = [enabled EXCEPT ![c] = FALSE]
      /\ UNCHANGED <<entry, running, resetting, cut>>
  BY DEF BeginEnters, reset
<1>2. /\ saved' \in [Cores -> Seq(BOOLEAN)]
      /\ enabled' \in [Cores -> BOOLEAN]
      /\ saved'[c] # <<>> /\ Len(saved'[c]) = Len(saved[c]) + 1
      /\ \A d \in Cores \ {c} : saved'[d] = saved[d]
      /\ InterruptsInv'
  BY <1>1, SectionOpens
<1>3. /\ want' = [d \in Cores |-> want'[d]] /\ want'[c] = "no"
      /\ \A d \in Cores \ {c} : want'[d] = want[d]
  BY <1>1 DEF AtomicInv, AtomicTypes
<1>4. CASE want[c] = "plain"
  <2>1. c = 0 /\ ~running
    BY <1>4, AtomicMutexFacts DEF AtomicInv, CoreOneInv, AtomicMutexInv
  <2>2. atomic_mutex' = atomic_mutex
    BY <1>1, <1>4
  <2>3. CoreOneInv'
    BY <1>1, <1>2, <1>3, <2>1, AtomicMutexFacts DEF AtomicInv, CoreOneInv
  <2>4. AtomicMutexInv'
    BY <1>1, <1>2, <1>3, <2>1, <2>2, AtomicMutexFacts
       DEF AtomicInv, AtomicMutexInv
  <2> QED
    BY <1>2, <1>3, <2>2, <2>3, <2>4 DEF AtomicInv, AtomicTypes
<1>5. CASE want[c] = "mutex"
  <2>1. /\ atomic_mutex.owner \in {2, c}
        /\ atomic_mutex' = [owner |-> c, count |-> atomic_mutex.count + 1]
    BY <1>1, <1>5 DEF MayEnter, Entered, Free
  <2>2. /\ atomic_mutex'.owner = c
        /\ atomic_mutex'.count = atomic_mutex.count + 1
        /\ atomic_mutex' \in [owner : {0, 1, Free}, count : Nat]
    BY <2>1, AtomicMutexFacts
  <2>3. c = 1 => running
    BY <1>5 DEF AtomicInv, CoreOneInv
  <2>4. CoreOneInv'
    BY <1>1, <1>2, <1>3, <2>3, AtomicMutexFacts DEF AtomicInv, CoreOneInv
  <2>5. CASE c = 0
    <3>1. saved[1] = <<>> /\ saved'[1] = <<>>
      BY <1>2, <2>1, <2>5, AtomicMutexFacts DEF AtomicInv, AtomicMutexInv
    <3>2. atomic_mutex'.count <= Len(saved'[0])
      BY <1>2, <2>1, <2>2, <2>5, AtomicMutexFacts
         DEF AtomicInv, AtomicMutexInv
    <3>3. running => atomic_mutex'.count = Len(saved'[0])
      BY <1>2, <2>1, <2>2, <2>5, AtomicMutexFacts
         DEF AtomicInv, AtomicMutexInv
    <3> QED
      <4>1. AtomicMutexInv'
        BY <1>1, <1>3, <2>2, <2>5, <3>1, <3>2, <3>3, AtomicMutexFacts
           DEF AtomicMutexInv
      <4> QED
        BY <1>2, <1>3, <2>2, <2>4, <4>1 DEF AtomicInv, AtomicTypes
  <2>6. CASE c = 1
    <3>1. saved[0] = <<>> /\ saved'[0] = <<>> /\ want'[0] = want[0]
      BY <1>2, <1>3, <2>1, <2>3, <2>6, AtomicMutexFacts
         DEF AtomicInv, AtomicMutexInv
    <3>2. /\ atomic_mutex'.count >= Len(saved'[1])
          /\ ~cut => atomic_mutex'.count = Len(saved'[1])
      BY <1>2, <2>1, <2>2, <2>6, AtomicMutexFacts
         DEF AtomicInv, AtomicMutexInv
    <3>3. AtomicMutexInv'
      BY <1>1, <2>2, <2>6, <3>1, <3>2, AtomicMutexFacts
         DEF AtomicInv, AtomicMutexInv
    <3> QED
      BY <1>2, <1>3, <2>2, <2>4, <3>3 DEF AtomicInv, AtomicTypes
  <2> QED
    BY <2>5, <2>6, AtomicMutexFacts
<1> QED
  BY <1>1, <1>4, <1>5

\* A core ends a section.
LEMMA EndKeeps ==
    ASSUME AtomicInv, NEW c \in Cores, End(c)
    PROVE  AtomicInv'
<1>1. /\ want[c] = "no" /\ saved[c] # <<>> /\ Leave
      /\ enabled' = [enabled EXCEPT ![c] = saved[c][Len(saved[c])]]
      /\ saved' = [saved EXCEPT ![c] = SubSeq(saved[c], 1,
                                              Len(saved[c]) - 1)]
      /\ UNCHANGED <<entry, running, want, resetting, cut>>
  BY DEF End, reset
<1>2. /\ saved' \in [Cores -> Seq(BOOLEAN)]
      /\ enabled' \in [Cores -> BOOLEAN]
      /\ Len(saved[c]) = Len(saved'[c]) + 1 /\ Len(saved'[c]) \in Nat
      /\ saved'[c] = <<>> <=> Len(saved'[c]) = 0
      /\ \A d \in Cores \ {c} : saved'[d] = saved[d]
      /\ InterruptsInv'
  BY <1>1, SectionCloses
<1>3. \/ atomic_mutex.owner = 2 /\ atomic_mutex' = atomic_mutex
      \/ /\ atomic_mutex.owner # 2
         /\ atomic_mutex' =
                [owner |-> IF atomic_mutex.count = 1 THEN 2
                           ELSE atomic_mutex.owner,
                 count |-> atomic_mutex.count - 1]
  BY <1>1, AtomicMutexFacts DEF Leave, Exited
<1>4. /\ atomic_mutex.owner = 2 => atomic_mutex' = atomic_mutex
      /\ atomic_mutex.owner # 2 =>
             /\ atomic_mutex'.count + 1 = atomic_mutex.count
             /\ atomic_mutex'.owner = IF atomic_mutex'.count = 0 THEN 2
                                      ELSE atomic_mutex.owner
      /\ atomic_mutex' \in [owner : {0, 1, Free}, count : Nat]
      /\ atomic_mutex'.owner = 2 <=> atomic_mutex'.count = 0
      /\ atomic_mutex'.count \in Nat
  <2>1. CASE atomic_mutex.owner = 2
    BY <1>3, <2>1, AtomicMutexFacts DEF AtomicInv, AtomicTypes
  <2>2. CASE atomic_mutex.owner # 2
    <3>1. /\ atomic_mutex'.count = atomic_mutex.count - 1
          /\ atomic_mutex'.owner = IF atomic_mutex.count = 1 THEN 2
                                   ELSE atomic_mutex.owner
      BY <1>3, <2>2
    <3>2. atomic_mutex.owner \in {0, 1} /\ atomic_mutex.count \in Nat \ {0}
      BY <2>2, AtomicMutexFacts
    <3>3. /\ atomic_mutex'.count \in Nat
          /\ atomic_mutex'.count + 1 = atomic_mutex.count
          /\ atomic_mutex'.count = 0 <=> atomic_mutex.count = 1
          /\ atomic_mutex'.owner \in {0, 1, 2}
      BY <3>1, <3>2
    <3>4. atomic_mutex' = [owner |-> atomic_mutex'.owner,
                           count |-> atomic_mutex'.count]
      BY <1>3, <2>2
    <3>5. atomic_mutex' \in [owner : {0, 1, Free}, count : Nat]
      BY <3>3, <3>4 DEF Free
    <3> QED
      BY <2>2, <3>1, <3>2, <3>3, <3>5
  <2> QED
    BY <2>1, <2>2
<1>5. c = 1 => running /\ atomic_mutex.owner = 1
  BY <1>1 DEF AtomicInv, CoreOneInv, AtomicMutexInv
<1>6. CoreOneInv'
  BY <1>1, <1>2, <1>5, AtomicMutexFacts DEF AtomicInv, CoreOneInv
<1>7. AtomicMutexInv'
  <2>1. CASE c = 0
    <3>1. saved'[1] = saved[1] /\ (saved[1] # <<>> => running)
      BY <1>2, <2>1, AtomicMutexFacts DEF AtomicInv, CoreOneInv
    <3>2. saved[1] = <<>> /\ Len(saved[1]) = 0
      BY <1>1, <2>1, <3>1, AtomicMutexFacts DEF AtomicInv, AtomicMutexInv
    <3>3. running => atomic_mutex.owner = 0
      BY <1>1, <2>1 DEF AtomicInv, AtomicMutexInv
    <3>4. atomic_mutex'.owner = 0 =>
              /\ atomic_mutex.owner = 0
              /\ atomic_mutex'.count <= Len(saved'[0])
              /\ running => atomic_mutex'.count = Len(saved'[0])
      BY <1>2, <1>4, <2>1, AtomicMutexFacts DEF AtomicInv, AtomicMutexInv
    <3>5. running /\ saved'[0] # <<>> => atomic_mutex'.owner = 0
      BY <1>2, <1>4, <2>1, <3>3, AtomicMutexFacts
         DEF AtomicInv, AtomicMutexInv
    <3>6. atomic_mutex'.owner = 1 => atomic_mutex.owner = 1 /\ cut
      BY <1>4, <3>2, AtomicMutexFacts DEF AtomicInv, AtomicMutexInv
    <3> QED
      BY <1>1, <1>4, <3>1, <3>2, <3>4, <3>5, <3>6, AtomicMutexFacts
         DEF AtomicInv, AtomicMutexInv
  <2>2. CASE c = 1
    <3>1. saved'[0] = saved[0] /\ saved[0] = <<>>
      BY <1>2, <1>5, <2>2, AtomicMutexFacts DEF AtomicInv, AtomicMutexInv
    <3>2. /\ atomic_mutex'.count >= Len(saved'[1])
          /\ ~cut => atomic_mutex'.count = Len(saved'[1])
      BY <1>2, <1>4, <1>5, <2>2, AtomicMutexFacts
         DEF AtomicInv, AtomicMutexInv
    <3>3. saved'[1] # <<>> => atomic_mutex'.owner = 1
      BY <1>2, <1>4, <1>5, <2>2, <3>2, AtomicMutexFacts
    <3>4. atomic_mutex'.owner # 0
      BY <1>4, <1>5, <2>2
    <3> QED
      BY <1>1, <1>4, <3>1, <3>2, <3>3, <3>4, AtomicMutexFacts
         DEF AtomicInv, AtomicMutexInv
  <2> QED
    BY <2>1, <2>2, AtomicMutexFacts
<1> QED
  BY <1>1, <1>2, <1>4, <1>6, <1>7 DEF AtomicInv, AtomicTypes

\* Core 1 is reset wherever it is.
LEMMA ResetKeeps ==
    ASSUME AtomicInv, ResetCore1 PROVE AtomicInv'
<1>1. /\ want[0] = "no" /\ saved[0] = <<>> /\ UNCHANGED atomic_mutex
      /\ want' = [want EXCEPT ![1] = "no"]
      /\ saved' = [saved EXCEPT ![1] = <<>>]
      /\ enabled' = [enabled EXCEPT ![1] = TRUE]
  BY DEF ResetCore1
<1>2. ~running' /\ (~cut' => atomic_mutex.owner # 1)
  BY Zenon DEF ResetCore1
<1>3. 0 \in Cores /\ 1 \in Cores /\ 0 # 1 /\ \A c \in Cores : c = 0 \/ c = 1
  BY DEF Cores
<1>4. /\ want' = [d \in Cores |-> want'[d]] /\ want'[1] = "no"
  BY <1>1, <1>3 DEF AtomicInv, AtomicTypes
<1>5. <<>> \in Seq(BOOLEAN) /\ Len(<<>>) = 0
  OBVIOUS
<1>6. /\ saved' \in [Cores -> Seq(BOOLEAN)] /\ saved'[1] = <<>>
      /\ saved'[0] = saved[0]
  BY <1>1, <1>3, <1>5 DEF AtomicInv, AtomicTypes
<1>7. /\ enabled' \in [Cores -> BOOLEAN]
      /\ enabled'[1] /\ enabled'[0] = enabled[0]
  BY <1>1, <1>3, Zenon DEF AtomicInv, AtomicTypes
<1>8. InterruptsInv'
  <2>1. /\ enabled'[0] <=> saved'[0] = <<>>
        /\ \A i \in 1 .. Len(saved'[0]) : saved'[0][i] <=> i = 1
    BY <1>3, <1>6, <1>7 DEF AtomicInv, InterruptsInv
  <2>2. /\ enabled'[1] <=> saved'[1] = <<>>
        /\ \A i \in 1 .. Len(saved'[1]) : saved'[1][i] <=> i = 1
    BY <1>5, <1>6, <1>7
  <2> QED
    BY <1>3, <2>1, <2>2 DEF InterruptsInv
<1>9. CoreOneInv'
  BY <1>2, <1>4, <1>6 DEF CoreOneInv
<1>10. AtomicMutexInv'
  BY <1>1, <1>2, <1>5, <1>6, AtomicMutexFacts DEF AtomicInv, AtomicMutexInv
<1> QED
  BY <1>1, <1>4, <1>6, <1>7, <1>8, <1>9, <1>10 DEF AtomicInv, AtomicTypes

\* Atomic sections exclude one another and are left as they were entered
\* (mpthreadport.c:41-75), for any nesting and any number of threads, whenever
\* core 1 starts, ends or is reset: the safety that the run checks as part of
\* SectionsAreAtomic.
THEOREM SectionsAreExclusive ==
    AtomicSpec => [](SectionsExclude /\ NothingIsLeftLocked)
<1>1. AtomicInit => AtomicInv
  <2> SUFFICES ASSUME AtomicInit PROVE AtomicInv
    OBVIOUS
  <2>1. 0 \in Cores /\ 1 \in Cores
    BY DEF Cores
  <2>2. <<>> \in Seq(BOOLEAN) /\ Len(<<>>) = 0
    OBVIOUS
  <2>3. ~running /\ ~cut /\ (\A c \in Cores : enabled[c])
        /\ enabled \in [Cores -> BOOLEAN]
    BY Zenon DEF AtomicInit
  <2>4. /\ want = [c \in Cores |-> want[c]] /\ want[1] = "no"
        /\ saved \in [Cores -> Seq(BOOLEAN)]
        /\ \A c \in Cores : saved[c] = <<>>
        /\ atomic_mutex = [owner |-> Free, count |-> 0]
    BY <2>1, <2>2 DEF AtomicInit, Unowned
  <2>5. AtomicTypes
    BY <2>3, <2>4 DEF AtomicTypes
  <2>6. CoreOneInv /\ InterruptsInv
    BY <2>1, <2>2, <2>3, <2>4 DEF CoreOneInv, InterruptsInv
  <2>7. AtomicMutexInv
    BY <2>1, <2>2, <2>3, <2>4 DEF AtomicMutexInv, Free
  <2> QED
    BY <2>5, <2>6, <2>7 DEF AtomicInv
<1>2. AtomicInv /\ [AtomicNext]_atomicVars => AtomicInv'
  <2> SUFFICES ASSUME AtomicInv, [AtomicNext]_atomicVars PROVE AtomicInv'
    OBVIOUS
  <2>1. CASE Begins
    BY <2>1, BeginReadsKeeps DEF Begins
  <2>2. CASE Enters
    BY <2>2, BeginEntersKeeps DEF Enters
  <2>3. CASE Ends
    BY <2>3, EndKeeps DEF Ends
  <2>4. CASE CreateThread \/ ThreadReturns \/ ClearEntry
    BY <2>4, ThreadKeeps
  <2>5. CASE ResetCore1
    BY <2>5, ResetKeeps
  <2>6. CASE UNCHANGED atomicVars
    <3>1. /\ UNCHANGED <<atomic_mutex, saved, enabled, cut>>
          /\ UNCHANGED <<entry, running, resetting, want>>
      BY <2>6 DEF atomicVars, cores, reset
    <3>2. CoreOneInv'
      BY <3>1 DEF AtomicInv, CoreOneInv
    <3> QED
      BY <3>1, <3>2, AtomicControl DEF AtomicInv, AtomicTypes, AtomicMutexInv
  <2> QED
    BY <2>1, <2>2, <2>3, <2>4, <2>5, <2>6 DEF AtomicNext, Other
<1> QED
  BY <1>1, <1>2, AtomicHolds, PTL DEF AtomicSpec

-----------------------------------------------------------------------------
(***************************************************************************)
(* The output of a stream                                                  *)
(***************************************************************************)

\* c is a, followed by the part of b after its first m and up to its first
\* n elements.
AddsPart(c, a, b, m, n) ==
    /\ c \in Seq(Nat)
    /\ Len(c) + m = Len(a) + n /\ Len(a) \in Nat /\ Len(c) \in Nat
    /\ Len(a) <= Len(c)
    /\ \A i \in 1 .. Len(a) : c[i] = a[i]
    /\ \A i \in Nat : i > m /\ i <= n =>
           /\ Len(a) + i - m \in 1 .. Len(c)
           /\ c[Len(a) + i - m] = b[i]

\* That is what the concatenation with a subsequence does.
LEMMA PartAdded ==
    ASSUME NEW a \in Seq(Nat), NEW b \in Seq(Nat), NEW m \in Nat,
           NEW n \in Nat, m <= n, n <= Len(b)
    PROVE  AddsPart(a \o SubSeq(b, m + 1, n), a, b, m, n)
<1> DEFINE k == n - m
           p == SubSeq(b, m + 1, n)
           c == a \o p
<1>1. k \in Nat /\ Len(a) \in Nat /\ Len(b) \in Nat
  OBVIOUS
<1>2. \A i \in m + 1 .. n : b[i] \in Nat
  OBVIOUS
<1>3. /\ p \in Seq(Nat)
      /\ Len(p) = IF m + 1 <= n THEN n - (m + 1) + 1 ELSE 0
      /\ \A i \in 1 .. n - (m + 1) + 1 : p[i] = b[(m + 1) + i - 1]
  <2> DEFINE l == m + 1
  <2>1. l \in Int /\ n \in Int /\ \A i \in l .. n : b[i] \in Nat
    BY <1>2
  <2> HIDE DEF l
  <2>2. /\ SubSeq(b, l, n) \in Seq(Nat)
        /\ Len(SubSeq(b, l, n)) = IF l <= n THEN n - l + 1 ELSE 0
        /\ \A i \in 1 .. n - l + 1 : SubSeq(b, l, n)[i] = b[l + i - 1]
    BY <2>1, SubSeqProperties
  <2> QED
    BY <2>2 DEF l
<1> HIDE DEF p
<1>4. Len(p) = k
  BY <1>3
<1>5. \A i \in 1 .. k : p[i] = b[m + i]
  <2>1. \A i \in 1 .. k : /\ i \in 1 .. n - (m + 1) + 1
                          /\ (m + 1) + i - 1 = m + i
    BY <1>1
  <2> QED
    BY <1>3, <2>1
<1> HIDE DEF k
<1>6. /\ c \in Seq(Nat) /\ Len(c) = Len(a) + k
      /\ \A i \in 1 .. Len(a) + k :
             c[i] = IF i <= Len(a) THEN a[i] ELSE p[i - Len(a)]
  BY <1>3, <1>4, ConcatProperties
<1> HIDE DEF c
<1>7. \A i \in 1 .. Len(a) : c[i] = a[i]
  BY <1>1, <1>6
<1>8. ASSUME NEW i \in Nat, i > m, i <= n
      PROVE  Len(a) + i - m \in 1 .. Len(c) /\ c[Len(a) + i - m] = b[i]
  <2> DEFINE j == i - m
             l == Len(a) + j
  <2>1. j \in 1 .. k /\ m + j = i /\ Len(a) + i - m = l
    BY <1>1, <1>8 DEF k
  <2>2. l \in 1 .. Len(a) + k /\ ~(l <= Len(a)) /\ l - Len(a) = j
    BY <1>1, <2>1
  <2> HIDE DEF j, l
  <2>3. c[l] = p[j]
    BY <1>6, <2>2
  <2> QED
    BY <1>5, <1>6, <2>1, <2>2, <2>3
<1> QED
  <2>1. AddsPart(c, a, b, m, n)
    BY <1>1, <1>6, <1>7, <1>8 DEF k, AddsPart
  <2> QED
    BY <2>1 DEF c, p

\* Some task is in drain().
Draining == \E w \in Writers : pc[w] = "drain"

\* The types of the stream, and what its buffer holds: the bytes that were
\* written last.
StreamTypes ==
    /\ out_buf \in Seq(Nat) /\ sent \in Seq(Nat) /\ wrote \in Nat
    /\ cancels \in Nat
    /\ view \in [Writers -> Seq(Nat)] /\ off \in [Writers -> Nat]
    /\ pc = [w \in Writers |-> pc[w]]
    /\ \A w \in Writers : pc[w] = "drain" => off[w] <= Len(view[w])
    /\ Len(out_buf) <= wrote
    /\ \A j \in 1 .. Len(out_buf) : out_buf[j] + Len(out_buf) = wrote + j

\* As long as no task uses the stream during the drain() of another one, one
\* task drains at most, its view is the buffer, and it has sent what it
\* counts.
DrainIsAlone ==
    ~shared => \A w \in Writers : pc[w] = "drain" =>
        /\ view[w] = out_buf
        /\ \A v \in Writers : pc[v] = "drain" => v = w
        /\ \A j \in 1 .. off[w] : Contains(sent, out_buf[j])

\* As long as no drain() was cancelled either, what was sent is the beginning
\* of what was written, up to the place of the task that drains.
SentInOrder ==
    ~shared /\ cancels = 0 =>
        /\ \A i \in 1 .. Len(sent) : sent[i] = i
        /\ ~Draining => Len(sent) + Len(out_buf) = wrote
        /\ \A w \in Writers : pc[w] = "drain"
               => Len(sent) + Len(out_buf) = wrote + off[w]

StreamInv == StreamTypes /\ DrainIsAlone /\ SentInOrder /\ NothingDropped

\* The stream is whole.
LEMMA StreamHolds == StreamInv => SentOnceInOrder
<1> SUFFICES ASSUME StreamInv, cancels = 0, ~shared
             PROVE  IsPrefix(sent, [i \in 1 .. wrote |-> i])
  BY DEF SentOnceInOrder, StreamIsWhole, StreamInv
<1> DEFINE n == Len(sent)
           f == [i \in 1 .. wrote |-> i]
<1>1. /\ sent \in Seq(Nat) /\ n \in Nat /\ wrote \in Nat
      /\ Len(out_buf) \in Nat
  BY DEF StreamInv, StreamTypes
<1>2. f \in Seq(Nat) /\ Len(f) = wrote /\ \A i \in 1 .. wrote : f[i] = i
  BY <1>1
<1>3. \A i \in 1 .. n : sent[i] = i
  BY DEF StreamInv, SentInOrder
<1>4. n <= wrote
  <2>1. CASE Draining
    <3>1. PICK w \in Writers : pc[w] = "drain"
      BY <2>1 DEF Draining
    <3>2. /\ off[w] <= Len(out_buf) /\ off[w] \in Nat
          /\ n + Len(out_buf) = wrote + off[w]
      BY <3>1 DEF StreamInv, StreamTypes, DrainIsAlone, SentInOrder
    <3> QED
      BY <1>1, <3>2
  <2>2. CASE ~Draining
    BY <1>1, <2>2 DEF StreamInv, SentInOrder
  <2> QED
    BY <2>1, <2>2
<1> HIDE DEF f
<1>5. SubSeq(sent, 1, n) = SubSeq(f, 1, n)
  <2>1. /\ 1 \in Int /\ n \in Int
        /\ \A i \in 1 .. n : sent[i] \in Nat /\ f[i] \in Nat
        /\ \A i \in 1 .. n : sent[i] = f[i]
    BY <1>1, <1>2, <1>3, <1>4
  <2> HIDE DEF n
  <2>2. /\ SubSeq(sent, 1, n) \in Seq(Nat)
        /\ Len(SubSeq(sent, 1, n)) = IF 1 <= n THEN n - 1 + 1 ELSE 0
        /\ \A i \in 1 .. n - 1 + 1 : SubSeq(sent, 1, n)[i] = sent[1 + i - 1]
    BY <2>1, SubSeqProperties
  <2>3. /\ SubSeq(f, 1, n) \in Seq(Nat)
        /\ Len(SubSeq(f, 1, n)) = IF 1 <= n THEN n - 1 + 1 ELSE 0
        /\ \A i \in 1 .. n - 1 + 1 : SubSeq(f, 1, n)[i] = f[1 + i - 1]
    BY <2>1, SubSeqProperties
  <2>4. Len(SubSeq(sent, 1, n)) = n
        /\ \A i \in 1 .. n : i \in 1 .. n - 1 + 1 /\ 1 + i - 1 = i
    BY <1>1, <2>2
  <2>5. \A i \in 1 .. n : SubSeq(sent, 1, n)[i] = SubSeq(f, 1, n)[i]
    BY <2>1, <2>2, <2>3, <2>4
  <2> QED
    BY <2>2, <2>3, <2>4, <2>5, SeqEqual
<1> QED
  BY <1>2, <1>4, <1>5 DEF IsPrefix, f

\* What was sent stays sent.
LEMMA SentStays ==
    ASSUME NEW a \in Seq(Nat), NEW b \in Seq(Nat), Len(a) <= Len(b),
           \A i \in 1 .. Len(a) : b[i] = a[i], NEW e, Contains(a, e)
    PROVE  Contains(b, e)
<1>1. PICK i \in 1 .. Len(a) : a[i] = e
  BY DEF Contains
<1>2. i \in 1 .. Len(b)
  OBVIOUS
<1> QED
  BY <1>1, <1>2 DEF Contains

\* write() sends the first bytes, if nothing is buffered, and buffers the
\* others.
LEMMA WriteKeeps ==
    ASSUME StreamInv, NEW w \in Writers, NEW n \in 1 .. 2, NEW ret \in 0 .. 2,
           Write(w, n, ret)
    PROVE  StreamInv'
<1> DEFINE f == Fresh(n)
<1>1. /\ pc[w] = "idle" /\ wrote' = wrote + n
      /\ sent' = sent \o SubSeq(f, 0 + 1, ret)
      /\ out_buf' = out_buf \o SubSeq(f, ret + 1, n)
      /\ UNCHANGED <<view, off, pc, cancels>>
  BY DEF Write
<1>2. ret <= n /\ (out_buf # <<>> => ret = 0)
  BY DEF Write
<1>3. /\ out_buf \in Seq(Nat) /\ sent \in Seq(Nat) /\ wrote \in Nat
      /\ Len(out_buf) \in Nat /\ Len(sent) \in Nat
  BY DEF StreamInv, StreamTypes
<1>4. f \in Seq(Nat) /\ Len(f) = n /\ \A i \in 1 .. n : f[i] = wrote + i
  BY <1>3 DEF Fresh
<1>5. ~shared' => ~shared /\ ~Draining
  <2>1. ~shared' => ~shared /\ \A v \in Writers \ {w} : pc[v] # "drain"
    BY Zenon DEF Write, Uses
  <2> QED
    BY <1>1, <2>1 DEF Draining
<1> HIDE DEF f
<1>6. /\ sent' \in Seq(Nat) /\ Len(sent') = Len(sent) + ret
      /\ Len(sent) <= Len(sent')
      /\ \A i \in 1 .. Len(sent) : sent'[i] = sent[i]
      /\ \A i \in Nat : i > 0 /\ i <= ret =>
             Len(sent) + i \in 1 .. Len(sent') /\ sent'[Len(sent) + i] = f[i]
  <2>1. /\ sent' \in Seq(Nat)
        /\ Len(sent') + 0 = Len(sent) + ret
        /\ Len(sent) \in Nat /\ Len(sent') \in Nat
        /\ Len(sent) <= Len(sent')
        /\ \A i \in 1 .. Len(sent) : sent'[i] = sent[i]
        /\ \A i \in Nat : i > 0 /\ i <= ret =>
               /\ Len(sent) + i - 0 \in 1 .. Len(sent')
               /\ sent'[Len(sent) + i - 0] = f[i]
    <3>1. 0 \in Nat /\ ret \in Nat /\ 0 <= ret /\ ret <= Len(f)
      BY <1>2, <1>4
    <3>2. AddsPart(sent', sent, f, 0, ret)
      BY <1>1, <1>3, <1>4, <3>1, PartAdded
    <3> QED
      BY <3>2 DEF AddsPart
  <2>2. \A i \in Nat : Len(sent) + i - 0 = Len(sent) + i
    BY <2>1
  <2> QED
    BY <2>1, <2>2
<1>7. /\ out_buf' \in Seq(Nat) /\ Len(out_buf') + ret = Len(out_buf) + n
      /\ Len(out_buf) <= Len(out_buf') /\ Len(out_buf') \in Nat
      /\ \A i \in 1 .. Len(out_buf) : out_buf'[i] = out_buf[i]
      /\ \A i \in Nat : i > ret /\ i <= n =>
             /\ Len(out_buf) + i - ret \in 1 .. Len(out_buf')
             /\ out_buf'[Len(out_buf) + i - ret] = f[i]
  <2>1. ret \in Nat /\ n \in Nat /\ ret <= n /\ n <= Len(f)
    BY <1>2, <1>4
  <2>2. out_buf' = out_buf \o SubSeq(f, ret + 1, n)
    BY <1>1
  <2>3. out_buf \in Seq(Nat) /\ f \in Seq(Nat)
    BY <1>3, <1>4
  <2>4. AddsPart(out_buf', out_buf, f, ret, n)
    BY <2>1, <2>2, <2>3, PartAdded
  <2> QED
    BY <2>4 DEF AddsPart
<1>8. /\ wrote' = wrote + n /\ n \in Nat /\ ret \in Nat /\ ret <= n
      /\ Len(out_buf) \in Nat /\ Len(out_buf') \in Nat /\ wrote \in Nat
      /\ Len(sent) \in Nat
      /\ Len(out_buf') + ret = Len(out_buf) + n
      /\ Len(out_buf) > 0 => ret = 0
  BY <1>1, <1>2, <1>3, <1>7
<1>9. StreamTypes'
  <2>1. ASSUME NEW j \in 1 .. Len(out_buf')
        PROVE  out_buf'[j] + Len(out_buf') = wrote' + j
    <3>1. CASE j <= Len(out_buf)
      <4>1. ret = 0 /\ j \in 1 .. Len(out_buf)
        BY <1>8, <3>1
      <4>2. out_buf'[j] = out_buf[j] /\ out_buf[j] \in Nat
            /\ out_buf[j] + Len(out_buf) = wrote + j
        <5>1. out_buf'[j] = out_buf[j]
          BY <1>7, <4>1
        <5>2. out_buf[j] \in Nat
          BY <1>3, <4>1
        <5>3. out_buf[j] + Len(out_buf) = wrote + j
          BY <4>1 DEF StreamInv, StreamTypes
        <5> QED
          BY <5>1, <5>2, <5>3
      <4> QED
        BY <1>8, <4>1, <4>2
    <3>2. CASE j > Len(out_buf)
      <4> DEFINE i == j - Len(out_buf) + ret
      <4>1. /\ i \in Nat /\ i > ret /\ i <= n
            /\ Len(out_buf) + i - ret = j
            /\ i + Len(out_buf) = j + ret
        BY <1>8, <3>2
      <4> HIDE DEF i
      <4>2. out_buf'[j] = f[i] /\ i \in 1 .. n
        <5>1. out_buf'[Len(out_buf) + i - ret] = f[i]
          BY <1>7, <4>1
        <5>2. i \in 1 .. n
          BY <1>8, <4>1
        <5> QED
          BY <4>1, <5>1, <5>2
      <4>3. out_buf'[j] = wrote + i
        BY <1>4, <4>2
      <4> QED
        BY <1>8, <4>1, <4>3
    <3> QED
      BY <1>3, <3>1, <3>2
  <2>2. Len(out_buf') <= wrote' /\ wrote' \in Nat
    <3>1. Len(out_buf) <= wrote
      BY DEF StreamInv, StreamTypes
    <3> QED
      BY <1>8, <3>1
  <2> QED
    BY <1>1, <1>6, <1>7, <2>1, <2>2 DEF StreamInv, StreamTypes
<1>10. DrainIsAlone'
  BY <1>1, <1>5 DEF DrainIsAlone, Draining
<1>11. SentInOrder'
  <2> SUFFICES ASSUME ~shared', cancels' = 0
               PROVE  /\ \A i \in 1 .. Len(sent') : sent'[i] = i
                      /\ Len(sent') + Len(out_buf') = wrote'
                      /\ \A v \in Writers : pc'[v] # "drain"
    BY DEF SentInOrder
  <2>1. /\ \A i \in 1 .. Len(sent) : sent[i] = i
        /\ Len(sent) + Len(out_buf) = wrote
    BY <1>1, <1>5 DEF StreamInv, SentInOrder
  <2>2. Len(sent') + Len(out_buf') = wrote'
    <3>1. Len(sent') = Len(sent) + ret
      BY <1>6
    <3> QED
      BY <1>8, <2>1, <3>1
  <2>3. ASSUME NEW i \in 1 .. Len(sent') PROVE sent'[i] = i
    <3>1. CASE i <= Len(sent)
      <4>1. i \in 1 .. Len(sent)
        BY <1>8, <3>1
      <4> QED
        BY <1>6, <2>1, <4>1
    <3>2. CASE i > Len(sent)
      <4> DEFINE j == i - Len(sent)
      <4>1. j \in Nat /\ j > 0 /\ j <= ret /\ Len(sent) + j = i /\ j <= n
        BY <1>2, <1>3, <1>6, <3>2, SMTT(30)
      <4>2. out_buf = <<>> /\ Len(out_buf) = 0
        BY <1>2, <4>1
      <4> HIDE DEF j
      <4>3. sent'[i] = f[j] /\ f[j] = wrote + j
        BY <1>4, <1>6, <4>1
      <4> QED
        BY <1>3, <2>1, <4>1, <4>2, <4>3
    <3> QED
      BY <1>3, <3>1, <3>2
  <2> QED
    BY <1>1, <1>5, <2>2, <2>3 DEF Draining
<1>12. NothingDropped'
  <2> SUFFICES ASSUME ~shared', NEW i \in 1 .. wrote'
               PROVE  Contains(sent', i) \/ Contains(out_buf', i)
    BY DEF NothingDropped, Contains
  <2>1. CASE i <= wrote
    <3>1. Contains(sent, i) \/ Contains(out_buf, i)
      BY <1>1, <1>3, <1>5, <2>1 DEF StreamInv, NothingDropped
    <3>2. Contains(sent, i) => Contains(sent', i)
      BY <1>3, <1>6, SentStays
    <3>3. Contains(out_buf, i) => Contains(out_buf', i)
      BY <1>3, <1>7, SentStays
    <3> QED
      BY <3>1, <3>2, <3>3
  <2>2. CASE i > wrote
    <3> DEFINE j == i - wrote
    <3>1. j \in Nat /\ j > 0 /\ j <= n /\ wrote + j = i
      BY <1>1, <1>3, <2>2
    <3> HIDE DEF j
    <3>2. f[j] = i
      BY <1>4, <3>1
    <3>3. CASE j <= ret
      BY <1>6, <3>1, <3>2, <3>3 DEF Contains
    <3>4. CASE j > ret
      BY <1>7, <3>1, <3>2, <3>4 DEF Contains
    <3> QED
      BY <3>1, <3>3, <3>4
  <2> QED
    BY <1>1, <1>3, <2>1, <2>2
<1> QED
  BY <1>9, <1>10, <1>11, <1>12 DEF StreamInv

\* drain() begins with the buffer as its view.
LEMMA DrainBeginsKeeps ==
    ASSUME StreamInv, NEW w \in Writers, DrainBegins(w)
    PROVE  StreamInv'
<1>1. /\ view' = [view EXCEPT ![w] = out_buf]
      /\ off' = [off EXCEPT ![w] = 0]
      /\ pc' = [pc EXCEPT ![w] = IF out_buf = <<>> THEN "yield" ELSE "drain"]
      /\ UNCHANGED <<out_buf, wrote, sent, cancels>> /\ pc[w] = "idle"
  BY DEF DrainBegins
<1>2. ~shared' => ~shared /\ ~Draining
  <2>1. ~shared' => ~shared /\ \A v \in Writers \ {w} : pc[v] # "drain"
    BY Zenon DEF DrainBegins, Uses
  <2> QED
    BY <1>1, <2>1 DEF Draining
<1>3. /\ out_buf \in Seq(Nat) /\ Len(out_buf) \in Nat /\ Len(sent) \in Nat
      /\ view \in [Writers -> Seq(Nat)] /\ off \in [Writers -> Nat]
      /\ pc = [v \in Writers |-> pc[v]] /\ wrote \in Nat
  BY DEF StreamInv, StreamTypes
<1>4. /\ view' \in [Writers -> Seq(Nat)] /\ view'[w] = out_buf
      /\ \A v \in Writers \ {w} : view'[v] = view[v]
  BY <1>1, <1>3
<1>5. /\ off' \in [Writers -> Nat] /\ off'[w] = 0
      /\ \A v \in Writers \ {w} : off'[v] = off[v]
  BY <1>1, <1>3
<1>6. /\ pc' = [v \in Writers |-> pc'[v]]
      /\ pc'[w] = IF out_buf = <<>> THEN "yield" ELSE "drain"
      /\ \A v \in Writers \ {w} : pc'[v] = pc[v]
  BY <1>1, <1>3
<1>7. StreamTypes'
  <2>1. \A v \in Writers : pc'[v] = "drain" => off'[v] <= Len(view'[v])
    <3> SUFFICES ASSUME NEW v \in Writers, pc'[v] = "drain"
                 PROVE  off'[v] <= Len(view'[v])
      OBVIOUS
    <3>1. CASE v = w
      BY <1>3, <1>4, <1>5, <3>1
    <3>2. CASE v # w
      <4>1. off[v] <= Len(view[v])
        BY <1>6, <3>2 DEF StreamInv, StreamTypes
      <4> QED
        BY <1>4, <1>5, <3>2, <4>1
    <3> QED
      BY <3>1, <3>2
  <2> QED
    BY <1>1, <1>4, <1>5, <1>6, <2>1 DEF StreamInv, StreamTypes
<1>8. DrainIsAlone'
  <2> SUFFICES ASSUME ~shared', NEW v \in Writers, pc'[v] = "drain"
               PROVE  /\ view'[v] = out_buf'
                      /\ \A u \in Writers : pc'[u] = "drain" => u = v
                      /\ \A j \in 1 .. off'[v] : Contains(sent', out_buf'[j])
    BY DEF DrainIsAlone, Contains
  <2>1. \A u \in Writers : pc'[u] = "drain" => u = w
    BY <1>2, <1>6 DEF Draining
  <2>2. v = w /\ off'[v] = 0
    BY <1>5, <2>1
  <2> QED
    BY <1>1, <1>4, <2>1, <2>2
<1>9. SentInOrder'
  <2> SUFFICES ASSUME ~shared', cancels' = 0
               PROVE  /\ \A i \in 1 .. Len(sent') : sent'[i] = i
                      /\ Len(sent') + Len(out_buf') = wrote'
                      /\ \A v \in Writers : pc'[v] = "drain" => off'[v] = 0
    BY <1>1, <1>3 DEF SentInOrder
  <2>1. \A v \in Writers : pc'[v] = "drain" => off'[v] = 0
    BY <1>2, <1>5, <1>6 DEF Draining
  <2> QED
    BY <1>1, <1>2, <2>1 DEF StreamInv, SentInOrder
<1>10. NothingDropped'
  BY <1>1, <1>2 DEF StreamInv, NothingDropped, Contains
<1> QED
  BY <1>7, <1>8, <1>9, <1>10 DEF StreamInv

\* A task comes back from drain() without having sent: it had nothing to send,
\* or it is cancelled, and that is counted.
LEMMA DrainLeftKeeps ==
    ASSUME StreamInv, NEW w \in Writers,
           pc' = [pc EXCEPT ![w] = "idle"],
           UNCHANGED <<out_buf, view, off, wrote, sent, shared>>,
           \/ pc[w] # "drain" /\ cancels' = cancels
           \/ cancels' = cancels + 1
    PROVE  StreamInv'
<1>1. /\ pc' = [v \in Writers |-> pc'[v]] /\ pc'[w] = "idle"
      /\ \A v \in Writers \ {w} : pc'[v] = pc[v]
  BY DEF StreamInv, StreamTypes
<1>2. cancels' \in Nat /\ (cancels' = 0 => pc[w] # "drain" /\ cancels = 0)
  BY DEF StreamInv, StreamTypes
<1>3. \A v \in Writers : pc'[v] = "drain" => pc[v] = "drain"
  BY <1>1
<1>4. StreamTypes'
  BY <1>1, <1>2, <1>3 DEF StreamInv, StreamTypes
<1>5. DrainIsAlone'
  <2>1. shared' = shared /\ out_buf' = out_buf /\ view' = view /\ off' = off
        /\ sent' = sent
    OBVIOUS
  <2> QED
    BY <1>3, <2>1 DEF StreamInv, DrainIsAlone, Contains
<1>6. SentInOrder'
  <2> SUFFICES ASSUME ~shared', cancels' = 0 PROVE SentInOrder'
    BY DEF SentInOrder
  <2>1. ~shared /\ cancels = 0 /\ pc[w] # "drain"
    BY <1>2
  <2>2. Draining' <=> Draining
    BY <1>1, <2>1 DEF Draining
  <2> QED
    BY <1>3, <2>1, <2>2 DEF StreamInv, SentInOrder
<1>7. NothingDropped'
  BY DEF StreamInv, NothingDropped, Contains
<1> QED
  BY <1>4, <1>5, <1>6, <1>7 DEF StreamInv

\* The socket takes some bytes of the view; with the last of them drain()
\* clears the buffer.
LEMMA DrainWritesKeeps ==
    ASSUME StreamInv, NEW w \in Writers, NEW ret \in 0 .. MaxBytes,
           DrainWrites(w, ret)
    PROVE  StreamInv'
<1> DEFINE q == view[w]
           m == off[w]
           n == m + ret
<1>1. /\ pc[w] = "drain" /\ ret <= Len(q) - m
      /\ sent' = sent \o SubSeq(q, m + 1, n)
      /\ off' = [off EXCEPT ![w] = n]
      /\ IF off'[w] = Len(q)
         THEN out_buf' = <<>> /\ pc' = [pc EXCEPT ![w] = "idle"]
         ELSE UNCHANGED <<out_buf, pc>>
      /\ UNCHANGED <<view, wrote, cancels, shared>>
  BY DEF DrainWrites
<1>2. /\ out_buf \in Seq(Nat) /\ sent \in Seq(Nat) /\ wrote \in Nat
      /\ view \in [Writers -> Seq(Nat)] /\ off \in [Writers -> Nat]
      /\ pc = [v \in Writers |-> pc[v]]
      /\ q \in Seq(Nat) /\ m \in Nat /\ Len(q) \in Nat
      /\ Len(out_buf) \in Nat /\ Len(sent) \in Nat
  BY DEF StreamInv, StreamTypes
<1>3. n \in Nat /\ m <= n /\ n <= Len(q) /\ n = m + ret /\ ret \in Nat
  BY <1>1, <1>2, StreamAssumption
<1>4. /\ off' \in [Writers -> Nat] /\ off'[w] = n
      /\ \A v \in Writers \ {w} : off'[v] = off[v]
  BY <1>1, <1>2, <1>3
<1> HIDE DEF q, m, n
<1>5. /\ sent' \in Seq(Nat)
      /\ Len(sent') + m = Len(sent) + n /\ Len(sent') \in Nat
      /\ Len(sent) <= Len(sent')
      /\ \A i \in 1 .. Len(sent) : sent'[i] = sent[i]
      /\ \A i \in Nat : i > m /\ i <= n =>
             /\ Len(sent) + i - m \in 1 .. Len(sent')
             /\ sent'[Len(sent) + i - m] = q[i]
  <2>1. /\ sent' = sent \o SubSeq(q, m + 1, n) /\ sent \in Seq(Nat)
        /\ q \in Seq(Nat) /\ m \in Nat
    BY <1>1, <1>2
  <2>2. n \in Nat /\ m <= n /\ n <= Len(q)
    BY <1>3
  <2>3. AddsPart(sent', sent, q, m, n)
    BY <2>1, <2>2, PartAdded
  <2> QED
    BY <2>3 DEF AddsPart
<1>6. /\ pc' = [v \in Writers |-> pc'[v]]
      /\ \A v \in Writers \ {w} : pc'[v] = pc[v]
      /\ pc'[w] = IF n = Len(q) THEN "idle" ELSE "drain"
      /\ out_buf' = IF n = Len(q) THEN <<>> ELSE out_buf
  BY <1>1, <1>2, <1>4
<1>7. StreamTypes'
  <2>1. \A v \in Writers : pc'[v] = "drain" => off'[v] <= Len(view'[v])
    BY <1>1, <1>3, <1>4, <1>6 DEF StreamInv, StreamTypes, q
  <2>2. out_buf' \in Seq(Nat) /\ Len(out_buf') <= wrote'
        /\ \A j \in 1 .. Len(out_buf') :
               out_buf'[j] + Len(out_buf') = wrote' + j
    <3>1. CASE n = Len(q)
      <4>1. out_buf' = <<>> /\ Len(out_buf') = 0 /\ <<>> \in Seq(Nat)
        BY <1>6, <3>1
      <4> QED
        BY <1>1, <1>2, <4>1
    <3>2. CASE n # Len(q)
      BY <1>1, <1>6, <3>2 DEF StreamInv, StreamTypes
    <3> QED
      BY <3>1, <3>2
  <2> QED
    BY <1>1, <1>4, <1>5, <1>6, <2>1, <2>2 DEF StreamInv, StreamTypes
\* In the rest of the proof nobody else uses the stream.
<1>8. ASSUME ~shared'
      PROVE  /\ ~shared /\ q = out_buf
             /\ \A v \in Writers : pc[v] = "drain" => v = w
             /\ \A j \in 1 .. m : Contains(sent, out_buf[j])
  BY <1>1, <1>8 DEF StreamInv, DrainIsAlone, q, m
<1>9. ASSUME ~shared', NEW j \in 1 .. n
      PROVE  Contains(sent', out_buf[j])
  <2>1. CASE j <= m
    <3>1. Contains(sent, out_buf[j])
      BY <1>2, <1>8, <1>9, <2>1
    <3> QED
      BY <1>2, <1>5, <3>1, SentStays
  <2>2. CASE j > m
    <3>1. j \in Nat /\ j <= n
      BY <1>3
    <3> QED
      BY <1>5, <1>8, <1>9, <2>2, <3>1 DEF Contains
  <2> QED
    BY <1>2, <2>1, <2>2
<1>10. DrainIsAlone'
  <2> SUFFICES ASSUME ~shared', NEW v \in Writers, pc'[v] = "drain"
               PROVE  /\ view'[v] = out_buf'
                      /\ \A u \in Writers : pc'[u] = "drain" => u = v
                      /\ \A j \in 1 .. off'[v] : Contains(sent', out_buf'[j])
    BY DEF DrainIsAlone, Contains
  <2>1. v = w /\ out_buf' = out_buf /\ \A u \in Writers \ {w} : pc[u] # "drain"
    BY <1>6, <1>8
  <2>2. \A j \in 1 .. n : Contains(sent', out_buf[j])
    BY <1>9
  <2> QED
    BY <1>1, <1>4, <1>6, <1>8, <2>1, <2>2 DEF q
<1>11. SentInOrder'
  <2> SUFFICES ASSUME ~shared', cancels' = 0 PROVE SentInOrder'
    BY DEF SentInOrder
  <2>1. /\ \A i \in 1 .. Len(sent) : sent[i] = i
        /\ Len(sent) + Len(out_buf) = wrote + m
    BY <1>1, <1>8 DEF StreamInv, SentInOrder, m
  <2>0. /\ Len(sent) \in Nat /\ Len(sent') \in Nat /\ Len(out_buf) \in Nat
        /\ m \in Nat /\ n \in Nat /\ wrote \in Nat /\ n <= Len(out_buf)
        /\ Len(sent') + m = Len(sent) + n
        /\ Len(sent) + Len(out_buf) = wrote + m
    BY <1>2, <1>3, <1>5, <1>8, <2>1
  <2>2. ASSUME NEW i \in 1 .. Len(sent') PROVE sent'[i] = i
    <3>1. CASE i <= Len(sent)
      <4>1. i \in 1 .. Len(sent)
        BY <1>2, <3>1
      <4> QED
        BY <1>5, <2>1, <4>1
    <3>2. CASE i > Len(sent)
      <4> DEFINE j == i - Len(sent) + m
      <4>1. /\ j \in Nat /\ j > m /\ j <= n /\ Len(sent) + j - m = i
            /\ j + Len(sent) = i + m
        BY <2>0, <3>2
      <4> HIDE DEF j
      <4>2. j \in 1 .. Len(out_buf)
        BY <2>0, <4>1
      <4>3. sent'[i] = out_buf[j]
        BY <1>5, <1>8, <4>1
      <4>4. out_buf[j] + Len(out_buf) = wrote + j
        BY <4>2 DEF StreamInv, StreamTypes
      <4>5. out_buf[j] \in Nat
        <5>1. out_buf \in Seq(Nat)
          BY DEF StreamInv, StreamTypes
        <5> QED
          BY <4>2, <5>1
      <4> QED
        BY <2>0, <4>1, <4>3, <4>4, <4>5
    <3> QED
      BY <1>2, <3>1, <3>2
  <2>3. Len(sent') + Len(out_buf) = wrote + n
    BY <2>0
  <2>4. CASE n = Len(q)
    <3>1. Len(out_buf') = 0 /\ Len(sent') = wrote
      <4>1. out_buf' = <<>> /\ Len(out_buf') = 0 /\ n = Len(out_buf)
        BY <1>6, <1>8, <2>4
      <4> QED
        BY <2>0, <2>3, <4>1
    <3>2. \A v \in Writers : pc'[v] # "drain"
      BY <1>6, <1>8, <2>4
    <3>3. wrote' = wrote /\ Len(sent') + Len(out_buf') = wrote'
      BY <1>1, <2>0, <3>1
    <3> QED
      BY <2>2, <3>2, <3>3 DEF SentInOrder
  <2>5. CASE n # Len(q)
    <3>1. out_buf' = out_buf /\ pc'[w] = "drain"
      BY <1>6, <2>5
    <3>2. \A v \in Writers : pc'[v] = "drain" => v = w
      BY <1>6, <1>8
    <3> QED
      BY <1>1, <1>4, <2>2, <2>3, <3>1, <3>2 DEF SentInOrder, Draining
  <2> QED
    BY <2>4, <2>5
<1>12. NothingDropped'
  <2> SUFFICES ASSUME ~shared', NEW i \in 1 .. wrote
               PROVE  Contains(sent', i) \/ Contains(out_buf', i)
    BY <1>1 DEF NothingDropped, Contains
  <2>1. Contains(sent, i) \/ Contains(out_buf, i)
    BY <1>8 DEF StreamInv, NothingDropped
  <2>2. CASE Contains(sent, i)
    BY <1>2, <1>5, <2>2, SentStays
  <2>3. CASE Contains(out_buf, i)
    <3>1. CASE n = Len(q)
      BY <1>8, <1>9, <2>3, <3>1 DEF Contains
    <3>2. CASE n # Len(q)
      BY <1>6, <2>3, <3>2
    <3> QED
      BY <3>1, <3>2
  <2> QED
    BY <2>1, <2>2, <2>3
<1> QED
  BY <1>7, <1>10, <1>11, <1>12 DEF StreamInv

\* What is written to a stream goes out once, whole and in order (stream.py:
\* 56-88), for any number of tasks and bytes and however the socket splits
\* them, as long as nobody shares the stream during a drain() or cancels one;
\* and without the latter no byte is dropped.
THEOREM StreamIsSentInOrder == StreamSpec => []SentOnceInOrder
<1>1. StreamInit => StreamInv
  <2> SUFFICES ASSUME StreamInit PROVE StreamInv
    OBVIOUS
  <2>1. <<>> \in Seq(Nat) /\ Len(<<>>) = 0
    OBVIOUS
  <2>2. /\ view \in [Writers -> Seq(Nat)] /\ off \in [Writers -> Nat]
        /\ pc = [w \in Writers |-> pc[w]]
        /\ \A w \in Writers : pc[w] # "drain"
    BY <2>1 DEF StreamInit
  <2>3. StreamTypes
    BY <2>1, <2>2 DEF StreamInit, StreamTypes
  <2>4. DrainIsAlone
    BY <2>2 DEF DrainIsAlone
  <2>5. SentInOrder
    BY <2>1, <2>2 DEF StreamInit, SentInOrder, Draining
  <2>6. NothingDropped
    BY DEF StreamInit, NothingDropped
  <2> QED
    BY <2>3, <2>4, <2>5, <2>6 DEF StreamInv
<1>2. StreamInv /\ [StreamNext]_streamVars => StreamInv'
  <2> SUFFICES ASSUME StreamInv, [StreamNext]_streamVars PROVE StreamInv'
    OBVIOUS
  <2>1. CASE Writes
    BY <2>1, WriteKeeps DEF Writes
  <2>2. CASE DrainStarts
    BY <2>2, DrainBeginsKeeps DEF DrainStarts
  <2>3. CASE Yields
    BY <2>3, DrainLeftKeeps DEF Yields, DrainYielded
  <2>4. CASE Drains
    BY <2>4, DrainWritesKeeps DEF Drains
  <2>5. CASE CancelSteps
    BY <2>5, DrainLeftKeeps DEF CancelSteps, Cancelled
  <2>6. CASE UNCHANGED streamVars
    <3>1. /\ UNCHANGED <<out_buf, view, off, pc, wrote, sent, cancels>>
          /\ shared' = shared
      BY <2>6 DEF streamVars
    <3>2. StreamTypes'
      BY <3>1 DEF StreamInv, StreamTypes
    <3>3. DrainIsAlone' /\ NothingDropped'
      BY <3>1 DEF StreamInv, DrainIsAlone, NothingDropped, Contains
    <3>4. SentInOrder'
      BY <3>1 DEF StreamInv, SentInOrder, Draining
    <3> QED
      BY <3>2, <3>3, <3>4 DEF StreamInv
  <2> QED
    BY <2>1, <2>2, <2>3, <2>4, <2>5, <2>6 DEF StreamNext
<1> QED
  BY <1>1, <1>2, StreamHolds, PTL DEF StreamSpec

-----------------------------------------------------------------------------
(***************************************************************************)
(* A metadata pair of littlefs                                             *)
(***************************************************************************)

\* A set of natural numbers that is not empty has a least one.
LEMMA LeastOf ==
    ASSUME NEW T \in SUBSET Nat, T # {}
    PROVE  \E x \in T : \A y \in T : x <= y
<1> DEFINE R == OpToRel(<, Nat)
<1>1. IsWellFoundedOn(R, Nat)
  BY NatLessThanWellFounded
<1>2. \A x, y \in Nat : x < y => <<x, y>> \in R
  BY DEF OpToRel
<1> HIDE DEF R
<1>3. PICK x \in T : \A y \in T : ~(<<y, x>> \in R)
  BY <1>1, WFMin
<1>4. ASSUME NEW y \in T PROVE x <= y
  <2>1. x \in Nat /\ y \in Nat
    OBVIOUS
  <2>2. ~(y < x)
    BY <1>2, <1>3, <2>1
  <2> QED  BY <2>1, <2>2
<1> QED  BY <1>4

\* A bounded one has a greatest, which Max finds.
LEMMA GreatestOf ==
    ASSUME NEW n \in Nat, NEW T \in SUBSET (1 .. n), T # {}
    PROVE  Max(T) \in T /\ \A y \in T : Max(T) >= y
<1> DEFINE U == {n - y : y \in T}
<1>1. U \in SUBSET Nat /\ U # {}
  <2>1. \A y \in T : y \in Nat /\ y <= n
    OBVIOUS
  <2>2. \A y \in T : n - y \in Nat
    BY <2>1
  <2>3. \A u \in U : \E y \in T : u = n - y
    OBVIOUS
  <2>4. \A u \in U : u \in Nat
    BY <2>2, <2>3
  <2>5. \E u : u \in U
    OBVIOUS
  <2> HIDE DEF U
  <2> QED  BY <2>4, <2>5
<1>2. PICK u \in U : \A v \in U : u <= v
  BY <1>1, LeastOf
<1>3. PICK x \in T : u = n - x
  OBVIOUS
<1>4. ASSUME NEW y \in T PROVE x >= y
  <2>1. u <= n - y
    BY <1>2
  <2> QED  BY <2>1, <1>3
<1>5. \E z \in T : \A y \in T : z >= y
  BY <1>4
<1> QED  BY <1>5 DEF Max

\* The changes that a commit may make, and a log that can be read: its first
\* commit gives every file a value.
Commits == UNION {[S -> Values] : S \in SUBSET Files}

IsLog(log) == /\ log \in Seq(Commits)
              /\ log # <<>> => DOMAIN log[1] = Files

\* i is the last commit of a log that sets f.
LastSets(log, f, i) ==
    /\ i \in 1 .. Len(log) /\ f \in DOMAIN log[i]
    /\ \A j \in 1 .. Len(log) : f \in DOMAIN log[j] => j <= i

\* There is one for every file, and it has the file's value.
LEMMA ContentIs ==
    ASSUME NEW log, IsLog(log), log # <<>>, NEW f \in Files
    PROVE  \E i : LastSets(log, f, i) /\ Content(log)[f] = log[i][f]
<1> DEFINE T == {j \in DOMAIN log : f \in DOMAIN log[j]}
<1>1. log \in Seq(Commits) /\ Len(log) \in Nat /\ DOMAIN log = 1 .. Len(log)
      /\ 1 \in DOMAIN log /\ DOMAIN log[1] = Files
  BY DEF IsLog
<1>2. T \in SUBSET (1 .. Len(log)) /\ T # {}
  BY <1>1
<1>3. Max(T) \in T /\ \A y \in T : Max(T) >= y
  BY <1>1, <1>2, GreatestOf
<1>4. Content(log)[f] = log[Max(T)][f]
  BY DEF Content
<1> HIDE DEF T
<1> DEFINE i == Max(T)
<1>5. i \in T /\ \A y \in T : i >= y
  BY <1>3
<1> HIDE DEF i
<1>6. LastSets(log, f, i)
  <2>1. i \in 1 .. Len(log) /\ f \in DOMAIN log[i]
    BY <1>1, <1>5 DEF T
  <2>2. ASSUME NEW j \in 1 .. Len(log), f \in DOMAIN log[j] PROVE j <= i
    <3>1. j \in T
      BY <1>1, <2>2 DEF T
    <3> QED  BY <1>5, <2>1, <3>1
  <2> QED  BY <2>1, <2>2 DEF LastSets
<1> QED  BY <1>4, <1>6 DEF i

\* So what a log amounts to is a directory.
LEMMA ContentIsDirectory ==
    ASSUME NEW log, IsLog(log), log # <<>>
    PROVE  Content(log) \in Directories
<1>1. ASSUME NEW f \in Files PROVE Content(log)[f] \in Values
  <2>1. PICK i : LastSets(log, f, i) /\ Content(log)[f] = log[i][f]
    BY ContentIs
  <2>2. log[i] \in Commits /\ f \in DOMAIN log[i]
    BY <2>1 DEF LastSets, IsLog
  <2>3. PICK S \in SUBSET Files : log[i] \in [S -> Values]
    BY <2>2 DEF Commits
  <2> QED  BY <2>1, <2>2, <2>3
<1> DEFINE v(f) == Content(log)[f]
<1>2. Content(log) = [f \in Files |-> Content(log)[f]]
  BY DEF Content
<1> QED  BY <1>1, <1>2 DEF Directories

\* A change over a directory is a directory.
LEMMA OverIsDirectory ==
    ASSUME NEW d \in Directories, NEW c \in Commits
    PROVE  Over(d, c) \in Directories
<1>1. PICK S \in SUBSET Files : c \in [S -> Values]
  BY DEF Commits
<1> QED  BY <1>1 DEF Over, Directories

\* No change leaves a directory as it is.
LEMMA OverNoChange ==
    ASSUME NEW d \in Directories
    PROVE  Over(d, NoChange) = d /\ NoChange \in Commits
<1>1. NoChange \in [{} -> Values] /\ DOMAIN NoChange = {}
  BY DEF NoChange
<1> QED  BY <1>1 DEF Over, Directories, Commits

\* A commit that is appended changes the directory by what it sets.
LEMMA ContentAppend ==
    ASSUME NEW log, IsLog(log), log # <<>>, NEW c \in Commits
    PROVE  /\ IsLog(Append(log, c)) /\ Append(log, c) # <<>>
           /\ Content(Append(log, c)) = Over(Content(log), c)
<1> DEFINE new == Append(log, c)
<1>1. /\ log \in Seq(Commits) /\ Len(log) \in Nat \ {0}
      /\ new \in Seq(Commits) /\ Len(new) = Len(log) + 1
      /\ \A j \in 1 .. Len(log) : new[j] = log[j]
      /\ new[Len(log) + 1] = c
  BY DEF IsLog
<1> HIDE DEF new
<1>2. IsLog(new) /\ new # <<>>
  <2>1. 1 \in 1 .. Len(log) /\ Len(new) # 0
    BY <1>1
  <2> QED  BY <1>1, <2>1 DEF IsLog
<1>3. ASSUME NEW f \in Files
      PROVE  Content(new)[f] = IF f \in DOMAIN c THEN c[f] ELSE Content(log)[f]
  <2>1. PICK k : LastSets(new, f, k) /\ Content(new)[f] = new[k][f]
    BY <1>2, ContentIs
  <2>2. PICK i : LastSets(log, f, i) /\ Content(log)[f] = log[i][f]
    BY ContentIs
  <2>3. k \in 1 .. Len(log) + 1 /\ i \in 1 .. Len(log)
    BY <1>1, <2>1, <2>2 DEF LastSets
  <2>4. CASE f \in DOMAIN c
    <3>1. Len(log) + 1 <= k
      BY <1>1, <2>1, <2>4 DEF LastSets
    <3>2. k = Len(log) + 1
      BY <1>1, <2>3, <3>1
    <3> QED  BY <1>1, <2>1, <2>4, <3>2
  <2>5. CASE f \notin DOMAIN c
    <3>1. k # Len(log) + 1
      BY <1>1, <2>1, <2>5 DEF LastSets
    <3>2. k \in 1 .. Len(log)
      BY <1>1, <2>3, <3>1
    <3>3. f \in DOMAIN log[k] /\ new[k] = log[k]
      BY <1>1, <2>1, <3>2 DEF LastSets
    <3>4. k <= i
      BY <2>2, <3>2, <3>3 DEF LastSets
    <3>5. i \in 1 .. Len(new) /\ f \in DOMAIN new[i]
      BY <1>1, <2>2, <2>3 DEF LastSets
    <3>6. i <= k
      BY <2>1, <3>5 DEF LastSets
    <3>7. i = k
      BY <2>3, <3>4, <3>6
    <3> QED  BY <2>1, <2>2, <2>5, <3>3, <3>7
  <2> QED  BY <2>4, <2>5
<1>4. Content(new) = [f \in Files |-> Content(new)[f]]
  BY DEF Content
<1>5. Content(new) = Over(Content(log), c)
  BY <1>3, <1>4 DEF Over
<1> QED  BY <1>2, <1>5 DEF new

\* A block that has just been compacted reads as the directory it was given.
LEMMA ContentOne ==
    ASSUME NEW d \in Directories
    PROVE  IsLog(<<d>>) /\ <<d>> # <<>> /\ Content(<<d>>) = d
<1>1. d \in Commits /\ DOMAIN d = Files
  BY DEF Directories, Commits
<1>2. <<d>> \in Seq(Commits) /\ Len(<<d>>) = 1 /\ <<d>>[1] = d
  BY <1>1
<1>3. IsLog(<<d>>) /\ <<d>> # <<>>
  BY <1>1, <1>2 DEF IsLog
<1>4. ASSUME NEW f \in Files PROVE Content(<<d>>)[f] = d[f]
  <2>1. PICK i : LastSets(<<d>>, f, i) /\ Content(<<d>>)[f] = <<d>>[i][f]
    BY <1>3, ContentIs
  <2>2. i = 1
    BY <1>2, <2>1 DEF LastSets
  <2> QED  BY <1>2, <2>1, <2>2
<1>5. Content(<<d>>) = [f \in Files |-> Content(<<d>>)[f]]
  BY DEF Content
<1> QED  BY <1>3, <1>4, <1>5 DEF Directories

\* Block b is the one a mount takes: it can be read, and if the other one
\* can be read too its revision follows that one's.
Live(b) ==
    /\ pair_disk[b].log # <<>>
    /\ pair_disk[1 - b].log # <<>> =>
           pair_disk[b].rev = (pair_disk[1 - b].rev + 1) % Revisions

PairTypes ==
    /\ pair_disk \in [PairBlocks -> [rev : Revs, log : Seq(Commits),
                                     rest : {"erased", "torn"}]]
    /\ \A b \in PairBlocks : IsLog(pair_disk[b].log)
    /\ asked \in Commits /\ acked \in Directories

\* What the blocks hold while the driver is at work, and while the power is
\* off.
DriverInv ==
    pair_op # "off" =>
      /\ dir \in [pair : PairBlocks, rev : Revs, erased : BOOLEAN]
      /\ Live(dir.pair) /\ dir.rev = pair_disk[dir.pair].rev
      /\ Content(pair_disk[dir.pair].log)
           = IF pair_op = "written" THEN Over(acked, asked) ELSE acked
      /\ pair_op = "idle" => asked = NoChange
      /\ pair_op \in {"compact", "compacting"} =>
           pair_disk[1 - dir.pair].log = <<>>

OffInv ==
    pair_op = "off" =>
      \E b \in PairBlocks :
        Live(b) /\ Content(pair_disk[b].log) \in {acked, Over(acked, asked)}

PairInv == PairTypes /\ DriverInv /\ OffInv

\* The next revision is newer than its predecessor, and not the other way
\* round, also where the count wraps.
LEMMA NextIsNewer ==
    ASSUME NEW r \in Revs
    PROVE  LET s == (r + 1) % Revisions IN
             s \in Revs /\ Newer(s, r) /\ ~Newer(r, s)
<1> DEFINE s == (r + 1) % Revisions
<1>1. r \in Nat /\ r < Revisions /\ Revisions \in Nat /\ Revisions >= 4
  BY LfsPairAssumption DEF Revs
<1>2. CASE r + 1 < Revisions
  <2>1. s = r + 1
    BY <1>1, <1>2
  <2>2. s + Revisions - r = Revisions + 1 /\ r + Revisions - s = Revisions - 1
    BY <1>1, <2>1
  <2>3. /\ (Revisions + 1) % Revisions = 1
        /\ (Revisions - 1) % Revisions = Revisions - 1
    BY <1>1
  <2>4. /\ 1 \in 1 .. Revisions \div 2 - 1
        /\ Revisions - 1 \notin 1 .. Revisions \div 2 - 1
    BY <1>1
  <2> QED  BY <1>1, <1>2, <2>1, <2>2, <2>3, <2>4 DEF Newer, Revs
<1>3. CASE r + 1 = Revisions
  <2>1. s = 0
    BY <1>1, <1>3
  <2>2. /\ s + Revisions - r = 1
        /\ r + Revisions - s = Revisions + (Revisions - 1)
    BY <1>1, <1>3, <2>1
  <2>3. /\ 1 % Revisions = 1
        /\ (Revisions + (Revisions - 1)) % Revisions = Revisions - 1
    BY <1>1
  <2>4. /\ 1 \in 1 .. Revisions \div 2 - 1
        /\ Revisions - 1 \notin 1 .. Revisions \div 2 - 1
    BY <1>1
  <2> QED  BY <1>1, <1>3, <2>1, <2>2, <2>3, <2>4 DEF Newer, Revs
<1> QED  BY <1>1, <1>2, <1>3

\* lfs2_dir_fetchmatch takes the live block.
LEMMA FetchesLive ==
    ASSUME PairTypes, NEW b \in PairBlocks, Live(b)
    PROVE  Fetched = b
<1>1. b \in {0, 1} /\ 1 - b \in {0, 1} /\ 1 - (1 - b) = b
      /\ pair_disk[0].rev \in Revs /\ pair_disk[1].rev \in Revs
  BY DEF PairBlocks, PairTypes
<1>2. pair_disk[b].log # <<>>
  BY DEF Live
<1>3. CASE pair_disk[1 - b].log = <<>>
  BY <1>1, <1>2, <1>3 DEF Fetched
<1>4. CASE pair_disk[1 - b].log # <<>>
  <2>1. pair_disk[b].rev = (pair_disk[1 - b].rev + 1) % Revisions
    BY <1>4 DEF Live
  <2>2. /\ Newer(pair_disk[b].rev, pair_disk[1 - b].rev)
        /\ ~Newer(pair_disk[1 - b].rev, pair_disk[b].rev)
    BY <1>1, <2>1, NextIsNewer
  <2> QED  BY <1>1, <1>2, <2>2 DEF Fetched
<1> QED  BY <1>3, <1>4

\* The invariant gives what the run checks.
LEMMA PairHolds == PairInv => PairSurvives
<1> SUFFICES ASSUME PairInv PROVE PairSurvives
  OBVIOUS
<1> USE DEF PairInv
<1>1. CASE pair_op = "off"
  <2>1. PICK b \in PairBlocks :
          Live(b) /\ Content(pair_disk[b].log) \in {acked, Over(acked, asked)}
    BY <1>1 DEF OffInv
  <2>2. Fetched = b
    BY <2>1, FetchesLive
  <2> QED
    BY <1>1, <2>1, <2>2 DEF PairSurvives, AlwaysMounts, Readable,
       AtomicCommit, PairOnDisk, DriverOnLiveBlock, Live
<1>2. CASE pair_op # "off"
  <2>1. /\ dir.pair \in PairBlocks /\ Live(dir.pair)
        /\ dir.rev = pair_disk[dir.pair].rev
        /\ Content(pair_disk[dir.pair].log) \in {acked, Over(acked, asked)}
    BY <1>2 DEF DriverInv
  <2>2. Fetched = dir.pair
    BY <2>1, FetchesLive
  <2> QED
    BY <2>1, <2>2 DEF PairSurvives, AlwaysMounts, Readable,
       AtomicCommit, PairOnDisk, DriverOnLiveBlock, Live
<1> QED  BY <1>1, <1>2

\* A formatted pair: block 1 is the live one.
LEMMA PairInitInv == PairInit => PairInv
<1> SUFFICES ASSUME PairInit PROVE PairInv
  OBVIOUS
<1>1. PICK d \in Directories :
        /\ pair_disk = [b \in PairBlocks |->
                          [rev |-> b, log |-> <<d>>, rest |-> "erased"]]
        /\ acked = d
  BY DEF PairInit
<1>2. IsLog(<<d>>) /\ <<d>> # <<>> /\ Content(<<d>>) = d
  BY ContentOne
<1>3. /\ pair_disk[0] = [rev |-> 0, log |-> <<d>>, rest |-> "erased"]
      /\ pair_disk[1] = [rev |-> 1, log |-> <<d>>, rest |-> "erased"]
  BY <1>1 DEF PairBlocks
<1>4. NoChange \in Commits
  BY <1>1, OverNoChange
<1>5. 0 \in Revs /\ 1 \in Revs /\ (0 + 1) % Revisions = 1
  BY LfsPairAssumption DEF Revs
<1>6. PairTypes
  BY <1>1, <1>2, <1>3, <1>4, <1>5 DEF PairTypes, PairInit, PairBlocks, IsLog
<1>7. Live(1) /\ Content(pair_disk[1].log) = acked /\ 1 \in PairBlocks
  BY <1>1, <1>2, <1>3, <1>5, SMTT(30) DEF Live, PairBlocks
<1> QED  BY <1>6, <1>7 DEF PairInv, OffInv, DriverInv, PairInit

\* What the invariant says of the two blocks while the driver is at work.
LEMMA TwoBlocks ==
    ASSUME PairInv, pair_op # "off"
    PROVE  LET L == dir.pair
               T == 1 - dir.pair IN
           /\ L \in PairBlocks /\ T \in PairBlocks /\ L # T /\ 1 - T = L
           /\ PairBlocks = {L, T}
           /\ dir \in [pair : PairBlocks, rev : Revs, erased : BOOLEAN]
           /\ pair_disk = [b \in PairBlocks |-> pair_disk[b]]
           /\ \A b \in PairBlocks :
                /\ pair_disk[b] \in [rev : Revs, log : Seq(Commits),
                                     rest : {"erased", "torn"}]
                /\ IsLog(pair_disk[b].log)
           /\ asked \in Commits /\ acked \in Directories
           /\ Live(L) /\ dir.rev = pair_disk[L].rev
           /\ Content(pair_disk[L].log)
                = IF pair_op = "written" THEN Over(acked, asked) ELSE acked
<1>1. dir.pair \in {0, 1} /\ dir.pair \in PairBlocks
      /\ dir \in [pair : PairBlocks, rev : Revs, erased : BOOLEAN]
  BY DEF PairInv, DriverInv, PairBlocks
<1>2. /\ 1 - dir.pair \in {0, 1} /\ dir.pair # 1 - dir.pair
      /\ 1 - (1 - dir.pair) = dir.pair /\ {0, 1} = {dir.pair, 1 - dir.pair}
  BY <1>1
<1>3. pair_disk = [b \in PairBlocks |-> pair_disk[b]]
      /\ \A b \in PairBlocks :
           pair_disk[b] \in [rev : Revs, log : Seq(Commits),
                             rest : {"erased", "torn"}]
  BY DEF PairInv, PairTypes
<1> QED  BY <1>1, <1>2, <1>3 DEF PairInv, PairTypes, DriverInv, PairBlocks

\* A directory is read: the driver goes on with the live block.
LEMMA FetchPair ==
    ASSUME PairInv, Fetch
    PROVE  PairInv'
<1>1. \E b \in PairBlocks :
        Live(b) /\ Content(pair_disk[b].log) \in {acked, Over(acked, asked)}
  <2>1. CASE pair_op = "off"
    BY <2>1 DEF PairInv, OffInv
  <2>2. CASE pair_op # "off"
    BY <2>2, TwoBlocks
  <2> QED  BY <2>1, <2>2
<1>2. PICK b \in PairBlocks : Live(b)
  BY <1>1
<1>3. Fetched = b
  BY <1>2, FetchesLive DEF PairInv
<1>4. /\ pair_disk[b] \in [rev : Revs, log : Seq(Commits),
                           rest : {"erased", "torn"}]
      /\ IsLog(pair_disk[b].log) /\ pair_disk[b].log # <<>>
  BY <1>2 DEF PairInv, PairTypes, Live
<1>5. Content(pair_disk[b].log) \in Directories
  BY <1>4, ContentIsDirectory
<1>6. /\ dir' = [pair |-> b, rev |-> pair_disk[b].rev,
                 erased |-> pair_disk[b].rest = "erased"]
      /\ pair_op' = "idle" /\ asked' = NoChange /\ pair_disk' = pair_disk
      /\ acked' = Content(pair_disk[b].log)
  BY <1>3 DEF Fetch, PairOnDisk
<1>7. PairTypes'
  BY <1>5, <1>6, OverNoChange DEF PairInv, PairTypes
<1>8. Live(b)'
  BY <1>2, <1>6 DEF Live
<1>9. (pair_disk[b].rest = "erased") \in BOOLEAN
  OBVIOUS
<1>10. dir' \in [pair : PairBlocks, rev : Revs, erased : BOOLEAN]
  BY <1>4, <1>6, <1>9
<1>11. DriverInv'
  BY <1>6, <1>8, <1>10 DEF DriverInv
<1> QED  BY <1>6, <1>7, <1>11 DEF PairInv, OffInv

\* A commit begins.
LEMMA CommitPairKeeps ==
    ASSUME PairInv, Changes
    PROVE  PairInv'
<1>1. PICK f \in Files, v \in Values : CommitPair([g \in {f} |-> v])
  BY DEF Changes
<1>2. [g \in {f} |-> v] \in Commits
  <2>1. {f} \in SUBSET Files /\ [g \in {f} |-> v] \in [{f} -> Values]
    OBVIOUS
  <2> QED  BY <2>1 DEF Commits
<1>3. /\ pair_op = "idle" /\ asked' \in Commits /\ pair_disk' = pair_disk
      /\ dir' = dir /\ acked' = acked
      /\ pair_op' = "append" \/ pair_op' = "erase"
  BY <1>1, <1>2 DEF CommitPair
<1>4. PairTypes'
  BY <1>3 DEF PairInv, PairTypes
<1>5. Live(dir.pair)'
  BY <1>3 DEF PairInv, DriverInv, Live
<1> QED  BY <1>3, <1>4, <1>5 DEF PairInv, DriverInv, OffInv

\* A step of the driver that changes at most what is not read of a block:
\* the other block, to something with no log or part of the old one, or
\* what follows the log.
SameLive ==
    /\ pair_op \notin {"off", "written"} /\ pair_op' \notin {"off", "written"}
    /\ dir' = dir /\ acked' = acked /\ asked' \in {asked, NoChange}
    /\ pair_op' = "idle" => asked' = NoChange
    /\ pair_disk' = [b \in PairBlocks |-> pair_disk'[b]]
    /\ \A b \in PairBlocks :
         /\ pair_disk'[b] \in [rev : Revs, log : Seq(Commits),
                               rest : {"erased", "torn"}]
         /\ IsLog(pair_disk'[b].log)
    /\ pair_disk'[dir.pair].log = pair_disk[dir.pair].log
    /\ pair_disk'[dir.pair].rev = pair_disk[dir.pair].rev
    /\ \/ pair_disk'[1 - dir.pair].log = <<>>
       \/ /\ pair_disk[1 - dir.pair].log # <<>>
          /\ pair_disk'[1 - dir.pair].rev = pair_disk[1 - dir.pair].rev
          /\ pair_op' \notin {"compact", "compacting"}

\* Such a step keeps the invariant.
LEMMA SameLiveKeeps ==
    ASSUME PairInv, SameLive
    PROVE  PairInv'
<1>1. /\ dir.pair \in PairBlocks /\ 1 - dir.pair \in PairBlocks
      /\ dir \in [pair : PairBlocks, rev : Revs, erased : BOOLEAN]
      /\ asked \in Commits /\ acked \in Directories
      /\ Live(dir.pair) /\ dir.rev = pair_disk[dir.pair].rev
      /\ Content(pair_disk[dir.pair].log) = acked
  BY TwoBlocks DEF SameLive
<1>2. NoChange \in Commits
  BY <1>1, OverNoChange
<1>3. PairTypes'
  <2>1. pair_disk' \in [PairBlocks -> [rev : Revs, log : Seq(Commits),
                                       rest : {"erased", "torn"}]]
    BY DEF SameLive
  <2> QED  BY <1>1, <1>2, <2>1 DEF SameLive, PairTypes
<1>4. Live(dir.pair)'
  BY <1>1 DEF SameLive, Live
<1> QED  BY <1>1, <1>3, <1>4 DEF SameLive, PairInv, DriverInv, OffInv

\* The steps of an append that are not its last one.
LEMMA AppendKeeps ==
    ASSUME PairInv, AppendBegins \/ AppendBad
    PROVE  SameLive
<1>1. pair_op \in {"append", "crc"} /\ pair_op # "off"
  BY DEF AppendBegins, AppendBad
<1> DEFINE L == dir.pair
           T == 1 - dir.pair
<1>2. /\ L \in PairBlocks /\ T \in PairBlocks /\ L # T
      /\ pair_disk = [b \in PairBlocks |-> pair_disk[b]]
      /\ \A b \in PairBlocks :
           /\ pair_disk[b] \in [rev : Revs, log : Seq(Commits),
                                rest : {"erased", "torn"}]
           /\ IsLog(pair_disk[b].log)
  BY <1>1, TwoBlocks
<1> HIDE DEF L, T
<1>3. CASE AppendBegins
  <2>1. /\ pair_disk' = [pair_disk EXCEPT ![L].rest = "torn"]
        /\ dir' = dir /\ acked' = acked /\ asked' = asked
        /\ pair_op' \in {"crc", "erase"}
    BY <1>3 DEF AppendBegins, L
  <2>2. /\ pair_disk'[L] = [pair_disk[L] EXCEPT !.rest = "torn"]
        /\ pair_disk'[T] = pair_disk[T]
        /\ \A b \in PairBlocks \ {L} : pair_disk'[b] = pair_disk[b]
        /\ pair_disk' = [b \in PairBlocks |-> pair_disk'[b]]
    BY <1>2, <2>1
  <2>3. /\ pair_disk'[L] \in [rev : Revs, log : Seq(Commits),
                              rest : {"erased", "torn"}]
        /\ pair_disk'[L].log = pair_disk[L].log
        /\ pair_disk'[L].rev = pair_disk[L].rev
    BY <1>2, <2>2
  <2> QED  BY <1>1, <1>2, <2>1, <2>2, <2>3 DEF SameLive, L, T
<1>4. CASE AppendBad
  BY <1>1, <1>2, <1>4 DEF AppendBad, SameLive, L, T
<1> QED  BY <1>3, <1>4

\* The first part of a log can be read, or is empty.
LEMMA PartOfLog ==
    ASSUME NEW log, IsLog(log), NEW n \in 0 .. Len(log)
    PROVE  /\ IsLog(SubSeq(log, 1, n))
           /\ SubSeq(log, 1, n) # <<>> => log # <<>>
<1>1. log \in Seq(Commits) /\ Len(log) \in Nat /\ n \in Nat /\ n <= Len(log)
  BY DEF IsLog
<1>2. /\ SubSeq(log, 1, n) \in Seq(Commits) /\ Len(SubSeq(log, 1, n)) = n
      /\ \A i \in 1 .. n : SubSeq(log, 1, n)[i] = log[i]
  BY <1>1
<1>3. CASE n = 0
  BY <1>2, <1>3 DEF IsLog
<1>4. CASE n # 0
  <2>1. 1 \in 1 .. n /\ log # <<>>
    BY <1>1, <1>4
  <2>2. SubSeq(log, 1, n)[1] = log[1] /\ DOMAIN log[1] = Files
    BY <1>2, <2>1 DEF IsLog
  <2> QED  BY <1>2, <2>1, <2>2 DEF IsLog
<1> QED  BY <1>3, <1>4

\* The steps of a compaction that are not its last one.
LEMMA CompactKeeps ==
    ASSUME PairInv,
           EraseBegins \/ EraseEnds \/ CompactBegins \/ CompactBad
    PROVE  SameLive
<1>1. /\ pair_op \in {"erase", "erasing", "compact", "compacting"}
      /\ pair_op # "off"
  BY DEF EraseBegins, EraseEnds, CompactBegins, CompactBad
<1> DEFINE L == dir.pair
           T == 1 - dir.pair
           Block == [rev : Revs, log : Seq(Commits), rest : {"erased", "torn"}]
<1>2. /\ L \in PairBlocks /\ T \in PairBlocks /\ L # T /\ PairBlocks = {L, T}
      /\ pair_disk = [b \in PairBlocks |-> pair_disk[b]]
      /\ \A b \in PairBlocks :
           pair_disk[b] \in Block /\ IsLog(pair_disk[b].log)
  BY <1>1, TwoBlocks
<1>3. IsLog(<<>>) /\ <<>> \in Seq(Commits)
  BY DEF IsLog
<1>4. Target = T
  BY DEF Target
<1>5. ASSUME NEW b, b \in Block, IsLog(b.log),
             pair_disk' = [pair_disk EXCEPT ![T] = b],
             \/ b.log = <<>>
             \/ /\ pair_disk[T].log # <<>> /\ b.rev = pair_disk[T].rev
                /\ pair_op' \notin {"compact", "compacting"},
             pair_op' \in {"erasing", "compact", "compacting"},
             dir' = dir, acked' = acked, asked' = asked
      PROVE  SameLive
  <2> HIDE DEF L, T
  <2>1. /\ pair_disk'[T] = b /\ pair_disk'[L] = pair_disk[L]
        /\ pair_disk' = [c \in PairBlocks |-> pair_disk'[c]]
    BY <1>2, <1>5
  <2>2. \A c \in PairBlocks :
            pair_disk'[c] \in Block /\ IsLog(pair_disk'[c].log)
    BY <1>2, <1>5, <2>1
  <2> QED  BY <1>1, <1>2, <1>5, <2>1, <2>2 DEF SameLive, L, T
<1>6. CASE EraseBegins
  <2>1. PICK b \in HalfErased(pair_disk[T]) :
          pair_disk' = [pair_disk EXCEPT ![T] = b]
    BY <1>4, <1>6 DEF EraseBegins
  <2>2. pair_op' = "erasing" /\ dir' = dir /\ acked' = acked /\ asked' = asked
    BY <1>6 DEF EraseBegins
  <2>3. CASE \E r \in Revs : b = [rev |-> r, log |-> <<>>, rest |-> "torn"]
    <3>1. b \in Block /\ b.log = <<>> /\ IsLog(b.log)
      BY <1>3, <2>3
    <3> HIDE DEF T, Block
    <3> QED  BY <1>5, <2>1, <2>2, <3>1
  <2>4. CASE \E n \in 0 .. Len(pair_disk[T].log) :
               b = [rev |-> pair_disk[T].rev, rest |-> "torn",
                    log |-> SubSeq(pair_disk[T].log, 1, n)]
    <3>1. PICK n \in 0 .. Len(pair_disk[T].log) :
            b = [rev |-> pair_disk[T].rev, rest |-> "torn",
                 log |-> SubSeq(pair_disk[T].log, 1, n)]
      BY <2>4
    <3>2. IsLog(b.log) /\ (b.log # <<>> => pair_disk[T].log # <<>>)
      BY <1>2, <3>1, PartOfLog
    <3>3. b \in Block /\ b.rev = pair_disk[T].rev
      BY <1>2, <3>1, <3>2 DEF IsLog
    <3> HIDE DEF T, Block
    <3> QED  BY <1>5, <2>1, <2>2, <3>2, <3>3
  <2> QED  BY <2>1, <2>3, <2>4 DEF HalfErased
<1>7. CASE EraseEnds
  <2> DEFINE b == [rev |-> Revisions - 1, log |-> <<>>, rest |-> "erased"]
  <2>1. /\ pair_disk' = [pair_disk EXCEPT ![T] = b]
        /\ pair_op' = "compact" /\ dir' = dir /\ acked' = acked
        /\ asked' = asked
    BY <1>4, <1>7 DEF EraseEnds
  <2>2. Revisions - 1 \in Revs
    BY LfsPairAssumption DEF Revs
  <2>3. b \in Block /\ b.log = <<>> /\ IsLog(b.log)
    BY <1>3, <2>2
  <2> HIDE DEF T, Block, b
  <2> QED  BY <1>5, <2>1, <2>3
<1>8. CASE CompactBegins
  <2>1. PICK r \in Revs :
          pair_disk' = [pair_disk EXCEPT ![T].rev = r, ![T].rest = "torn"]
    BY <1>4, <1>8 DEF CompactBegins
  <2>2. /\ pair_op' = "compacting"
        /\ dir' = dir /\ acked' = acked /\ asked' = asked
    BY <1>8 DEF CompactBegins
  <2>3. pair_disk[T].log = <<>>
    BY <1>8 DEF CompactBegins, PairInv, DriverInv
  <2> HIDE DEF L, T
  <2>4. /\ pair_disk'[T] = [pair_disk[T] EXCEPT !.rev = r, !.rest = "torn"]
        /\ pair_disk'[L] = pair_disk[L]
        /\ pair_disk' = [c \in PairBlocks |-> pair_disk'[c]]
    BY <1>2, <2>1
  <2>5. pair_disk'[T] \in Block /\ pair_disk'[T].log = <<>>
    BY <1>2, <2>3, <2>4
  <2>6. \A c \in PairBlocks :
            pair_disk'[c] \in Block /\ IsLog(pair_disk'[c].log)
    BY <1>2, <1>3, <2>4, <2>5
  <2> QED  BY <1>1, <1>2, <2>2, <2>4, <2>5, <2>6 DEF SameLive, L, T
<1>9. CASE CompactBad
  <2>1. /\ pair_op' = "idle" /\ asked' = NoChange
        /\ pair_disk' = pair_disk /\ dir' = dir /\ acked' = acked
    BY <1>9 DEF CompactBad
  <2> QED  BY <1>1, <1>2, <2>1 DEF SameLive
<1> QED  BY <1>6, <1>7, <1>8, <1>9

\* The last step of an append: the change is in the log.
LEMMA AppendEndsKeeps ==
    ASSUME PairInv, AppendEnds
    PROVE  PairInv'
<1> DEFINE L == dir.pair
           T == 1 - dir.pair
           new == Append(pair_disk[L].log, asked)
           Block == [rev : Revs, log : Seq(Commits), rest : {"erased", "torn"}]
<1>1. pair_op = "crc"
  BY DEF AppendEnds
<1>2. /\ L \in PairBlocks /\ T \in PairBlocks /\ L # T /\ PairBlocks = {L, T}
      /\ dir \in [pair : PairBlocks, rev : Revs, erased : BOOLEAN]
      /\ pair_disk = [b \in PairBlocks |-> pair_disk[b]]
      /\ \A b \in PairBlocks :
           pair_disk[b] \in Block /\ IsLog(pair_disk[b].log)
      /\ asked \in Commits /\ acked \in Directories
      /\ Live(L) /\ dir.rev = pair_disk[L].rev
      /\ Content(pair_disk[L].log) = acked
  BY <1>1, TwoBlocks
<1>3. /\ pair_disk' = [pair_disk EXCEPT ![L].log = new, ![L].rest = "erased"]
      /\ pair_op' = "written" /\ dir' = dir /\ asked' = asked /\ acked' = acked
  BY DEF AppendEnds
<1>4. pair_disk[L].log # <<>>
  BY <1>2 DEF Live
<1>5. IsLog(new) /\ new # <<>> /\ Content(new) = Over(acked, asked)
  BY <1>2, <1>4, ContentAppend
<1>6. new \in Seq(Commits)
  BY <1>5 DEF IsLog
<1> HIDE DEF new, T, L
<1>7. /\ pair_disk'[L] = [rev |-> pair_disk[L].rev, log |-> new,
                          rest |-> "erased"]
      /\ pair_disk'[T] = pair_disk[T]
      /\ pair_disk' = [b \in PairBlocks |-> pair_disk'[b]]
  BY <1>2, <1>3
<1>8. PairTypes'
  <2>1. \A b \in PairBlocks :
            pair_disk'[b] \in Block /\ IsLog(pair_disk'[b].log)
    BY <1>2, <1>5, <1>6, <1>7
  <2>2. pair_disk' \in [PairBlocks -> Block]
    BY <1>7, <2>1
  <2> QED  BY <1>2, <1>3, <2>1, <2>2 DEF PairTypes
<1>9. Live(L)'
  BY <1>2, <1>3, <1>5, <1>7 DEF Live, L, T
<1>10. /\ pair_disk'[dir'.pair].log = new /\ dir'.pair = L
       /\ dir'.rev = pair_disk'[dir'.pair].rev
  BY <1>2, <1>3, <1>7 DEF L
<1> QED  BY <1>2, <1>3, <1>5, <1>8, <1>9, <1>10
            DEF PairInv, DriverInv, OffInv, L

\* The last step of a compaction: the other block is the live one, and has
\* the change.
LEMMA CompactEndsKeeps ==
    ASSUME PairInv, CompactEnds
    PROVE  PairInv'
<1> DEFINE L == dir.pair
           T == 1 - dir.pair
           d == Over(Content(pair_disk[L].log), asked)
           Block == [rev : Revs, log : Seq(Commits), rest : {"erased", "torn"}]
<1>1. pair_op = "compacting"
  BY DEF CompactEnds
<1>2. /\ L \in PairBlocks /\ T \in PairBlocks /\ L # T /\ PairBlocks = {L, T}
      /\ 1 - T = L
      /\ dir \in [pair : PairBlocks, rev : Revs, erased : BOOLEAN]
      /\ pair_disk = [b \in PairBlocks |-> pair_disk[b]]
      /\ \A b \in PairBlocks :
           pair_disk[b] \in Block /\ IsLog(pair_disk[b].log)
      /\ asked \in Commits /\ acked \in Directories
      /\ dir.rev = pair_disk[L].rev
      /\ Content(pair_disk[L].log) = acked
  BY <1>1, TwoBlocks
<1>3. /\ pair_disk' = [pair_disk EXCEPT ![T] =
                        [rev |-> NextRev, rest |-> "erased", log |-> <<d>>]]
      /\ dir' = [dir EXCEPT !.pair = T, !.rev = NextRev]
      /\ pair_op' = "written" /\ asked' = asked /\ acked' = acked
  BY DEF CompactEnds, Target
<1>4. d \in Directories /\ d = Over(acked, asked)
  BY <1>2, OverIsDirectory
<1>5. IsLog(<<d>>) /\ <<d>> # <<>> /\ Content(<<d>>) = Over(acked, asked)
  BY <1>4, ContentOne
<1>6. <<d>> \in Seq(Commits)
  BY <1>5 DEF IsLog
<1>7. /\ NextRev \in Revs
      /\ NextRev = (pair_disk[L].rev + 1) % Revisions
  BY <1>2, NextIsNewer DEF NextRev
<1> HIDE DEF d, T, L
<1>8. /\ pair_disk'[T] = [rev |-> NextRev, rest |-> "erased", log |-> <<d>>]
      /\ pair_disk'[L] = pair_disk[L]
      /\ pair_disk' = [b \in PairBlocks |-> pair_disk'[b]]
      /\ dir'.pair = T /\ dir'.rev = NextRev
      /\ dir' \in [pair : PairBlocks, rev : Revs, erased : BOOLEAN]
  BY <1>2, <1>3, <1>7
<1>8a. /\ pair_disk'[T] \in Block /\ pair_disk'[T].log = <<d>>
       /\ pair_disk'[T].rev = NextRev
  BY <1>6, <1>7, <1>8
<1>9. PairTypes'
  <2>1. \A b \in PairBlocks :
            pair_disk'[b] \in Block /\ IsLog(pair_disk'[b].log)
    <3> HIDE DEF Block
    <3> QED  BY <1>2, <1>5, <1>8, <1>8a
  <2>2. pair_disk' \in [PairBlocks -> Block]
    BY <1>8, <2>1
  <2> QED  BY <1>2, <1>3, <2>1, <2>2 DEF PairTypes
<1>10. Live(dir.pair)'
  BY <1>2, <1>5, <1>7, <1>8, <1>8a DEF Live
<1> QED  BY <1>3, <1>5, <1>8, <1>8a, <1>9, <1>10 DEF PairInv, DriverInv, OffInv

\* The commit returns, and its caller knows of the change.
LEMMA ReturnsKeeps ==
    ASSUME PairInv, Returns
    PROVE  PairInv'
<1>1. /\ pair_op = "written" /\ acked' = Over(acked, asked)
      /\ asked' = NoChange /\ pair_op' = "idle"
      /\ pair_disk' = pair_disk /\ dir' = dir
  BY DEF Returns
<1>2. acked' \in Directories /\ NoChange \in Commits
  BY <1>1, OverIsDirectory, OverNoChange DEF PairInv, PairTypes
<1>3. PairTypes'
  BY <1>1, <1>2 DEF PairInv, PairTypes
<1>4. Live(dir.pair)'
  BY <1>1 DEF PairInv, DriverInv, Live
<1> QED  BY <1>1, <1>3, <1>4 DEF PairInv, DriverInv, OffInv

\* The power goes: a mount will take the block the driver was working on.
LEMMA PowerLossKeeps ==
    ASSUME PairInv, PairPowerLoss
    PROVE  PairInv'
<1>1. /\ pair_op # "off" /\ pair_op' = "off"
      /\ pair_disk' = pair_disk /\ asked' = asked /\ acked' = acked
  BY DEF PairPowerLoss
<1>2. PairTypes'
  BY <1>1 DEF PairInv, PairTypes
<1>3. /\ dir.pair \in PairBlocks /\ Live(dir.pair)
      /\ Content(pair_disk[dir.pair].log) \in {acked, Over(acked, asked)}
  BY <1>1 DEF PairInv, DriverInv
<1> DEFINE b == dir.pair
<1>4. b \in PairBlocks /\ Live(b)
      /\ Content(pair_disk[b].log) \in {acked, Over(acked, asked)}
  BY <1>3
<1> HIDE DEF b
<1>5. OffInv'
  BY <1>1, <1>4 DEF OffInv, Live
<1> QED  BY <1>1, <1>2, <1>5 DEF PairInv, DriverInv

\* PairSurvives: whenever the power goes, the directory mounts again with
\* the old or the new content, for any files, values and revisions.
THEOREM DirectorySurvives == PairSpec => []PairSurvives
<1>1. PairInit => PairInv
  BY PairInitInv
<1>2. PairInv /\ [PairNext]_pairVars => PairInv'
  <2> SUFFICES ASSUME PairInv, [PairNext]_pairVars PROVE PairInv'
    OBVIOUS
  <2>1. CASE Fetch
    BY <2>1, FetchPair
  <2>2. CASE Changes
    BY <2>2, CommitPairKeeps
  <2>3. CASE AppendBegins \/ AppendBad
    BY <2>3, AppendKeeps, SameLiveKeeps
  <2>4. CASE AppendEnds
    BY <2>4, AppendEndsKeeps
  <2>5. CASE EraseBegins \/ EraseEnds \/ CompactBegins \/ CompactBad
    BY <2>5, CompactKeeps, SameLiveKeeps
  <2>6. CASE CompactEnds
    BY <2>6, CompactEndsKeeps
  <2>7. CASE Returns
    BY <2>7, ReturnsKeeps
  <2>8. CASE PairPowerLoss
    BY <2>8, PowerLossKeeps
  <2>9. CASE UNCHANGED pairVars
    <3>1. /\ pair_disk' = pair_disk /\ dir' = dir /\ pair_op' = pair_op
          /\ asked' = asked /\ acked' = acked
      BY <2>9 DEF pairVars
    <3> QED  BY <3>1 DEF PairInv, PairTypes, DriverInv, OffInv, Live
  <2> QED
    BY <2>1, <2>2, <2>3, <2>4, <2>5, <2>6, <2>7, <2>8, <2>9 DEF PairNext
<1>3. PairInv => PairSurvives
  BY PairHolds
<1> QED  BY <1>1, <1>2, <1>3, PTL DEF PairSpec

=============================================================================
