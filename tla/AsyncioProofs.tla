---------------------------- MODULE AsyncioProofs ----------------------------
(***************************************************************************)
(* Whatever tasks do to each other, their queues and fields stay           *)
(* consistent: TasksAreConsistent, and the safety part of                  *)
(* ResultsReachWaiters, for any number of tasks.                           *)
(***************************************************************************)
EXTENDS AsyncioLoop, TaskLemmas

(***************************************************************************)
(* The loop                                                                *)
(***************************************************************************)

\* The tasks that are on no queue: the one that runs, and the main task
\* once it has ended.
Running == {t \in Tasks : t = cur \/ (stopped /\ t = Main)}

\* What has happened to a task fits what its state and its data say.
HistoryOK(l, c, o, a, x, t) ==
    /\ t \in o => /\ t # c /\ l.state[t] # "new"
                  /\ Live(l, t) => l.data[t] = Cancelled
    /\ t \notin x /\ IsDone(l, t) => l.data[t].kind = "ended"
    /\ Queued(l, t) /\ l.state[t] = "waited" => t \in x
    /\ t \in a => l.state[t] \in {"queue", "waited"}

\* The running task's time has come.
CurOK == cur # NoTask => Live(k, cur) /\ k.key[cur] <= now /\ ~stopped

\* Types.
LoopTypeOK ==
    now \in Nat /\ cur \in Tasks \cup {NoTask} /\ owed \subseteq Tasks

\* The inductive invariant.
LoopInv ==
    /\ LoopTypeOK /\ LoopOK(k, Running) /\ CurOK
    /\ \A t \in Tasks : HistoryOK(k, cur, owed, awaited, late, t)

\* A task with the same state and data that is as much or as little in the
\* run queue has the same history.
LEMMA HistoryStays ==
    ASSUME NEW l, NEW m, NEW c, NEW o, NEW a, NEW x, NEW t,
           HistoryOK(l, c, o, a, x, t),
           m.state[t] = l.state[t], m.data[t] = l.data[t],
           Queued(m, t) => Queued(l, t),
           NEW d, NEW r, d # t \/ d = c, t \in r => t \in o
    PROVE  HistoryOK(m, d, r, a, x, t)
  BY DEF HistoryOK, Live, IsDone

\* The loop starts with its main task.
LEMMA LoopStarts == LoopInit => LoopInv
<1> SUFFICES ASSUME LoopInit PROVE LoopInv
  OBVIOUS
<1>0. Main \in Tasks /\ NoTask \notin Tasks
  BY LoopAssumption
<1>1. /\ k = Create(NewLoop, Main, 0) /\ now = 0 /\ cur = NoTask
      /\ stopped = FALSE /\ owed = {} /\ awaited = {}
  BY DEF LoopInit
<1>2. /\ NewLoop.state = [t \in Tasks |-> "new"]
      /\ NewLoop.state[Main] = "new"
  BY <1>0 DEF NewLoop
<1>3. /\ LoopOK(k, {} \ {Main})
      /\ k.state = [NewLoop.state EXCEPT ![Main] = "running"]
  <2> DEFINE l == NewLoop
             z == 0
             none == {}
  <2>1. /\ LoopOK(l, none) /\ z \in Nat /\ l.state[Main] = "new"
        /\ k = Create(l, Main, z)
    BY <1>1, <1>2, NewLoopOK
  <2> HIDE DEF l, z, none
  <2>2. /\ LoopOK(Create(l, Main, z), none \ {Main})
        /\ CreateIs(Create(l, Main, z), l, Main, z)
    BY <1>0, <2>1, CreateKeeps
  <2> QED  BY <2>1, <2>2 DEF CreateIs, l, none
<1>4. Running = {} \ {Main}
  BY <1>0, <1>1 DEF Running
<1>5. \A t \in Tasks : k.state[t] \in {"new", "running"}
  BY <1>2, <1>3
<1>6. \A t \in Tasks : HistoryOK(k, cur, owed, awaited, late, t)
  BY <1>1, <1>5 DEF HistoryOK, IsDone
<1> QED  BY <1>1, <1>3, <1>4, <1>6 DEF LoopInv, LoopTypeOK, CurOK

\* Resume: a task that was due runs.
LEMMA ResumeKeeps == LoopInv /\ Resume => LoopInv'
<1> SUFFICES ASSUME LoopInv, Resume PROVE LoopInv'
  OBVIOUS
<1> DEFINE t == Head(k.runq)
<1>0. Main \in Tasks /\ NoTask \notin Tasks
  BY LoopAssumption
<1>1. /\ cur = NoTask /\ ~stopped /\ Ready(k, now) /\ Live(k, t)
      /\ k' = Resumed(k) /\ cur' = t
      /\ owed' = IF k.data[t] = None THEN owed ELSE owed \ {t}
      /\ UNCHANGED <<now, stopped, awaited, late>>
  BY DEF Resume
<1>2. k.runq # <<>> /\ k.key[t] <= now
  BY <1>1 DEF Ready
<1>3. LoopOK(k, Running) /\ LoopTypeOK
      /\ \A s \in Tasks : HistoryOK(k, cur, owed, awaited, late, s)
  BY DEF LoopInv
<1>4. /\ t \in Tasks /\ Queued(k, t) /\ k'.key = k.key /\ k'.state = k.state
      /\ k'.data = [k.data EXCEPT ![t] = None]
      /\ Range(k'.runq) = Range(k.runq) \ {t}
  BY <1>1, <1>2, <1>3, ResumedIs
<1>5. LoopOK(k', Running \cup {t})
  BY <1>1, <1>2, <1>3, ResumedKeeps
<1> HIDE DEF t
<1>6. Running' = Running \cup {t}
  BY <1>0, <1>1, <1>4 DEF Running
<1>7. CurOK' /\ LoopTypeOK'
  BY <1>1, <1>2, <1>3, <1>4 DEF CurOK, Live, LoopTypeOK
<1>8. t \notin owed'
  <2>1. t \in owed => k.data[t] # None
    BY <1>1, <1>3, <1>4, ContentsFacts DEF HistoryOK
  <2> QED  BY <1>1, <2>1
<1>9. k.data \in [Tasks -> Contents]
  BY <1>3, RecordIs DEF LoopOK
<1>10. ASSUME NEW s \in Tasks
       PROVE  HistoryOK(k', cur', owed', awaited', late', s)
  <2>0. HistoryOK(k, cur, owed, awaited, late, s)
    BY <1>3
  <2>1. CASE s = t
    BY <1>1, <1>4, <1>8, <2>0, <2>1 DEF HistoryOK, Live, IsDone
  <2>2. CASE s # t
    <3>1. /\ k'.state[s] = k.state[s] /\ k'.data[s] = k.data[s]
          /\ Queued(k', s) => Queued(k, s)
          /\ s \in owed' => s \in owed
      BY <1>1, <1>4, <1>9, <2>2 DEF Queued
    <3> QED  BY <1>1, <2>0, <2>2, <3>1, HistoryStays
  <2> QED  BY <2>1, <2>2
<1> QED  BY <1>5, <1>6, <1>7, <1>10 DEF LoopInv

\* ResumeEnded: the loop finds a task that has ended.
LEMMA ResumeEndedKeeps == LoopInv /\ ResumeEnded => LoopInv'
<1> SUFFICES ASSUME LoopInv, ResumeEnded PROVE LoopInv'
  OBVIOUS
<1> DEFINE t == Head(k.runq)
           x == IF k.state[t] = "done" THEN k.data[t] ELSE None
           p == [Resumed(k) EXCEPT !.data[t] = x]
<1>0. NoTask \notin Tasks
  BY LoopAssumption
<1>1. /\ cur = NoTask /\ ~stopped /\ Ready(k, now) /\ IsDone(k, t)
      /\ IF k.state[t] = "done"
         THEN k' = [Resumed(k) EXCEPT !.data[t] = k.data[t]]
         ELSE k' = Resumed(k)
      /\ UNCHANGED <<now, cur, stopped, owed, awaited, late>>
  BY DEF ResumeEnded
<1>2. k.runq # <<>>
  BY <1>1 DEF Ready
<1>3. LoopOK(k, Running) /\ LoopTypeOK
      /\ \A s \in Tasks : HistoryOK(k, cur, owed, awaited, late, s)
  BY DEF LoopInv
<1>4. /\ t \in Tasks /\ Queued(k, t) /\ Resumed(k) \in LoopRecords
      /\ Resumed(k).data = [k.data EXCEPT ![t] = None]
  BY <1>2, <1>3, ResumedIs
<1>5. k.data \in [Tasks -> Contents]
  BY <1>3, RecordIs DEF LoopOK
<1>6. /\ LoopOK(p, Running) /\ p.state = k.state /\ p.key = k.key
      /\ p.data = [k.data EXCEPT ![t] = x]
      /\ Range(p.runq) = Range(k.runq) \ {t}
  <2>1. x \in {None, k.data[t]}
    OBVIOUS
  <2> HIDE DEF x
  <2> QED  BY <1>1, <1>2, <1>3, <2>1, EndedKeeps
<1>7. k' = p
  <2>1. CASE k.state[t] = "done"
    BY <1>1, <2>1
  <2>2. CASE k.state[t] # "done"
    <3> DEFINE r == Resumed(k)
    <3>1. k' = r /\ r \in LoopRecords /\ r.data[t] = None
      BY <1>1, <1>4, <1>5, <2>2
    <3>2. p = [r EXCEPT !.data[t] = None]
      BY <2>2
    <3> HIDE DEF r, p, t
    <3>3. r = [r EXCEPT !.data[t] = None]
      BY <3>1, <1>4 DEF LoopRecords
    <3> QED  BY <3>1, <3>2, <3>3
  <2> QED  BY <2>1, <2>2
<1> HIDE DEF t, p
<1>8. Running' = Running /\ CurOK' /\ LoopTypeOK'
  BY <1>1, <1>3 DEF Running, CurOK, LoopTypeOK
<1>9. ASSUME NEW s \in Tasks
      PROVE  HistoryOK(k', cur', owed', awaited', late', s)
  <2>0. HistoryOK(k, cur, owed, awaited, late, s)
    BY <1>3
  <2>1. CASE s = t
    <3>1. k'.data[s] = x /\ k'.state[s] = k.state[s] /\ ~Queued(k', s)
          /\ IsDone(k, s) /\ Queued(k, s)
      BY <1>1, <1>4, <1>5, <1>6, <1>7, <2>1 DEF Queued
    <3>2. k.state[s] # "done" => s \in late
      BY <2>0, <3>1 DEF HistoryOK, IsDone
    <3> QED  BY <1>1, <2>0, <2>1, <3>1, <3>2 DEF HistoryOK, Live, IsDone
  <2>2. CASE s # t
    <3>1. /\ k'.state[s] = k.state[s] /\ k'.data[s] = k.data[s]
          /\ Queued(k', s) => Queued(k, s)
      BY <1>4, <1>5, <1>6, <1>7, <2>2 DEF Queued
    <3> QED  BY <1>1, <2>0, <3>1, HistoryStays
  <2> QED  BY <2>1, <2>2
<1> QED  BY <1>3, <1>6, <1>7, <1>8, <1>9 DEF LoopInv

\* CreateTask: the new task is due at once.
LEMMA CreateTaskKeeps ==
    ASSUME NEW t \in Tasks, LoopInv, CreateTask(t)
    PROVE  LoopInv'
<1>1. /\ cur # NoTask /\ k.state[t] = "new" /\ k' = Create(k, t, now)
      /\ UNCHANGED <<now, cur, stopped, owed, awaited, late>>
  BY DEF CreateTask, ghosts
<1>2. LoopOK(k, Running) /\ LoopTypeOK /\ CurOK
      /\ \A s \in Tasks : HistoryOK(k, cur, owed, awaited, late, s)
  BY DEF LoopInv
<1>3. k \in LoopRecords
  BY <1>2 DEF LoopOK
<1>4. /\ LoopOK(k', Running \ {t})
      /\ k'.state = [k.state EXCEPT ![t] = "running"]
      /\ k'.data = [k.data EXCEPT ![t] = None]
      /\ k'.key = [k.key EXCEPT ![t] = now]
      /\ Range(k'.runq) = Range(k.runq) \cup {t}
  <2>1. LoopOK(k', Running \ {t}) /\ CreateIs(k', k, t, now)
    BY <1>1, <1>2, CreateKeeps DEF LoopTypeOK
  <2> QED  BY <2>1 DEF CreateIs
<1>5. /\ k'.state[t] = "running"
      /\ \A s \in Tasks \ {t} : /\ k'.state[s] = k.state[s]
                                /\ k'.data[s] = k.data[s]
                                /\ k'.key[s] = k.key[s]
                                /\ Queued(k', s) => Queued(k, s)
  BY <1>3, <1>4, RecordIs DEF Queued
<1>6. cur # t /\ ~stopped /\ cur \in Tasks
  BY <1>1, <1>2 DEF CurOK, Live, LoopTypeOK
<1>7. Running' = Running \ {t}
  BY <1>1, <1>6 DEF Running
<1>8. CurOK' /\ LoopTypeOK'
  BY <1>1, <1>2, <1>5, <1>6 DEF CurOK, Live, LoopTypeOK
<1>9. ASSUME NEW s \in Tasks
      PROVE  HistoryOK(k', cur', owed', awaited', late', s)
  <2>0. HistoryOK(k, cur, owed, awaited, late, s)
    BY <1>2
  <2>1. CASE s = t
    BY <1>1, <1>5, <2>0, <2>1 DEF HistoryOK, Live, IsDone
  <2>2. CASE s # t
    BY <1>1, <1>5, <2>0, <2>2, HistoryStays
  <2> QED  BY <2>1, <2>2
<1> QED  BY <1>4, <1>7, <1>8, <1>9 DEF LoopInv

\* CancelTask: only the task at the end of the links is changed.
LEMMA CancelTaskKeeps ==
    ASSUME NEW t \in Tasks, LoopInv, CancelTask(t)
    PROVE  LoopInv'
<1> DEFINE u == CancelTarget(k, t)
<1>1. /\ cur # NoTask /\ k.state[t] # "new" /\ k' = Cancel(k, t, now)
      /\ owed' = IF Live(k, t) THEN owed \cup ({u} \ {cur}) ELSE owed
      /\ UNCHANGED <<now, cur, stopped, awaited, late>>
  BY DEF CancelTask
<1>2. LoopOK(k, Running) /\ LoopTypeOK /\ CurOK
      /\ \A s \in Tasks : HistoryOK(k, cur, owed, awaited, late, s)
  BY DEF LoopInv
<1>3. k \in LoopRecords
  BY <1>2 DEF LoopOK
<1>4. cur \in Tasks /\ ~stopped /\ k.key[cur] <= now /\ now \in Nat
  BY <1>1, <1>2 DEF LoopTypeOK, CurOK
<1>5. Running = {cur} /\ Running' = {cur}
  BY <1>1, <1>4 DEF Running
<1>6. CASE Live(k, t)
  <2>1. LoopOK(k', Running) /\ CancelIs(k', k, u, now)
    BY <1>1, <1>2, <1>4, <1>5, <1>6, CancelKeeps
  <2>2. u \in Tasks /\ Live(k, u)
    BY <1>2, <1>6, TargetFacts
  <2> HIDE DEF u
  <2>3. /\ k'.state = k.state /\ k'.data[u] = Cancelled /\ k'.key[u] <= now
        /\ \A s \in Tasks \ {u} : /\ k'.data[s] = k.data[s]
                                  /\ k'.key[s] = k.key[s]
                                  /\ Queued(k', s) <=> Queued(k, s)
    BY <1>3, <2>1, <2>2, RecordIs DEF CancelIs
  <2>4. CurOK' /\ LoopTypeOK'
    <3>1. k'.key[cur] <= now
      BY <1>4, <2>3
    <3>2. Live(k', cur)
      BY <1>1, <1>2, <2>3 DEF CurOK, Live
    <3>3. owed' \subseteq Tasks
      BY <1>1, <1>2, <2>2 DEF LoopTypeOK
    <3> QED  BY <1>1, <1>2, <3>1, <3>2, <3>3 DEF CurOK, LoopTypeOK
  <2>5. ASSUME NEW s \in Tasks
        PROVE  HistoryOK(k', cur', owed', awaited', late', s)
    <3>0. HistoryOK(k, cur, owed, awaited, late, s)
      BY <1>2
    <3>1. CASE s = u
      BY <1>1, <2>2, <2>3, <3>0, <3>1 DEF HistoryOK, Live, IsDone
    <3>2. CASE s # u
      <4>1. s \in owed' => s \in owed
        BY <1>1, <3>2
      <4> QED  BY <1>1, <2>3, <3>0, <3>2, <4>1, HistoryStays
    <3> QED  BY <3>1, <3>2
  <2> QED  BY <1>5, <2>1, <2>4, <2>5 DEF LoopInv
<1>7. CASE ~Live(k, t)
  <2>1. IsDone(k, t)
    <3>1. k.state[t] \in TaskStates
      BY <1>3, RecordIs
    <3> QED  BY <1>1, <1>7, <3>1 DEF IsDone, Live, TaskStates
  <2>2. k' = k /\ owed' = owed
    BY <1>1, <1>7, <2>1 DEF Cancel
  <2> QED  BY <1>1, <1>2, <1>5, <2>2 DEF LoopInv, CurOK, LoopTypeOK
<1> QED  BY <1>6, <1>7

\* AwaitTask: the running task goes on if the other one has ended.
LEMMA AwaitTaskKeeps ==
    ASSUME NEW t \in Tasks, LoopInv, AwaitTask(t)
    PROVE  LoopInv'
<1>0. NoTask \notin Tasks
  BY LoopAssumption
<1>1. /\ cur # NoTask /\ cur # t /\ k.state[t] # "new"
      /\ CancelTarget(k, t) # cur /\ k' = Await(k, cur, t, now)
      /\ cur' = IF IsDone(k, t) THEN cur ELSE NoTask
      /\ awaited' = awaited \cup {t}
      /\ late' = IF t \in Range(k.runq) /\ IsDone(k, t)
                 THEN late \cup {t} ELSE late
      /\ UNCHANGED <<now, stopped, owed>>
  BY DEF AwaitTask
<1>2. LoopOK(k, Running) /\ LoopTypeOK /\ CurOK
      /\ \A s \in Tasks : HistoryOK(k, cur, owed, awaited, late, s)
  BY DEF LoopInv
<1>3. k \in LoopRecords
  BY <1>2 DEF LoopOK
<1>4. /\ cur \in Tasks /\ ~stopped /\ Live(k, cur) /\ k.key[cur] <= now
      /\ now \in Nat
  BY <1>1, <1>2 DEF LoopTypeOK, CurOK
<1>5. Running = {cur}
  BY <1>4 DEF Running
<1>6. CASE IsDone(k, t)
  <2>1. /\ LoopOK(k', Running) /\ k'.data = k.data /\ k'.key = k.key
        /\ k'.state = [k.state EXCEPT ![t] = "waited"] /\ k'.runq = k.runq
    BY <1>1, <1>2, <1>6, AwaitEndedKeeps
  <2>2. /\ k'.state[t] = "waited"
        /\ \A s \in Tasks \ {t} : k'.state[s] = k.state[s]
    BY <1>3, <2>1, RecordIs
  <2>3. Running' = Running /\ CurOK' /\ LoopTypeOK'
    BY <1>1, <1>2, <1>4, <1>6, <2>1, <2>2
       DEF Running, CurOK, LoopTypeOK, Live
  <2>4. ASSUME NEW s \in Tasks
        PROVE  HistoryOK(k', cur', owed', awaited', late', s)
    <3>0. HistoryOK(k, cur, owed, awaited, late, s)
      BY <1>2
    <3>1. CASE s = t
      BY <1>1, <1>6, <2>1, <2>2, <3>0, <3>1
         DEF HistoryOK, Live, IsDone, Queued
    <3>2. CASE s # t
      BY <1>1, <1>6, <2>1, <2>2, <3>0, <3>2
         DEF HistoryOK, Live, IsDone, Queued
    <3> QED  BY <3>1, <3>2
  <2> QED  BY <2>1, <2>3, <2>4 DEF LoopInv
<1>7. CASE ~IsDone(k, t)
  <2>1. Live(k, t)
    <3>1. k.state[t] \in TaskStates
      BY <1>3, RecordIs
    <3> QED  BY <1>1, <1>7, <3>1 DEF IsDone, Live, TaskStates
  <2>2. /\ LoopOK(k', Running \ {cur}) /\ k'.runq = k.runq
        /\ k'.data = [k.data EXCEPT ![cur] = OnTask(t)]
        /\ k'.state = [k.state EXCEPT ![t] = "queue"]
    <3>1. cur \in Running
      BY <1>5
    <3>2. LoopOK(k', Running \ {cur}) /\ AwaitIs(k', k, cur, t)
      BY <1>1, <1>2, <1>4, <2>1, <3>1, AwaitLiveKeeps
    <3> QED  BY <3>2 DEF AwaitIs
  <2>3. /\ k'.state[t] = "queue"
        /\ \A s \in Tasks \ {t} : k'.state[s] = k.state[s]
        /\ \A s \in Tasks \ {cur} : k'.data[s] = k.data[s]
    BY <1>3, <2>2, RecordIs
  <2>4. cur' = NoTask /\ late' = late
    BY <1>1, <1>7
  <2>5. Running' = Running \ {cur} /\ CurOK' /\ LoopTypeOK'
    BY <1>0, <1>1, <1>2, <1>4, <1>5, <2>4 DEF Running, CurOK, LoopTypeOK
  <2>6. cur \notin owed
    BY <1>2, <1>4 DEF HistoryOK
  <2>7. ASSUME NEW s \in Tasks
        PROVE  HistoryOK(k', cur', owed', awaited', late', s)
    <3>0. HistoryOK(k, cur, owed, awaited, late, s) /\ s # cur'
      BY <1>0, <1>2, <2>4
    <3>1. CASE s = t
      BY <1>1, <2>1, <2>2, <2>3, <2>4, <3>0, <3>1
         DEF HistoryOK, Live, IsDone, Queued
    <3>2. CASE s = cur
      BY <1>1, <1>4, <2>2, <2>3, <2>4, <2>6, <3>0, <3>2
         DEF HistoryOK, Live, IsDone, Queued
    <3>3. CASE s # t /\ s # cur
      BY <1>1, <2>2, <2>3, <2>4, <3>0, <3>3
         DEF HistoryOK, Live, IsDone, Queued
    <3> QED  BY <3>1, <3>2, <3>3
  <2> QED  BY <2>2, <2>5, <2>7 DEF LoopInv
<1> QED  BY <1>6, <1>7

\* A push clears the data of a task that is owed nothing.
LEMMA PushedHistory ==
    ASSUME NEW l, NEW p, NEW t \in Tasks, NEW time, NEW c, NEW o, NEW a, NEW x,
           l \in LoopRecords, Live(l, t), t \notin o, Pushed(p, l, t, time),
           \A s \in Tasks : HistoryOK(l, c, o, a, x, s)
    PROVE  \A s \in Tasks : HistoryOK(p, NoTask, o, a, x, s)
<1>0. NoTask \notin Tasks
  BY LoopAssumption
<1>1. /\ p.state = l.state /\ p.data[t] = None
      /\ \A s \in Tasks \ {t} : /\ p.data[s] = l.data[s]
                                /\ Queued(p, s) <=> Queued(l, s)
  BY RecordIs DEF Pushed, Queued
<1> SUFFICES ASSUME NEW s \in Tasks PROVE HistoryOK(p, NoTask, o, a, x, s)
  OBVIOUS
<1>2. HistoryOK(l, c, o, a, x, s) /\ s # NoTask
  BY <1>0
<1>3. CASE s = t
  BY <1>1, <1>2, <1>3 DEF HistoryOK, Live, IsDone
<1>4. CASE s # t
  BY <1>1, <1>2, <1>4 DEF HistoryOK, Live, IsDone
<1> QED  BY <1>3, <1>4

\* Sleep: the running task is due later.
LEMMA SleepKeeps ==
    ASSUME NEW d \in 0 .. 1, LoopInv, Sleep(d)
    PROVE  LoopInv'
<1> DEFINE time == now + d
<1>0. NoTask \notin Tasks
  BY LoopAssumption
<1>1. /\ cur # NoTask /\ k' = Push(k, cur, time) /\ cur' = NoTask
      /\ UNCHANGED <<now, stopped, owed, awaited, late>>
  BY DEF Sleep, ghosts
<1>2. LoopOK(k, Running) /\ LoopTypeOK /\ CurOK
      /\ \A s \in Tasks : HistoryOK(k, cur, owed, awaited, late, s)
  BY DEF LoopInv
<1>3. k \in LoopRecords /\ LinksOK(k)
      /\ \A s \in Tasks : DataOK(k, s, s \in Running)
  BY <1>2 DEF LoopOK
<1>4. cur \in Tasks /\ ~stopped /\ Live(k, cur) /\ now \in Nat
  BY <1>1, <1>2 DEF LoopTypeOK, CurOK
<1>5. time \in Nat
  BY <1>4
<1> HIDE DEF time
<1>6. Running = {cur} /\ Running' = Running \ {cur}
  BY <1>0, <1>1, <1>4 DEF Running
<1>7. ~Queued(k, cur) /\ k.data[cur].kind # "task" /\ cur \notin owed
  BY <1>2, <1>3, <1>4, <1>6 DEF DataOK, Idles, HistoryOK
<1>8. LoopOK(k', Running \ {cur})
  BY <1>1, <1>2, <1>4, <1>5, <1>7, PushKeeps
<1>9. Pushed(k', k, cur, time)
  BY <1>1, <1>3, <1>4, <1>5, <1>7, PushIs DEF LinksOK
<1>10. \A s \in Tasks : HistoryOK(k', NoTask, owed, awaited, late, s)
  BY <1>2, <1>3, <1>4, <1>7, <1>9, PushedHistory
<1>11. CurOK' /\ LoopTypeOK'
  BY <1>1, <1>2 DEF CurOK, LoopTypeOK
<1> QED  BY <1>1, <1>6, <1>8, <1>10, <1>11 DEF LoopInv

\* WaitIo: the running task is on the streams' queue.
LEMMA WaitIoKeeps == LoopInv /\ WaitIo => LoopInv'
<1> SUFFICES ASSUME LoopInv, WaitIo PROVE LoopInv'
  OBVIOUS
<1>0. NoTask \notin Tasks
  BY LoopAssumption
<1>1. /\ cur # NoTask /\ k' = [k EXCEPT !.data[cur] = OnIo] /\ cur' = NoTask
      /\ UNCHANGED <<now, stopped, owed, awaited, late>>
  BY DEF WaitIo, ghosts
<1>2. LoopOK(k, Running) /\ LoopTypeOK /\ CurOK
      /\ \A s \in Tasks : HistoryOK(k, cur, owed, awaited, late, s)
  BY DEF LoopInv
<1>3. k \in LoopRecords /\ \A s \in Tasks : DataOK(k, s, s \in Running)
  BY <1>2 DEF LoopOK
<1>4. cur \in Tasks /\ ~stopped /\ Live(k, cur)
  BY <1>1, <1>2 DEF LoopTypeOK, CurOK
<1>5. Running = {cur} /\ Running' = Running \ {cur}
  BY <1>0, <1>1, <1>4 DEF Running
<1>6. Idles(k, cur) /\ cur \notin owed
  BY <1>2, <1>3, <1>4, <1>5 DEF DataOK, HistoryOK
<1>7. /\ LoopOK(k', Running \ {cur}) /\ k'.data = [k.data EXCEPT ![cur] = OnIo]
      /\ k'.state = k.state /\ k'.runq = k.runq
  BY <1>1, <1>2, <1>4, <1>5, <1>6, DataKeeps
<1>8. \A s \in Tasks \ {cur} : k'.data[s] = k.data[s]
  BY <1>3, <1>7, RecordIs
<1>9. ASSUME NEW s \in Tasks
      PROVE  HistoryOK(k', cur', owed', awaited', late', s)
  <2>0. HistoryOK(k, cur, owed, awaited, late, s) /\ s # cur'
    BY <1>0, <1>1, <1>2
  <2>1. CASE s = cur
    BY <1>1, <1>4, <1>6, <1>7, <2>0, <2>1 DEF HistoryOK, Live, IsDone, Queued
  <2>2. CASE s # cur
    BY <1>1, <1>7, <1>8, <2>0, <2>2 DEF HistoryOK, Live, IsDone, Queued
  <2> QED  BY <2>1, <2>2
<1>10. CurOK' /\ LoopTypeOK'
  BY <1>1, <1>2 DEF CurOK, LoopTypeOK
<1> QED  BY <1>5, <1>7, <1>9, <1>10 DEF LoopInv

\* IoReady: and back on the run queue.
LEMMA IoReadyKeeps ==
    ASSUME NEW t \in Tasks, LoopInv, IoReady(t)
    PROVE  LoopInv'
<1>1. /\ cur = NoTask /\ ~stopped /\ k.data[t] = OnIo /\ k' = Push(k, t, now)
      /\ UNCHANGED <<now, cur, stopped, owed, awaited, late>>
  BY DEF IoReady, ghosts
<1>2. LoopOK(k, Running) /\ LoopTypeOK
      /\ \A s \in Tasks : HistoryOK(k, cur, owed, awaited, late, s)
  BY DEF LoopInv
<1>3. k \in LoopRecords /\ LinksOK(k)
      /\ \A s \in Tasks : DataOK(k, s, s \in Running)
  BY <1>2 DEF LoopOK
<1>4. k.data[t].kind = "io" /\ ~Idles(k, t) /\ k.data[t] # None
      /\ k.data[t] # Cancelled
  BY <1>1, ContentsFacts DEF Idles
<1>5. Live(k, t)
  <2>1. k.state[t] \in TaskStates
    BY <1>3, RecordIs
  <2> QED  BY <1>3, <1>4, <2>1 DEF DataOK, Live, IsDone, TaskStates
<1>6. ~Queued(k, t) /\ t \notin Running /\ t \notin owed
  BY <1>2, <1>3, <1>4, <1>5 DEF DataOK, HistoryOK
<1>7. LoopOK(k', Running \ {t})
  BY <1>1, <1>2, <1>4, <1>5, <1>6, PushKeeps DEF LoopTypeOK
<1>8. Pushed(k', k, t, now)
  BY <1>1, <1>2, <1>3, <1>6, PushIs DEF LinksOK, LoopTypeOK
<1>9. \A s \in Tasks : HistoryOK(k', NoTask, owed, awaited, late, s)
  BY <1>2, <1>3, <1>5, <1>6, <1>8, PushedHistory
<1>10. Running' = Running \ {t} /\ CurOK' /\ LoopTypeOK'
  BY <1>1, <1>2, <1>6 DEF Running, CurOK, LoopTypeOK
<1> QED  BY <1>1, <1>7, <1>9, <1>10 DEF LoopInv

\* FinishTask: those who wait are due, with no cancellation owed.
LEMMA FinishTaskKeeps ==
    ASSUME NEW how \in Outcomes, LoopInv, FinishTask(how)
    PROVE  LoopInv'
<1>0. NoTask \notin Tasks
  BY LoopAssumption
<1>1. /\ cur # NoTask /\ cur' = NoTask /\ owed' = owed \ {cur}
      /\ IF cur = Main THEN stopped' = TRUE /\ UNCHANGED k
         ELSE UNCHANGED stopped /\ k' = Finish(k, cur, how, now)
      /\ UNCHANGED <<now, awaited, late>>
  BY DEF FinishTask
<1>2. LoopOK(k, Running) /\ LoopTypeOK /\ CurOK
      /\ \A s \in Tasks : HistoryOK(k, cur, owed, awaited, late, s)
  BY DEF LoopInv
<1>3. k \in LoopRecords /\ LinksOK(k)
      /\ \A s \in Tasks : DataOK(k, s, s \in Running)
  BY <1>2 DEF LoopOK
<1>4. cur \in Tasks /\ ~stopped /\ Live(k, cur) /\ now \in Nat
  BY <1>1, <1>2 DEF LoopTypeOK, CurOK
<1>5. Running = {cur}
  BY <1>4 DEF Running
<1>6. CurOK' /\ LoopTypeOK'
  BY <1>1, <1>2 DEF CurOK, LoopTypeOK
<1>7. CASE cur = Main
  <2>1. Running' = Running
    BY <1>0, <1>1, <1>4, <1>5, <1>7 DEF Running
  <2>2. ASSUME NEW s \in Tasks
        PROVE  HistoryOK(k', cur', owed', awaited', late', s)
    <3>0. HistoryOK(k, cur, owed, awaited, late, s) /\ s # cur'
      BY <1>0, <1>1, <1>2
    <3> QED  BY <1>1, <1>7, <3>0 DEF HistoryOK
  <2> QED  BY <1>1, <1>2, <1>6, <1>7, <2>1, <2>2 DEF LoopInv
<1>8. CASE cur # Main
  <2> DEFINE w == Range(k.wait[cur])
  <2>1. cur \in Running
    BY <1>5
  <2>2. LoopOK(k', Running \ {cur}) /\ FinishIs(k', k, cur, how, now)
    BY <1>1, <1>2, <1>4, <1>8, <2>1, FinishKeeps
  <2>3. Running' = Running \ {cur}
    BY <1>0, <1>1, <1>4, <1>5, <1>8 DEF Running
  <2>4. /\ k'.state[cur] \in {"waited", "done"}
        /\ k'.state[cur] = "done" => k.state[cur] # "queue"
        /\ Queued(k', cur) => k'.state[cur] # "waited"
        /\ k'.data[cur].kind = "ended"
    BY <1>3, <1>4, <2>2, RecordIs, ContentsFacts DEF FinishIs
  <2>5. \A s \in Tasks \ {cur} :
          /\ k'.state[s] = k.state[s]
          /\ s \notin w => /\ k'.data[s] = k.data[s]
                           /\ Queued(k', s) => Queued(k, s)
    BY <1>3, <1>4, <2>2, RecordIs DEF FinishIs
  <2>6. ASSUME NEW s \in Tasks, s \in w
        PROVE  Live(k, s) /\ k.data[s] # Cancelled
    <3>1. k.data[s].kind = "task"
      BY <1>3, <1>4, <2>6, ContentsFacts DEF LinksOK
    <3>2. k.state[s] \in TaskStates /\ k.data[s] # None
          /\ k.data[s] # Cancelled
      BY <1>3, <3>1, RecordIs, ContentsFacts
    <3> QED  BY <1>3, <3>1, <3>2 DEF DataOK, Live, IsDone, TaskStates
  <2> HIDE DEF w
  <2>7. ASSUME NEW s \in Tasks
        PROVE  HistoryOK(k', cur', owed', awaited', late', s)
    <3>0. HistoryOK(k, cur, owed, awaited, late, s) /\ s # cur'
      BY <1>0, <1>1, <1>2
    <3>1. CASE s = cur
      <4>1. s \notin owed' /\ ~(Queued(k', s) /\ k'.state[s] = "waited")
        BY <1>1, <2>4, <3>1
      <4>2. s \in awaited => k'.state[s] = "waited"
        BY <1>4, <2>4, <3>0, <3>1 DEF HistoryOK, Live
      <4> QED  BY <1>1, <2>4, <3>1, <4>1, <4>2 DEF HistoryOK
    <3>2. CASE s # cur /\ s \in w
      <4>1. s \notin owed /\ k'.state[s] = k.state[s] /\ Live(k, s)
        BY <2>5, <2>6, <3>0, <3>2 DEF HistoryOK
      <4> QED  BY <1>1, <3>0, <4>1 DEF HistoryOK, Live, IsDone
    <3>3. CASE s # cur /\ s \notin w
      BY <1>1, <2>5, <3>0, <3>3, HistoryStays
    <3> QED  BY <3>1, <3>2, <3>3
  <2> QED  BY <1>6, <2>2, <2>3, <2>7 DEF LoopInv
<1> QED  BY <1>7, <1>8

\* A step that leaves the tasks alone.
LEMMA NothingKeeps ==
    LoopInv /\ UNCHANGED <<k, cur, stopped, owed, awaited, late>>
      /\ now' \in Nat /\ now <= now' => LoopInv'
<1> SUFFICES ASSUME LoopInv, now' \in Nat, now <= now',
                    UNCHANGED <<k, cur, stopped, owed, awaited, late>>
             PROVE  LoopInv'
  OBVIOUS
<1>1. LoopOK(k, Running) /\ LoopTypeOK /\ CurOK
      /\ \A s \in Tasks : HistoryOK(k, cur, owed, awaited, late, s)
  BY DEF LoopInv
<1>2. Running' = Running /\ LoopTypeOK'
  BY <1>1 DEF Running, LoopTypeOK
<1>3. CurOK'
  <2>1. cur # NoTask => k.key[cur] \in Nat /\ now \in Nat
    BY <1>1, RecordIs DEF LoopTypeOK, LoopOK
  <2> QED  BY <1>1, <2>1 DEF CurOK
<1> QED  BY <1>1, <1>2, <1>3 DEF LoopInv

\* Every step of the loop keeps the invariant.
LEMMA LoopInvHolds == LoopSpec => []LoopInv
<1>1. ASSUME LoopInv, [LoopNext]_loopVars PROVE LoopInv'
  <2>1. CASE Resume
    BY <1>1, <2>1, ResumeKeeps
  <2>2. CASE ResumeEnded
    BY <1>1, <2>2, ResumeEndedKeeps
  <2>3. CASE Creates
    BY <1>1, <2>3, CreateTaskKeeps DEF Creates
  <2>4. CASE Cancels
    BY <1>1, <2>4, CancelTaskKeeps DEF Cancels
  <2>5. CASE Awaits
    BY <1>1, <2>5, AwaitTaskKeeps DEF Awaits
  <2>6. CASE Sleeps
    BY <1>1, <2>6, SleepKeeps DEF Sleeps
  <2>7. CASE WaitIo
    BY <1>1, <2>7, WaitIoKeeps
  <2>8. CASE IoEvent
    BY <1>1, <2>8, IoReadyKeeps DEF IoEvent
  <2>9. CASE Finishes
    BY <1>1, <2>9, FinishTaskKeeps DEF Finishes
  <2>10. now \in Nat
    BY <1>1 DEF LoopInv, LoopTypeOK
  <2>11. CASE Tick
    BY <1>1, <2>10, <2>11, NothingKeeps DEF Tick, ghosts
  <2>12. CASE UNCHANGED loopVars
    BY <1>1, <2>10, <2>12, NothingKeeps DEF loopVars, ghosts
  <2> QED
    BY <1>1, <2>1, <2>2, <2>3, <2>4, <2>5, <2>6, <2>7, <2>8, <2>9, <2>11,
       <2>12 DEF LoopNext, Returned
<1> QED  BY <1>1, LoopStarts, PTL DEF LoopSpec

\* How many queues a task is on.
LEMMA PlacesAre ==
    ASSUME LoopInv, ~stopped, NEW t \in Tasks, Live(k, t)
    PROVE  Places(t) = IF t = cur THEN 0 ELSE 1
<1> DEFINE A == {i \in DOMAIN k.runq : k.runq[i] = t}
           B == {u \in Tasks : t \in Range(k.wait[u])}
           c == IF k.data[t] = OnIo THEN 1 ELSE 0
<1>0. LinksOK(k) /\ k \in LoopRecords /\ DataOK(k, t, t \in Running)
  BY DEF LoopInv, LoopOK
<1>1. t \in Running <=> t = cur
  BY DEF Running
<1>2. k.data[t] \in Contents
  BY <1>0, RecordIs
<1>3. Places(t) = Cardinality(A) + Cardinality(B) + c
  BY DEF Places
<1>4. Cardinality(A) = IF Queued(k, t) THEN 1 ELSE 0
  <2>1. CASE Queued(k, t)
    <3>1. PICK i \in DOMAIN k.runq : k.runq[i] = t
      BY <2>1 DEF Queued, Range
    <3>2. A = {i}
      BY <1>0, <3>1 DEF LinksOK, Once
    <3> QED  BY <2>1, <3>2, FS_Singleton
  <2>2. CASE ~Queued(k, t)
    <3>1. A = {}
      BY <2>2 DEF Queued, Range
    <3> QED  BY <2>2, <3>1, FS_EmptySet
  <2> QED  BY <2>1, <2>2
<1>5. Cardinality(B) = IF k.data[t].kind = "task" THEN 1 ELSE 0
  <2>1. B = {u \in Tasks : k.data[t] = OnTask(u)}
    BY <1>0 DEF LinksOK
  <2>2. CASE k.data[t].kind = "task"
    <3>1. B = {k.data[t].task}
      BY <1>2, <2>1, <2>2, Kinds
    <3> QED  BY <2>2, <3>1, FS_Singleton
  <2>3. CASE k.data[t].kind # "task"
    <3>1. B = {}
      BY <2>1, <2>3, ContentsFacts
    <3> QED  BY <2>3, <3>1, FS_EmptySet
  <2> QED  BY <2>2, <2>3
<1>6. c = IF k.data[t].kind = "io" THEN 1 ELSE 0
  BY <1>2, Kinds
<1>7. k.data[t].kind \in {"none", "io", "cancelled", "status", "task"}
  BY <1>0, <1>2, Kinds DEF DataOK
<1>8. /\ t = cur => ~Queued(k, t) /\ Idles(k, t)
      /\ t # cur => (Queued(k, t) <=> Idles(k, t))
  BY <1>0, <1>1 DEF DataOK
<1> HIDE DEF A, B, c
<1> QED  BY <1>3, <1>4, <1>5, <1>6, <1>7, <1>8 DEF Idles

(***************************************************************************)
(* TasksAreConsistent for any number of tasks, of cancellations and of     *)
(* ticks: whatever tasks do to each other, each is on exactly one queue    *)
(* while it waits, the links of task_iternext hold, a task that has ended  *)
(* keeps its result and one that was cancelled gets to see it.             *)
(***************************************************************************)
THEOREM TasksStayConsistent == LoopSpec => []TasksAreConsistent
<1>1. LoopInv => TasksAreConsistent
  <2> SUFFICES ASSUME LoopInv PROVE TasksAreConsistent
    OBVIOUS
  <2>1. OnOneQueue
    BY PlacesAre DEF OnOneQueue
  <2>2. AwaitLinksHold
    BY DEF LoopInv, LoopOK, LinksOK, AwaitLinksHold
  <2>3. EndedKeepsResult
    BY DEF LoopInv, HistoryOK, EndedKeepsResult
  <2>4. CancelIsDelivered
    BY DEF LoopInv, LoopTypeOK, HistoryOK, CancelIsDelivered
  <2> QED  BY <2>1, <2>2, <2>3, <2>4 DEF TasksAreConsistent
<1> QED  BY <1>1, LoopInvHolds, PTL

(***************************************************************************)
(* The safety half of ResultsReachWaiters: the exception handler is never  *)
(* given the exception of a task that somebody has awaited, also if it was *)
(* awaited after its end and before the loop found it on the run queue.    *)
(***************************************************************************)
THEOREM HandlerSparesAwaited == LoopSpec => HandlerOnlyForUnawaited
<1>1. ASSUME LoopInv, [LoopNext]_loopVars
      PROVE  [\A t \in handled' \ handled : t \notin awaited]_loopVars
  <2>1. CASE ResumeEnded
    <3> DEFINE h == Head(k.runq)
    <3>1. /\ Ready(k, now)
          /\ handled' = handled \/ (k.state[h] = "done"
                                      /\ handled' = handled \cup {h})
      BY <2>1 DEF ResumeEnded
    <3>2. h \in Tasks
      BY <1>1, <3>1, ResumedIs DEF LoopInv, Ready
    <3>3. k.state[h] = "done" => h \notin awaited
      BY <1>1, <3>2 DEF LoopInv, HistoryOK
    <3> HIDE DEF h
    <3> QED  BY <3>1, <3>3
  <2>2. CASE handled' = handled
    BY <2>2
  <2>3. CASE LoopNext /\ ~ResumeEnded
    <3>1. handled' = handled
      BY <2>3 DEF LoopNext, Resume, Creates, CreateTask, Cancels, CancelTask,
         Awaits, AwaitTask, Sleeps, Sleep, WaitIo, IoEvent, IoReady, Finishes,
         FinishTask, Tick, Returned, loopVars, ghosts
    <3> QED  BY <2>2, <3>1
  <2>4. CASE UNCHANGED loopVars
    BY <2>4
  <2> QED  BY <1>1, <2>1, <2>3, <2>4
<1> QED  BY <1>1, LoopInvHolds, PTL DEF LoopSpec, HandlerOnlyForUnawaited
=============================================================================
