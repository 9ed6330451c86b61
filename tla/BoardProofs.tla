---------------------------- MODULE BoardProofs ----------------------------
(***************************************************************************)
(* The tasks of the Digital Twin firmware and their hw_lock, for any       *)
(* number of clients, any pins and any queue: the pin worker by itself     *)
(* (PinActions), the two radios (MCRadio) and the whole board with its     *)
(* clean-up (PicoBoard).  All three invariants contain LockOK of hw_lock,  *)
(* and BleOK says what the flag of the BLE driver is worth at every await. *)
(***************************************************************************)
EXTENDS PicoBoard, MCRadio, TLAPS

(***************************************************************************)
(* What the methods of Lock do to a lock that is in order, for any users.  *)
(***************************************************************************)

\* Removing the element at position i of a sequence without repetitions
\* gives a sequence of the same kind that has every other element and not it.
LEMMA WithoutAtFacts ==
    ASSUME NEW S, NEW s \in Seq(S), NEW i \in 1..Len(s),
           \A j, k \in 1..Len(s) : s[j] = s[k] => j = k
    PROVE  /\ WithoutAt(s, i) \in Seq(S)
           /\ Len(WithoutAt(s, i)) = Len(s) - 1
           /\ \A j, k \in 1..Len(WithoutAt(s, i)) :
                 WithoutAt(s, i)[j] = WithoutAt(s, i)[k] => j = k
           /\ \A x : (\E j \in 1..Len(WithoutAt(s, i)) :
                          WithoutAt(s, i)[j] = x)
                       <=> x # s[i] /\ \E j \in 1..Len(s) : s[j] = x
<1> DEFINE w == WithoutAt(s, i)
<1>1. Len(s) \in Nat /\ Len(s) - 1 \in Nat
  OBVIOUS
<1>2. w \in [1..(Len(s) - 1) -> S]
  BY <1>1 DEF WithoutAt
<1>3. w \in Seq(S) /\ Len(w) = Len(s) - 1
  BY <1>1, <1>2
<1>4. \A j \in 1..Len(w) : w[j] = IF j < i THEN s[j] ELSE s[j + 1]
  BY <1>1, <1>3 DEF WithoutAt
<1>5. \A j, k \in 1..Len(w) : w[j] = w[k] => j = k
  BY <1>1, <1>3, <1>4
<1>6. ASSUME NEW j \in 1..Len(w)
      PROVE  w[j] # s[i] /\ \E k \in 1..Len(s) : s[k] = w[j]
  BY <1>1, <1>3, <1>4
<1>7. ASSUME NEW k \in 1..Len(s), s[k] # s[i]
      PROVE  \E j \in 1..Len(w) : w[j] = s[k]
  <2>1. CASE k < i
    <3>1. k \in 1..Len(w) /\ w[k] = s[k]
      BY <2>1, <1>1, <1>3, <1>4
    <3> QED  BY <3>1
  <2>2. CASE k > i
    <3>1. k - 1 \in 1..Len(w) /\ w[k - 1] = s[k]
      BY <2>2, <1>1, <1>3, <1>4
    <3> QED  BY <3>1
  <2>3. k # i
    BY <1>7
  <2>4. Len(s) \in Nat
    BY <1>1
  <2>5. k < i \/ k > i
    BY <1>1, <2>3, <2>4
  <2> QED  BY <2>1, <2>2, <2>5
<1>8. \A x : (\E j \in 1..Len(w) : w[j] = x)
              <=> x # s[i] /\ \E j \in 1..Len(s) : s[j] = x
  BY <1>6, <1>7
<1> QED  BY <1>3, <1>5, <1>8

\* What release() does to the queue of a lock whose waiters are distinct.
LEMMA ReleaseFacts ==
    ASSUME NEW lk \in Locks,
           \A i, j \in 1..Len(lk.waiting) :
              lk.waiting[i] = lk.waiting[j] => i = j
    PROVE  /\ Release(lk) \in Locks
           /\ Release(lk).state # Locked
           /\ Release(lk).waiting # << >> => Release(lk).state \in Tasks
           /\ Release(lk).state \in Tasks => IsWaiting(lk, Release(lk).state)
           /\ \A i, j \in 1..Len(Release(lk).waiting) :
                 Release(lk).waiting[i] = Release(lk).waiting[j] => i = j
           /\ \A t \in Tasks :
                 IsWaiting(Release(lk), t)
                    <=> IsWaiting(lk, t) /\ Release(lk).state # t
<1>1. CASE lk.waiting = << >>
  BY <1>1, TasksAssumption
     DEF Release, Locks, IsWaiting, Unlocked, Locked
<1>2. CASE lk.waiting # << >>
  <2> DEFINE w == lk.waiting
  <2>1. w \in Seq(Tasks) /\ Len(w) \in Nat \ {0}
    BY <1>2 DEF Locks
  <2>2. Release(lk) = [state |-> w[1], waiting |-> Tail(w)]
    BY <1>2 DEF Release
  <2>3. /\ w[1] \in Tasks
        /\ Tail(w) \in Seq(Tasks)
        /\ Len(Tail(w)) = Len(w) - 1
        /\ \A i \in 1..Len(Tail(w)) : Tail(w)[i] = w[i + 1]
    BY <2>1
  <2>4. Release(lk) \in Locks /\ Release(lk).state # Locked
    BY <2>2, <2>3, TasksAssumption DEF Locks, Locked
  <2>5. ASSUME NEW i \in 1..Len(Tail(w)), NEW j \in 1..Len(Tail(w)),
               Tail(w)[i] = Tail(w)[j]
        PROVE  i = j
    <3>1. i \in Nat /\ j \in Nat /\ i + 1 \in 1..Len(w) /\ j + 1 \in 1..Len(w)
      BY <2>1, <2>3
    <3>2. w[i + 1] = w[j + 1]
      BY <2>3, <2>5
    <3>3. i + 1 = j + 1
      BY <3>1, <3>2
    <3> QED  BY <3>1, <3>3
  <2>6. ASSUME NEW t \in Tasks
        PROVE  (\E i \in 1..Len(Tail(w)) : Tail(w)[i] = t)
                  <=> (\E i \in 1..Len(w) : w[i] = t) /\ w[1] # t
    <3>1. ASSUME NEW i \in 1..Len(Tail(w)), Tail(w)[i] = t
          PROVE  i + 1 \in 1..Len(w) /\ w[i + 1] = t /\ w[1] # t
      BY <3>1, <2>1, <2>3
    <3>2. ASSUME NEW i \in 1..Len(w), w[i] = t, w[1] # t
          PROVE  i - 1 \in 1..Len(Tail(w)) /\ Tail(w)[i - 1] = t
      BY <3>2, <2>1, <2>3
    <3> QED  BY <3>1, <3>2
  <2> QED  BY <2>1, <2>2, <2>3, <2>4, <2>5, <2>6 DEF IsWaiting
<1> QED  BY <1>1, <1>2

-----------------------------------------------------------------------------
(***************************************************************************)
(* A lock in order.  In are the tasks inside "async with", Out those that  *)
(* have yielded in acquire(), Gone those with a CancelledError pending,    *)
(* which Task.cancel() has taken off the queue.                            *)
(***************************************************************************)
Distinct(s) == \A i, j \in 1..Len(s) : s[i] = s[j] => i = j

LockOK(lk, In, Out, Gone) ==
    /\ lk \in Locks
    /\ Distinct(lk.waiting)
    /\ \A t, u \in In : t = u
    /\ (lk.state = Locked) <=> (In # {})
    /\ lk.state = Unlocked => lk.waiting = << >>
    /\ lk.state \in Tasks =>
          lk.state \in Out /\ ~IsWaiting(lk, lk.state)
    /\ \A t \in Tasks : IsWaiting(lk, t) => t \in Out \ Gone
    /\ \A t \in Out \ Gone : IsWaiting(lk, t) \/ lk.state = t

\* A new lock is in order: nobody is inside and nobody waits.
LEMMA NewLockOK ==
    ASSUME NEW Gone
    PROVE  LockOK(NewLock, {}, {}, Gone)
  BY TasksAssumption
     DEF LockOK, NewLock, Locks, Distinct, IsWaiting, Unlocked, Locked

\* acquire() of a free lock: the caller is inside, alone.
LEMMA TakeFreeOK ==
    ASSUME NEW lk, NEW In, NEW Out \in SUBSET Tasks, NEW Gone, NEW t \in Tasks,
           LockOK(lk, In, Out, Gone), Free(lk)
    PROVE  In = {} /\ LockOK(Take(lk), {t}, Out \ {t}, Gone)
<1>1. lk \in Locks /\ lk.state = 0 /\ lk.waiting = << >> /\ In = {}
  BY TasksAssumption DEF LockOK, Free, Unlocked, Locked
<1>2. \A u : ~ IsWaiting(lk, u)
  BY <1>1 DEF IsWaiting
<1>3. Out \ Gone = {}
  BY <1>1, <1>2, TasksAssumption DEF LockOK
<1>4. Take(lk) = [state |-> 1, waiting |-> << >>]
  BY <1>1 DEF Take, Locks, Locked
<1>5. \A u : ~ IsWaiting(Take(lk), u)
  BY <1>4 DEF IsWaiting
<1> QED
  BY <1>1, <1>3, <1>4, <1>5, TasksAssumption
     DEF LockOK, Locks, Distinct, Unlocked, Locked

\* acquire() of a lock that is not free: the caller yields on the queue.
LEMMA EnqueueOK ==
    ASSUME NEW lk, NEW In, NEW Out \in SUBSET Tasks, NEW Gone, NEW t \in Tasks,
           LockOK(lk, In, Out, Gone), ~Free(lk), t \notin Out, t \notin Gone
    PROVE  LockOK(Enqueue(lk, t), In, Out \cup {t}, Gone)
<1> DEFINE w == lk.waiting
           e == Enqueue(lk, t)
<1>1. lk \in Locks /\ w \in Seq(Tasks) /\ lk.state # 0 /\ Distinct(w)
  BY DEF LockOK, Locks, Free, Unlocked
<1>2. /\ Append(w, t) \in Seq(Tasks)
      /\ Len(Append(w, t)) = Len(w) + 1
      /\ Append(w, t)[Len(w) + 1] = t
      /\ \A i \in 1..Len(w) : Append(w, t)[i] = w[i]
      /\ Len(w) \in Nat
  BY <1>1
<1>3. e \in Locks /\ e.state = lk.state /\ e.waiting = Append(w, t)
  BY <1>1, <1>2 DEF Enqueue, Locks
<1>4. \A u : IsWaiting(e, u) <=> IsWaiting(lk, u) \/ u = t
  BY <1>2, <1>3 DEF IsWaiting
<1>5. ~IsWaiting(lk, t) /\ lk.state # t
  BY DEF LockOK
<1>6. Distinct(e.waiting)
  BY <1>1, <1>2, <1>3, <1>5 DEF Distinct, IsWaiting
<1> HIDE DEF e
<1>7. LockOK(e, In, Out \cup {t}, Gone)
  BY <1>1, <1>3, <1>4, <1>5, <1>6 DEF LockOK, Unlocked
<1> QED  BY <1>7 DEF e

\* acquire() goes on: a caller that is off the queue and was not cancelled
\* has been promised the lock, and nobody is inside.
LEMMA TakePromisedOK ==
    ASSUME NEW lk, NEW In, NEW Out \in SUBSET Tasks, NEW Gone, NEW t,
           LockOK(lk, In, Out, Gone), t \in Out \ Gone, ~IsWaiting(lk, t)
    PROVE  In = {} /\ LockOK(Take(lk), {t}, Out \ {t}, Gone)
<1>1. t \in Tasks /\ lk.state = t
  BY DEF LockOK
<1>2. lk \in Locks /\ In = {}
  BY <1>1, TasksAssumption DEF LockOK, Locked
<1>3. /\ Take(lk) \in Locks
      /\ Take(lk).state = 1
      /\ Take(lk).waiting = lk.waiting
  BY <1>2 DEF Take, Locks, Locked
<1>4. \A u : IsWaiting(Take(lk), u) <=> IsWaiting(lk, u)
  BY <1>3 DEF IsWaiting
<1> QED
  BY <1>1, <1>2, <1>3, <1>4, TasksAssumption DEF LockOK, Unlocked, Locked

\* release(): nobody is inside, and the first waiter is promised the lock.
LEMMA ReleaseOK ==
    ASSUME NEW lk, NEW In, NEW Out \in SUBSET Tasks, NEW Gone,
           LockOK(lk, In, Out, Gone), lk.state = Locked
    PROVE  LockOK(Release(lk), {}, Out, Gone)
<1> DEFINE r == Release(lk)
<1>1. lk \in Locks /\ Distinct(lk.waiting)
  BY DEF LockOK
<1>2. /\ r \in Locks
      /\ r.state # Locked
      /\ r.waiting # << >> => r.state \in Tasks
      /\ r.state \in Tasks => IsWaiting(lk, r.state)
      /\ Distinct(r.waiting)
      /\ \A t \in Tasks : IsWaiting(r, t)
                            <=> IsWaiting(lk, t) /\ r.state # t
  BY <1>1, ReleaseFacts DEF Distinct
<1>3. \A t \in Out \ Gone : IsWaiting(lk, t)
  BY TasksAssumption DEF LockOK, Locked
<1>4. \A t \in Tasks : IsWaiting(lk, t) => t \in Out \ Gone
  BY DEF LockOK
<1> HIDE DEF r
<1>5. LockOK(r, {}, Out, Gone)
  BY <1>2, <1>3, <1>4, TasksAssumption DEF LockOK, Locks, Unlocked, Locked
<1> QED  BY <1>5 DEF r

\* Task.cancel(): the task is taken off the queue, if it is on it.
LEMMA CancelOK ==
    ASSUME NEW lk, NEW In, NEW Out \in SUBSET Tasks, NEW Gone, NEW t \in Tasks,
           LockOK(lk, In, Out, Gone)
    PROVE  LockOK(IF IsWaiting(lk, t) THEN Dequeue(lk, t) ELSE lk,
                  In, Out, Gone \cup {t})
<1>1. CASE ~IsWaiting(lk, t)
  BY <1>1 DEF LockOK
<1>2. CASE IsWaiting(lk, t)
  <2> DEFINE w == lk.waiting
             i == PositionOf(w, t)
             d == Dequeue(lk, t)
  <2>1. lk \in Locks /\ w \in Seq(Tasks) /\ Distinct(w)
    BY DEF LockOK, Locks
  <2>2. i \in 1..Len(w) /\ w[i] = t
    BY <1>2 DEF IsWaiting, PositionOf
  <2>3. /\ WithoutAt(w, i) \in Seq(Tasks)
        /\ Distinct(WithoutAt(w, i))
        /\ \A x : (\E j \in 1..Len(WithoutAt(w, i)) : WithoutAt(w, i)[j] = x)
                    <=> x # w[i] /\ \E j \in 1..Len(w) : w[j] = x
    BY <2>1, <2>2, WithoutAtFacts DEF Distinct
  <2>4. /\ d \in Locks
        /\ d.state = lk.state
        /\ d.waiting = WithoutAt(w, i)
    BY <2>1, <2>3 DEF Dequeue, Locks
  <2>5. \A u : IsWaiting(d, u) <=> IsWaiting(lk, u) /\ u # t
    BY <2>2, <2>3, <2>4 DEF IsWaiting
  <2>6. lk.state # Unlocked
    BY <1>2 DEF LockOK, IsWaiting
  <2> HIDE DEF d
  <2>7. LockOK(d, In, Out, Gone \cup {t})
    BY <2>3, <2>4, <2>5, <2>6 DEF LockOK
  <2> QED  BY <1>2, <2>7 DEF d
<1> QED  BY <1>1, <1>2

\* A cancelled task that was not promised the lock leaves acquire().
LEMMA LeaveOK ==
    ASSUME NEW lk, NEW In, NEW Out \in SUBSET Tasks, NEW Gone, NEW t \in Gone,
           LockOK(lk, In, Out, Gone), lk.state # t
    PROVE  LockOK(lk, In, Out \ {t}, Gone \ {t})
  BY DEF LockOK

\* CancelledError thrown into acquire(): a promise is passed on.
LEMMA AbandonOK ==
    ASSUME NEW lk, NEW In, NEW Out \in SUBSET Tasks, NEW Gone, NEW t \in Gone,
           t \in Out, LockOK(lk, In, Out, Gone)
    PROVE  LockOK(Abandon(lk, t), In, Out \ {t}, Gone \ {t})
<1>1. CASE lk.state # t
  BY <1>1, LeaveOK DEF Abandon
<1>2. CASE lk.state = t
  <2> DEFINE k == Take(lk)
  <2>1. t \in Tasks /\ ~IsWaiting(lk, t) /\ lk \in Locks
    BY <1>2 DEF LockOK
  <2>2. In = {}
    BY <1>2, <2>1, TasksAssumption DEF LockOK, Locked
  <2>3. k \in Locks /\ k.state = 1 /\ k.waiting = lk.waiting
    BY <2>1 DEF Take, Locks, Locked
  <2>4. \A u : IsWaiting(k, u) <=> IsWaiting(lk, u)
    BY <2>3 DEF IsWaiting
  <2>5. LockOK(k, {t}, Out \ {t}, Gone \ {t})
    <3> HIDE DEF k
    <3> QED
      BY <1>2, <2>1, <2>3, <2>4, TasksAssumption DEF LockOK, Unlocked, Locked
  <2>6. LockOK(Release(k), {}, Out \ {t}, Gone \ {t})
    BY <2>3, <2>5, ReleaseOK DEF Locked
  <2> QED  BY <1>2, <2>2, <2>6 DEF Abandon
<1> QED  BY <1>1, <1>2
-----------------------------------------------------------------------------
(***************************************************************************)
(* The board's lock                                                        *)
(***************************************************************************)

InLabels == {"w_inner", "w_yield", "s_read", "read_body", "start_sleep",
             "stop_sleep", "wifi_sleep"}
OutLabels == {"w_lock", "w_inner", "s_lock", "read_lock", "init_lock",
              "start_lock", "stop_lock", "wifi_lock"}

\* The tasks that have yielded in acquire(), in whatever composition.
Awaiting == {t \in Tasks : pc[t] \in OutLabels}

PcOK == pc = [t \in Tasks |-> pc[t]]

\* A step that moves one task moves no other task into or out of the lock.
LEMMA GotoMoves ==
    ASSUME PcOK, NEW t \in Tasks, NEW label, Goto(t, label)
    PROVE  /\ PcOK'
           /\ pc'[t] = label
           /\ \A u \in Tasks \ {t} : pc'[u] = pc[u]
           /\ label \in InLabels => Inside' = (Inside \ {t}) \cup {t}
           /\ label \notin InLabels => Inside' = Inside \ {t}
           /\ label \in OutLabels => Awaiting' = (Awaiting \ {t}) \cup {t}
           /\ label \notin OutLabels => Awaiting' = Awaiting \ {t}
<1>1. /\ pc' = [u \in Tasks |-> pc'[u]]
      /\ pc'[t] = label
      /\ \A u \in Tasks \ {t} : pc'[u] = pc[u]
  BY DEF PcOK, Goto
<1>2. /\ label \in InLabels => Inside' = (Inside \ {t}) \cup {t}
      /\ label \notin InLabels => Inside' = Inside \ {t}
  BY <1>1 DEF Inside, InLabels
<1>3. /\ label \in OutLabels => Awaiting' = (Awaiting \ {t}) \cup {t}
      /\ label \notin OutLabels => Awaiting' = Awaiting \ {t}
  BY <1>1 DEF Awaiting, OutLabels
<1> QED  BY <1>1, <1>2, <1>3 DEF PcOK

\* The same for the labels outside of the lock, inside, and in acquire().
LEMMA GotoFree ==
    ASSUME PcOK, NEW t \in Tasks, NEW label, Goto(t, label),
           label \notin InLabels, label \notin OutLabels
    PROVE  /\ PcOK' /\ pc'[t] = label
           /\ \A u \in Tasks \ {t} : pc'[u] = pc[u]
           /\ Inside' = Inside \ {t} /\ Awaiting' = Awaiting \ {t}
  BY GotoMoves

\* A task goes to a place inside the lock, which nobody else is in.
LEMMA GotoIn ==
    ASSUME PcOK, NEW t \in Tasks, NEW label, Goto(t, label),
           label \in InLabels, label \notin OutLabels, Inside \ {t} = {}
    PROVE  /\ PcOK' /\ pc'[t] = label
           /\ \A u \in Tasks \ {t} : pc'[u] = pc[u]
           /\ Inside' = {t} /\ Awaiting' = Awaiting \ {t}
<1>1. Inside' = (Inside \ {t}) \cup {t}
  BY GotoMoves
<1>2. Inside' = {t}
  BY <1>1
<1> QED  BY <1>2, GotoMoves

\* A task goes to an await of the lock.
LEMMA GotoOut ==
    ASSUME PcOK, NEW t \in Tasks, NEW label, Goto(t, label),
           label \notin InLabels, label \in OutLabels
    PROVE  /\ PcOK' /\ pc'[t] = label
           /\ \A u \in Tasks \ {t} : pc'[u] = pc[u]
           /\ Inside' = Inside \ {t} /\ Awaiting' = (Awaiting \ {t}) \cup {t}
  BY GotoMoves

-----------------------------------------------------------------------------
(***************************************************************************)
(* start_ble_advertising and stop_ble_advertising: what a call does until  *)
(* it yields or ends, in whatever order it takes and leaves the lock.      *)
(***************************************************************************)
LockKept(Gone) == LockOK(hw_lock, Inside, Awaiting, Gone)

\* The task c moves; if it starts the radio then under the lock, alone, with
\* the flag unset.
StartMoves(c, name) ==
    /\ PcOK'
    /\ pc'[c] \in {"idle", "init_lock", "start_lock", "start_sleep"}
    /\ \A u \in Tasks \ {c} : pc'[u] = pc[u]
    /\ adv_active' = adv_active
    /\ IF pc'[c] = "start_sleep"
       THEN ~adv_active /\ radio' = name /\ Inside \ {c} = {}
       ELSE radio' = radio

\* The body of start_ble_advertising under the lock.
LEMMA StartLockedStep ==
    ASSUME PcOK, NEW c \in Tasks, NEW lk, NEW name, NEW Gone,
           adv_active \in BOOLEAN,
           Inside \ {c} = {}, LockOK(lk, {c}, Awaiting \ {c}, Gone),
           StartLocked(c, lk, name)
    PROVE  StartMoves(c, name) /\ LockKept(Gone)'
<1>1. LockOK(Release(lk), {}, Awaiting \ {c}, Gone)
  <2>1. lk.state = Locked
    BY DEF LockOK
  <2> QED  BY <2>1, ReleaseOK DEF Awaiting
<1>2. ASSUME hw_lock' = Release(lk), Goto(c, "idle"), radio' = radio,
             adv_active' = adv_active
      PROVE  StartMoves(c, name) /\ LockKept(Gone)'
  <2>1. /\ PcOK' /\ pc'[c] = "idle" /\ \A u \in Tasks \ {c} : pc'[u] = pc[u]
        /\ Inside' = Inside \ {c} /\ Awaiting' = Awaiting \ {c}
    BY <1>2, GotoFree DEF InLabels, OutLabels
  <2>2. LockKept(Gone)'
    BY <1>1, <1>2, <2>1 DEF LockKept
  <2> QED  BY <1>2, <2>1, <2>2 DEF StartMoves
<1>3. ASSUME hw_lock' = lk, Goto(c, "start_sleep"), radio' = name,
             ~adv_active, adv_active' = adv_active
      PROVE  StartMoves(c, name) /\ LockKept(Gone)'
  <2>1. /\ PcOK' /\ pc'[c] = "start_sleep"
        /\ \A u \in Tasks \ {c} : pc'[u] = pc[u]
        /\ Inside' = {c} /\ Awaiting' = Awaiting \ {c}
    BY <1>3, GotoIn DEF InLabels, OutLabels
  <2>2. LockKept(Gone)'
    BY <1>3, <2>1 DEF LockKept
  <2> QED  BY <1>3, <2>1, <2>2 DEF StartMoves
<1>4. \/ /\ hw_lock' = Release(lk) /\ Goto(c, "idle")
         /\ radio' = radio /\ adv_active' = adv_active
      \/ /\ hw_lock' = lk /\ Goto(c, "start_sleep")
         /\ radio' = name /\ ~adv_active /\ adv_active' = adv_active
  BY Zenon DEF StartLocked
<1> QED  BY <1>2, <1>3, <1>4

\* start_ble_advertising from its check of the flag on.
LEMMA StartFromStep ==
    ASSUME PcOK, NEW c \in Tasks, NEW lk, NEW name, NEW Gone,
           adv_active \in BOOLEAN, c \notin Gone,
           LockOK(lk, Inside \ {c}, Awaiting \ {c}, Gone),
           StartFrom(c, lk, name)
    PROVE  StartMoves(c, name) /\ LockKept(Gone)'
<1>0. Awaiting \ {c} \in SUBSET Tasks /\ c \notin Awaiting \ {c}
  BY DEF Awaiting
<1>1. CASE adv_active /\ hw_lock' = lk /\ Goto(c, "idle")
            /\ UNCHANGED << adv_active, radio >>
  <2>1. /\ PcOK' /\ pc'[c] = "idle" /\ \A u \in Tasks \ {c} : pc'[u] = pc[u]
        /\ Inside' = Inside \ {c} /\ Awaiting' = Awaiting \ {c}
    BY <1>1, GotoFree DEF InLabels, OutLabels
  <2> QED  BY <1>1, <2>1 DEF StartMoves, LockKept
<1>2. CASE Free(lk) /\ StartLocked(c, Take(lk), name)
  <2>1. /\ Inside \ {c} = {}
        /\ LockOK(Take(lk), {c}, (Awaiting \ {c}) \ {c}, Gone)
    BY <1>0, <1>2, TakeFreeOK
  <2>2. (Awaiting \ {c}) \ {c} = Awaiting \ {c}
    OBVIOUS
  <2> QED  BY <1>2, <2>1, <2>2, StartLockedStep
<1>3. CASE ~Free(lk) /\ hw_lock' = Enqueue(lk, c) /\ Goto(c, "start_lock")
            /\ UNCHANGED << adv_active, radio >>
  <2>1. /\ PcOK' /\ pc'[c] = "start_lock"
        /\ \A u \in Tasks \ {c} : pc'[u] = pc[u]
        /\ Inside' = Inside \ {c}
        /\ Awaiting' = (Awaiting \ {c}) \cup {c}
    BY <1>3, GotoOut DEF InLabels, OutLabels
  <2>2. LockOK(hw_lock', Inside \ {c}, (Awaiting \ {c}) \cup {c}, Gone)
    BY <1>0, <1>3, EnqueueOK
  <2> QED  BY <1>3, <2>1, <2>2 DEF StartMoves, LockKept
<1> QED  BY <1>1, <1>2, <1>3 DEF StartFrom

\* init_ble under the lock and what follows it; the radio object may appear.
LEMMA InitLockedStep ==
    ASSUME PcOK, NEW c \in Tasks, NEW lk, NEW name, NEW Gone,
           ble \in BOOLEAN, adv_active \in BOOLEAN, adv_active => ble,
           c \notin Gone, Inside \ {c} = {},
           LockOK(lk, {c}, Awaiting \ {c}, Gone),
           InitLocked(c, lk, name)
    PROVE  /\ StartMoves(c, name) /\ LockKept(Gone)'
           /\ ble' \in BOOLEAN /\ (ble => ble')
           /\ pc'[c] # "idle" => ble'
<1>0. LockOK(Release(lk), Inside \ {c}, Awaiting \ {c}, Gone)
  <2>1. lk.state = Locked
    BY DEF LockOK
  <2> QED  BY <2>1, ReleaseOK DEF Awaiting
<1>1. CASE StartFrom(c, Release(lk), name) /\ ble' = TRUE
  <2>1. StartMoves(c, name) /\ LockKept(Gone)'
    BY <1>0, <1>1, StartFromStep
  <2> QED  BY <1>1, <2>1, Zenon
<1>2. CASE /\ ~ble /\ adv_active' = FALSE /\ UNCHANGED << ble, radio >>
           /\ hw_lock' = Release(lk) /\ Goto(c, "idle")
  <2>1. /\ PcOK' /\ pc'[c] = "idle" /\ \A u \in Tasks \ {c} : pc'[u] = pc[u]
        /\ Inside' = Inside \ {c} /\ Awaiting' = Awaiting \ {c}
    BY <1>2, GotoFree DEF InLabels, OutLabels
  <2>2. LockKept(Gone)'
    BY <1>0, <1>2, <2>1 DEF LockKept
  <2>3. adv_active' = adv_active /\ ble' \in BOOLEAN /\ (ble => ble')
    BY <1>2, Zenon
  <2> QED  BY <1>2, <2>1, <2>2, <2>3 DEF StartMoves
<1>3. \/ StartFrom(c, Release(lk), name) /\ ble' = TRUE
      \/ /\ ~ble /\ adv_active' = FALSE /\ UNCHANGED << ble, radio >>
         /\ hw_lock' = Release(lk) /\ Goto(c, "idle")
  BY Zenon DEF InitLocked
<1> QED  BY <1>1, <1>2, <1>3

\* start_ble_advertising of a task that is neither in the lock nor waits for
\* it.
LEMMA StartAdvertisingStep ==
    ASSUME PcOK, NEW c \in Tasks, NEW name, NEW Gone,
           ble \in BOOLEAN, adv_active \in BOOLEAN, adv_active => ble,
           c \notin Gone, c \notin Inside, c \notin Awaiting, LockKept(Gone),
           StartAdvertising(c, name)
    PROVE  /\ StartMoves(c, name) /\ LockKept(Gone)'
           /\ ble' \in BOOLEAN /\ (ble => ble')
           /\ pc'[c] \notin {"idle", "init_lock"} => ble'
<1>0. /\ Inside \ {c} = Inside /\ Awaiting \ {c} = Awaiting
      /\ Awaiting \in SUBSET Tasks
      /\ LockOK(hw_lock, Inside, Awaiting, Gone)
  BY DEF Awaiting, LockKept
<1>1. CASE ble' = TRUE /\ StartFrom(c, hw_lock, name)
  <2>1. StartMoves(c, name) /\ LockKept(Gone)'
    BY <1>0, <1>1, StartFromStep
  <2> QED  BY <1>1, <2>1, Zenon
<1>2. CASE Free(hw_lock) /\ InitLocked(c, Take(hw_lock), name)
  <2>1. /\ Inside = {}
        /\ LockOK(Take(hw_lock), {c}, Awaiting \ {c}, Gone)
    BY <1>0, <1>2, TakeFreeOK
  <2> QED  BY <1>0, <1>2, <2>1, InitLockedStep
<1>3. CASE /\ ~Free(hw_lock) /\ hw_lock' = Enqueue(hw_lock, c)
           /\ Goto(c, "init_lock")
           /\ UNCHANGED << ble, adv_active, radio >>
  <2>1. /\ PcOK' /\ pc'[c] = "init_lock"
        /\ \A u \in Tasks \ {c} : pc'[u] = pc[u]
        /\ Inside' = Inside \ {c}
        /\ Awaiting' = (Awaiting \ {c}) \cup {c}
    BY <1>3, GotoOut DEF InLabels, OutLabels
  <2>2. LockOK(hw_lock', Inside, Awaiting \cup {c}, Gone)
    BY <1>0, <1>3, EnqueueOK
  <2>3. ble' \in BOOLEAN /\ (ble => ble')
    BY <1>3, Zenon
  <2> QED  BY <1>0, <1>3, <2>1, <2>2, <2>3 DEF StartMoves, LockKept
<1>4. ble /\ UNCHANGED ble => ble' = TRUE
  BY Zenon
<1> QED  BY <1>1, <1>2, <1>3, <1>4 DEF StartAdvertising

\* The task c moves; if it stops the radio then under the lock, alone, with
\* the flag set, and if it only clears the flag then because the driver failed.
StopMoves(c, back) ==
    /\ PcOK'
    /\ \A u \in Tasks \ {c} : pc'[u] = pc[u]
    /\ \/ /\ pc'[c] \in {back, "stop_lock"}
          /\ adv_active' = adv_active /\ radio' = radio
       \/ /\ pc'[c] = back
          /\ GapFails /\ Inside \ {c} = {}
          /\ adv_active' = FALSE /\ radio' = radio
       \/ /\ pc'[c] = "stop_sleep"
          /\ adv_active /\ Inside \ {c} = {}
          /\ adv_active' = adv_active /\ radio' = Off

\* The body of stop_ble_advertising under the lock.
LEMMA StopLockedStep ==
    ASSUME PcOK, NEW c \in Tasks, NEW lk, NEW back \in {"idle", "name_delay"},
           NEW Gone,
           Inside \ {c} = {}, LockOK(lk, {c}, Awaiting \ {c}, Gone),
           StopLocked(c, lk, back)
    PROVE  StopMoves(c, back) /\ LockKept(Gone)'
<1>1. LockOK(Release(lk), {}, Awaiting \ {c}, Gone)
  <2>1. lk.state = Locked
    BY DEF LockOK
  <2> QED  BY <2>1, ReleaseOK DEF Awaiting
<1>2. ASSUME hw_lock' = Release(lk), Goto(c, back), radio' = radio,
             adv_active' = adv_active \/ (GapFails /\ adv_active' = FALSE)
      PROVE  StopMoves(c, back) /\ LockKept(Gone)'
  <2>1. /\ PcOK' /\ pc'[c] = back /\ \A u \in Tasks \ {c} : pc'[u] = pc[u]
        /\ Inside' = Inside \ {c} /\ Awaiting' = Awaiting \ {c}
    BY <1>2, GotoFree DEF InLabels, OutLabels
  <2>2. LockKept(Gone)'
    BY <1>1, <1>2, <2>1 DEF LockKept
  <2> QED  BY <1>2, <2>1, <2>2 DEF StopMoves
<1>3. ASSUME hw_lock' = lk, Goto(c, "stop_sleep"), radio' = Off,
             adv_active, adv_active' = adv_active
      PROVE  StopMoves(c, back) /\ LockKept(Gone)'
  <2>1. /\ PcOK' /\ pc'[c] = "stop_sleep"
        /\ \A u \in Tasks \ {c} : pc'[u] = pc[u]
        /\ Inside' = {c} /\ Awaiting' = Awaiting \ {c}
    BY <1>3, GotoIn DEF InLabels, OutLabels
  <2>2. LockKept(Gone)'
    BY <1>3, <2>1 DEF LockKept
  <2> QED  BY <1>3, <2>1, <2>2 DEF StopMoves
<1> QED  BY <1>2, <1>3 DEF StopLocked

\* stop_ble_advertising of a task that is neither in the lock nor waits for
\* it.
LEMMA StopAdvertisingStep ==
    ASSUME PcOK, NEW c \in Tasks, NEW back \in {"idle", "name_delay"},
           NEW Gone, adv_active \in BOOLEAN, adv_active => ble,
           c \notin Gone, c \notin Inside, c \notin Awaiting, LockKept(Gone),
           StopAdvertising(c, back)
    PROVE  StopMoves(c, back) /\ LockKept(Gone)'
<1>0. /\ Inside \ {c} = Inside /\ Awaiting \ {c} = Awaiting
      /\ Awaiting \in SUBSET Tasks
      /\ LockOK(hw_lock, Inside, Awaiting, Gone)
  BY DEF Awaiting, LockKept
<1>1. CASE /\ adv_active' = adv_active /\ Goto(c, back)
           /\ UNCHANGED << hw_lock, radio >>
  <2>1. /\ PcOK' /\ pc'[c] = back /\ \A u \in Tasks \ {c} : pc'[u] = pc[u]
        /\ Inside' = Inside \ {c} /\ Awaiting' = Awaiting \ {c}
    BY <1>1, GotoFree DEF InLabels, OutLabels
  <2>2. LockKept(Gone)'
    BY <1>0, <1>1, <2>1 DEF LockKept
  <2> QED  BY <1>1, <2>1, <2>2 DEF StopMoves
<1>2. CASE Free(hw_lock) /\ StopLocked(c, Take(hw_lock), back)
  <2>1. /\ Inside = {}
        /\ LockOK(Take(hw_lock), {c}, Awaiting \ {c}, Gone)
    BY <1>0, <1>2, TakeFreeOK
  <2> QED  BY <1>0, <1>2, <2>1, StopLockedStep
<1>3. CASE /\ ~Free(hw_lock) /\ hw_lock' = Enqueue(hw_lock, c)
           /\ Goto(c, "stop_lock") /\ UNCHANGED << adv_active, radio >>
  <2>1. /\ PcOK' /\ pc'[c] = "stop_lock"
        /\ \A u \in Tasks \ {c} : pc'[u] = pc[u]
        /\ Inside' = Inside \ {c}
        /\ Awaiting' = (Awaiting \ {c}) \cup {c}
    BY <1>3, GotoOut DEF InLabels, OutLabels
  <2>2. LockOK(hw_lock', Inside, Awaiting \cup {c}, Gone)
    BY <1>0, <1>3, EnqueueOK
  <2> QED  BY <1>0, <1>3, <2>1, <2>2 DEF StopMoves, LockKept
<1>4. (~ble \/ ~adv_active) /\ adv_active' = FALSE
         => adv_active' = adv_active
  BY Zenon
<1> QED  BY <1>1, <1>2, <1>3, <1>4 DEF StopAdvertising

-----------------------------------------------------------------------------
(***************************************************************************)
(* The BLE handlers.  BleBase holds in every state, BleFlag as long as no  *)
(* task was cancelled in the 10 ms of a stop.                              *)
(***************************************************************************)
BleBase ==
    /\ ble \in BOOLEAN
    /\ adv_active \in BOOLEAN
    /\ ble_name \in Names
    /\ radio \in Names \cup {Off}
    /\ new_name \in [Clients -> Names \cup {NoName}]
    /\ adv_active => ble
    /\ \A c \in Clients :
          /\ pc[c] \in {"start_lock", "start_sleep"} => ble
          /\ pc[c] = "name_delay" => new_name[c] \in Names

BleFlag ==
    /\ \A c \in Clients :
          /\ pc[c] = "start_sleep" => ~adv_active /\ radio # Off
          /\ pc[c] = "stop_sleep" => adv_active /\ radio = Off
    /\ ~Switching => /\ adv_active => radio # Off
                     /\ radio # Off => adv_active \/ GapFails

BleLabels == {"idle", "init_lock", "start_lock", "start_sleep", "stop_lock",
              "stop_sleep", "name_delay"}

\* What a step of the BLE handlers keeps, and StartsOnlyWhenOff of the step.
BleKept(c, Gone) ==
    /\ PcOK' /\ LockKept(Gone)' /\ BleBase'
    /\ pc'[c] \in BleLabels
    /\ \A u \in Tasks \ {c} : pc'[u] = pc[u]
    /\ BleFlag => /\ BleFlag'
                  /\ radio # Off => radio' \in {radio, Off} \/ GapFails

\* A start keeps the flag honest: the re-check under the lock is enough.
LEMMA StartKeepsFlag ==
    ASSUME NEW c \in Clients, NEW name \in Names, NEW Gone,
           BleBase, LockKept(Gone)',
           pc[c] \notin {"start_sleep", "stop_sleep"}, StartMoves(c, name),
           ble' \in BOOLEAN, ble => ble',
           pc'[c] \in {"start_lock", "start_sleep"} => ble',
           ble_name' \in Names,
           new_name' \in [Clients -> Names \cup {NoName}],
           \A u \in Clients \ {c} : new_name'[u] = new_name[u]
    PROVE  BleKept(c, Gone)
<1> USE BoardTasksAssumption, BleControlAssumption
<1>1. BleBase' /\ pc'[c] \in BleLabels
  BY DEF BleBase, StartMoves, BleLabels
<1>2. ASSUME BleFlag
      PROVE  BleFlag' /\ (radio # Off => radio' \in {radio, Off} \/ GapFails)
  <2>1. CASE pc'[c] = "start_sleep"
    <3>1. \A u \in Clients \ {c} : pc[u] \notin {"start_sleep", "stop_sleep"}
      BY <2>1 DEF StartMoves, Inside
    <3>2. ~Switching
      BY <3>1 DEF Switching
    <3>3. radio # Off => GapFails
      BY <1>2, <2>1, <3>2 DEF BleFlag, StartMoves
    <3> QED  BY <1>2, <2>1, <3>1, <3>3 DEF BleFlag, StartMoves, Switching
  <2>2. CASE pc'[c] # "start_sleep"
    <3>1. \A u \in Clients : pc'[u] \in {"start_sleep", "stop_sleep"}
             <=> pc[u] \in {"start_sleep", "stop_sleep"}
      BY <2>2 DEF StartMoves
    <3> QED  BY <1>2, <2>2, <3>1 DEF BleFlag, StartMoves, Switching
  <2> QED  BY <2>1, <2>2
<1> QED  BY <1>1, <1>2 DEF BleKept, StartMoves

\* So does a stop, with what the driver's errors leave behind.
LEMMA StopKeepsFlag ==
    ASSUME NEW c \in Clients, NEW back \in {"idle", "name_delay"}, NEW Gone,
           BleBase, LockKept(Gone)',
           pc[c] \notin {"start_sleep", "stop_sleep"}, StopMoves(c, back),
           UNCHANGED << ble, ble_name >>,
           new_name' \in [Clients -> Names \cup {NoName}],
           \A u \in Clients \ {c} : new_name'[u] = new_name[u],
           back = "name_delay" => new_name'[c] \in Names
    PROVE  BleKept(c, Gone)
<1> USE BoardTasksAssumption, BleControlAssumption
<1>0. adv_active' \in BOOLEAN /\ (adv_active' => adv_active)
  <2>1. adv_active' = adv_active \/ adv_active' = FALSE
    BY DEF StopMoves
  <2>2. adv_active \in BOOLEAN
    BY DEF BleBase
  <2>3. CASE adv_active' = adv_active
    BY <2>2, <2>3
  <2>4. CASE adv_active' = FALSE
    BY ONLY <2>4, Zenon
  <2> QED  BY <2>1, <2>3, <2>4
<1>1. BleBase' /\ pc'[c] \in BleLabels
  BY <1>0 DEF BleBase, StopMoves, BleLabels
<1>2. ASSUME BleFlag
      PROVE  BleFlag' /\ (radio # Off => radio' \in {radio, Off} \/ GapFails)
  <2>1. CASE pc'[c] = "stop_sleep"
    <3>1. \A u \in Clients \ {c} : pc[u] \notin {"start_sleep", "stop_sleep"}
      BY <2>1 DEF StopMoves, Inside
    <3> QED  BY <1>2, <2>1, <3>1 DEF BleFlag, StopMoves, Switching
  <2>2. CASE pc'[c] # "stop_sleep" /\ adv_active' = adv_active
    <3>1. \A u \in Clients : pc'[u] \in {"start_sleep", "stop_sleep"}
             <=> pc[u] \in {"start_sleep", "stop_sleep"}
      BY <2>2 DEF StopMoves
    <3> QED  BY <1>2, <2>2, <3>1 DEF BleFlag, StopMoves, Switching
  <2>3. CASE /\ pc'[c] = back /\ GapFails /\ Inside \ {c} = {}
             /\ adv_active' = FALSE /\ radio' = radio
    <3>1. \A u \in Clients : pc'[u] \notin {"start_sleep", "stop_sleep"}
      BY <2>3 DEF StopMoves, Inside
    <3>2. ~adv_active'
      BY <2>3, Zenon
    <3> QED  BY <1>2, <2>3, <3>1, <3>2 DEF BleFlag, Switching
  <2> QED  BY <2>1, <2>2, <2>3 DEF StopMoves
<1> QED  BY <1>1, <1>2 DEF BleKept, StopMoves

\* acquire() goes on in a task that is off the queue and not cancelled.
LEMMA ResumeLock ==
    ASSUME NEW c \in Awaiting, NEW Gone, c \notin Gone, LockKept(Gone),
           Promised(c)
    PROVE  /\ Inside = {} /\ Inside \ {c} = {}
           /\ LockOK(Take(hw_lock), {c}, Awaiting \ {c}, Gone)
<1>1. Awaiting \in SUBSET Tasks
  BY DEF Awaiting
<1> QED  BY <1>1, TakePromisedOK DEF LockKept, Promised

\* A task leaves "async with hw_lock".
LEMMA LeaveLock ==
    ASSUME PcOK, NEW c \in Inside, NEW Gone, NEW label,
           label \notin InLabels, label \notin OutLabels,
           c \notin Awaiting, LockKept(Gone),
           hw_lock' = Release(hw_lock), Goto(c, label)
    PROVE  /\ PcOK' /\ LockKept(Gone)' /\ pc'[c] = label
           /\ \A u \in Tasks \ {c} : pc'[u] = pc[u]
           /\ Inside \ {c} = {}
<1>1. Awaiting \in SUBSET Tasks /\ c \in Tasks
  BY DEF Awaiting, Inside
<1>2. hw_lock.state = Locked /\ Inside \ {c} = {}
  BY DEF LockKept, LockOK
<1>3. LockOK(hw_lock', {}, Awaiting, Gone)
  BY <1>1, <1>2, ReleaseOK DEF LockKept
<1>4. /\ PcOK' /\ pc'[c] = label /\ \A u \in Tasks \ {c} : pc'[u] = pc[u]
      /\ Inside' = Inside \ {c} /\ Awaiting' = Awaiting \ {c}
  BY <1>1, GotoFree
<1>5. Inside' = {} /\ Awaiting' = Awaiting
  BY <1>2, <1>4
<1> QED  BY <1>2, <1>3, <1>4, <1>5 DEF LockKept

\* Every step of a request under way keeps lock, flag and radio in order.
LEMMA BleStepKept ==
    ASSUME PcOK, NEW c \in Clients, NEW Gone, c \notin Gone,
           LockKept(Gone), BleBase, BleStep(c)
    PROVE  BleKept(c, Gone)
<1> USE BoardTasksAssumption, BleControlAssumption
<1>0. c \in Tasks
  OBVIOUS
<1>1. CASE InitResume(c)
  <2>1. c \in Awaiting /\ Promised(c) /\ pc[c] = "init_lock"
    BY <1>0, <1>1 DEF InitResume, Awaiting, OutLabels
  <2>2. InitLocked(c, Take(hw_lock), ble_name)
    BY <1>1 DEF InitResume
  <2>3. /\ StartMoves(c, ble_name) /\ LockKept(Gone)'
        /\ ble' \in BOOLEAN /\ (ble => ble') /\ (pc'[c] # "idle" => ble')
    <3>1. Inside \ {c} = {} /\ LockOK(Take(hw_lock), {c}, Awaiting \ {c}, Gone)
      BY <2>1, ResumeLock
    <3> QED  BY <1>0, <2>2, <3>1, InitLockedStep DEF BleBase
  <2> QED  BY <1>1, <2>1, <2>3, StartKeepsFlag DEF InitResume, BleBase
<1>2. CASE StartResume(c)
  <2>1. c \in Awaiting /\ Promised(c) /\ pc[c] = "start_lock"
    BY <1>0, <1>2 DEF StartResume, Awaiting, OutLabels
  <2>2. StartLocked(c, Take(hw_lock), ble_name)
    BY <1>2 DEF StartResume
  <2>3. StartMoves(c, ble_name) /\ LockKept(Gone)'
    <3>1. Inside \ {c} = {} /\ LockOK(Take(hw_lock), {c}, Awaiting \ {c}, Gone)
      BY <2>1, ResumeLock
    <3> QED  BY <1>0, <2>2, <3>1, StartLockedStep DEF BleBase
  <2>4. ble' \in BOOLEAN /\ (ble => ble') /\ ble'
    BY <1>2, <2>1 DEF StartResume, BleBase
  <2> QED  BY <1>2, <2>1, <2>3, <2>4, StartKeepsFlag DEF StartResume, BleBase
<1>3. CASE StartDone(c)
  <2>1. c \in Inside /\ c \notin Awaiting /\ pc[c] = "start_sleep"
    BY <1>0, <1>3 DEF StartDone, Inside, Awaiting, OutLabels
  <2>2. /\ PcOK' /\ LockKept(Gone)' /\ pc'[c] = "idle"
        /\ \A u \in Tasks \ {c} : pc'[u] = pc[u]
        /\ Inside \ {c} = {}
    BY <1>3, <2>1, LeaveLock DEF StartDone, InLabels, OutLabels
  <2>3. adv_active' /\ adv_active' \in BOOLEAN
    BY <1>3, Zenon DEF StartDone
  <2>4. UNCHANGED << ble, ble_name, radio, new_name >>
    BY <1>3 DEF StartDone
  <2>5. BleBase'
    BY <2>1, <2>2, <2>3, <2>4 DEF BleBase
  <2>6. BleFlag => BleFlag'
    <3>1. \A u \in Clients : pc'[u] \notin {"start_sleep", "stop_sleep"}
      BY <2>2 DEF Inside
    <3> QED  BY <2>1, <2>3, <2>4, <3>1 DEF BleFlag
  <2> QED  BY <2>2, <2>4, <2>5, <2>6 DEF BleKept, BleLabels
<1>4. CASE StopResume(c)
  <2>1. c \in Awaiting /\ Promised(c) /\ pc[c] = "stop_lock"
    BY <1>0, <1>4 DEF StopResume, Awaiting, OutLabels
  <2>2. /\ StopLocked(c, Take(hw_lock), StopCaller(c))
        /\ StopCaller(c) \in {"idle", "name_delay"}
        /\ StopCaller(c) = "name_delay" => new_name[c] \in Names
    BY <1>4 DEF StopResume, StopCaller, BleBase
  <2>3. StopMoves(c, StopCaller(c)) /\ LockKept(Gone)'
    <3>1. Inside \ {c} = {} /\ LockOK(Take(hw_lock), {c}, Awaiting \ {c}, Gone)
      BY <2>1, ResumeLock
    <3> QED  BY <1>0, <2>2, <3>1, StopLockedStep
  <2> QED  BY <1>4, <2>1, <2>2, <2>3, StopKeepsFlag DEF StopResume, BleBase
<1>5. CASE StopDone(c)
  <2>1. c \in Inside /\ c \notin Awaiting /\ pc[c] = "stop_sleep"
    BY <1>0, <1>5 DEF StopDone, Inside, Awaiting, OutLabels
  <2>2. /\ StopCaller(c) \in {"idle", "name_delay"}
        /\ StopCaller(c) = "name_delay" => new_name[c] \in Names
    BY DEF StopCaller, BleBase
  <2>3. /\ PcOK' /\ LockKept(Gone)' /\ pc'[c] = StopCaller(c)
        /\ \A u \in Tasks \ {c} : pc'[u] = pc[u]
        /\ Inside \ {c} = {}
    BY <1>5, <2>1, <2>2, LeaveLock DEF StopDone, InLabels, OutLabels
  <2>4. ~adv_active' /\ adv_active' \in BOOLEAN
    BY <1>5, Zenon DEF StopDone
  <2>5. UNCHANGED << ble, ble_name, radio, new_name >>
    BY <1>5 DEF StopDone
  <2>6. BleBase'
    BY <2>2, <2>3, <2>4, <2>5 DEF BleBase
  <2>7. BleFlag => BleFlag'
    <3>1. \A u \in Clients : pc'[u] \notin {"start_sleep", "stop_sleep"}
      BY <2>2, <2>3 DEF Inside
    <3> QED  BY <2>1, <2>4, <2>5, <3>1 DEF BleFlag
  <2> QED  BY <2>2, <2>3, <2>5, <2>6, <2>7 DEF BleKept, BleLabels
<1>6. CASE Rename(c)
  <2>1. /\ pc[c] = "name_delay" /\ c \notin Inside /\ c \notin Awaiting
        /\ new_name[c] \in Names
    BY <1>6 DEF Rename, Inside, Awaiting, OutLabels, BleBase
  <2>2. /\ StartMoves(c, new_name[c]) /\ LockKept(Gone)'
        /\ ble' \in BOOLEAN /\ (ble => ble')
        /\ pc'[c] \notin {"idle", "init_lock"} => ble'
    BY <1>0, <1>6, <2>1, StartAdvertisingStep DEF Rename, BleBase
  <2>3. /\ ble_name' \in Names
        /\ new_name' \in [Clients -> Names \cup {NoName}]
        /\ \A u \in Clients \ {c} : new_name'[u] = new_name[u]
    BY <1>6, <2>1 DEF Rename, BleBase
  <2> QED  BY <2>1, <2>2, <2>3, StartKeepsFlag
<1> QED  BY <1>1, <1>2, <1>3, <1>4, <1>5, <1>6 DEF BleStep

\* And so does a new request.
LEMMA BleRequestKept ==
    ASSUME PcOK, NEW c \in Clients, NEW Gone, c \notin Gone,
           LockKept(Gone), BleBase, BleRequest(c)
    PROVE  BleKept(c, Gone)
<1> USE BoardTasksAssumption, BleControlAssumption
<1>0. c \in Tasks /\ pc[c] = "idle" /\ c \notin Inside /\ c \notin Awaiting
  BY DEF BleRequest, BleStart, BleStop, BleSetName, Inside, Awaiting,
         OutLabels
<1>1. CASE BleStart(c)
  <2>1. /\ StartMoves(c, ble_name) /\ LockKept(Gone)'
        /\ ble' \in BOOLEAN /\ (ble => ble')
        /\ pc'[c] \notin {"idle", "init_lock"} => ble'
    BY <1>0, <1>1, StartAdvertisingStep DEF BleStart, BleBase
  <2> QED  BY <1>0, <1>1, <2>1, StartKeepsFlag DEF BleStart, BleBase
<1>2. CASE BleStop(c)
  <2>1. StopMoves(c, "idle") /\ LockKept(Gone)'
    BY <1>0, <1>2, StopAdvertisingStep DEF BleStop, BleBase
  <2> QED  BY <1>0, <1>2, <2>1, StopKeepsFlag DEF BleStop, BleBase
<1>3. ASSUME NEW name \in Names, BleSetName(c, name)
      PROVE  BleKept(c, Gone)
  <2>1. CASE /\ ble_name' = name
             /\ UNCHANGED << hw_lock, pc, ble, adv_active, radio, new_name >>
    <3>1. /\ PcOK' /\ LockKept(Gone)' /\ BleBase' /\ (BleFlag => BleFlag')
      BY <2>1 DEF PcOK, LockKept, Inside, Awaiting, BleBase, BleFlag,
                  Switching
    <3> QED  BY <1>0, <2>1, <3>1 DEF BleKept, BleLabels
  <2>2. CASE /\ new_name' = [new_name EXCEPT ![c] = name]
             /\ StopAdvertising(c, "name_delay")
             /\ UNCHANGED << ble, ble_name >>
    <3>1. StopMoves(c, "name_delay") /\ LockKept(Gone)'
      BY <1>0, <2>2, StopAdvertisingStep DEF BleBase
    <3>2. /\ new_name' \in [Clients -> Names \cup {NoName}]
          /\ \A u \in Clients \ {c} : new_name'[u] = new_name[u]
          /\ new_name'[c] \in Names
      BY <2>2 DEF BleBase
    <3> QED  BY <1>0, <2>2, <3>1, <3>2, StopKeepsFlag
  <2> QED  BY <1>3, <2>1, <2>2 DEF BleSetName
<1> QED  BY <1>1, <1>2, <1>3 DEF BleRequest

-----------------------------------------------------------------------------
(***************************************************************************)
(* The Wi-Fi handler and the reader of the pins                            *)
(***************************************************************************)
WifiBase ==
    /\ ssid \in Ssids
    /\ target \in Ssids \cup {NoSsid}
    /\ up \in BOOLEAN
    /\ nic_error \in BOOLEAN

WifiLabels == {"idle", "wifi_lock", "wifi_sleep", "wifi_poll"}

\* What connect_wifi of the task c does until it yields or ends; s is what
\* Pico_board.ssid is then.
WifiMoves(c, s, Gone) ==
    /\ PcOK' /\ LockKept(Gone)'
    /\ pc'[c] \in WifiLabels
    /\ \A u \in Tasks \ {c} : pc'[u] = pc[u]
    /\ target' \in Ssids \cup {NoSsid}
    /\ up' \in BOOLEAN
    /\ nic_error' \in BOOLEAN
    /\ nic_error' \/ pc'[c] \in {"wifi_lock", "wifi_sleep"} \/ target' = s

\* nic.connect() under the lock, and the lock is released.
LEMMA JoinStep ==
    ASSUME PcOK, NEW c \in Tasks, NEW lk, NEW s \in Ssids, NEW Gone,
           WifiBase, Inside \ {c} = {},
           LockOK(lk, {c}, Awaiting \ {c}, Gone), Join(c, lk, s)
    PROVE  WifiMoves(c, s, Gone)
<1>1. LockOK(Release(lk), {}, Awaiting \ {c}, Gone)
  <2>1. lk.state = Locked
    BY DEF LockOK
  <2> QED  BY <2>1, ReleaseOK DEF Awaiting
<1>2. ASSUME NEW label \in {"idle", "wifi_poll"}, Goto(c, label),
             hw_lock' = Release(lk)
      PROVE  /\ PcOK' /\ LockKept(Gone)' /\ pc'[c] = label
             /\ \A u \in Tasks \ {c} : pc'[u] = pc[u]
  <2>1. /\ PcOK' /\ pc'[c] = label /\ \A u \in Tasks \ {c} : pc'[u] = pc[u]
        /\ Inside' = Inside \ {c} /\ Awaiting' = Awaiting \ {c}
    BY <1>2, GotoFree DEF InLabels, OutLabels
  <2> QED  BY <1>1, <1>2, <2>1 DEF LockKept
<1>3. CASE /\ target' = s /\ nic_error' = FALSE /\ hw_lock' = Release(lk)
           /\ Goto(c, "wifi_poll") /\ UNCHANGED up
  <2>1. nic_error' \in BOOLEAN
    BY ONLY <1>3, Zenon
  <2> QED  BY <1>2, <1>3, <2>1 DEF WifiMoves, WifiBase, WifiLabels
<1>4. CASE /\ nic_error' = TRUE /\ hw_lock' = Release(lk)
           /\ Goto(c, "idle") /\ UNCHANGED << target, up >>
  <2>1. nic_error' \in BOOLEAN /\ nic_error'
    BY ONLY <1>4, Zenon
  <2> QED  BY <1>2, <1>4, <2>1 DEF WifiMoves, WifiBase, WifiLabels
<1> QED  BY <1>3, <1>4 DEF Join

\* The body of connect_wifi under the lock.
LEMMA ConnectLockedStep ==
    ASSUME PcOK, NEW c \in Tasks, NEW lk, NEW s \in Ssids, NEW Gone,
           WifiBase, Inside \ {c} = {},
           LockOK(lk, {c}, Awaiting \ {c}, Gone), ConnectLocked(c, lk, s)
    PROVE  WifiMoves(c, s, Gone)
<1>1. CASE /\ up' = FALSE /\ target' = NoSsid /\ hw_lock' = lk
           /\ Goto(c, "wifi_sleep") /\ UNCHANGED nic_error
  <2>1. /\ PcOK' /\ pc'[c] = "wifi_sleep"
        /\ \A u \in Tasks \ {c} : pc'[u] = pc[u]
        /\ Inside' = {c} /\ Awaiting' = Awaiting \ {c}
    BY <1>1, GotoIn DEF InLabels, OutLabels
  <2>2. up' \in BOOLEAN
    BY ONLY <1>1, Zenon
  <2> QED  BY <1>1, <2>1, <2>2 DEF WifiMoves, WifiBase, WifiLabels, LockKept
<1>2. CASE /\ nic_error' = TRUE /\ hw_lock' = Release(lk) /\ NicFails
           /\ Goto(c, "idle") /\ UNCHANGED << target, up >>
  BY <1>2, JoinStep DEF Join
<1>3. CASE Join(c, lk, s)
  BY <1>3, JoinStep
<1> QED  BY <1>1, <1>2, <1>3 DEF ConnectLocked

\* What a step of connect_wifi keeps.
WifiKept(c, Gone) ==
    /\ PcOK' /\ LockKept(Gone)' /\ WifiBase' /\ NicJoinsReportedSsid'
    /\ pc'[c] \in WifiLabels
    /\ \A u \in Tasks \ {c} : pc'[u] = pc[u]

\* Every step of connect_wifi (pico_board.py) keeps the lock, the nic and the
\* ssid that is reported in agreement.
LEMMA WifiStepKept ==
    ASSUME PcOK, NEW c \in Clients, NEW Gone, c \notin Gone,
           LockKept(Gone), WifiBase, NicJoinsReportedSsid,
           WifiStep(c) \/ WifiRequest(c)
    PROVE  WifiKept(c, Gone)
<1> USE BoardTasksAssumption, WifiControlAssumption
<1>0. c \in Tasks /\ Awaiting \in SUBSET Tasks
  BY DEF Awaiting
<1>1. ASSUME NEW s \in Ssids, ConnectWifi(c, s)
      PROVE  WifiKept(c, Gone)
  <2>1. pc[c] = "idle" /\ ssid' = s
    BY <1>1 DEF ConnectWifi
  <2>2. /\ Inside \ {c} = Inside /\ Awaiting \ {c} = Awaiting
        /\ c \notin Awaiting
        /\ LockOK(hw_lock, Inside, Awaiting, Gone)
    BY <2>1 DEF Inside, Awaiting, OutLabels, LockKept
  <2>3. CASE Free(hw_lock) /\ ConnectLocked(c, Take(hw_lock), s)
    <3>1. Inside = {} /\ LockOK(Take(hw_lock), {c}, Awaiting \ {c}, Gone)
      BY <1>0, <2>2, <2>3, TakeFreeOK
    <3>2. WifiMoves(c, s, Gone)
      BY <1>0, <2>2, <2>3, <3>1, ConnectLockedStep
    <3> QED  BY <2>1, <3>2 DEF WifiMoves, WifiKept, WifiBase,
                               NicJoinsReportedSsid
  <2>4. CASE /\ ~Free(hw_lock) /\ hw_lock' = Enqueue(hw_lock, c)
             /\ Goto(c, "wifi_lock") /\ UNCHANGED << target, up, nic_error >>
    <3>1. /\ PcOK' /\ pc'[c] = "wifi_lock"
          /\ \A u \in Tasks \ {c} : pc'[u] = pc[u]
          /\ Inside' = Inside \ {c}
          /\ Awaiting' = (Awaiting \ {c}) \cup {c}
      BY <1>0, <2>4, GotoOut DEF InLabels, OutLabels
    <3>2. LockOK(hw_lock', Inside, Awaiting \cup {c}, Gone)
      BY <1>0, <2>2, <2>4, EnqueueOK
    <3> QED  BY <2>1, <2>2, <2>4, <3>1, <3>2
                DEF WifiKept, WifiBase, WifiLabels, LockKept,
                    NicJoinsReportedSsid
  <2> QED  BY <1>1, <2>3, <2>4 DEF ConnectWifi
<1>2. CASE ConnectResume(c)
  <2>1. c \in Awaiting /\ Promised(c) /\ ssid' = ssid
    BY <1>0, <1>2 DEF ConnectResume, Awaiting, OutLabels
  <2>2. Inside \ {c} = {} /\ LockOK(Take(hw_lock), {c}, Awaiting \ {c}, Gone)
    BY <2>1, ResumeLock
  <2>3. WifiMoves(c, ssid, Gone)
    BY <1>0, <1>2, <2>2, ConnectLockedStep DEF ConnectResume, WifiBase
  <2> QED  BY <2>1, <2>3 DEF WifiMoves, WifiKept, WifiBase,
                             NicJoinsReportedSsid
<1>3. CASE JoinAfterDisconnect(c)
  <2>1. /\ pc[c] = "wifi_sleep" /\ c \in Inside /\ c \notin Awaiting
        /\ ssid' = ssid
    BY <1>0, <1>3 DEF JoinAfterDisconnect, Inside, Awaiting, OutLabels
  <2>2. /\ Inside \ {c} = {}
        /\ LockOK(hw_lock, {c}, Awaiting \ {c}, Gone)
    <3>1. Inside = {c} /\ Awaiting \ {c} = Awaiting
      BY <2>1 DEF LockKept, LockOK
    <3> QED  BY <3>1 DEF LockKept
  <2>3. WifiMoves(c, ssid, Gone)
    BY <1>0, <1>3, <2>2, JoinStep DEF JoinAfterDisconnect, WifiBase
  <2> QED  BY <2>1, <2>3 DEF WifiMoves, WifiKept, WifiBase,
                             NicJoinsReportedSsid
<1>4. CASE PollEnds(c)
  <2>1. pc[c] = "wifi_poll" /\ UNCHANGED << hw_lock, wifiVars >>
    BY <1>4 DEF PollEnds
  <2>2. /\ PcOK' /\ pc'[c] = "idle" /\ \A u \in Tasks \ {c} : pc'[u] = pc[u]
        /\ Inside' = Inside \ {c} /\ Awaiting' = Awaiting \ {c}
    BY <1>0, <1>4, GotoFree DEF PollEnds, InLabels, OutLabels
  <2>3. Inside' = Inside /\ Awaiting' = Awaiting
    BY <2>1, <2>2 DEF Inside, Awaiting, OutLabels
  <2>4. \A u \in Clients : pc[u] \in {"wifi_lock", "wifi_sleep"}
                             => pc'[u] \in {"wifi_lock", "wifi_sleep"}
    BY <2>1, <2>2
  <2> QED  BY <2>1, <2>2, <2>3, <2>4
              DEF WifiKept, WifiBase, WifiLabels, wifiVars, LockKept,
                  NicJoinsReportedSsid
<1> QED  BY <1>1, <1>2, <1>3, <1>4 DEF WifiStep, WifiRequest

\* "async with hw_lock" of a task that is neither in the lock nor waits.
LEMMA EnterLockStep ==
    ASSUME PcOK, NEW t \in Tasks, NEW lk, NEW Gone, t \notin Gone,
           NEW out \in OutLabels \ InLabels, NEW in \in InLabels \ OutLabels,
           LockOK(lk, Inside \ {t}, Awaiting \ {t}, Gone),
           EnterLock(t, lk, out, in)
    PROVE  /\ PcOK' /\ LockKept(Gone)' /\ pc'[t] \in {out, in}
           /\ \A u \in Tasks \ {t} : pc'[u] = pc[u]
<1>0. Awaiting \ {t} \in SUBSET Tasks /\ t \notin Awaiting \ {t}
  BY DEF Awaiting
<1>1. CASE Free(lk)
  <2>1. /\ Inside \ {t} = {}
        /\ LockOK(Take(lk), {t}, (Awaiting \ {t}) \ {t}, Gone)
    BY <1>0, <1>1, TakeFreeOK
  <2>2. (Awaiting \ {t}) \ {t} = Awaiting \ {t}
    OBVIOUS
  <2>3. hw_lock' = Take(lk) /\ Goto(t, in)
    BY <1>1 DEF EnterLock
  <2>4. /\ PcOK' /\ pc'[t] = in /\ \A u \in Tasks \ {t} : pc'[u] = pc[u]
        /\ Inside' = {t} /\ Awaiting' = Awaiting \ {t}
    BY <2>1, <2>3, GotoIn
  <2> QED  BY <2>1, <2>2, <2>3, <2>4 DEF LockKept
<1>2. CASE ~Free(lk)
  <2>1. LockOK(Enqueue(lk, t), Inside \ {t}, (Awaiting \ {t}) \cup {t}, Gone)
    BY <1>0, <1>2, EnqueueOK
  <2>2. hw_lock' = Enqueue(lk, t) /\ Goto(t, out)
    BY <1>2 DEF EnterLock
  <2>3. /\ PcOK' /\ pc'[t] = out /\ \A u \in Tasks \ {t} : pc'[u] = pc[u]
        /\ Inside' = Inside \ {t} /\ Awaiting' = (Awaiting \ {t}) \cup {t}
    BY <2>2, GotoOut
  <2> QED  BY <2>1, <2>2, <2>3 DEF LockKept
<1> QED  BY <1>1, <1>2

\* Steps of others leave the two handlers as they are.
LEMMA BleUntouched ==
    ASSUME UNCHANGED bleVars,
           \A u \in Clients :
              \/ pc'[u] = pc[u]
              \/ /\ pc[u] \notin BleLabels \ {"idle"}
                 /\ pc'[u] \notin BleLabels \ {"idle"}
    PROVE  (BleBase => BleBase') /\ (BleFlag => BleFlag')
<1>1. \A u \in Clients : \A l \in BleLabels \ {"idle"} :
         pc'[u] = l <=> pc[u] = l
  OBVIOUS
<1>2. Switching' <=> Switching
  BY <1>1 DEF Switching, BleLabels
<1> QED  BY <1>1, <1>2 DEF BleBase, BleFlag, bleVars, BleLabels

\* Steps of other handlers leave what is known of the Wi-Fi as it is.
LEMMA WifiUntouched ==
    ASSUME UNCHANGED << ssid, target, nic_error >>, up' \in BOOLEAN,
           \A u \in Clients :
              pc'[u] = pc[u] \/ pc[u] \notin {"wifi_lock", "wifi_sleep"}
    PROVE  /\ WifiBase => WifiBase'
           /\ NicJoinsReportedSsid => NicJoinsReportedSsid'
  BY DEF WifiBase, NicJoinsReportedSsid

\* Whoever is at an await of one handler is at none of the other.
LEMMA BleStepFrom ==
    ASSUME NEW c, BleStep(c) \/ BleRequest(c)
    PROVE  pc[c] \in BleLabels
  BY DEF BleStep, BleRequest, InitResume, StartResume, StartDone, StopResume,
         StopDone, Rename, BleStart, BleStop, BleSetName, BleLabels

\* The same for the steps of connect_wifi.
LEMMA WifiStepFrom ==
    ASSUME NEW c, WifiStep(c) \/ WifiRequest(c)
    PROVE  pc[c] \in WifiLabels
  BY DEF WifiStep, WifiRequest, ConnectWifi, ConnectResume,
         JoinAfterDisconnect, PollEnds, WifiLabels

-----------------------------------------------------------------------------
(***************************************************************************)
(* The two radios (MCRadio)                                                *)
(***************************************************************************)
RadioInv == /\ PcOK /\ LockKept({}) /\ BleBase /\ BleFlag
            /\ WifiBase /\ NicJoinsReportedSsid

\* Every step of the composition keeps the invariant, and advertising is
\* started only while the radio is off.
RadioKept ==
    RadioInv' /\ (radio # Off => radio' \in {radio, Off} \/ GapFails)

\* The radios are off and the lock is free at first.
LEMMA RadioInit == Init => RadioInv
<1> SUFFICES ASSUME Init PROVE RadioInv
  OBVIOUS
<1> USE BoardTasksAssumption, BleControlAssumption, WifiControlAssumption
<1>1. PcOK /\ \A t \in Tasks : pc[t] = "idle"
  BY DEF Init, PcOK
<1>2. Inside = {} /\ Awaiting = {}
  BY <1>1 DEF Inside, Awaiting, OutLabels
<1>3. LockKept({})
  BY <1>2, NewLockOK DEF Init, LockKept
<1>4. ble \in BOOLEAN /\ ~adv_active /\ adv_active \in BOOLEAN
  <2>1. BleInit
    BY DEF Init
  <2> QED  BY ONLY <2>1, BleControlAssumption, Zenon DEF BleInit
<1>5. BleBase /\ BleFlag
  BY <1>1, <1>4 DEF Init, BleInit, BleBase, BleFlag, Switching
<1>6. up \in BOOLEAN /\ nic_error \in BOOLEAN
  BY Zenon DEF Init, WifiInit
<1>7. WifiBase /\ NicJoinsReportedSsid
  BY <1>6 DEF Init, WifiInit, WifiBase, NicJoinsReportedSsid
<1> QED  BY <1>1, <1>3, <1>5, <1>7 DEF RadioInv

\* A turn of the pin reader.
LEMMA ReaderKept ==
    ASSUME RadioInv, ReadBegins \/ ReadGoesOn,
           UNCHANGED << bleVars, wifiVars >>
    PROVE  RadioKept
<1> USE BoardTasksAssumption
<1>1. /\ PcOK' /\ LockKept({})'
      /\ \A u \in Tasks \ {Scanner} : pc'[u] = pc[u]
  <2>1. CASE ReadBegins
    <3>1. Inside \ {Scanner} = Inside /\ Awaiting \ {Scanner} = Awaiting
      BY <2>1 DEF ReadBegins, Inside, Awaiting, OutLabels
    <3>2. "read_lock" \in OutLabels \ InLabels
           /\ "read_body" \in InLabels \ OutLabels
      BY DEF InLabels, OutLabels
    <3>3. LockOK(hw_lock, Inside \ {Scanner}, Awaiting \ {Scanner}, {})
      BY <3>1 DEF RadioInv, LockKept
    <3>4. EnterLock(Scanner, hw_lock, "read_lock", "read_body")
      BY <2>1 DEF ReadBegins
    <3> QED  BY <3>2, <3>3, <3>4, EnterLockStep DEF RadioInv
  <2>2. CASE /\ pc[Scanner] = "read_lock" /\ Promised(Scanner)
             /\ hw_lock' = Take(hw_lock) /\ Goto(Scanner, "read_body")
    <3>1. Scanner \in Awaiting
      BY <2>2 DEF Awaiting, OutLabels
    <3>2. /\ Inside \ {Scanner} = {}
          /\ LockOK(hw_lock', {Scanner}, Awaiting \ {Scanner}, {})
      BY <2>2, <3>1, ResumeLock DEF RadioInv
    <3>3. /\ PcOK' /\ \A u \in Tasks \ {Scanner} : pc'[u] = pc[u]
          /\ Inside' = {Scanner} /\ Awaiting' = Awaiting \ {Scanner}
      BY <2>2, <3>2, GotoIn DEF RadioInv, InLabels, OutLabels
    <3> QED  BY <3>2, <3>3 DEF LockKept
  <2>3. CASE /\ pc[Scanner] = "read_body" /\ hw_lock' = Release(hw_lock)
             /\ Goto(Scanner, "idle")
    <3>1. Scanner \in Inside /\ Scanner \notin Awaiting
      BY <2>3 DEF Inside, Awaiting, OutLabels
    <3> QED  BY <2>3, <3>1, LeaveLock DEF RadioInv, InLabels, OutLabels
  <2> QED  BY <2>1, <2>2, <2>3 DEF ReadGoesOn
<1>2. \A u \in Clients : pc'[u] = pc[u]
  BY <1>1
<1>3. BleBase' /\ BleFlag'
  BY <1>2, BleUntouched DEF RadioInv
<1>4. WifiBase' /\ NicJoinsReportedSsid'
  BY <1>2, WifiUntouched DEF RadioInv, wifiVars, WifiBase
<1> QED  BY <1>1, <1>3, <1>4 DEF RadioKept, RadioInv, bleVars

\* Every step of a client, of the pin reader or of the link keeps the
\* invariant of the radios.
LEMMA RadioNext ==
    ASSUME RadioInv, [Next]_radioVars
    PROVE  RadioKept
<1> USE BoardTasksAssumption
<1>1. CASE ReaderTurn \/ (ReadBegins /\ UNCHANGED << bleVars, wifiVars >>)
  BY <1>1, ReaderKept DEF ReaderTurn
<1>2. CASE Link /\ UNCHANGED bleVars
  <2>1. UNCHANGED << hw_lock, pc, ssid, target, nic_error >>
    BY <1>2 DEF Link, LinkComesUp, LinkGoesDown
  <2>2. up' \in BOOLEAN
    BY <1>2, Zenon DEF Link, LinkComesUp, LinkGoesDown
  <2>3. PcOK' /\ LockKept({})'
    BY <2>1 DEF RadioInv, PcOK, LockKept, Inside, Awaiting
  <2>4. BleBase' /\ BleFlag'
    BY <1>2, <2>1, BleUntouched DEF RadioInv
  <2>5. WifiBase' /\ NicJoinsReportedSsid'
    BY <2>1, <2>2, WifiUntouched DEF RadioInv
  <2> QED  BY <1>2, <2>3, <2>4, <2>5 DEF RadioKept, RadioInv, bleVars
<1>3. ASSUME NEW c \in Clients, BleStep(c) \/ BleRequest(c),
             UNCHANGED wifiVars
      PROVE  RadioKept
  <2>1. BleKept(c, {})
    BY <1>3, BleStepKept, BleRequestKept DEF RadioInv
  <2>2. pc[c] \in BleLabels
    BY <1>3, BleStepFrom
  <2>3. \A u \in Clients : pc'[u] = pc[u]
                            \/ pc[u] \notin {"wifi_lock", "wifi_sleep"}
    BY <2>1, <2>2 DEF BleKept, BleLabels
  <2>4. WifiBase' /\ NicJoinsReportedSsid'
    BY <1>3, <2>3, WifiUntouched DEF RadioInv, wifiVars, WifiBase
  <2> QED  BY <2>1, <2>4 DEF BleKept, RadioKept, RadioInv
<1>4. ASSUME NEW c \in Clients, WifiStep(c) \/ WifiRequest(c),
             UNCHANGED bleVars
      PROVE  RadioKept
  <2>1. WifiKept(c, {})
    BY <1>4, WifiStepKept DEF RadioInv
  <2>2. pc[c] \in WifiLabels
    BY <1>4, WifiStepFrom
  <2>3. \A u \in Clients :
           \/ pc'[u] = pc[u]
           \/ /\ pc[u] \notin BleLabels \ {"idle"}
              /\ pc'[u] \notin BleLabels \ {"idle"}
    BY <2>1, <2>2 DEF WifiKept, WifiLabels, BleLabels
  <2>4. BleBase' /\ BleFlag'
    BY <1>4, <2>3, BleUntouched DEF RadioInv
  <2> QED  BY <1>4, <2>1, <2>4 DEF WifiKept, RadioKept, RadioInv, bleVars
<1>5. CASE UNCHANGED radioVars
  <2>1. UNCHANGED << hw_lock, pc, bleVars, wifiVars >>
    BY <1>5 DEF radioVars
  <2>2. PcOK' /\ LockKept({})'
    BY <2>1 DEF RadioInv, PcOK, LockKept, Inside, Awaiting
  <2>3. BleBase' /\ BleFlag'
    BY <2>1, BleUntouched DEF RadioInv
  <2>4. WifiBase' /\ NicJoinsReportedSsid'
    BY <2>1, WifiUntouched DEF RadioInv, wifiVars, WifiBase
  <2> QED  BY <2>1, <2>2, <2>3, <2>4 DEF RadioKept, RadioInv, bleVars
<1> QED  BY <1>1, <1>2, <1>3, <1>4, <1>5 DEF Next, BleTurn, WifiTurn

\* The invariant of the two radios is inductive.
THEOREM RadioInvHolds == Spec => []RadioInv
<1>1. Init => RadioInv
  BY RadioInit
<1>2. RadioInv /\ [Next]_radioVars => RadioInv'
  BY RadioNext DEF RadioKept
<1> QED  BY <1>1, <1>2, PTL DEF Spec

\* The flag that is reported as "Advertising" tells the truth about the
\* radio, outside of the 10 ms in which it is switched, for any number of
\* clients that start, stop and rename at once.
THEOREM FlagIsHonest == Spec => []FlagTracksRadio
<1>1. RadioInv => FlagTracksRadio
  BY DEF RadioInv, BleBase, BleFlag, FlagTracksRadio
<1> QED  BY <1>1, RadioInvHolds, PTL

\* Of any number of concurrent connects, the one that set ssid last is the
\* one that the nic joins.
THEOREM LastConnectWins == Spec => []NicJoinsReportedSsid
<1>1. RadioInv => NicJoinsReportedSsid
  BY DEF RadioInv
<1> QED  BY <1>1, RadioInvHolds, PTL

\* One client at a time uses the radios, nobody waits in front of a free
\* lock, and gap_advertise starts the radio only when it is off.
THEOREM RadioIsShared == Spec => OneRadioUser
<1> DEFINE P == radio # Off => radio' \in {radio, Off} \/ GapFails
<1>1. RadioInv => BleTypeOK /\ WifiTypeOK /\ RadioLockDiscipline
  BY DEF RadioInv, LockKept, LockOK, BleBase, WifiBase, BleTypeOK, WifiTypeOK,
         RadioLockDiscipline, Free
<1>2. RadioInv /\ [Next]_radioVars => [P]_bleAllVars
  BY RadioNext DEF RadioKept
<1> QED  BY <1>1, <1>2, RadioInvHolds, PTL
            DEF Spec, OneRadioUser, StartsOnlyWhenOff

-----------------------------------------------------------------------------
(***************************************************************************)
(* The pin worker and the input scanner                                    *)
(***************************************************************************)
WorkerLabels == {"w_get", "w_lock", "w_inner", "w_yield", "w_error"}
ScannerLabels == {"s_sleep", "s_lock", "s_read"}

\* The task t moves and leaves the lock in order.
Moved(t, Labels, Gone) ==
    /\ PcOK' /\ LockKept(Gone)'
    /\ pc'[t] \in Labels
    /\ \A u \in Tasks \ {t} : pc'[u] = pc[u]

\* A task outside of the lock moves to another place outside of it.
LEMMA MoveOutside ==
    ASSUME PcOK, NEW t \in Tasks, NEW label, NEW Gone,
           label \notin InLabels, label \notin OutLabels,
           t \notin Inside, t \notin Awaiting,
           LockKept(Gone), hw_lock' = hw_lock, Goto(t, label)
    PROVE  Moved(t, {label}, Gone)
<1>1. /\ PcOK' /\ pc'[t] = label /\ \A u \in Tasks \ {t} : pc'[u] = pc[u]
      /\ Inside' = Inside \ {t} /\ Awaiting' = Awaiting \ {t}
  BY GotoFree
<1>2. Inside' = Inside /\ Awaiting' = Awaiting
  BY <1>1
<1> QED  BY <1>1, <1>2 DEF Moved, LockKept

\* An action of the worker, from the moment it has the lock: an exception
\* releases it, and the worker that waits for itself is on the queue.
LEMMA PerformActionStep ==
    ASSUME PcOK, NEW lk, NEW Gone, NEW a, NEW q, Worker \notin Gone,
           Inside \ {Worker} = {},
           LockOK(lk, {Worker}, Awaiting \ {Worker}, Gone),
           PerformAction(a, q, lk)
    PROVE  Moved(Worker, WorkerLabels, Gone)
<1> USE BoardTasksAssumption
<1>0. /\ lk.state = Locked
      /\ Awaiting \ {Worker} \in SUBSET Tasks
      /\ Worker \notin Awaiting \ {Worker}
  BY DEF LockOK, Awaiting
<1>1. CASE hw_lock' = Release(lk) /\ Goto(Worker, "w_error")
  <2>1. LockOK(hw_lock', {}, Awaiting \ {Worker}, Gone)
    BY <1>0, <1>1, ReleaseOK
  <2>2. /\ PcOK' /\ pc'[Worker] = "w_error"
        /\ \A u \in Tasks \ {Worker} : pc'[u] = pc[u]
        /\ Inside' = Inside \ {Worker} /\ Awaiting' = Awaiting \ {Worker}
    BY <1>1, GotoFree DEF InLabels, OutLabels
  <2> QED  BY <2>1, <2>2 DEF Moved, LockKept, WorkerLabels
<1>2. CASE hw_lock' = Enqueue(lk, Worker) /\ Goto(Worker, "w_inner")
  <2>1. ~Free(lk)
    BY <1>0 DEF Free, Locked, Unlocked
  <2>2. LockOK(hw_lock', {Worker}, (Awaiting \ {Worker}) \cup {Worker}, Gone)
    BY <1>0, <1>2, <2>1, EnqueueOK
  <2>3. /\ PcOK' /\ pc'[Worker] = "w_inner"
        /\ \A u \in Tasks \ {Worker} : pc'[u] = pc[u]
        /\ Inside' = (Inside \ {Worker}) \cup {Worker}
        /\ Awaiting' = (Awaiting \ {Worker}) \cup {Worker}
    BY <1>2, GotoMoves DEF InLabels, OutLabels
  <2>4. Inside' = {Worker}
    BY <2>3
  <2> QED  BY <2>2, <2>3, <2>4 DEF Moved, LockKept, WorkerLabels
<1>3. CASE hw_lock' = lk /\ Goto(Worker, "w_yield")
  <2>1. /\ PcOK' /\ pc'[Worker] = "w_yield"
        /\ \A u \in Tasks \ {Worker} : pc'[u] = pc[u]
        /\ Inside' = {Worker} /\ Awaiting' = Awaiting \ {Worker}
    BY <1>3, GotoIn DEF InLabels, OutLabels
  <2> QED  BY <1>3, <2>1 DEF Moved, LockKept, WorkerLabels
<1> QED  BY <1>1, <1>2, <1>3 DEF PerformAction

\* Every step of the worker.
LEMMA WorkerStepMoves ==
    ASSUME PcOK, NEW Gone, Worker \notin Gone, LockKept(Gone), WorkerStep
    PROVE  /\ Moved(Worker, WorkerLabels, Gone)
           /\ pc[Worker] \in WorkerLabels
<1> USE BoardTasksAssumption
<1>0. Awaiting \in SUBSET Tasks
  BY DEF Awaiting
<1>1. CASE WorkerGet
  <2>1. /\ pc[Worker] = "w_get"
        /\ Worker \notin Inside /\ Worker \notin Awaiting
        /\ Inside \ {Worker} = Inside /\ Awaiting \ {Worker} = Awaiting
    BY <1>1 DEF WorkerGet, Inside, Awaiting, OutLabels
  <2>2. CASE UNCHANGED << hw_lock, pc >>
    BY <2>1, <2>2 DEF Moved, WorkerLabels, PcOK, LockKept, Inside, Awaiting
  <2>3. CASE /\ Free(hw_lock)
             /\ PerformAction(Head(queue), Tail(queue), Take(hw_lock))
    <3>1. /\ Inside = {}
          /\ LockOK(Take(hw_lock), {Worker}, Awaiting \ {Worker}, Gone)
      BY <1>0, <2>3, TakeFreeOK DEF LockKept
    <3> QED
      BY <2>1, <2>3, <3>1, PerformActionStep DEF WorkerLabels
  <2>4. CASE /\ ~Free(hw_lock) /\ hw_lock' = Enqueue(hw_lock, Worker)
             /\ Goto(Worker, "w_lock")
    <3>1. LockOK(hw_lock', Inside, Awaiting \cup {Worker}, Gone)
      BY <1>0, <2>1, <2>4, EnqueueOK DEF LockKept
    <3>2. /\ PcOK' /\ pc'[Worker] = "w_lock"
          /\ \A u \in Tasks \ {Worker} : pc'[u] = pc[u]
          /\ Inside' = Inside \ {Worker}
          /\ Awaiting' = (Awaiting \ {Worker}) \cup {Worker}
      BY <2>4, GotoOut DEF InLabels, OutLabels
    <3> QED  BY <2>1, <3>1, <3>2 DEF Moved, LockKept, WorkerLabels
  <2> QED  BY <1>1, <2>2, <2>3, <2>4 DEF WorkerGet
<1>2. CASE WorkerResume
  <2>1. /\ Worker \in Awaiting /\ Promised(Worker) /\ pc[Worker] = "w_lock"
        /\ PerformAction(action, queue, Take(hw_lock))
    BY <1>2 DEF WorkerResume, Awaiting, OutLabels
  <2>2. /\ Inside \ {Worker} = {}
        /\ LockOK(Take(hw_lock), {Worker}, Awaiting \ {Worker}, Gone)
    BY <2>1, ResumeLock
  <2> QED  BY <2>1, <2>2, PerformActionStep DEF WorkerLabels
<1>3. CASE WorkerDone
  <2>1. /\ pc[Worker] = "w_yield"
        /\ Worker \in Inside /\ Worker \notin Awaiting
    BY <1>3 DEF WorkerDone, Inside, Awaiting, OutLabels
  <2> QED
    BY <1>3, <2>1, LeaveLock
       DEF WorkerDone, InLabels, OutLabels, WorkerLabels, Moved
<1>4. CASE WorkerRetry
  <2>1. /\ pc[Worker] = "w_error"
        /\ Worker \notin Inside /\ Worker \notin Awaiting
    BY <1>4 DEF WorkerRetry, Inside, Awaiting, OutLabels
  <2>2. Moved(Worker, {"w_get"}, Gone)
    BY <1>4, <2>1, MoveOutside DEF WorkerRetry, InLabels, OutLabels
  <2> QED  BY <2>1, <2>2 DEF Moved, WorkerLabels
<1> QED  BY <1>1, <1>2, <1>3, <1>4 DEF WorkerStep

\* The scan from one pin on.
LEMMA ScanFromStep ==
    ASSUME PcOK, NEW lk, NEW Gone, NEW k, Scanner \notin Gone,
           LockOK(lk, Inside \ {Scanner}, Awaiting \ {Scanner}, Gone),
           ScanFrom(k, lk)
    PROVE  Moved(Scanner, ScannerLabels, Gone)
<1> USE BoardTasksAssumption
<1>1. CASE k > Len(InPins)
  <2>1. hw_lock' = lk /\ Goto(Scanner, "s_sleep")
    BY <1>1 DEF ScanFrom
  <2>2. /\ PcOK' /\ pc'[Scanner] = "s_sleep"
        /\ \A u \in Tasks \ {Scanner} : pc'[u] = pc[u]
        /\ Inside' = Inside \ {Scanner} /\ Awaiting' = Awaiting \ {Scanner}
    BY <2>1, GotoFree DEF InLabels, OutLabels
  <2> QED  BY <2>1, <2>2 DEF Moved, LockKept, ScannerLabels
<1>2. CASE ~(k > Len(InPins))
  <2>1. EnterLock(Scanner, lk, "s_lock", "s_read")
    BY <1>2 DEF ScanFrom
  <2>2. "s_lock" \in OutLabels \ InLabels /\ "s_read" \in InLabels \ OutLabels
    BY DEF InLabels, OutLabels
  <2> QED  BY <2>1, <2>2, EnterLockStep DEF Moved, ScannerLabels
<1> QED  BY <1>1, <1>2

\* Every step of the scanner.
LEMMA ScannerStepMoves ==
    ASSUME PcOK, NEW Gone, Scanner \notin Gone, LockKept(Gone), ScannerStep
    PROVE  /\ Moved(Scanner, ScannerLabels, Gone)
           /\ pc[Scanner] \in ScannerLabels
<1> USE BoardTasksAssumption
<1>0. Awaiting \in SUBSET Tasks
  BY DEF Awaiting
<1>1. CASE ScanStart
  <2>1. /\ pc[Scanner] = "s_sleep"
        /\ Inside \ {Scanner} = Inside /\ Awaiting \ {Scanner} = Awaiting
    BY <1>1 DEF ScanStart, Inside, Awaiting, OutLabels
  <2> QED
    BY <1>1, <2>1, ScanFromStep DEF ScanStart, LockKept, ScannerLabels
<1>2. CASE ScanResume
  <2>1. Scanner \in Awaiting /\ Promised(Scanner) /\ pc[Scanner] = "s_lock"
    BY <1>2 DEF ScanResume, Awaiting, OutLabels
  <2>2. /\ Inside \ {Scanner} = {}
        /\ LockOK(Take(hw_lock), {Scanner}, Awaiting \ {Scanner}, Gone)
    BY <2>1, ResumeLock
  <2>3. /\ PcOK' /\ pc'[Scanner] = "s_read"
        /\ \A u \in Tasks \ {Scanner} : pc'[u] = pc[u]
        /\ Inside' = {Scanner} /\ Awaiting' = Awaiting \ {Scanner}
    BY <1>2, <2>2, GotoIn DEF ScanResume, InLabels, OutLabels
  <2> QED
    BY <1>2, <2>1, <2>2, <2>3 DEF ScanResume, Moved, LockKept, ScannerLabels
<1>3. CASE ScanRead
  <2>1. /\ pc[Scanner] = "s_read" /\ ScanFrom(scan + 1, Release(hw_lock))
        /\ Scanner \in Inside /\ Scanner \notin Awaiting
    BY <1>3 DEF ScanRead, Inside, Awaiting, OutLabels
  <2>2. /\ hw_lock.state = Locked
        /\ Inside \ {Scanner} = {} /\ Awaiting \ {Scanner} = Awaiting
    BY <2>1 DEF LockKept, LockOK
  <2>3. LockOK(Release(hw_lock), {}, Awaiting, Gone)
    BY <1>0, <2>2, ReleaseOK DEF LockKept
  <2> QED  BY <2>1, <2>2, <2>3, ScanFromStep DEF ScannerLabels
<1> QED  BY <1>1, <1>2, <1>3 DEF ScannerStep

\* What the worker and the scanner know of the queue, the action and the pins.
PinData ==
    /\ queue \in Seq(Actions) /\ Len(queue) <= QueueSize
    /\ unfinished \in Nat /\ TaskDoneNeverOverrun
    /\ action \in Actions \cup {NoAction}
    /\ scan \in 1..(Len(InPins) + 1)
    /\ pc[Scanner] \in {"s_lock", "s_read"} => scan \in 1..Len(InPins)
    /\ level \in [Inputs -> Bits]
    /\ value_cache \in [Inputs -> Bits]
    /\ last_out_value \in [OutPins -> Bits]

PinInv ==
    /\ PcOK /\ LockKept({}) /\ PinData
    /\ pc[Worker] \in WorkerLabels
    /\ pc[Scanner] \in ScannerLabels
    /\ \A t \in Tasks \ {Worker, Scanner} : pc[t] = "idle"

\* put_nowait of a list keeps the queue within its size, and every item that
\* is kept is one more to acknowledge.
LEMMA PutAllData ==
    ASSUME PinData, NEW s \in Seq(Actions), PutAll(s)
    PROVE  /\ queue' \in Seq(Actions) /\ Len(queue') <= QueueSize
           /\ unfinished' \in Nat
           /\ \E kept \in Nat : /\ Len(queue') = Len(queue) + kept
                                /\ unfinished' = unfinished + kept
<1> USE PinActionsAssumption
<1> DEFINE kept == Room(Len(s))
<1>1. /\ queue \in Seq(Actions) /\ Len(queue) \in Nat /\ Len(s) \in Nat
      /\ Len(queue) <= QueueSize /\ unfinished \in Nat
  BY DEF PinData
<1>2. kept \in Nat /\ kept <= Len(s) /\ Len(queue) + kept <= QueueSize
  BY <1>1 DEF Room
<1> HIDE DEF kept
<1>3. SubSeq(s, 1, kept) \in Seq(Actions) /\ Len(SubSeq(s, 1, kept)) = kept
  BY <1>1, <1>2
<1>4. queue' = queue \o SubSeq(s, 1, kept) /\ unfinished' = unfinished + kept
  BY DEF PutAll, kept
<1>5. queue' \in Seq(Actions) /\ Len(queue') = Len(queue) + kept
  BY <1>1, <1>3, <1>4
<1>6. unfinished' \in Nat /\ Len(queue') <= QueueSize
  BY <1>1, <1>2, <1>4, <1>5
<1> QED  BY <1>2, <1>4, <1>5, <1>6

\* The steps of the worker keep the queue's books.
LEMMA WorkerStepData ==
    ASSUME PcOK, PinData, WorkerStep
    PROVE  /\ PinData' /\ UNCHANGED << scan, level, value_cache >>
           /\ pc'[Scanner] = pc[Scanner]
<1> USE BoardTasksAssumption, PinActionsAssumption
<1> DEFINE busy == {"w_lock", "w_inner", "w_yield"}
<1>0. /\ queue \in Seq(Actions) /\ Len(queue) \in Nat
      /\ Len(queue) <= QueueSize /\ unfinished \in Nat
      /\ unfinished >= Len(queue)
      /\ pc[Worker] \in busy => unfinished >= Len(queue) + 1
  BY DEF PinData, TaskDoneNeverOverrun
<1>1. \A l : Goto(Worker, l) => pc'[Worker] = l /\ pc'[Scanner] = pc[Scanner]
  BY DEF Goto, PcOK
<1>2. ASSUME NEW a, NEW q \in Seq(Actions), NEW lk, PerformAction(a, q, lk),
             unfinished >= Len(q) + 1
      PROVE  /\ unfinished' \in Nat /\ unfinished' >= Len(q)
             /\ pc'[Worker] \in busy => unfinished' >= Len(q) + 1
             /\ pc'[Scanner] = pc[Scanner]
  <2>1. Len(q) \in Nat /\ (q # << >> <=> Len(q) > 0)
    OBVIOUS
  <2> QED  BY <1>0, <1>1, <1>2, <2>1 DEF PerformAction
<1>3. CASE WorkerGet
  <2>1. /\ queue # << >> /\ queue' = Tail(queue)
        /\ Tail(queue) \in Seq(Actions) /\ Len(Tail(queue)) = Len(queue) - 1
        /\ Head(queue) \in Actions
    BY <1>0, <1>3 DEF WorkerGet
  <2>2. action' \in Actions \cup {NoAction}
    BY <1>3, <2>1 DEF WorkerGet
  <2>3. /\ unfinished' \in Nat /\ unfinished' >= Len(queue')
        /\ pc'[Worker] \in busy => unfinished' >= Len(queue') + 1
        /\ pc'[Scanner] = pc[Scanner]
    <3>1. CASE unfinished' = unfinished - 1 /\ UNCHANGED << hw_lock, pc >>
      <4>1. pc'[Worker] = "w_get" /\ pc'[Scanner] = pc[Scanner]
        BY <1>3, <3>1 DEF WorkerGet
      <4>2. /\ Len(queue') \in Nat /\ Len(queue) = Len(queue') + 1
            /\ unfinished' \in Nat /\ unfinished' >= Len(queue')
        BY <1>0, <2>1, <3>1
      <4> QED  BY <4>1, <4>2
    <3>2. CASE PerformAction(Head(queue), Tail(queue), Take(hw_lock))
      <4>1. unfinished >= Len(Tail(queue)) + 1
        BY <1>0, <2>1
      <4> QED  BY <1>2, <2>1, <3>2, <4>1
    <3>3. CASE Goto(Worker, "w_lock") /\ UNCHANGED unfinished
      BY <1>0, <1>1, <2>1, <3>3
    <3> QED  BY <1>3, <3>1, <3>2, <3>3 DEF WorkerGet
  <2>4. UNCHANGED << scan, level, value_cache, last_out_value >>
    BY <1>3 DEF WorkerGet
  <2> QED
    BY <1>0, <2>1, <2>2, <2>3, <2>4 DEF PinData, TaskDoneNeverOverrun
<1>4. CASE WorkerResume
  <2>1. UNCHANGED << queue, action, scan, level, value_cache,
                     last_out_value >>
    BY <1>4 DEF WorkerResume
  <2>2. /\ unfinished' \in Nat /\ unfinished' >= Len(queue)
        /\ pc'[Worker] \in busy => unfinished' >= Len(queue) + 1
        /\ pc'[Scanner] = pc[Scanner]
    BY <1>0, <1>2, <1>4 DEF WorkerResume
  <2> QED  BY <2>1, <2>2 DEF PinData, TaskDoneNeverOverrun
<1>5. CASE WorkerDone
  <2>1. /\ unfinished' = unfinished - 1 /\ action' = NoAction
        /\ UNCHANGED << queue, scan, level, value_cache, last_out_value >>
        /\ pc[Worker] = "w_yield" /\ pc'[Worker] = "w_get"
        /\ pc'[Scanner] = pc[Scanner]
    BY <1>1, <1>5 DEF WorkerDone
  <2> QED  BY <1>0, <2>1 DEF PinData, TaskDoneNeverOverrun
<1>6. CASE WorkerRetry
  <2>1. /\ action' = NoAction
        /\ UNCHANGED << queue, unfinished, scan, level, value_cache,
                        last_out_value >>
        /\ pc'[Worker] = "w_get" /\ pc'[Scanner] = pc[Scanner]
    BY <1>1, <1>6 DEF WorkerRetry
  <2> QED  BY <1>0, <2>1 DEF PinData, TaskDoneNeverOverrun
<1> QED  BY <1>3, <1>4, <1>5, <1>6 DEF WorkerStep

\* The scanner stays at a pin that exists.
LEMMA ScannerStepData ==
    ASSUME PcOK, PinData, ScannerStep
    PROVE  PinData'
<1> USE BoardTasksAssumption, PinActionsAssumption
<1>0. Len(InPins) \in Nat /\ scan \in 1..(Len(InPins) + 1)
  BY DEF PinData
<1>1. \A l : Goto(Scanner, l) => pc'[Scanner] = l /\ pc'[Worker] = pc[Worker]
  BY DEF Goto, PcOK
<1>2. UNCHANGED << queue, unfinished, action, level, last_out_value >>
  BY DEF ScannerStep, ScanStart, ScanResume, ScanRead, pinVars
<1>3. ASSUME NEW k \in 1..(Len(InPins) + 1), NEW lk, ScanFrom(k, lk)
      PROVE  /\ scan' \in 1..(Len(InPins) + 1)
             /\ pc'[Scanner] \in {"s_lock", "s_read"}
                  => scan' \in 1..Len(InPins)
             /\ pc'[Worker] = pc[Worker]
  <2>1. CASE k > Len(InPins)
    BY <1>0, <1>1, <1>3, <2>1 DEF ScanFrom
  <2>2. CASE ~(k > Len(InPins))
    BY <1>0, <1>1, <1>3, <2>2 DEF ScanFrom, EnterLock
  <2> QED  BY <2>1, <2>2
<1>4. CASE ScanStart
  <2>1. 1 \in 1..(Len(InPins) + 1)
    BY <1>0
  <2>2. value_cache' = value_cache /\ ScanFrom(1, hw_lock)
    BY <1>4 DEF ScanStart
  <2>3. /\ scan' \in 1..(Len(InPins) + 1)
        /\ pc'[Scanner] \in {"s_lock", "s_read"} => scan' \in 1..Len(InPins)
        /\ pc'[Worker] = pc[Worker]
    BY <1>3, <2>1, <2>2
  <2> QED  BY <1>2, <2>2, <2>3 DEF PinData, TaskDoneNeverOverrun
<1>5. CASE ScanResume
  <2>1. scan' = scan /\ value_cache' = value_cache /\ pc[Scanner] = "s_lock"
        /\ pc'[Worker] = pc[Worker]
    BY <1>1, <1>5 DEF ScanResume, pinVars
  <2> QED  BY <1>0, <1>2, <2>1 DEF PinData, TaskDoneNeverOverrun
<1>6. CASE ScanRead
  <2>1. pc[Scanner] = "s_read" /\ scan \in 1..Len(InPins)
    BY <1>6 DEF ScanRead, PinData
  <2>2. InPins[scan] \in Inputs
    BY <2>1 DEF Inputs
  <2>3. value_cache' \in [Inputs -> Bits]
    BY <1>6, <2>2 DEF ScanRead, PinData
  <2>4. scan + 1 \in 1..(Len(InPins) + 1)
    BY <1>0, <2>1
  <2>5. /\ scan' \in 1..(Len(InPins) + 1)
        /\ pc'[Scanner] \in {"s_lock", "s_read"} => scan' \in 1..Len(InPins)
        /\ pc'[Worker] = pc[Worker]
    BY <1>3, <1>6, <2>4 DEF ScanRead
  <2> QED  BY <1>2, <2>3, <2>5 DEF PinData, TaskDoneNeverOverrun
<1> QED  BY <1>4, <1>5, <1>6 DEF ScannerStep

\* A request only puts actions on the queue.
LEMMA PinRequestKept ==
    ASSUME PinInv, NEW c, PinRequest(c)
    PROVE  PinInv'
<1> USE BoardTasksAssumption, PinActionsAssumption
<1>1. ASSUME NEW s \in Seq(Actions), PutAll(s),
             UNCHANGED << hw_lock, pc, action, scan, level, value_cache,
                          last_out_value >>
      PROVE  PinInv'
  <2>1. /\ queue' \in Seq(Actions) /\ Len(queue') <= QueueSize
        /\ unfinished' \in Nat
        /\ \E kept \in Nat : /\ Len(queue') = Len(queue) + kept
                             /\ unfinished' = unfinished + kept
    BY <1>1, PutAllData DEF PinInv
  <2>2. Len(queue) \in Nat /\ unfinished \in Nat
    BY DEF PinInv, PinData
  <2>3. TaskDoneNeverOverrun'
    BY <1>1, <2>1, <2>2 DEF PinInv, PinData, TaskDoneNeverOverrun
  <2>4. PinData'
    BY <1>1, <2>1, <2>3 DEF PinInv, PinData
  <2>5. PcOK' /\ LockKept({})'
    BY <1>1 DEF PinInv, PcOK, LockKept, Inside, Awaiting
  <2> QED  BY <1>1, <2>4, <2>5 DEF PinInv
<1>2. ASSUME NEW a \in ClientActions, RequestAction(c, a) PROVE PinInv'
  <2>1. << a >> \in Seq(Actions)
    OBVIOUS
  <2> QED  BY <1>1, <1>2, <2>1 DEF RequestAction
<1>3. CASE RequestRed(c)
  <2> DEFINE red == [i \in 1..Len(RgbPins) |->
                        [kind |-> "value", pin |-> RgbPins[i],
                         value |-> IF i = 1 THEN 1 ELSE 0]]
  <2>1. \A i \in 1..Len(RgbPins) : RgbPins[i] \in PinIds
    BY DEF PinIds
  <2>2. red \in [1..Len(RgbPins) -> Actions]
    BY <2>1 DEF Actions, Bits
  <2>3. red \in Seq(Actions)
    BY <2>2
  <2> QED  BY <1>1, <1>3, <2>3 DEF RequestRed
<1> QED  BY <1>2, <1>3 DEF PinRequest

\* The queue of pin actions is empty at first.
LEMMA PinInitInv == PinSystemInit => PinInv
<1> SUFFICES ASSUME PinSystemInit PROVE PinInv
  OBVIOUS
<1> USE BoardTasksAssumption, PinActionsAssumption
<1>1. /\ PcOK /\ pc[Worker] = "w_get" /\ pc[Scanner] = "s_sleep"
      /\ \A t \in Tasks \ {Worker, Scanner} : pc[t] = "idle"
  BY DEF PinSystemInit, PcOK
<1>2. Inside = {} /\ Awaiting = {}
  BY <1>1 DEF Inside, Awaiting, OutLabels
<1>3. LockKept({})
  BY <1>2, NewLockOK DEF PinSystemInit, LockKept
<1>4. PinData
  BY <1>1 DEF PinSystemInit, PinInit, PinData, TaskDoneNeverOverrun, Bits
<1> QED  BY <1>1, <1>3, <1>4 DEF PinInv, WorkerLabels, ScannerLabels

\* Every step of the worker, the scanner or a client keeps the invariant of
\* the pins.
LEMMA PinNextInv == PinInv /\ [PinNext]_pinAllVars => PinInv'
<1> SUFFICES ASSUME PinInv, [PinNext]_pinAllVars PROVE PinInv'
  OBVIOUS
<1> USE BoardTasksAssumption
<1>1. CASE WorkerStep
  <2>1. Moved(Worker, WorkerLabels, {})
    BY <1>1, WorkerStepMoves DEF PinInv
  <2>2. PinData'
    BY <1>1, WorkerStepData DEF PinInv
  <2> QED  BY <2>1, <2>2 DEF Moved, PinInv
<1>2. CASE ScannerStep
  <2>1. Moved(Scanner, ScannerLabels, {})
    BY <1>2, ScannerStepMoves DEF PinInv
  <2>2. PinData'
    BY <1>2, ScannerStepData DEF PinInv
  <2> QED  BY <2>1, <2>2 DEF Moved, PinInv
<1>3. ASSUME NEW c \in Clients, PinRequest(c) PROVE PinInv'
  BY <1>3, PinRequestKept
<1>4. ASSUME NEW p \in Inputs, InputChanges(p) PROVE PinInv'
  <2>1. level' \in [Inputs -> Bits]
    BY <1>4 DEF InputChanges, PinInv, PinData, Bits
  <2>2. UNCHANGED << hw_lock, pc, queue, unfinished, action, scan,
                     value_cache, last_out_value >>
    BY <1>4 DEF InputChanges
  <2> QED  BY <2>1, <2>2 DEF PinInv, PcOK, LockKept, Inside, Awaiting,
                             PinData, TaskDoneNeverOverrun
<1>5. CASE UNCHANGED pinAllVars
  BY <1>5 DEF pinAllVars, pinVars, PinInv, PcOK, LockKept, Inside, Awaiting,
              PinData, TaskDoneNeverOverrun
<1> QED  BY <1>1, <1>2, <1>3, <1>4, <1>5 DEF PinNext

\* The queue stays within its size, task_done() never overruns, and the lock
\* is locked exactly while the worker or the scanner is inside, for any pins,
\* any actions and any size of the queue.
THEOREM WorkerStaysSound == PinSpec => []WorkerIsSound
<1>1. PinSystemInit => PinInv
  BY PinInitInv
<1>2. PinInv /\ [PinNext]_pinAllVars => PinInv'
  BY PinNextInv
<1>3. PinInv => WorkerIsSound
  <2> SUFFICES ASSUME PinInv PROVE WorkerIsSound
    OBVIOUS
  <2> USE BoardTasksAssumption
  <2>1. PinTypeOK /\ TaskDoneNeverOverrun
    BY DEF PinInv, PinTypeOK, PinData, LockKept, LockOK, WorkerLabels,
           ScannerLabels
  <2>2. Inside = PinHolders
    BY DEF PinInv, Inside, PinHolders, WorkerLabels, ScannerLabels
  <2>3. ASSUME hw_lock.state \in Tasks
        PROVE  pc[hw_lock.state] \in {"w_lock", "s_lock"}
    <3>1. hw_lock.state \in Awaiting /\ hw_lock.state \notin Inside
      BY <2>3, TasksAssumption DEF PinInv, LockKept, LockOK, Locked
    <3> QED  BY <3>1 DEF PinInv, Awaiting, Inside, OutLabels, WorkerLabels,
                         ScannerLabels
  <2>4. PinLockDiscipline
    BY <2>2, <2>3 DEF PinInv, PinLockDiscipline, LockKept, LockOK, Free
  <2> QED  BY <2>1, <2>4 DEF WorkerIsSound
<1> QED  BY <1>1, <1>2, <1>3, PTL DEF PinSpec

-----------------------------------------------------------------------------
(***************************************************************************)
(* The whole board with its clean-up                                       *)
(***************************************************************************)
MainLabels == {"m_beat", "m_settle", "m_wait", "m_end", "m_lost"}
CloserLabels == {"idle", "stop_due", "stop_lock", "stop_sleep", "cancelled"}

\* main() has given up its stop_task.
GivenUp == Closer \in cancelled \/ pc[Closer] = "cancelled"

\* Where the tasks can be: nobody but the background tasks and stop_task is
\* cancelled, and stop_task runs once.
BoardPc ==
    /\ pc[Worker] \in WorkerLabels \cup {"cancelled"}
    /\ pc[Scanner] \in ScannerLabels \cup {"cancelled"}
    /\ pc[Main] \in MainLabels
    /\ pc[Closer] \in CloserLabels
    /\ \A t \in Tasks \ {Worker, Scanner, Main, Closer} :
          pc[t] \in BleLabels \cup WifiLabels
    /\ cancelled \subseteq {Worker, Scanner, Closer}
    /\ pc[Main] = "m_beat" => cancelled = {}
    /\ pc[Main] \in {"m_beat", "m_settle"} => pc[Closer] = "idle"
    /\ Closer \in cancelled => pc[Closer] \in {"stop_lock", "stop_sleep"}

BoardInv ==
    /\ PcOK /\ LockKept(cancelled) /\ BoardPc
    /\ BleBase /\ new_name[Closer] = NoName
    /\ GivenUp \/ BleFlag
    /\ WifiBase /\ NicJoinsReportedSsid

\* The board starts with all tasks at their first await.
LEMMA BoardInitInv == BoardInit => BoardInv
<1> SUFFICES ASSUME BoardInit PROVE BoardInv
  OBVIOUS
<1> USE BoardTasksAssumption, PicoBoardAssumption, BleControlAssumption,
        WifiControlAssumption
<1>1. /\ PcOK /\ pc[Worker] = "w_get" /\ pc[Scanner] = "s_sleep"
      /\ pc[Main] = "m_beat"
      /\ \A t \in Tasks \ {Worker, Scanner, Main} : pc[t] = "idle"
  BY DEF BoardInit, PcOK
<1>2. Inside = {} /\ Awaiting = {}
  BY <1>1 DEF Inside, Awaiting, OutLabels
<1>3. LockKept(cancelled)
  BY <1>2, NewLockOK DEF BoardInit, LockKept
<1>4. ble \in BOOLEAN /\ ~adv_active /\ adv_active \in BOOLEAN
  <2>1. BleInit
    BY DEF BoardInit
  <2> QED  BY ONLY <2>1, BleControlAssumption, Zenon DEF BleInit
<1>5. BleBase /\ BleFlag /\ new_name[Closer] = NoName
  BY <1>1, <1>4 DEF BoardInit, BleInit, BleBase, BleFlag, Switching
<1>6. up \in BOOLEAN /\ nic_error \in BOOLEAN
  BY Zenon DEF BoardInit, WifiInit
<1>7. WifiBase /\ NicJoinsReportedSsid
  BY <1>6 DEF BoardInit, WifiInit, WifiBase, NicJoinsReportedSsid
<1>8. BoardPc
  BY <1>1 DEF BoardInit, BoardPc, WorkerLabels, ScannerLabels, MainLabels,
              CloserLabels, BleLabels
<1> QED  BY <1>1, <1>3, <1>5, <1>7, <1>8 DEF BoardInv

\* Steps of the pins' tasks.
LEMMA PinPartInv == BoardInv /\ PinPart => BoardInv'
<1> SUFFICES ASSUME BoardInv, PinPart PROVE BoardInv'
  OBVIOUS
<1> USE BoardTasksAssumption, PicoBoardAssumption
<1>0. PICK G : G = cancelled
  OBVIOUS
<1>1. UNCHANGED << bleVars, wifiVars, cancelled >>
  BY DEF PinPart
<1>2. LockKept(G)
  BY <1>0 DEF BoardInv, LockKept
<1>3. ASSUME NEW t \in {Worker, Scanner},
             t = Worker => Moved(t, WorkerLabels, G),
             t = Scanner => Moved(t, ScannerLabels, G)
      PROVE  BoardInv'
  <2>1. PcOK' /\ LockKept(cancelled)'
    BY <1>0, <1>1, <1>3 DEF Moved, LockKept
  <2>2. \A u \in Tasks \ {t} : pc'[u] = pc[u]
    BY <1>3 DEF Moved
  <2>3. \A u \in Clients : pc'[u] = pc[u]
    BY <2>2
  <2>4. BoardPc'
    BY <1>1, <1>3, <2>2 DEF BoardInv, BoardPc, Moved
  <2>5. BleBase' /\ (BleFlag => BleFlag')
    BY <1>1, <2>3, BleUntouched DEF BoardInv
  <2>6. WifiBase' /\ NicJoinsReportedSsid'
    BY <1>1, <2>3, WifiUntouched DEF BoardInv, wifiVars, WifiBase
  <2>7. (GivenUp \/ BleFlag)' /\ new_name'[Closer] = NoName
    BY <1>1, <2>3, <2>5 DEF BoardInv, GivenUp, bleVars
  <2> QED  BY <2>1, <2>4, <2>5, <2>6, <2>7 DEF BoardInv
<1>4. CASE Runs(Worker) /\ WorkerStep
  <2>1. Moved(Worker, WorkerLabels, G)
    BY <1>0, <1>2, <1>4, WorkerStepMoves DEF BoardInv, Runs
  <2> QED  BY <1>3, <2>1
<1>5. CASE Runs(Scanner) /\ ScannerStep
  <2>1. Moved(Scanner, ScannerLabels, G)
    BY <1>0, <1>2, <1>5, ScannerStepMoves DEF BoardInv, Runs
  <2> QED  BY <1>3, <2>1
<1>6. ASSUME NEW c \in Browsers, PinRequest(c) PROVE BoardInv'
  <2>1. UNCHANGED << hw_lock, pc >>
    BY <1>6 DEF PinRequest, RequestAction, RequestRed
  <2>2. PcOK' /\ LockKept(cancelled)' /\ BoardPc'
    BY <1>1, <2>1 DEF BoardInv, PcOK, LockKept, Inside, Awaiting, BoardPc
  <2>3. BleBase' /\ (BleFlag => BleFlag')
    BY <1>1, <2>1, BleUntouched DEF BoardInv
  <2>4. WifiBase' /\ NicJoinsReportedSsid'
    BY <1>1, <2>1, WifiUntouched DEF BoardInv, wifiVars, WifiBase
  <2>5. (GivenUp \/ BleFlag)' /\ new_name'[Closer] = NoName
    BY <1>1, <2>1, <2>3 DEF BoardInv, GivenUp, bleVars
  <2> QED  BY <2>2, <2>3, <2>4, <2>5 DEF BoardInv
<1> QED  BY <1>4, <1>5, <1>6 DEF PinPart

\* Steps of the BLE handlers and of stop_task.
LEMMA BlePartInv ==
    ASSUME BoardInv, NEW c \in Clients, BlePart(c)
    PROVE  BoardInv'
<1> USE BoardTasksAssumption, PicoBoardAssumption
<1>0. PICK G : G = cancelled
  OBVIOUS
<1>1. UNCHANGED << wifiVars, cancelled >> /\ c \notin cancelled
  BY DEF BlePart, Runs
<1>2. PcOK /\ LockKept(G) /\ BleBase /\ c \notin G
  BY <1>0, <1>1 DEF BoardInv, LockKept
<1>3. BleStep(c) \/ (c \in Browsers /\ BleRequest(c))
  BY DEF BlePart
<1>4. BleKept(c, G) /\ pc[c] \in BleLabels
  BY <1>2, <1>3, BleStepKept, BleRequestKept, BleStepFrom
<1>5. PcOK' /\ LockKept(cancelled)' /\ BleBase'
  BY <1>0, <1>1, <1>4 DEF BleKept, LockKept
<1>6. /\ \A u \in Tasks \ {c} : pc'[u] = pc[u]
      /\ pc'[c] \in BleLabels
      /\ BleFlag => BleFlag'
  BY <1>4 DEF BleKept
<1>7. \A u \in Clients : pc'[u] = pc[u]
                          \/ pc[u] \notin {"wifi_lock", "wifi_sleep"}
  BY <1>4, <1>6 DEF BleLabels
<1>8. WifiBase' /\ NicJoinsReportedSsid'
  BY <1>1, <1>7, WifiUntouched DEF BoardInv, wifiVars, WifiBase
<1>9. CASE c = Closer
  <2>1. BleStep(Closer) /\ pc[Closer] \in CloserLabels
    BY <1>3, <1>9 DEF Browsers, BoardInv, BoardPc
  <2>2. StopResume(Closer) \/ StopDone(Closer)
    BY <2>1 DEF BleStep, InitResume, StartResume, StartDone, Rename,
                CloserLabels
  <2>3. StopCaller(Closer) = "idle" /\ new_name' = new_name
    BY <2>2 DEF StopCaller, BoardInv, StopResume, StopDone
  <2>4. pc'[Closer] \in {"idle", "stop_sleep"} /\ pc[Closer] # "idle"
    BY <2>2, <2>3 DEF StopResume, StopDone, StopLocked, Goto, BoardInv, PcOK
  <2>5. BoardPc'
    BY <1>1, <1>6, <1>9, <2>4 DEF BoardInv, BoardPc, CloserLabels
  <2>6. (GivenUp \/ BleFlag)'
    BY <1>1, <1>6, <1>9, <2>2
       DEF BoardInv, GivenUp, StopResume, StopDone
  <2> QED  BY <1>5, <1>8, <2>3, <2>5, <2>6 DEF BoardInv
<1>10. CASE c # Closer
  <2>1. new_name'[Closer] = NoName
    BY <1>3, <1>10 DEF BoardInv, BleBase, BleStep, BleRequest, InitResume,
                   StartResume, StartDone, StopResume, StopDone, Rename,
                   BleStart, BleStop, BleSetName
  <2>2. BoardPc'
    BY <1>1, <1>6, <1>10 DEF BoardInv, BoardPc
  <2>3. (GivenUp \/ BleFlag)'
    BY <1>1, <1>6, <1>10 DEF BoardInv, GivenUp
  <2> QED  BY <1>5, <1>8, <2>1, <2>2, <2>3 DEF BoardInv
<1> QED  BY <1>9, <1>10

\* Steps of the Wi-Fi handler.
LEMMA WifiPartInv ==
    ASSUME BoardInv, NEW c \in Clients, WifiPart(c)
    PROVE  BoardInv'
<1> USE BoardTasksAssumption, PicoBoardAssumption
<1>0. PICK G : G = cancelled
  OBVIOUS
<1>1. UNCHANGED << bleVars, cancelled >> /\ c \notin cancelled
  BY DEF WifiPart, Runs
<1>2. PcOK /\ LockKept(G) /\ c \notin G /\ WifiBase /\ NicJoinsReportedSsid
  BY <1>0, <1>1 DEF BoardInv, LockKept
<1>3. c # Closer
  BY DEF WifiPart, WifiStep, ConnectResume, JoinAfterDisconnect, PollEnds,
         Browsers, BoardInv, BoardPc, CloserLabels
<1>4. WifiKept(c, G) /\ pc[c] \in WifiLabels
  BY <1>2, WifiStepKept, WifiStepFrom DEF WifiPart
<1>5. PcOK' /\ LockKept(cancelled)' /\ WifiBase' /\ NicJoinsReportedSsid'
  BY <1>0, <1>1, <1>4 DEF WifiKept, LockKept
<1>6. /\ \A u \in Tasks \ {c} : pc'[u] = pc[u]
      /\ pc'[c] \in WifiLabels
  BY <1>4 DEF WifiKept
<1>7. \A u \in Clients :
         \/ pc'[u] = pc[u]
         \/ /\ pc[u] \notin BleLabels \ {"idle"}
            /\ pc'[u] \notin BleLabels \ {"idle"}
  BY <1>4, <1>6 DEF WifiLabels, BleLabels
<1>8. BleBase' /\ (BleFlag => BleFlag')
  BY <1>1, <1>7, BleUntouched DEF BoardInv
<1>9. BoardPc'
  BY <1>1, <1>3, <1>6 DEF BoardInv, BoardPc
<1>10. (GivenUp \/ BleFlag)' /\ new_name'[Closer] = NoName
  BY <1>1, <1>3, <1>6, <1>8 DEF BoardInv, GivenUp, bleVars
<1> QED  BY <1>5, <1>8, <1>9, <1>10 DEF BoardInv

\* The link of the nic.
LEMMA LinkPartInv == BoardInv /\ LinkPart => BoardInv'
<1> SUFFICES ASSUME BoardInv, LinkPart PROVE BoardInv'
  OBVIOUS
<1> USE BoardTasksAssumption, PicoBoardAssumption
<1>1. UNCHANGED << hw_lock, pc, ssid, target, nic_error, bleVars, cancelled >>
  BY DEF LinkPart, Link, LinkComesUp, LinkGoesDown
<1>2. up' \in BOOLEAN
  <2>1. LinkComesUp \/ LinkGoesDown
    BY DEF LinkPart, Link
  <2> QED  BY ONLY <2>1, Zenon DEF LinkComesUp, LinkGoesDown
<1>3. PcOK' /\ LockKept(cancelled)' /\ BoardPc'
  BY <1>1 DEF BoardInv, PcOK, LockKept, Inside, Awaiting, BoardPc
<1>4. BleBase' /\ (BleFlag => BleFlag')
  BY <1>1, BleUntouched DEF BoardInv
<1>5. WifiBase' /\ NicJoinsReportedSsid'
  BY <1>1, <1>2, WifiUntouched DEF BoardInv
<1>6. (GivenUp \/ BleFlag)' /\ new_name'[Closer] = NoName
  BY <1>1, <1>4 DEF BoardInv, GivenUp, bleVars
<1> QED  BY <1>3, <1>4, <1>5, <1>6 DEF BoardInv

\* CancelledError unwinds a task at any of its awaits: a promise of the lock
\* is passed on, a lock that is held is released.
LEMMA ThrowInv ==
    ASSUME BoardInv, NEW t \in cancelled, ThrowCancelled(t)
    PROVE  BoardInv'
<1> USE BoardTasksAssumption, PicoBoardAssumption
<1>1. /\ t \in {Worker, Scanner, Closer} /\ t \in Tasks
      /\ pc[t] \in WorkerLabels \cup ScannerLabels \cup CloserLabels
      /\ cancelled' = cancelled \ {t}
      /\ UNCHANGED << bleVars, wifiVars >>
      /\ hw_lock' = Unwound(t)
      /\ Awaiting \in SUBSET Tasks
  BY DEF BoardInv, BoardPc, ThrowCancelled, Awaiting, CloserLabels
<1>2. /\ PcOK' /\ pc'[t] = "cancelled"
      /\ \A u \in Tasks \ {t} : pc'[u] = pc[u]
      /\ Inside' = Inside \ {t} /\ Awaiting' = Awaiting \ {t}
  BY <1>1, GotoFree DEF BoardInv, ThrowCancelled, InLabels, OutLabels
<1>3. LockOK(hw_lock, Inside, Awaiting, cancelled)
  BY DEF BoardInv, LockKept
<1>4. LockOK(hw_lock', Inside \ {t}, Awaiting \ {t}, cancelled \ {t})
  <2>1. CASE pc[t] \in {"w_lock", "s_lock", "stop_lock"}
    <3>1. t \in Awaiting /\ Inside \ {t} = Inside
      BY <1>1, <2>1 DEF Awaiting, Inside, OutLabels
    <3>2. hw_lock' = Abandon(hw_lock, t)
      BY <1>1, <2>1 DEF Unwound
    <3> QED  BY <1>1, <1>3, <3>1, <3>2, AbandonOK
  <2>2. CASE pc[t] \in {"w_inner", "w_yield", "s_read", "stop_sleep"}
    <3>1. t \in Inside
      BY <1>1, <2>2 DEF Inside
    <3>2. /\ hw_lock.state = Locked /\ Inside \ {t} = {}
          /\ hw_lock.state # t
      BY <1>1, <1>3, <3>1, TasksAssumption DEF LockOK, Locked
    <3>3. LockOK(hw_lock, Inside, Awaiting \ {t}, cancelled \ {t})
      BY <1>1, <1>3, <3>2, LeaveOK
    <3>4. hw_lock' = Release(hw_lock)
      BY <1>1, <2>2 DEF Unwound
    <3> QED  BY <1>1, <3>2, <3>3, <3>4, ReleaseOK
  <2>3. CASE pc[t] \notin {"w_lock", "s_lock", "stop_lock", "w_inner",
                           "w_yield", "s_read", "stop_sleep"}
    <3>1. t \notin Inside /\ t \notin Awaiting
      BY <1>1, <2>3 DEF Inside, Awaiting, OutLabels, WorkerLabels,
                        ScannerLabels, CloserLabels
    <3>2. hw_lock.state # t /\ Inside \ {t} = Inside
      BY <1>1, <1>3, <3>1 DEF LockOK
    <3>3. hw_lock' = hw_lock
      BY <1>1, <2>3 DEF Unwound
    <3> QED  BY <1>1, <1>3, <3>2, <3>3, LeaveOK
  <2> QED  BY <2>1, <2>2, <2>3
<1>5. LockKept(cancelled)'
  BY <1>1, <1>2, <1>4 DEF LockKept
<1>6. BoardPc'
  BY <1>1, <1>2 DEF BoardInv, BoardPc, CloserLabels
<1>7. BleBase' /\ new_name'[Closer] = NoName
  BY <1>1, <1>2 DEF BoardInv, BleBase, bleVars
<1>8. (GivenUp \/ BleFlag)'
  <2>1. CASE t = Closer
    BY <1>2, <2>1 DEF GivenUp
  <2>2. CASE t # Closer
    <3>1. \A u \in Clients : pc'[u] = pc[u]
      BY <1>1, <1>2, <2>2
    <3>2. BleFlag => BleFlag'
      BY <1>1, <3>1, BleUntouched
    <3> QED  BY <1>1, <2>2, <3>1, <3>2 DEF BoardInv, GivenUp
  <2> QED  BY <2>1, <2>2
<1>9. WifiBase' /\ NicJoinsReportedSsid'
  <2>1. \A u \in Clients :
           pc'[u] = pc[u] \/ pc[u] \notin {"wifi_lock", "wifi_sleep"}
    BY <1>1, <1>2 DEF WorkerLabels, ScannerLabels, CloserLabels
  <2> QED  BY <1>1, <2>1, WifiUntouched DEF BoardInv, wifiVars, WifiBase
<1> QED  BY <1>2, <1>5, <1>6, <1>7, <1>8, <1>9 DEF BoardInv

\* main(): the interrupts and the steps of the clean-up.
LEMMA MainPartInv == BoardInv /\ MainPart => BoardInv'
<1> SUFFICES ASSUME BoardInv, MainPart PROVE BoardInv'
  OBVIOUS
<1> USE BoardTasksAssumption, PicoBoardAssumption
<1>0. /\ Main \in Tasks /\ Main \notin Clients /\ Closer \in Clients
      /\ Main # Worker /\ Main # Scanner
      /\ Awaiting \in SUBSET Tasks
      /\ Main \notin Inside /\ Main \notin Awaiting
      /\ LockOK(hw_lock, Inside, Awaiting, cancelled)
  BY DEF BoardInv, BoardPc, MainLabels, Inside, Awaiting, OutLabels, LockKept
<1>1. \* main() and, in StopBle, stop_task move outside of the lock.
      ASSUME PcOK', UNCHANGED << bleVars, wifiVars >>,
             \A u \in Tasks \ {Main, Closer} : pc'[u] = pc[u],
             pc'[Closer] = pc[Closer]
               \/ (pc[Closer] = "idle" /\ pc'[Closer] = "stop_due")
      PROVE  /\ BleBase' /\ (BleFlag => BleFlag')
             /\ new_name'[Closer] = NoName
             /\ WifiBase' /\ NicJoinsReportedSsid'
  <2>1. \A u \in Clients :
           \/ pc'[u] = pc[u]
           \/ /\ pc[u] \notin BleLabels \ {"idle"}
              /\ pc'[u] \notin BleLabels \ {"idle"}
    BY <1>0, <1>1 DEF BleLabels
  <2>2. \A u \in Clients :
           pc'[u] = pc[u] \/ pc[u] \notin {"wifi_lock", "wifi_sleep"}
    BY <1>0, <1>1
  <2>3. BleBase' /\ (BleFlag => BleFlag') /\ new_name'[Closer] = NoName
    BY <1>1, <2>1, BleUntouched DEF BoardInv, bleVars
  <2> QED  BY <1>1, <2>2, <2>3, WifiUntouched DEF BoardInv, wifiVars, WifiBase
<1>2. ASSUME NEW l \in {"m_settle", "m_end", "m_lost"}, Goto(Main, l)
      PROVE  /\ PcOK' /\ pc'[Main] = l
             /\ \A u \in Tasks \ {Main} : pc'[u] = pc[u]
             /\ Inside' = Inside /\ Awaiting' = Awaiting
  <2>1. /\ PcOK' /\ pc'[Main] = l
        /\ \A u \in Tasks \ {Main} : pc'[u] = pc[u]
        /\ Inside' = Inside \ {Main} /\ Awaiting' = Awaiting \ {Main}
    BY <1>0, <1>2, GotoFree DEF BoardInv, InLabels, OutLabels
  <2> QED  BY <1>0, <2>1
<1>3. CASE Interrupt
  <2>1. /\ cancelled = {} /\ pc[Main] = "m_beat"
        /\ cancelled' = {Worker, Scanner}
        /\ UNCHANGED << bleVars, wifiVars >>
        /\ hw_lock' = Cancelled(Cancelled(hw_lock, Worker), Scanner)
        /\ Goto(Main, "m_settle")
    BY <1>3 DEF Interrupt, BoardInv, BoardPc
  <2>2. LockOK(Cancelled(hw_lock, Worker), Inside, Awaiting,
               cancelled \cup {Worker})
    BY <1>0, CancelOK DEF Cancelled
  <2>3. LockOK(hw_lock', Inside, Awaiting,
               (cancelled \cup {Worker}) \cup {Scanner})
    BY <1>0, <2>1, <2>2, CancelOK DEF Cancelled
  <2>4. (cancelled \cup {Worker}) \cup {Scanner} = {Worker, Scanner}
    BY <2>1
  <2>5. /\ PcOK' /\ pc'[Main] = "m_settle"
        /\ \A u \in Tasks \ {Main} : pc'[u] = pc[u]
        /\ Inside' = Inside /\ Awaiting' = Awaiting
    BY <1>2, <2>1
  <2>6. LockKept(cancelled)'
    BY <2>1, <2>3, <2>4, <2>5 DEF LockKept
  <2>7. BoardPc'
    BY <1>0, <2>1, <2>5 DEF BoardInv, BoardPc, MainLabels
  <2>8. pc'[Closer] = pc[Closer] /\ Closer \notin cancelled'
    BY <1>0, <2>1, <2>5
  <2> QED
    BY <1>1, <2>1, <2>5, <2>6, <2>7, <2>8 DEF BoardInv, GivenUp
<1>4. ASSUME NEW l \in {"m_end", "m_lost"}, Goto(Main, l),
             UNCHANGED << hw_lock, pinVars, bleVars, wifiVars, cancelled,
                          due >>
      PROVE  BoardInv'
  <2>1. /\ PcOK' /\ pc'[Main] = l
        /\ \A u \in Tasks \ {Main} : pc'[u] = pc[u]
        /\ Inside' = Inside /\ Awaiting' = Awaiting
    BY <1>2, <1>4
  <2>2. LockKept(cancelled)'
    BY <1>0, <1>4, <2>1 DEF LockKept
  <2>3. BoardPc'
    BY <1>0, <1>4, <2>1 DEF BoardInv, BoardPc, MainLabels
  <2>4. pc'[Closer] = pc[Closer]
    BY <1>0, <2>1
  <2> QED  BY <1>1, <1>4, <2>1, <2>2, <2>3, <2>4 DEF BoardInv, GivenUp
<1>5. CASE StopBle
  <2>1. /\ pc' = [pc EXCEPT ![Main] = "m_wait", ![Closer] = "stop_due"]
        /\ pc[Main] = "m_settle" /\ pc[Closer] = "idle"
        /\ UNCHANGED << hw_lock, bleVars, wifiVars, cancelled >>
    BY <1>5 DEF StopBle, BoardInv, BoardPc
  <2>2. /\ PcOK' /\ pc'[Main] = "m_wait" /\ pc'[Closer] = "stop_due"
        /\ \A u \in Tasks \ {Main, Closer} : pc'[u] = pc[u]
    BY <1>0, <2>1 DEF BoardInv, PcOK
  <2>3. Inside' = Inside /\ Awaiting' = Awaiting
    BY <1>0, <2>1, <2>2 DEF Inside, Awaiting, OutLabels
  <2>4. LockKept(cancelled)'
    BY <1>0, <2>1, <2>3 DEF LockKept
  <2>5. BoardPc' /\ Closer \notin cancelled'
    BY <1>0, <2>1, <2>2 DEF BoardInv, BoardPc, MainLabels, CloserLabels
  <2> QED  BY <1>1, <2>1, <2>2, <2>4, <2>5 DEF BoardInv, GivenUp
<1>6. CASE CloserStarts
  <2>0. PICK G : G = cancelled
    OBVIOUS
  <2>1. /\ pc[Closer] = "stop_due" /\ StopAdvertising(Closer, "idle")
        /\ UNCHANGED << ble, ble_name, new_name, wifiVars, cancelled >>
        /\ Closer \notin cancelled
    BY <1>6 DEF CloserStarts, BoardInv, BoardPc
  <2>2. /\ PcOK /\ LockKept(G) /\ Closer \notin G /\ BleBase
        /\ Closer \in Tasks /\ Closer \notin Inside /\ Closer \notin Awaiting
    BY <2>0, <2>1 DEF BoardInv, LockKept, Inside, Awaiting, OutLabels
  <2>3. StopMoves(Closer, "idle") /\ LockKept(G)'
    BY <2>1, <2>2, StopAdvertisingStep DEF BleBase
  <2>4. BleKept(Closer, G)
    BY <1>0, <2>1, <2>2, <2>3, StopKeepsFlag DEF BleBase
  <2>5. /\ PcOK' /\ LockKept(cancelled)' /\ BleBase' /\ (BleFlag => BleFlag')
        /\ \A u \in Tasks \ {Closer} : pc'[u] = pc[u]
    BY <2>0, <2>1, <2>4 DEF BleKept, LockKept
  <2>6. pc'[Closer] \in {"idle", "stop_lock", "stop_sleep"}
    BY <2>3 DEF StopMoves
  <2>7. BoardPc'
    BY <1>0, <2>1, <2>5, <2>6 DEF BoardInv, BoardPc, CloserLabels
  <2>8. \A u \in Clients :
           pc'[u] = pc[u] \/ pc[u] \notin {"wifi_lock", "wifi_sleep"}
    BY <2>1, <2>5
  <2>9. WifiBase' /\ NicJoinsReportedSsid'
    BY <2>1, <2>8, WifiUntouched DEF BoardInv, wifiVars, WifiBase
  <2> QED
    BY <2>1, <2>5, <2>7, <2>9 DEF BoardInv, GivenUp
<1>7. CASE WaitTimesOut
  <2>1. /\ pc[Closer] \in {"stop_lock", "stop_sleep"} /\ pc[Main] = "m_wait"
        /\ cancelled' = cancelled \cup {Closer}
        /\ hw_lock' = Cancelled(hw_lock, Closer)
        /\ UNCHANGED << pc, bleVars, wifiVars >>
    BY <1>7 DEF WaitTimesOut
  <2>2. LockOK(hw_lock', Inside, Awaiting, cancelled')
    BY <1>0, <2>1, CancelOK DEF Cancelled
  <2>3. PcOK' /\ Inside' = Inside /\ Awaiting' = Awaiting
    BY <2>1 DEF BoardInv, PcOK, Inside, Awaiting
  <2>4. LockKept(cancelled)'
    BY <2>2, <2>3 DEF LockKept
  <2>5. BoardPc' /\ GivenUp'
    BY <1>0, <2>1 DEF BoardInv, BoardPc, GivenUp
  <2> QED  BY <1>1, <2>1, <2>3, <2>4, <2>5 DEF BoardInv
<1>8. CASE WaitEnds
  BY <1>4, <1>8 DEF WaitEnds
<1>9. CASE InterruptLoop
  BY <1>4, <1>9 DEF InterruptLoop
<1> QED  BY <1>3, <1>5, <1>6, <1>7, <1>8, <1>9 DEF MainPart, CleanUp

\* The invariant of the board is inductive.
THEOREM BoardInvHolds == BoardSpec => []BoardInv
<1>1. BoardInit => BoardInv
  BY BoardInitInv
<1>2. BoardInv /\ [BoardNext]_boardVars => BoardInv'
  <2> SUFFICES ASSUME BoardInv, [BoardNext]_boardVars PROVE BoardInv'
    OBVIOUS
  <2>1. CASE UNCHANGED boardVars
    BY <2>1 DEF boardVars, BoardInv, PcOK, LockKept, Inside, Awaiting,
                BoardPc, BleBase, BleFlag, Switching, GivenUp, WifiBase,
                NicJoinsReportedSsid, bleVars, wifiVars
  <2> QED
    BY <2>1, PinPartInv, BlePartInv, WifiPartInv, LinkPartInv, ThrowInv,
       MainPartInv DEF BoardNext, Ended
<1> QED  BY <1>1, <1>2, PTL DEF BoardSpec

\* With all users of hw_lock, cancelled at any await of the clean-up: at most
\* one task is inside, the lock is locked exactly then, and it is never free,
\* or promised to a task that will not take it, in front of a waiter.
THEOREM BoardLockIsKept == BoardSpec => []BoardLockHolds
<1>1. BoardInv => BoardLockHolds
  <2> SUFFICES ASSUME BoardInv PROVE BoardLockHolds
    OBVIOUS
  <2> USE BoardTasksAssumption, PicoBoardAssumption
  <2>1. Outside = Awaiting
    BY DEF BoardInv, BoardPc, Outside, Awaiting, OutLabels, WorkerLabels,
           ScannerLabels, MainLabels, CloserLabels, BleLabels, WifiLabels
  <2> QED
    BY <2>1 DEF BoardInv, LockKept, LockOK, BoardLockHolds, OneTaskInside,
                NobodyWaitsInVain, Free
<1> QED  BY <1>1, BoardInvHolds, PTL

\* No error of the driver leaves the board reporting "Advertising" with the
\* radio off, unless main() has given up its stop_task.
THEOREM ErrorsKeepFlagHonest == BoardSpec => []FlagOutlivesErrors
<1>1. BoardInv => FlagOutlivesErrors
  BY DEF BoardInv, GivenUp, BleBase, BleFlag, FlagOutlivesErrors,
         FlagTracksRadio
<1> QED  BY <1>1, BoardInvHolds, PTL
=============================================================================
