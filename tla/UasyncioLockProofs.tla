------------------------- MODULE UasyncioLockProofs -------------------------
(***************************************************************************)
(* The invariant Inv of UasyncioLock is inductive: the lock of lock.py is  *)
(* safe for any number of tasks, cancelled at any await, and implements a  *)
(* mutex.                                                                  *)
(***************************************************************************)
EXTENDS UasyncioLock, SequenceTheorems, TLAPS

\* Removing the element at position i of a sequence without repetitions
\* gives a sequence of the same kind that has every other element and not it.
LEMMA WithoutAtFacts ==
    ASSUME NEW S, NEW s \in Seq(S), NEW i \in 1..Len(s),
           \A j, k \in 1..Len(s) : s[j] = s[k] => j = k
    PROVE  /\ WithoutAt(s, i) \in Seq(S)
           /\ Len(WithoutAt(s, i)) = Len(s) - 1
           /\ \A j, k \in 1..Len(WithoutAt(s, i)) :
                 WithoutAt(s, i)[j] = WithoutAt(s, i)[k] => j = k
           /\ \A x : (\E j \in 1..Len(WithoutAt(s, i)) :
                          WithoutAt(s, i)[j] = x)
                       <=> x # s[i] /\ \E j \in 1..Len(s) : s[j] = x
<1> DEFINE w == WithoutAt(s, i)
<1>1. Len(s) \in Nat /\ Len(s) - 1 \in Nat
  OBVIOUS
<1>2. w \in [1..(Len(s) - 1) -> S]
  BY <1>1 DEF WithoutAt
<1>3. w \in Seq(S) /\ Len(w) = Len(s) - 1
  BY <1>1, <1>2
<1>4. \A j \in 1..Len(w) : w[j] = IF j < i THEN s[j] ELSE s[j + 1]
  BY <1>1, <1>3 DEF WithoutAt
<1>5. \A j, k \in 1..Len(w) : w[j] = w[k] => j = k
  BY <1>1, <1>3, <1>4
<1>6. ASSUME NEW j \in 1..Len(w)
      PROVE  w[j] # s[i] /\ \E k \in 1..Len(s) : s[k] = w[j]
  BY <1>1, <1>3, <1>4
<1>7. ASSUME NEW k \in 1..Len(s), s[k] # s[i]
      PROVE  \E j \in 1..Len(w) : w[j] = s[k]
  <2>1. CASE k < i
    <3>1. k \in 1..Len(w) /\ w[k] = s[k]
      BY <2>1, <1>1, <1>3, <1>4
    <3> QED  BY <3>1
  <2>2. CASE k > i
    <3>1. k - 1 \in 1..Len(w) /\ w[k - 1] = s[k]
      BY <2>2, <1>1, <1>3, <1>4
    <3> QED  BY <3>1
  <2>3. k # i
    BY <1>7
  <2>4. Len(s) \in Nat
    BY <1>1
  <2>5. k < i \/ k > i
    BY <1>1, <2>3, <2>4
  <2> QED  BY <2>1, <2>2, <2>5
<1>8. \A x : (\E j \in 1..Len(w) : w[j] = x)
              <=> x # s[i] /\ \E j \in 1..Len(s) : s[j] = x
  BY <1>6, <1>7
<1> QED  BY <1>3, <1>5, <1>8

\* What release() does to the queue of a lock whose waiters are distinct.
LEMMA ReleaseFacts ==
    ASSUME NEW lk \in Locks,
           \A i, j \in 1..Len(lk.waiting) :
              lk.waiting[i] = lk.waiting[j] => i = j
    PROVE  /\ Release(lk) \in Locks
           /\ Release(lk).state # Locked
           /\ Release(lk).waiting # << >> => Release(lk).state \in Tasks
           /\ Release(lk).state \in Tasks => IsWaiting(lk, Release(lk).state)
           /\ \A i, j \in 1..Len(Release(lk).waiting) :
                 Release(lk).waiting[i] = Release(lk).waiting[j] => i = j
           /\ \A t \in Tasks :
                 IsWaiting(Release(lk), t)
                    <=> IsWaiting(lk, t) /\ Release(lk).state # t
<1>1. CASE lk.waiting = << >>
  BY <1>1, TasksAssumption
     DEF Release, Locks, IsWaiting, Unlocked, Locked
<1>2. CASE lk.waiting # << >>
  <2> DEFINE w == lk.waiting
  <2>1. w \in Seq(Tasks) /\ Len(w) \in Nat \ {0}
    BY <1>2 DEF Locks
  <2>2. Release(lk) = [state |-> w[1], waiting |-> Tail(w)]
    BY <1>2 DEF Release
  <2>3. /\ w[1] \in Tasks
        /\ Tail(w) \in Seq(Tasks)
        /\ Len(Tail(w)) = Len(w) - 1
        /\ \A i \in 1..Len(Tail(w)) : Tail(w)[i] = w[i + 1]
    BY <2>1
  <2>4. Release(lk) \in Locks /\ Release(lk).state # Locked
    BY <2>2, <2>3, TasksAssumption DEF Locks, Locked
  <2>5. ASSUME NEW i \in 1..Len(Tail(w)), NEW j \in 1..Len(Tail(w)),
               Tail(w)[i] = Tail(w)[j]
        PROVE  i = j
    <3>1. i \in Nat /\ j \in Nat /\ i + 1 \in 1..Len(w) /\ j + 1 \in 1..Len(w)
      BY <2>1, <2>3
    <3>2. w[i + 1] = w[j + 1]
      BY <2>3, <2>5
    <3>3. i + 1 = j + 1
      BY <3>1, <3>2
    <3> QED  BY <3>1, <3>3
  <2>6. ASSUME NEW t \in Tasks
        PROVE  (\E i \in 1..Len(Tail(w)) : Tail(w)[i] = t)
                  <=> (\E i \in 1..Len(w) : w[i] = t) /\ w[1] # t
    <3>1. ASSUME NEW i \in 1..Len(Tail(w)), Tail(w)[i] = t
          PROVE  i + 1 \in 1..Len(w) /\ w[i + 1] = t /\ w[1] # t
      BY <3>1, <2>1, <2>3
    <3>2. ASSUME NEW i \in 1..Len(w), w[i] = t, w[1] # t
          PROVE  i - 1 \in 1..Len(Tail(w)) /\ Tail(w)[i - 1] = t
      BY <3>2, <2>1, <2>3
    <3> QED  BY <3>1, <3>2
  <2> QED  BY <2>1, <2>2, <2>3, <2>4, <2>5, <2>6 DEF IsWaiting
<1> QED  BY <1>1, <1>2

\* The lock starts free and unwanted.
LEMMA InitInv == Init => Inv
  BY TasksAssumption
     DEF Init, Inv, TypeOK, NoStaleCancel, MutualExclusion, LockedIffInBody,
         NoLostWakeup, QueueIsExact, NewLock, Locks, IsWaiting, Unlocked,
         Locked

\* Every step of every task preserves the invariant.
LEMMA NextInv == Inv /\ [Next]_vars => Inv'
<1> SUFFICES ASSUME Inv, [Next]_vars PROVE Inv'
  OBVIOUS
<1> USE TasksAssumption DEF Unlocked, Locked
<1>1. ASSUME NEW t \in Tasks, AcquireFree(t) PROVE Inv'
  <2>1. lock.waiting = << >> /\ \A u \in Tasks : pc[u] # "body"
    BY <1>1 DEF AcquireFree, Free, Inv, TypeOK, Locks, NoLostWakeup,
                LockedIffInBody
  <2>2. lock' = [state |-> 1, waiting |-> << >>]
    BY <1>1, <2>1 DEF AcquireFree, Take, Inv, TypeOK, Locks
  <2>3. \A u \in Tasks : pc[u] = "acquire" => cancelled[u]
    BY <1>1, <2>1 DEF AcquireFree, Free, Inv, TypeOK, QueueIsExact, IsWaiting
  <2> QED
    BY <1>1, <2>1, <2>2, <2>3
       DEF AcquireFree, Inv, TypeOK, NoStaleCancel, MutualExclusion,
           LockedIffInBody, NoLostWakeup, QueueIsExact, Locks, IsWaiting
<1>2. ASSUME NEW t \in Tasks, AcquireWait(t) PROVE Inv'
  <2>1. /\ lock' \in Locks
        /\ lock'.state = lock.state
        /\ lock'.waiting = Append(lock.waiting, t)
        /\ lock.waiting \in Seq(Tasks)
    <3>1. lock \in Locks /\ lock.waiting \in Seq(Tasks)
      BY DEF Inv, TypeOK, Locks
    <3>2. Append(lock.waiting, t) \in Seq(Tasks)
      BY <3>1
    <3>3. lock' = [lock EXCEPT !.waiting = Append(lock.waiting, t)]
      BY <1>2 DEF AcquireWait, Enqueue
    <3> QED  BY <3>1, <3>2, <3>3 DEF Locks
  <2>2. ~ IsWaiting(lock, t) /\ lock.state # t
    BY <1>2 DEF AcquireWait, Inv, QueueIsExact, NoLostWakeup
  <2>3. \A u : IsWaiting(lock, u)' <=> IsWaiting(lock, u) \/ u = t
    <3> DEFINE w == lock.waiting
    <3>1. /\ Len(Append(w, t)) = Len(w) + 1
          /\ Append(w, t)[Len(w) + 1] = t
          /\ \A i \in 1..Len(w) : Append(w, t)[i] = w[i]
          /\ Len(w) \in Nat
      BY <2>1
    <3> QED  BY <2>1, <3>1 DEF IsWaiting
  <2>4. \A i, j \in 1..Len(lock'.waiting) :
           lock'.waiting[i] = lock'.waiting[j] => i = j
    BY <2>1, <2>2 DEF Inv, QueueIsExact, IsWaiting
  <2> QED
    BY <1>2, <2>1, <2>2, <2>3, <2>4
       DEF AcquireWait, Free, Inv, TypeOK, NoStaleCancel, MutualExclusion,
           LockedIffInBody, NoLostWakeup, QueueIsExact
<1>3. ASSUME NEW t \in Tasks, Resume(t) PROVE Inv'
  <2>1. /\ lock' \in Locks
        /\ lock'.state = 1
        /\ lock'.waiting = lock.waiting
    BY <1>3 DEF Resume, Take, Inv, TypeOK, Locks
  <2>2. lock.state = t /\ \A u \in Tasks : pc[u] # "body"
    BY <1>3 DEF Resume, Inv, QueueIsExact, LockedIffInBody
  <2>3. \A u \in Tasks : IsWaiting(lock, u)' <=> IsWaiting(lock, u)
    BY <2>1 DEF IsWaiting
  <2> QED
    BY <1>3, <2>1, <2>2, <2>3
       DEF Resume, Inv, TypeOK, NoStaleCancel, MutualExclusion,
           LockedIffInBody, NoLostWakeup, QueueIsExact
<1>4. ASSUME NEW t \in Tasks, Exit(t) PROVE Inv'
  <2>1. lock \in Locks
    BY DEF Inv, TypeOK
  <2>2. \A i, j \in 1..Len(lock.waiting) :
           lock.waiting[i] = lock.waiting[j] => i = j
    BY DEF Inv, QueueIsExact
  <2>3. lock' = Release(lock) /\ lock.state = 1
    BY <1>4 DEF Exit, Inv, LockedIffInBody
  <2>4. /\ lock' \in Locks
        /\ lock'.state # 1
        /\ lock'.waiting # << >> => lock'.state \in Tasks
        /\ lock'.state \in Tasks => IsWaiting(lock, lock'.state)
        /\ \A i, j \in 1..Len(lock'.waiting) :
              lock'.waiting[i] = lock'.waiting[j] => i = j
        /\ \A u \in Tasks :
              IsWaiting(lock, u)' <=> IsWaiting(lock, u) /\ lock'.state # u
    BY <2>1, <2>2, <2>3, ReleaseFacts, SMTT(30) DEF IsWaiting
  <2> QED
    BY <1>4, <2>3, <2>4, SMTT(30)
       DEF Exit, Inv, TypeOK, NoStaleCancel, MutualExclusion, LockedIffInBody,
           NoLostWakeup, QueueIsExact
<1>5. ASSUME NEW t \in Tasks, Cancel(t) PROVE Inv'
  <2>1. CASE pc[t] = "acquire" /\ IsWaiting(lock, t)
    <3> DEFINE w == lock.waiting
               i == PositionOf(w, t)
    <3>1. w \in Seq(Tasks) /\ lock \in Locks
      BY DEF Inv, TypeOK, Locks
    <3>2. i \in 1..Len(w) /\ w[i] = t
      BY <2>1 DEF IsWaiting, PositionOf
    <3>3. /\ lock' \in Locks
          /\ lock'.state = lock.state
          /\ lock'.waiting = WithoutAt(w, i)
          /\ WithoutAt(w, i) \in Seq(Tasks)
          /\ \A j, k \in 1..Len(WithoutAt(w, i)) :
                 WithoutAt(w, i)[j] = WithoutAt(w, i)[k] => j = k
          /\ \A x : (\E j \in 1..Len(WithoutAt(w, i)) :
                          WithoutAt(w, i)[j] = x)
                       <=> x # t /\ \E j \in 1..Len(w) : w[j] = x
      <4>1. \A j, k \in 1..Len(w) : w[j] = w[k] => j = k
        BY DEF Inv, QueueIsExact
      <4>2. /\ WithoutAt(w, i) \in Seq(Tasks)
            /\ \A j, k \in 1..Len(WithoutAt(w, i)) :
                 WithoutAt(w, i)[j] = WithoutAt(w, i)[k] => j = k
            /\ \A x : (\E j \in 1..Len(WithoutAt(w, i)) :
                          WithoutAt(w, i)[j] = x)
                       <=> x # w[i] /\ \E j \in 1..Len(w) : w[j] = x
        BY <3>1, <3>2, <4>1, WithoutAtFacts
      <4>3. lock' = [lock EXCEPT !.waiting = WithoutAt(w, i)]
        BY <1>5, <2>1 DEF Cancel, Dequeue
      <4> QED  BY <3>1, <3>2, <4>2, <4>3 DEF Locks
    <3>4. \A u \in Tasks : IsWaiting(lock, u)' <=> u # t /\ IsWaiting(lock, u)
      BY <3>3 DEF IsWaiting
    <3>5. lock.waiting # << >>
      BY <2>1, <3>1 DEF IsWaiting
    <3> QED
      BY <1>5, <2>1, <3>3, <3>4, <3>5
         DEF Cancel, Inv, TypeOK, NoStaleCancel, MutualExclusion,
             LockedIffInBody, NoLostWakeup, QueueIsExact
  <2>2. CASE ~ (pc[t] = "acquire" /\ IsWaiting(lock, t))
    <3>1. lock' = lock /\ pc' = pc
      BY <1>5, <2>2 DEF Cancel
    <3>2. ~ IsWaiting(lock, t)
      BY <2>2 DEF Inv, QueueIsExact
    <3>3. \A u \in Tasks : IsWaiting(lock, u)' <=> IsWaiting(lock, u)
      BY <3>1 DEF IsWaiting
    <3> QED
      BY <1>5, <3>1, <3>2, <3>3
         DEF Cancel, Inv, TypeOK, NoStaleCancel, MutualExclusion,
             LockedIffInBody, NoLostWakeup, QueueIsExact
  <2> QED  BY <2>1, <2>2
<1>6. ASSUME NEW t \in Tasks, ThrowInAcquire(t) PROVE Inv'
  <2>0. ~ IsWaiting(lock, t)
    BY <1>6 DEF ThrowInAcquire, Inv, QueueIsExact
  <2>1. CASE lock.state = t
    <3> DEFINE lk == Take(lock)
    <3>1. lk \in Locks /\ lk.waiting = lock.waiting
      BY DEF Inv, TypeOK, Take, Locks
    <3>2. \A i, j \in 1..Len(lk.waiting) :
             lk.waiting[i] = lk.waiting[j] => i = j
      BY <3>1 DEF Inv, QueueIsExact
    <3>3. \A u : IsWaiting(lk, u) <=> IsWaiting(lock, u)
      BY <3>1 DEF IsWaiting
    <3>4. lock' = Release(lk)
      BY <1>6, <2>1 DEF ThrowInAcquire, Abandon
    <3> HIDE DEF lk
    <3>5. /\ lock' \in Locks
          /\ lock'.state # 1
          /\ lock'.waiting # << >> => lock'.state \in Tasks
          /\ lock'.state \in Tasks => IsWaiting(lock, lock'.state)
          /\ \A i, j \in 1..Len(lock'.waiting) :
                lock'.waiting[i] = lock'.waiting[j] => i = j
          /\ \A u \in Tasks :
                IsWaiting(lock, u)' <=> IsWaiting(lock, u) /\ lock'.state # u
      <4>1. \A u \in Tasks : IsWaiting(lock, u)' <=> IsWaiting(Release(lk), u)
        BY <3>4 DEF IsWaiting
      <4> QED  BY <3>1, <3>2, <3>3, <3>4, <4>1, ReleaseFacts
    <3>6. \A u \in Tasks : pc[u] # "body"
      BY <2>1 DEF Inv, LockedIffInBody
    <3> QED
      BY <1>6, <2>0, <2>1, <3>5, <3>6
         DEF ThrowInAcquire, Inv, TypeOK, NoStaleCancel, MutualExclusion,
             LockedIffInBody, NoLostWakeup, QueueIsExact
  <2>2. CASE lock.state # t
    <3>1. lock' = lock
      BY <1>6, <2>2 DEF ThrowInAcquire, Abandon
    <3>2. \A u \in Tasks : IsWaiting(lock, u)' <=> IsWaiting(lock, u)
      BY <3>1 DEF IsWaiting
    <3> QED
      BY <1>6, <2>0, <2>2, <3>1, <3>2
         DEF ThrowInAcquire, Inv, TypeOK, NoStaleCancel, MutualExclusion,
             LockedIffInBody, NoLostWakeup, QueueIsExact
  <2> QED  BY <2>1, <2>2
<1>7. CASE UNCHANGED vars
  BY <1>7 DEF vars, Inv, TypeOK, NoStaleCancel, MutualExclusion,
              LockedIffInBody, NoLostWakeup, QueueIsExact, IsWaiting
<1> QED  BY <1>1, <1>2, <1>3, <1>4, <1>5, <1>6, <1>7 DEF Next, Step

-----------------------------------------------------------------------------
\* Inv holds in every reachable state of Lock, for every set of tasks.
THEOREM InvHolds == Spec => []Inv
<1>1. Init => Inv
  BY InitInv
<1>2. Inv /\ [Next]_vars => Inv'
  BY NextInv
<1> QED  BY <1>1, <1>2, PTL DEF Spec

\* Every value of Lock.state and of its queue has its type.
THEOREM TypeCorrect == Spec => []TypeOK
  BY InvHolds, PTL DEF Inv

\* No two tasks are ever inside "async with lock".
THEOREM MutualExclusionHolds == Spec => []MutualExclusion
  BY InvHolds, PTL DEF Inv

\* release() in __aexit__ never finds the lock in another state than locked.
THEOREM LockedIffInBodyHolds == Spec => []LockedIffInBody
  BY InvHolds, PTL DEF Inv

\* A waiter is never left on the queue of a lock that is free.
THEOREM NoLostWakeupHolds == Spec => []NoLostWakeup
  BY InvHolds, PTL DEF Inv

\* The queue holds exactly the tasks that sleep in acquire().
THEOREM QueueIsExactHolds == Spec => []QueueIsExact
  BY InvHolds, PTL DEF Inv

-----------------------------------------------------------------------------
(***************************************************************************)
(* UasyncioLock implements Mutex: what a user of the lock may rely on, one *)
(* holder at a time and first come first served, holds for any number of   *)
(* tasks, cancelled at any await.  The task that release() has chosen and  *)
(* that has not run yet is the first request of the mutex.                 *)
(***************************************************************************)


\* The sequence with x in front of s.
LEMMA InFront ==
    ASSUME NEW S, NEW x \in S, NEW s \in Seq(S)
    PROVE  /\ << x >> \o s \in Seq(S)
           /\ Len(<< x >> \o s) = Len(s) + 1
           /\ (<< x >> \o s)[1] = x
           /\ \A i \in 1..Len(s) : (<< x >> \o s)[i + 1] = s[i]
           /\ << x >> \o s # << >>
           /\ Head(<< x >> \o s) = x
           /\ Tail(<< x >> \o s) = s
<1> DEFINE f == << x >> \o s
<1>1. << x >> \in Seq(S) /\ Len(<< x >>) = 1 /\ << x >>[1] = x
  OBVIOUS
<1>2. /\ f \in Seq(S)
      /\ Len(f) = 1 + Len(s)
      /\ \A i \in 1..(1 + Len(s)) :
            f[i] = IF i <= 1 THEN << x >>[i] ELSE s[i - 1]
  BY <1>1, ConcatProperties
<1> HIDE DEF f
<1>3. Len(s) \in Nat
  OBVIOUS
<1>4. f[1] = x /\ \A i \in 1..Len(s) : f[i + 1] = s[i]
  BY <1>1, <1>2, <1>3
<1>5. f # << >>
  BY <1>2, <1>3
<1>6. Head(f) = x
  BY <1>2, <1>4, <1>5
<1>7. Tail(f) = s
  <2>1. /\ Tail(f) \in Seq(S)
        /\ Len(Tail(f)) = Len(s)
        /\ \A i \in 1..Len(Tail(f)) : Tail(f)[i] = s[i]
    BY <1>2, <1>3, <1>4, <1>5, HeadTailProperties
  <2> QED  BY <2>1, SeqEqual
<1> QED  BY <1>2, <1>3, <1>4, <1>5, <1>6, <1>7 DEF f

\* Appending behind a sequence with x in front.
LEMMA AppendInFront ==
    ASSUME NEW S, NEW x \in S, NEW y \in S, NEW s \in Seq(S)
    PROVE  << x >> \o Append(s, y) = Append(<< x >> \o s, y)
<1> DEFINE f == << x >> \o Append(s, y)
           g == Append(<< x >> \o s, y)
<1>1. /\ Append(s, y) \in Seq(S)
      /\ Len(Append(s, y)) = Len(s) + 1
      /\ \A i \in 1..Len(s) : Append(s, y)[i] = s[i]
      /\ Append(s, y)[Len(s) + 1] = y
      /\ Len(s) \in Nat
  OBVIOUS
<1>2. /\ f \in Seq(S)
      /\ Len(f) = Len(s) + 2
      /\ f[1] = x
      /\ \A i \in 1..(Len(s) + 1) : f[i + 1] = Append(s, y)[i]
  BY <1>1, InFront
<1>3. /\ << x >> \o s \in Seq(S)
      /\ Len(<< x >> \o s) = Len(s) + 1
      /\ (<< x >> \o s)[1] = x
      /\ \A i \in 1..Len(s) : (<< x >> \o s)[i + 1] = s[i]
  BY InFront
<1>4. /\ g \in Seq(S)
      /\ Len(g) = Len(s) + 2
      /\ \A i \in 1..(Len(s) + 1) : g[i] = (<< x >> \o s)[i]
      /\ g[Len(s) + 2] = y
  BY <1>1, <1>3
<1> HIDE DEF f, g
<1>5. ASSUME NEW i \in 1..Len(f) PROVE f[i] = g[i]
  <2>1. CASE i = 1
    BY <2>1, <1>1, <1>2, <1>3, <1>4
  <2>2. CASE i \in 2..(Len(s) + 1)
    <3>1. PICK k \in 1..Len(s) : i = k + 1
      BY <2>2, <1>1
    <3>2. k \in 1..(Len(s) + 1) /\ k + 1 \in 1..(Len(s) + 1)
      BY <1>1
    <3>3. f[k + 1] = s[k]
      BY <3>2, <1>1, <1>2
    <3>4. g[k + 1] = s[k]
      BY <3>2, <1>3, <1>4
    <3> QED  BY <3>1, <3>3, <3>4
  <2>3. CASE i = Len(s) + 2
    <3>1. Len(s) + 1 \in 1..(Len(s) + 1) /\ (Len(s) + 1) + 1 = i
      BY <2>3, <1>1
    <3> QED  BY <3>1, <2>3, <1>1, <1>2, <1>4
  <2> QED  BY <2>1, <2>2, <2>3, <1>1, <1>2
<1> QED  BY <1>2, <1>4, <1>5, SeqEqual DEF f, g

\* A sequence that is not empty is its head in front of its tail.
LEMMA HeadInFront ==
    ASSUME NEW S, NEW s \in Seq(S), s # << >>
    PROVE  << Head(s) >> \o Tail(s) = s
<1> DEFINE f == << Head(s) >> \o Tail(s)
<1>1. /\ Head(s) \in S /\ Head(s) = s[1]
      /\ Tail(s) \in Seq(S)
      /\ Len(Tail(s)) = Len(s) - 1
      /\ \A i \in 1..Len(Tail(s)) : Tail(s)[i] = s[i + 1]
      /\ Len(s) \in Nat \ {0}
  BY HeadTailProperties
<1>2. /\ f \in Seq(S)
      /\ Len(f) = Len(Tail(s)) + 1
      /\ f[1] = Head(s)
      /\ \A i \in 1..Len(Tail(s)) : f[i + 1] = Tail(s)[i]
  BY <1>1, InFront
<1> HIDE DEF f
<1>3. ASSUME NEW i \in 1..Len(s) PROVE f[i] = s[i]
  <2>1. CASE i = 1
    BY <2>1, <1>1, <1>2
  <2>2. CASE i # 1
    <3>1. i - 1 \in 1..Len(Tail(s)) /\ (i - 1) + 1 = i
      BY <2>2, <1>1
    <3> QED  BY <3>1, <1>1, <1>2
  <2> QED  BY <2>1, <2>2
<1> QED  BY <1>1, <1>2, <1>3, SeqEqual DEF f

-----------------------------------------------------------------------------
\* The facts about the lock that the cases below share: its fields, and where
\* the task that holds the lock and the one it is promised to are.
LEMMA LockFacts ==
    ASSUME Inv
    PROVE  /\ lock \in Locks
           /\ lock.waiting \in Seq(Tasks)
           /\ lock.state \in {0, 1} \cup Tasks
           /\ lock.state = 1 <=> Holders # {}
           /\ lock.state = 0 => lock.waiting = << >>
           /\ Requests \in Seq(Tasks)
  <1>1. /\ lock \in Locks
        /\ lock.waiting \in Seq(Tasks)
        /\ lock.state \in {0, 1} \cup Tasks
    BY DEF Inv, TypeOK, Locks, Locked, Unlocked
  <1>2. lock.state = 1 <=> Holders # {}
    BY DEF Inv, LockedIffInBody, Locked, Holders
  <1>3. lock.state = 0 => lock.waiting = << >>
    BY DEF Inv, NoLostWakeup, Unlocked
  <1>4. Requests \in Seq(Tasks)
    BY <1>1, InFront DEF Requests
  <1> QED  BY <1>1, <1>2, <1>3, <1>4

\* A free lock is a mutex that nobody has or wants.
LEMMA RefinesInit == Init => AbstractMutex!Init
  BY TasksAssumption
     DEF Init, AbstractMutex!Init, Holders, Requests, NewLock, Unlocked

\* Every step of a task is a step of the mutex, or leaves it as it is.
LEMMA RefinesNext ==
    Inv /\ Inv' /\ [Next]_vars => [AbstractMutex!Next]_(AbstractMutex!vars)
<1> SUFFICES ASSUME Inv, Inv', [Next]_vars
             PROVE  AbstractMutex!Next \/ UNCHANGED << Holders, Requests >>
  BY DEF AbstractMutex!vars
<1> USE TasksAssumption
<1>a. /\ lock \in Locks
      /\ lock.waiting \in Seq(Tasks)
      /\ lock.state \in {0, 1} \cup Tasks
      /\ lock.state = 1 <=> Holders # {}
      /\ lock.state = 0 => lock.waiting = << >>
      /\ Requests \in Seq(Tasks)
  BY LockFacts
<1>b. pc \in [Tasks -> {"idle", "acquire", "body"}]
  BY DEF Inv, TypeOK
<1>1. ASSUME NEW t \in Tasks, AcquireFree(t) PROVE AbstractMutex!Next
  <2>1. lock.state = 0 /\ lock.waiting = << >>
    BY <1>1, <1>a DEF AcquireFree, Free, Unlocked
  <2>2. lock'.state = 1 /\ lock'.waiting = << >>
    BY <1>1, <2>1, <1>a DEF AcquireFree, Take, Locked, Locks
  <2>3. Requests = << >> /\ Requests' = << >>
    BY <2>1, <2>2 DEF Requests
  <2>4. Holders = {} /\ Holders' = {t}
    BY <1>1, <2>1, <1>a, <1>b DEF AcquireFree, Holders
  <2>5. AbstractMutex!Request(t)
    BY <2>3, <2>4 DEF AbstractMutex!Request
  <2> QED  BY <2>5 DEF AbstractMutex!Next
<1>2. ASSUME NEW t \in Tasks, AcquireWait(t) PROVE AbstractMutex!Next
  <2>1. /\ lock.state # 0
        /\ lock'.state = lock.state
        /\ lock'.waiting = Append(lock.waiting, t)
    BY <1>2, <1>a DEF AcquireWait, Free, Enqueue, Unlocked, Locks
  <2>2. Holders' = Holders /\ t \notin Holders
    BY <1>2, <1>b DEF AcquireWait, Holders
  <2>3. ~ IsWaiting(lock, t) /\ lock.state # t
    BY <1>2 DEF AcquireWait, Inv, QueueIsExact, NoLostWakeup
  <2>4. Requests' = Append(Requests, t)
    BY <2>1, <1>a, AppendInFront DEF Requests
  <2>5. ASSUME NEW i \in 1..Len(Requests) PROVE Requests[i] # t
    <3>1. CASE lock.state \in Tasks
      <4>1. Requests = << lock.state >> \o lock.waiting
        BY <3>1 DEF Requests
      <4>2. /\ Len(Requests) = Len(lock.waiting) + 1
            /\ Requests[1] = lock.state
            /\ \A j \in 1..Len(lock.waiting) :
                  Requests[j + 1] = lock.waiting[j]
        BY <3>1, <4>1, <1>a, InFront
      <4>3. CASE i = 1
        BY <4>2, <4>3, <2>3
      <4>4. CASE i # 1
        <5>1. PICK j \in 1..Len(lock.waiting) : i = j + 1
          BY <4>4, <4>2, <1>a
        <5> QED  BY <5>1, <4>2, <2>3 DEF IsWaiting
      <4> QED  BY <4>3, <4>4
    <3>2. CASE lock.state \notin Tasks
      BY <3>2, <2>3 DEF Requests, IsWaiting
    <3> QED  BY <3>1, <3>2
  <2>6. ~ (Holders = {} /\ Requests = << >>)
    BY <2>1, <1>a, InFront DEF Requests
  <2>7. AbstractMutex!Request(t)
    BY <2>2, <2>4, <2>5, <2>6 DEF AbstractMutex!Request
  <2> QED  BY <2>7 DEF AbstractMutex!Next
<1>3. ASSUME NEW t \in Tasks, Resume(t) PROVE AbstractMutex!Next
  <2>1. lock.state = t
    BY <1>3 DEF Resume, Inv, QueueIsExact
  <2>2. lock'.state = 1 /\ lock'.waiting = lock.waiting
    BY <1>3, <1>a DEF Resume, Take, Locked, Locks
  <2>3. Holders = {} /\ Holders' = {t}
    BY <1>3, <2>1, <1>a, <1>b DEF Resume, Holders
  <2>4. Requests = << t >> \o lock.waiting /\ Requests' = lock.waiting
    BY <2>1, <2>2 DEF Requests
  <2>5. Requests # << >> /\ t = Head(Requests) /\ Tail(Requests) = Requests'
    BY <2>4, <1>a, InFront
  <2>6. AbstractMutex!Grant(t)
    BY <2>3, <2>5 DEF AbstractMutex!Grant
  <2> QED  BY <2>6 DEF AbstractMutex!Next
<1>c. ASSUME NEW lk \in Locks, lock' = Release(lk), lk.waiting = lock.waiting
      PROVE  Requests' = lock.waiting
  <2>1. CASE lock.waiting = << >>
    BY <1>c, <2>1 DEF Release, Requests, Locks, Unlocked
  <2>2. CASE lock.waiting # << >>
    <3>1. /\ lock'.state = Head(lock.waiting)
          /\ lock'.waiting = Tail(lock.waiting)
      BY <1>c, <2>2 DEF Release
    <3>2. Head(lock.waiting) \in Tasks
      BY <2>2, <1>a
    <3> QED  BY <2>2, <3>1, <3>2, <1>a, HeadInFront DEF Requests
  <2> QED  BY <2>1, <2>2
<1>4. ASSUME NEW t \in Tasks, Exit(t) PROVE AbstractMutex!Next
  <2>1. lock.state = 1 /\ t \in Holders
    BY <1>4, <1>a DEF Exit, Holders
  <2>2. Holders' = Holders \ {t}
    BY <1>4, <1>b DEF Exit, Holders
  <2>3. Requests' = Requests
    BY <1>4, <2>1, <1>a, <1>c DEF Exit, Requests
  <2>4. AbstractMutex!Leave(t)
    BY <2>1, <2>2, <2>3 DEF AbstractMutex!Leave
  <2> QED  BY <2>4 DEF AbstractMutex!Next
<1>5. ASSUME NEW t \in Tasks, Cancel(t)
      PROVE  AbstractMutex!Next \/ UNCHANGED << Holders, Requests >>
  <2>0. Holders' = Holders
    BY <1>5 DEF Cancel, Holders
  <2>1. CASE pc[t] = "acquire" /\ IsWaiting(lock, t)
    <3> DEFINE w == lock.waiting
               p == PositionOf(w, t)
               v == WithoutAt(w, p)
    <3>1. p \in 1..Len(w) /\ Len(w) \in Nat /\ Len(w) - 1 \in Nat
      BY <2>1, <1>a DEF IsWaiting, PositionOf
    <3>2. lock'.state = lock.state /\ lock'.waiting = v
      BY <1>5, <2>1, <1>a DEF Cancel, Dequeue, Locks
    <3>3. v = [j \in 1..(Len(w) - 1) |-> IF j < p THEN w[j] ELSE w[j + 1]]
      BY DEF WithoutAt
    <3> HIDE DEF p, v
    <3>4. CASE lock.state \notin Tasks
      <4>1. Requests = w /\ Requests' = v
        BY <3>2, <3>4 DEF Requests
      <4>2. AbstractMutex!Withdraw(p)
        BY <4>1, <3>1, <3>3, <2>0 DEF AbstractMutex!Withdraw
      <4> QED  BY <4>1, <4>2, <3>1 DEF AbstractMutex!Next
    <3>5. CASE lock.state \in Tasks
      <4> DEFINE R == Requests
                 q == p + 1
                 W == [j \in 1..(Len(R) - 1) |->
                         IF j < q THEN R[j] ELSE R[j + 1]]
      <4>1. R = << lock.state >> \o w /\ R' = << lock.state >> \o v
        BY <3>2, <3>5 DEF Requests
      <4>2. /\ Len(R) = Len(w) + 1
            /\ R[1] = lock.state
            /\ \A j \in 1..Len(w) : R[j + 1] = w[j]
            /\ R \in Seq(Tasks)
        BY <4>1, <3>5, <1>a, InFront
      <4>3. /\ v \in Seq(Tasks)
            /\ Len(v) = Len(w) - 1
            /\ \A j \in 1..Len(v) : v[j] = IF j < p THEN w[j] ELSE w[j + 1]
        <5>1. \A j \in 1..(Len(w) - 1) :
                 (IF j < p THEN w[j] ELSE w[j + 1]) \in Tasks
          BY <3>1, <1>a
        <5>2. v \in [1..(Len(w) - 1) -> Tasks]
          BY <5>1, <3>3
        <5>3. v \in Seq(Tasks) /\ Len(v) = Len(w) - 1
          BY <5>2, <3>1
        <5> QED  BY <5>3, <3>1, <3>3
      <4>4. /\ R' \in Seq(Tasks)
            /\ Len(R') = Len(w)
            /\ R'[1] = lock.state
            /\ \A j \in 1..Len(v) : R'[j + 1] = v[j]
        BY <4>1, <4>3, <3>1, <3>5, InFront
      <4>5. /\ W \in Seq(Tasks)
            /\ Len(W) = Len(w)
            /\ \A j \in 1..Len(w) : W[j] = IF j < q THEN R[j] ELSE R[j + 1]
        <5>1. \A j \in 1..(Len(R) - 1) :
                 (IF j < q THEN R[j] ELSE R[j + 1]) \in Tasks
          BY <3>1, <4>2
        <5>2. W \in [1..Len(w) -> Tasks] /\ Len(R) - 1 = Len(w)
          BY <5>1, <4>2, <3>1
        <5>3. W \in Seq(Tasks) /\ Len(W) = Len(w)
          <6> HIDE DEF W
          <6> QED  BY <5>2, <3>1
        <5> QED  BY <5>2, <5>3, <3>1
      <4>6. ASSUME NEW j \in 1..Len(w) PROVE R'[j] = W[j]
        <5> HIDE DEF W, R
        <5>1. CASE j = 1
          BY <5>1, <3>1, <4>2, <4>4, <4>5
        <5>2. CASE j # 1
          <6>1. PICK k \in 1..Len(v) : j = k + 1
            BY <5>2, <4>3, <3>1
          <6>2. R'[j] = IF k < p THEN w[k] ELSE w[k + 1]
            BY <6>1, <4>3, <4>4
          <6>3. W[j] = IF k < p THEN R[k + 1] ELSE R[(k + 1) + 1]
            BY <6>1, <4>3, <4>5, <3>1
          <6>4. k \in 1..Len(w) /\ k + 1 \in 1..Len(w)
            BY <4>3, <3>1
          <6>5. R[k + 1] = w[k] /\ R[(k + 1) + 1] = w[k + 1]
            BY <6>4, <4>2
          <6> QED  BY <6>2, <6>3, <6>5
        <5> QED  BY <5>1, <5>2
      <4>7. R' = W
        <5> HIDE DEF W, R
        <5> QED  BY <4>4, <4>5, <4>6, SeqEqual
      <4>8. q \in 1..Len(R)
        BY <3>1, <4>2
      <4>9. AbstractMutex!Withdraw(q)
        BY <4>7, <4>8, <2>0 DEF AbstractMutex!Withdraw
      <4> QED  BY <4>8, <4>9 DEF AbstractMutex!Next
    <3> QED  BY <3>4, <3>5
  <2>2. CASE ~ (pc[t] = "acquire" /\ IsWaiting(lock, t))
    BY <1>5, <2>0, <2>2 DEF Cancel, Requests
  <2> QED  BY <2>1, <2>2
<1>6. ASSUME NEW t \in Tasks, ThrowInAcquire(t)
      PROVE  AbstractMutex!Next \/ UNCHANGED << Holders, Requests >>
  <2>0. Holders' = Holders
    BY <1>6, <1>b DEF ThrowInAcquire, Holders
  <2>1. CASE lock.state = t
    <3> DEFINE w == lock.waiting
    <3>1. Requests = << t >> \o w
      BY <2>1 DEF Requests
    <3>2. Requests' = w
      <4>1. Take(lock) \in Locks /\ Take(lock).waiting = lock.waiting
        BY <1>a DEF Take, Locks, Locked
      <4>2. lock' = Release(Take(lock))
        BY <1>6, <2>1 DEF ThrowInAcquire, Abandon
      <4> QED  BY <4>1, <4>2, <1>c
    <3>3. /\ Len(Requests) = Len(w) + 1
          /\ \A j \in 1..Len(w) : Requests[j + 1] = w[j]
          /\ Len(w) \in Nat
      BY <3>1, <1>a, InFront
    <3>4. w = [j \in 1..(Len(Requests) - 1) |->
                 IF j < 1 THEN Requests[j] ELSE Requests[j + 1]]
      <4>1. w = [j \in 1..Len(w) |-> w[j]]
        BY <1>a
      <4> QED  BY <4>1, <3>3
    <3>5. AbstractMutex!Withdraw(1) /\ 1 \in 1..Len(Requests)
      BY <2>0, <3>2, <3>3, <3>4 DEF AbstractMutex!Withdraw
    <3> QED  BY <3>5 DEF AbstractMutex!Next
  <2>2. CASE lock.state # t
    BY <1>6, <2>0, <2>2 DEF ThrowInAcquire, Abandon, Requests
  <2> QED  BY <2>1, <2>2
<1>7. CASE UNCHANGED vars
  BY <1>7 DEF vars, Holders, Requests
<1> QED  BY <1>1, <1>2, <1>3, <1>4, <1>5, <1>6, <1>7 DEF Next, Step

\* The lock grants what it is asked for, in the order it is asked for, to one
\* task at a time, whatever the cancellations: uasyncio.Lock is a first-come
\* first-served mutex for every set of tasks.
THEOREM ImplementsMutexHolds == Spec => ImplementsMutex
<1>1. Init => AbstractMutex!Init
  BY RefinesInit
<1>2. Inv /\ Inv' /\ [Next]_vars => [AbstractMutex!Next]_(AbstractMutex!vars)
  BY RefinesNext
<1>3. Spec => []Inv
  BY InvHolds
<1> QED  BY <1>1, <1>2, <1>3, PTL DEF Spec, AbstractMutex!Spec, ImplementsMutex
=============================================================================
