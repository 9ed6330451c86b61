----------------------------- MODULE TaskLemmas -----------------------------
(***************************************************************************)
(* What the operators of AsyncioTasks do to a loop whose queues and fields *)
(* are consistent (LoopOK) and whose run queue is ordered by time, for any *)
(* tasks.                                                                  *)
(*                                                                         *)
(* The links from a task to the one it awaits make a forest, because       *)
(* nobody awaits a task whose links lead to himself.  This is kept as a    *)
(* ranking of the tasks (Ranked); by induction over the ranks the end of   *)
(* the links, which is where task_cancel goes, exists and is a task that   *)
(* has not ended.                                                          *)
(***************************************************************************)
EXTENDS AsyncioTasks, FiniteSetTheorems, SequenceTheorems,
        WellFoundedInduction, TLAPS

(***************************************************************************)
(* Numbers and sequences                                                   *)
(***************************************************************************)

\* A set of natural numbers that is not empty has a least one.
LEMMA LeastNumber ==
    ASSUME NEW T \in SUBSET Nat, T # {}
    PROVE  \E x \in T : \A y \in T : x <= y
<1> DEFINE R == OpToRel(<, Nat)
<1>1. IsWellFoundedOn(R, Nat)
  BY NatLessThanWellFounded
<1>2. \A x, y \in Nat : x < y => <<x, y>> \in R
  BY DEF OpToRel
<1> HIDE DEF R
<1>3. PICK x \in T : \A y \in T : ~(<<y, x>> \in R)
  BY <1>1, WFMin
<1>4. ASSUME NEW y \in T PROVE x <= y
  <2>1. x \in Nat /\ y \in Nat
    OBVIOUS
  <2>2. ~(y < x)
    BY <1>2, <1>3, <2>1
  <2> QED  BY <2>1, <2>2
<1> QED  BY <1>4

\* No element comes twice.
Once(q) == \A i, j \in DOMAIN q : q[i] = q[j] => i = j

\* r is a sequence a of length x and then a sequence b of length y.
Joined(r, S, a, b, x, y) ==
    /\ r \in Seq(S) /\ Len(r) = x + y
    /\ \A i \in 1 .. x : r[i] = a[i]
    /\ \A i \in x + 1 .. x + y : r[i] = b[i - x]

\* The elements of two sequences, one after the other.
LEMMA ConcatFacts ==
    ASSUME NEW S, NEW a \in Seq(S), NEW b \in Seq(S),
           NEW x \in Nat, NEW y \in Nat, Len(a) = x, Len(b) = y
    PROVE  Joined(a \o b, S, a, b, x, y)
  BY DEF Joined

\* r is s with q put into it behind the first n elements.
Spliced(r, S, s, q, n) ==
    /\ r \in Seq(S) /\ Len(r) = Len(s) + Len(q)
    /\ \A i \in 1 .. n : r[i] = s[i]
    /\ \A i \in n + 1 .. n + Len(q) : r[i] = q[i - n]
    /\ \A i \in n + Len(q) + 1 .. Len(s) + Len(q) : r[i] = s[i - Len(q)]

\* That is what concatenation does.
LEMMA SpliceIs ==
    ASSUME NEW S, NEW s \in Seq(S), NEW q \in Seq(S), NEW n \in 0 .. Len(s)
    PROVE  Spliced(SubSeq(s, 1, n) \o q \o SubSeq(s, n + 1, Len(s)),
                   S, s, q, n)
<1> DEFINE r == SubSeq(s, 1, n) \o q \o SubSeq(s, n + 1, Len(s))
           c == Len(q)
           m == Len(s)
<1>0. c \in Nat /\ m \in Nat /\ n \in 0 .. m
  OBVIOUS
<1> DEFINE a == SubSeq(s, 1, n)
           b == SubSeq(s, n + 1, m)
           aq == a \o q
<1>1. /\ a \in Seq(S) /\ Len(a) = n
      /\ \A i \in 1 .. n : a[i] = s[i]
  BY <1>0
<1>2. /\ b \in Seq(S) /\ Len(b) = m - n
      /\ \A i \in 1 .. m - n : b[i] = s[n + i]
  BY <1>0
<1> HIDE DEF a, b, m
<1>3. /\ aq \in Seq(S) /\ Len(aq) = n + c
      /\ \A i \in 1 .. n : aq[i] = a[i]
      /\ \A i \in n + 1 .. n + c : aq[i] = q[i - n]
  <2>1. q \in Seq(S) /\ Len(q) = c /\ n \in Nat
    BY <1>0
  <2> HIDE DEF c
  <2>2. Joined(a \o q, S, a, q, n, c)
    BY <1>0, <1>1, <2>1, ConcatFacts
  <2> QED  BY <2>2 DEF Joined
<1> HIDE DEF aq, c
<1>4. /\ aq \o b \in Seq(S) /\ Len(aq \o b) = m + c
      /\ \A i \in 1 .. n + c : (aq \o b)[i] = aq[i]
      /\ \A i \in n + c + 1 .. m + c : (aq \o b)[i] = b[i - (n + c)]
  <2> DEFINE x == n + c
             y == m - n
  <2>1. x \in Nat /\ y \in Nat /\ x + y = m + c
    BY <1>0
  <2>2. aq \in Seq(S) /\ b \in Seq(S) /\ Len(aq) = x /\ Len(b) = y
    BY <1>2, <1>3
  <2> HIDE DEF x, y
  <2>3. Joined(aq \o b, S, aq, b, x, y)
    BY <2>1, <2>2, ConcatFacts
  <2> QED  BY <2>1, <2>3 DEF Joined, x
<1>5. r = aq \o b
  BY DEF aq, a, b, m
<1> HIDE DEF r
<1>6. \A i \in 1 .. n : r[i] = s[i]
  BY <1>0, <1>1, <1>3, <1>4, <1>5
<1>7. \A i \in n + 1 .. n + c : r[i] = q[i - n]
  BY <1>0, <1>3, <1>4, <1>5
<1>8. ASSUME NEW i \in n + c + 1 .. m + c PROVE r[i] = s[i - c]
  <2>1. i - (n + c) \in 1 .. m - n /\ n + (i - (n + c)) = i - c
    BY <1>0
  <2> QED  BY <1>2, <1>4, <1>5, <2>1
<1>9. Spliced(r, S, s, q, n)
  BY <1>4, <1>5, <1>6, <1>7, <1>8 DEF Spliced, c, m
<1> QED  BY <1>9 DEF r

\* q put into s behind the first n elements.
LEMMA SpliceFacts ==
    ASSUME NEW S, NEW s \in Seq(S), NEW q \in Seq(S), Once(s), Once(q),
           Range(s) \cap Range(q) = {}, NEW n \in 0 .. Len(s)
    PROVE  LET r == SubSeq(s, 1, n) \o q \o SubSeq(s, n + 1, Len(s)) IN
           /\ r \in Seq(S) /\ Once(r)
           /\ Range(r) = Range(s) \cup Range(q)
<1> DEFINE r == SubSeq(s, 1, n) \o q \o SubSeq(s, n + 1, Len(s))
           c == Len(q)
           m == Len(s)
<1>1. c \in Nat /\ m \in Nat /\ n \in 0 .. m
  OBVIOUS
<1>2. /\ r \in Seq(S) /\ Len(r) = m + c
      /\ \A i \in 1 .. n : r[i] = s[i]
      /\ \A i \in n + 1 .. n + c : r[i] = q[i - n]
      /\ \A i \in n + c + 1 .. m + c : r[i] = s[i - c]
  <2>1. Spliced(r, S, s, q, n)
    BY SpliceIs
  <2> QED  BY <2>1 DEF Spliced
<1>3. DOMAIN r = 1 .. m + c /\ DOMAIN q = 1 .. c /\ DOMAIN s = 1 .. m
  <2>1. DOMAIN r = 1 .. Len(r) /\ DOMAIN q = 1 .. c /\ DOMAIN s = 1 .. m
    <3> HIDE DEF r
    <3> QED  BY <1>2
  <2> QED  BY <1>2, <2>1
<1> HIDE DEF r, c, m
<1> DEFINE From(i) == IF i <= n THEN s[i] ELSE IF i <= n + c THEN q[i - n]
                      ELSE s[i - c]
<1>4. \A i \in DOMAIN r : r[i] = From(i)
  <2>1. ASSUME NEW i \in 1 .. m + c PROVE r[i] = From(i)
    <3>1. CASE i \in 1 .. n
      BY <3>1, <1>1, <1>2
    <3>2. CASE i \in n + 1 .. n + c
      BY <3>2, <1>1, <1>2
    <3>3. CASE i \in n + c + 1 .. m + c
      BY <3>3, <1>1, <1>2
    <3> QED  BY <1>1, <3>1, <3>2, <3>3
  <2> QED  BY <2>1, <1>3
<1>5. \A i \in 1 .. m, j \in 1 .. c : s[i] # q[j]
  BY <1>3 DEF Range
<1>6. Once(r)
  <2> SUFFICES ASSUME NEW i \in 1 .. m + c, NEW j \in 1 .. m + c, i # j
               PROVE  r[i] # r[j]
    BY <1>3 DEF Once
  <2>0. /\ i \in Nat /\ j \in Nat
        /\ \A a, b \in 1 .. m : a # b => s[a] # s[b]
        /\ \A a, b \in 1 .. c : a # b => q[a] # q[b]
    <3>1. i \in Nat /\ j \in Nat
      BY <1>1
    <3> QED  BY <1>3, <3>1 DEF Once
  <2>1. r[i] = From(i) /\ r[j] = From(j)
    BY <1>3, <1>4
  <2> QED  BY <1>1, <1>5, <2>0, <2>1
<1>7. ASSUME NEW x \in Range(r) PROVE x \in Range(s) \cup Range(q)
  <2>1. PICK i \in 1 .. m + c : x = r[i]
    BY <1>3 DEF Range
  <2>2. CASE i \in 1 .. n
    BY <1>1, <1>2, <1>3, <2>1, <2>2 DEF Range
  <2>3. CASE i \in n + 1 .. n + c
    <3>1. x = q[i - n] /\ i - n \in DOMAIN q
      BY <1>1, <1>2, <1>3, <2>1, <2>3
    <3> QED  BY <3>1 DEF Range
  <2>4. CASE i \in n + c + 1 .. m + c
    <3>1. x = s[i - c] /\ i - c \in DOMAIN s
      BY <1>1, <1>2, <1>3, <2>1, <2>4
    <3> QED  BY <3>1 DEF Range
  <2> QED  BY <1>1, <2>1, <2>2, <2>3, <2>4
<1>8. ASSUME NEW x \in Range(q) PROVE x \in Range(r)
  <2>1. PICK i \in 1 .. c : x = q[i]
    BY <1>3 DEF Range
  <2>2. i + n \in n + 1 .. n + c /\ (i + n) - n = i /\ i + n \in 1 .. m + c
    BY <1>1
  <2>3. r[i + n] = q[i] /\ i + n \in DOMAIN r
    BY <1>2, <1>3, <2>2
  <2> QED  BY <2>1, <2>3 DEF Range
<1>9. ASSUME NEW x \in Range(s) PROVE x \in Range(r)
  <2>1. PICK i \in 1 .. m : x = s[i]
    BY <1>3 DEF Range
  <2>2. CASE i <= n
    <3>1. r[i] = s[i] /\ i \in DOMAIN r
      BY <1>1, <1>2, <1>3, <2>2
    <3> QED  BY <2>1, <3>1 DEF Range
  <2>3. CASE i > n
    <3>1. r[i + c] = s[i] /\ i + c \in DOMAIN r
      BY <1>1, <1>2, <1>3, <2>3
    <3> QED  BY <2>1, <3>1 DEF Range
  <2> QED  BY <1>1, <2>2, <2>3
<1>10. Range(r) = Range(s) \cup Range(q)
  BY <1>7, <1>8, <1>9
<1>11. r \in Seq(S)
  BY <1>2
<1> QED  BY <1>6, <1>10, <1>11 DEF r

\* InsertAt puts one element in.
LEMMA InsertFacts ==
    ASSUME NEW S, NEW s \in Seq(S), Once(s), NEW t \in S, t \notin Range(s),
           NEW n \in 0 .. Len(s)
    PROVE  /\ InsertAt(s, n + 1, t) \in Seq(S) /\ Once(InsertAt(s, n + 1, t))
           /\ Range(InsertAt(s, n + 1, t)) = Range(s) \cup {t}
<1> DEFINE q == <<t>>
<1>1. q \in Seq(S) /\ Once(q) /\ Range(q) = {t}
  BY DEF Once, Range
<1>2. Range(s) \cap Range(q) = {}
  BY <1>1
<1>3. InsertAt(s, n + 1, t)
        = SubSeq(s, 1, n) \o q \o SubSeq(s, n + 1, Len(s))
  <2>1. (n + 1) - 1 = n
    OBVIOUS
  <2> QED  BY <2>1 DEF InsertAt
<1> HIDE DEF q
<1>4. LET r == SubSeq(s, 1, n) \o q \o SubSeq(s, n + 1, Len(s)) IN
      /\ r \in Seq(S) /\ Once(r)
      /\ Range(r) = Range(s) \cup Range(q)
  BY <1>1, <1>2, SpliceFacts
<1> QED  BY <1>1, <1>3, <1>4

\* r is s without its element p.
Without(r, S, s, p) ==
    /\ r \in Seq(S) /\ Len(r) = Len(s) - 1
    /\ \A i \in 1 .. Len(s) - 1 : r[i] = IF i < p THEN s[i] ELSE s[i + 1]

\* RemoveFirst takes an element out.
LEMMA RemoveIs ==
    ASSUME NEW S, NEW s \in Seq(S), NEW t \in Range(s)
    PROVE  \E p \in 1 .. Len(s) : /\ s[p] = t
                                 /\ Without(RemoveFirst(s, t), S, s, p)
<1> DEFINE m == Len(s)
           T == {i \in 1 .. m : s[i] = t}
<1>1. T \in SUBSET Nat /\ T # {} /\ m \in Nat /\ DOMAIN s = 1 .. m
  BY DEF Range
<1>2. \E x \in T : \A y \in T : x <= y
  BY <1>1, LeastNumber
<1>3. Min(T) \in T
  BY <1>2 DEF Min
<1>4. RemoveFirst(s, t) = RemoveAt(s, Min(T))
  BY <1>1 DEF RemoveFirst, SelectInSeq
<1> DEFINE p == Min(T)
<1>5. p \in 1 .. m /\ s[p] = t
  BY <1>3
<1> HIDE DEF T, p
<1> DEFINE r == RemoveAt(s, p)
<1>6. /\ r \in Seq(S) /\ Len(r) = m - 1
      /\ \A i \in 1 .. m - 1 : r[i] = IF i < p THEN s[i] ELSE s[i + 1]
  <2> DEFINE a == SubSeq(s, 1, p - 1)
             b == SubSeq(s, p + 1, m)
  <2>1. /\ a \in Seq(S) /\ Len(a) = p - 1
        /\ \A i \in 1 .. p - 1 : a[i] = s[i]
    BY <1>5
  <2>2. /\ b \in Seq(S) /\ Len(b) = m - p
        /\ \A i \in 1 .. m - p : b[i] = s[p + i]
    BY <1>5
  <2>3. r = a \o b
    BY DEF RemoveAt
  <2> HIDE DEF a, b, m
  <2>4. /\ a \o b \in Seq(S) /\ Len(a \o b) = m - 1
        /\ \A i \in 1 .. p - 1 : (a \o b)[i] = a[i]
        /\ \A i \in p .. m - 1 : (a \o b)[i] = b[i - (p - 1)]
    <3> DEFINE x == p - 1
               y == m - p
    <3>1. x \in Nat /\ y \in Nat /\ x + y = m - 1 /\ x + 1 = p
      BY <1>1, <1>5
    <3>2. a \in Seq(S) /\ b \in Seq(S) /\ Len(a) = x /\ Len(b) = y
      BY <2>1, <2>2
    <3> HIDE DEF x, y
    <3>3. Joined(a \o b, S, a, b, x, y)
      BY <3>1, <3>2, ConcatFacts
    <3> QED  BY <3>1, <3>3 DEF Joined, x
  <2> HIDE DEF r
  <2>5. ASSUME NEW i \in 1 .. m - 1
        PROVE  r[i] = IF i < p THEN s[i] ELSE s[i + 1]
    <3>1. CASE i < p
      BY <1>1, <1>5, <2>1, <2>3, <2>4, <3>1
    <3>2. CASE ~(i < p)
      <4>1. /\ i \in p .. m - 1 /\ i - (p - 1) \in 1 .. m - p
            /\ p + (i - (p - 1)) = i + 1
        BY <1>1, <1>5, <3>2
      <4> QED  BY <2>2, <2>3, <2>4, <3>2, <4>1
    <3> QED  BY <3>1, <3>2
  <2> QED  BY <2>3, <2>4, <2>5
<1>7. RemoveFirst(s, t) = r
  BY <1>4 DEF r, p
<1> HIDE DEF r
<1>8. Without(r, S, s, p)
  BY <1>6 DEF Without, m
<1> QED  BY <1>5, <1>7, <1>8 DEF m

\* RemoveFirst takes it out again.
LEMMA RemoveFacts ==
    ASSUME NEW S, NEW s \in Seq(S), Once(s), NEW t
    PROVE  /\ RemoveFirst(s, t) \in Seq(S) /\ Once(RemoveFirst(s, t))
           /\ Range(RemoveFirst(s, t)) = Range(s) \ {t}
<1>1. CASE t \notin Range(s)
  <2>1. RemoveFirst(s, t) = s
    BY <1>1 DEF RemoveFirst, Range
  <2> QED  BY <1>1, <2>1
<1>2. CASE t \in Range(s)
  <2> DEFINE m == Len(s)
             r == RemoveFirst(s, t)
  <2>1. m \in Nat /\ DOMAIN s = 1 .. m
    OBVIOUS
  <2>2. PICK p \in 1 .. m : s[p] = t /\ Without(r, S, s, p)
    BY <1>2, RemoveIs
  <2>5. p \in 1 .. m /\ s[p] = t
    BY <2>2
  <2> HIDE DEF r
  <2>6. /\ r \in Seq(S) /\ Len(r) = m - 1
        /\ \A i \in 1 .. m - 1 : r[i] = IF i < p THEN s[i] ELSE s[i + 1]
    BY <2>2 DEF Without
  <2>7. DOMAIN r = 1 .. m - 1
    <3>1. DOMAIN r = 1 .. Len(r)
      <4> HIDE DEF r
      <4> QED  BY <2>6
    <3> QED  BY <2>6, <3>1
  <2> HIDE DEF r, m
  <2>8. Once(r)
    <3> SUFFICES ASSUME NEW i \in 1 .. m - 1, NEW j \in 1 .. m - 1, i # j
                 PROVE  r[i] # r[j]
      BY <2>7 DEF Once
    <3>1. i \in Nat /\ j \in Nat /\ \A a, b \in 1 .. m : a # b => s[a] # s[b]
      BY <2>1 DEF Once
    <3> DEFINE f(c) == IF c < p THEN c ELSE c + 1
    <3>2. /\ r[i] = s[f(i)] /\ r[j] = s[f(j)]
      BY <2>6
    <3>3. f(i) \in 1 .. m /\ f(j) \in 1 .. m /\ f(i) # f(j)
      BY <2>1, <2>5, <3>1
    <3> HIDE DEF f
    <3> QED  BY <3>1, <3>2, <3>3
  <2>9. ASSUME NEW x \in Range(r) PROVE x \in Range(s) \ {t}
    <3>1. PICK i \in 1 .. m - 1 : x = r[i]
      BY <2>7 DEF Range
    <3>2. PICK j \in 1 .. m : x = s[j] /\ j # p
      <4>1. CASE i < p
        <5>1. i \in 1 .. m /\ x = s[i] /\ i # p
          BY <2>1, <2>5, <2>6, <3>1, <4>1
        <5> QED  BY <5>1
      <4>2. CASE ~(i < p)
        <5>1. i + 1 \in 1 .. m /\ x = s[i + 1] /\ i + 1 # p
          BY <2>1, <2>5, <2>6, <3>1, <4>2
        <5> QED  BY <5>1
      <4> QED  BY <4>1, <4>2
    <3>3. x # t
      BY <2>1, <2>5, <3>2 DEF Once
    <3> QED  BY <2>1, <3>2, <3>3 DEF Range
  <2>10. ASSUME NEW x \in Range(s) \ {t} PROVE x \in Range(r)
    <3>1. PICK j \in 1 .. m : x = s[j] /\ j # p
      BY <2>1, <2>5 DEF Range
    <3>2. PICK i \in 1 .. m - 1 : x = r[i]
      <4>1. CASE j < p
        BY <2>1, <2>5, <2>6, <3>1, <4>1
      <4>2. CASE j > p
        <5>1. j - 1 \in 1 .. m - 1 /\ (j - 1) + 1 = j /\ ~(j - 1 < p)
          BY <2>1, <2>5, <4>2
        <5> QED  BY <2>6, <3>1, <5>1
      <4> QED  BY <2>1, <2>5, <3>1, <4>1, <4>2
    <3> QED  BY <2>7, <3>2 DEF Range
  <2> QED  BY <2>6, <2>8, <2>9, <2>10 DEF r
<1> QED  BY <1>1, <1>2

\* The other ends.
LEMMA TailFacts ==
    ASSUME NEW S, NEW s \in Seq(S), Once(s), s # <<>>
    PROVE  /\ Tail(s) \in Seq(S) /\ Once(Tail(s)) /\ Head(s) \in Range(s)
           /\ Head(s) \in S /\ Range(Tail(s)) = Range(s) \ {Head(s)}
<1> DEFINE m == Len(s)
           r == Tail(s)
<1>1. /\ m \in Nat \ {0} /\ DOMAIN s = 1 .. m /\ Head(s) = s[1]
      /\ r \in Seq(S) /\ DOMAIN r = 1 .. m - 1
      /\ \A i \in 1 .. m - 1 : r[i] = s[i + 1]
  OBVIOUS
<1> HIDE DEF m, r
<1>2. Once(r)
  <2>1. \A i \in 1 .. m - 1 : i + 1 \in 1 .. m
    BY <1>1
  <2>2. \A i, j \in 1 .. m - 1 : i + 1 = j + 1 => i = j
    OBVIOUS
  <2> SUFFICES ASSUME NEW i \in 1 .. m - 1, NEW j \in 1 .. m - 1,
                      r[i] = r[j]
               PROVE  i = j
    BY <1>1 DEF Once
  <2>3. s[i + 1] = s[j + 1] /\ i + 1 \in DOMAIN s /\ j + 1 \in DOMAIN s
    BY <1>1, <2>1
  <2> QED  BY <2>2, <2>3 DEF Once
<1>3. ASSUME NEW x \in Range(r) PROVE x \in Range(s) \ {s[1]}
  <2>1. PICK i \in 1 .. m - 1 : x = s[i + 1]
    BY <1>1 DEF Range
  <2>2. i + 1 \in 1 .. m /\ i + 1 # 1 /\ 1 \in 1 .. m
    BY <1>1
  <2> QED  BY <1>1, <2>1, <2>2 DEF Range, Once
<1>4. ASSUME NEW x \in Range(s) \ {s[1]} PROVE x \in Range(r)
  <2>1. PICK j \in 1 .. m : x = s[j] /\ j # 1
    BY <1>1 DEF Range
  <2>2. j - 1 \in 1 .. m - 1 /\ (j - 1) + 1 = j
    BY <1>1, <2>1
  <2>3. r[j - 1] = x
    BY <1>1, <2>1, <2>2
  <2> QED  BY <1>1, <2>2, <2>3 DEF Range
<1>5. s[1] \in Range(s) /\ s[1] \in S
  BY <1>1 DEF Range
<1> QED  BY <1>1, <1>2, <1>3, <1>4, <1>5 DEF r

\* One more task at the end of a queue.
LEMMA AppendFacts ==
    ASSUME NEW S, NEW s \in Seq(S), Once(s), NEW t \in S, t \notin Range(s)
    PROVE  /\ Append(s, t) \in Seq(S) /\ Once(Append(s, t))
           /\ Append(s, t) # <<>> /\ Range(Append(s, t)) = Range(s) \cup {t}
<1> DEFINE q == <<t>>
<1>1. q \in Seq(S) /\ Once(q) /\ Range(q) = {t}
  BY DEF Once, Range
<1>2. Range(s) \cap Range(q) = {} /\ Len(s) \in 0 .. Len(s)
  BY <1>1
<1>3. Append(s, t)
        = SubSeq(s, 1, Len(s)) \o q \o SubSeq(s, Len(s) + 1, Len(s))
  OBVIOUS
<1>4. Append(s, t) # <<>>
  <2>1. Len(Append(s, t)) = Len(s) + 1 /\ Len(s) \in Nat /\ Len(<<>>) = 0
    OBVIOUS
  <2>2. Len(Append(s, t)) # Len(<<>>)
    BY <2>1
  <2> QED  BY <2>2, Zenon
<1> HIDE DEF q
<1>5. LET n == Len(s)
          r == SubSeq(s, 1, n) \o q \o SubSeq(s, n + 1, Len(s)) IN
      /\ r \in Seq(S) /\ Once(r)
      /\ Range(r) = Range(s) \cup Range(q)
  BY <1>1, <1>2, SpliceFacts
<1> QED  BY <1>1, <1>3, <1>4, <1>5
-----------------------------------------------------------------------------
(***************************************************************************)
(* The tasks of asyncio                                                    *)
(***************************************************************************)

\* What the field data of a task may hold, and the loop's record.
Statuses == {"result", "cancelled", "exception"}

Contents == {None, OnIo, Cancelled} \cup {OnTask(u) : u \in Tasks}
              \cup {CancelledWith(status) : status \in Statuses}
              \cup {Ended(how) : how \in Outcomes}

TaskStates == {"new", "running", "queue", "done", "waited"}

LoopRecords == [runq : Seq(Tasks), key : [Tasks -> Nat],
                data : [Tasks -> Contents], state : [Tasks -> TaskStates],
                wait : [Tasks -> Seq(Tasks)]]

\* The kinds tell what is waited for.
LEMMA Kinds ==
    ASSUME NEW x \in Contents
    PROVE  /\ x = None <=> x.kind = "none"
           /\ x = OnIo <=> x.kind = "io"
           /\ x = Cancelled <=> x.kind = "cancelled"
           /\ x.kind = "task" => x.task \in Tasks /\ x = OnTask(x.task)
           /\ \A u : x = OnTask(u) => x.kind = "task" /\ x.task = u
           /\ x.kind \in {"none", "io", "cancelled", "status", "task", "ended"}
<1>1. CASE x = None
  BY <1>1 DEF None, OnIo, Cancelled, OnTask
<1>2. CASE x = OnIo
  BY <1>2 DEF None, OnIo, Cancelled, OnTask
<1>3. CASE x = Cancelled
  BY <1>3 DEF None, OnIo, Cancelled, OnTask
<1>4. ASSUME NEW u \in Tasks, x = OnTask(u)
      PROVE  x.kind = "task" /\ x.task = u
  BY <1>4 DEF OnTask
<1>5. CASE \E u \in Tasks : x = OnTask(u)
  BY <1>4, <1>5 DEF None, OnIo, Cancelled, OnTask
<1>6. CASE \E how \in Outcomes : x = Ended(how)
  BY <1>6 DEF None, OnIo, Cancelled, OnTask, Ended
<1>7. CASE \E status \in Statuses : x = CancelledWith(status)
  BY <1>7 DEF None, OnIo, Cancelled, OnTask, CancelledWith
<1> QED
  BY <1>1, <1>2, <1>3, <1>5, <1>6, <1>7 DEF Contents

\* And they are all there is.
LEMMA ContentsFacts ==
    /\ None \in Contents /\ OnIo \in Contents /\ Cancelled \in Contents
    /\ \A u \in Tasks : OnTask(u) \in Contents
    /\ \A how \in Outcomes : /\ Ended(how) \in Contents
                             /\ Ended(how).kind = "ended"
    /\ None.kind = "none" /\ OnIo.kind = "io" /\ Cancelled.kind = "cancelled"
    /\ \A u : OnTask(u).kind = "task" /\ OnTask(u).task = u
    /\ \A status \in Statuses : /\ CancelledWith(status) \in Contents
                                /\ CancelledWith(status).kind = "status"
                                /\ CancelledWith(status).status = status
  BY DEF Contents, None, OnIo, Cancelled, OnTask, Ended, CancelledWith

\* The task at the end of the links, as a function of the task.
Follow(data, f, u) == IF data[u].kind = "task" THEN f[data[u].task] ELSE u

TargetFcn(data) == CHOOSE f : f = [u \in Tasks |-> Follow(data, f, u)]

\* It is where a cancellation goes.
LEMMA CancelTargetIs ==
    ASSUME NEW l, NEW t
    PROVE  CancelTarget(l, t) = TargetFcn(l.data)[t]
  BY DEF CancelTarget, TargetFcn, Follow

\* The links lead downwards.
DownLinks(data, rank) ==
    \A t \in Tasks : data[t].kind = "task" =>
        data[t].task \in Tasks /\ rank[data[t].task] < rank[t]

\* Such links have ends.
LEMMA TargetExists ==
    ASSUME NEW data, NEW N \in Nat, NEW rank \in [Tasks -> 0 .. N],
           DownLinks(data, rank)
    PROVE  TargetFcn(data) = [u \in Tasks |-> Follow(data, TargetFcn(data), u)]
<1> DEFINE Upto(n) == \E f \in [Tasks -> Tasks] :
                        \A u \in Tasks :
                          rank[u] < n => f[u] = Follow(data, f, u)
           T == {n \in Nat : ~Upto(n)}
<1>1. Upto(0)
  <2>1. \A u \in Tasks : ~(rank[u] < 0)
    OBVIOUS
  <2>2. [u \in Tasks |-> u] \in [Tasks -> Tasks]
    OBVIOUS
  <2> QED  BY <2>1, <2>2
<1>2. ASSUME NEW n \in Nat, Upto(n) PROVE Upto(n + 1)
  <2>1. PICK f \in [Tasks -> Tasks] :
               \A u \in Tasks : rank[u] < n => f[u] = Follow(data, f, u)
    BY <1>2
  <2> DEFINE g == [u \in Tasks |-> IF rank[u] < n THEN f[u]
                                   ELSE Follow(data, f, u)]
  <2>2. g \in [Tasks -> Tasks]
    BY DEF DownLinks, Follow
  <2>3. ASSUME NEW u \in Tasks, rank[u] < n + 1
        PROVE  g[u] = Follow(data, g, u)
    <3>1. g[u] = Follow(data, f, u)
      BY <2>1
    <3>2. CASE data[u].kind = "task"
      <4>1. data[u].task \in Tasks /\ rank[data[u].task] < rank[u]
        BY <3>2 DEF DownLinks
      <4>2. rank[data[u].task] < n
        <5>1. rank[data[u].task] \in Nat /\ rank[u] \in Nat
          BY <4>1
        <5> QED  BY <2>3, <4>1, <5>1
      <4>3. g[data[u].task] = f[data[u].task]
        BY <4>1, <4>2
      <4> QED  BY <3>1, <3>2, <4>3 DEF Follow
    <3>3. CASE data[u].kind # "task"
      BY <3>1, <3>3 DEF Follow
    <3> QED  BY <3>2, <3>3
  <2> HIDE DEF g
  <2> QED  BY <2>2, <2>3
<1> HIDE DEF Upto
<1>3. T = {}
  <2> SUFFICES ASSUME T # {} PROVE FALSE
    OBVIOUS
  <2>1. T \in SUBSET Nat
    OBVIOUS
  <2>2. PICK n \in T : \A y \in T : n <= y
    BY <2>1, LeastNumber
  <2>3. n # 0 /\ n \in Nat /\ ~Upto(n)
    BY <1>1, <2>2
  <2>4. n - 1 \in Nat /\ ~(n <= n - 1) /\ (n - 1) + 1 = n
    BY <2>3
  <2>5. Upto(n - 1)
    BY <2>2, <2>4
  <2>6. Upto((n - 1) + 1)
    BY <1>2, <2>4, <2>5
  <2> QED  BY <2>3, <2>4, <2>6
<1>4. Upto(N + 1)
  BY <1>3
<1>5. PICK f \in [Tasks -> Tasks] :
             \A u \in Tasks : rank[u] < N + 1 => f[u] = Follow(data, f, u)
  BY <1>4 DEF Upto
<1>6. \A u \in Tasks : rank[u] < N + 1
  <2>1. \A u \in Tasks : rank[u] \in 0 .. N
    OBVIOUS
  <2> QED  BY <2>1
<1>7. f = [u \in Tasks |-> Follow(data, f, u)]
  BY <1>5, <1>6
<1> QED  BY <1>7, Zenon DEF TargetFcn

\* A task is in the run queue; it has nothing to wait for.
Queued(l, t) == t \in Range(l.runq)
Idles(l, t) == l.data[t].kind \in {"none", "cancelled", "status"}

\* No queue has a task twice, a task is on the queue that its data names, and
\* a task has a queue as long as somebody is on it.
LinksOK(l) ==
    /\ Once(l.runq) /\ \A u \in Tasks : Once(l.wait[u])
    /\ \A t, u \in Tasks : l.data[t] = OnTask(u) <=> t \in Range(l.wait[u])
    /\ \A t \in Tasks : l.state[t] = "queue" <=> l.wait[t] # <<>>

\* The data of a task says whether it is in the run queue, unless it is off
\* all queues.
DataOK(l, t, off) ==
    /\ l.state[t] = "new" => l.data[t] = None /\ ~Queued(l, t)
    /\ IsDone(l, t) => l.data[t].kind \in {"ended", "none"}
    /\ Live(l, t) => l.data[t].kind # "ended"
    /\ Live(l, t) /\ ~off => (Queued(l, t) <=> Idles(l, t))
    /\ Live(l, t) /\ off => ~Queued(l, t) /\ Idles(l, t)

\* Nobody awaits himself, however many tasks there are in between.
Ranked(l) ==
    \E N \in Nat : \E rank \in [Tasks -> 0 .. N] : DownLinks(l.data, rank)

\* All of it, for a loop with the tasks Off running.
LoopOK(l, Off) ==
    /\ l \in LoopRecords /\ LinksOK(l) /\ Ranked(l)
    /\ \A t \in Tasks : DataOK(l, t, t \in Off)

\* The parts of the record.
LEMMA RecordIs ==
    ASSUME NEW l \in LoopRecords
    PROVE  /\ l.runq \in Seq(Tasks) /\ l.key \in [Tasks -> Nat]
           /\ l.data \in [Tasks -> Contents]
           /\ l.state \in [Tasks -> TaskStates]
           /\ l.wait \in [Tasks -> Seq(Tasks)]
  BY DEF LoopRecords

\* Where a cancellation goes.
LEMMA TargetFacts ==
    ASSUME NEW l, NEW Off, LoopOK(l, Off)
    PROVE  \A t \in Tasks :
             /\ CancelTarget(l, t) \in Tasks
             /\ l.data[CancelTarget(l, t)].kind # "task"
             /\ Live(l, t) => Live(l, CancelTarget(l, t))
             /\ l.data[t].kind = "task" =>
                  CancelTarget(l, t) = CancelTarget(l, l.data[t].task)
             /\ l.data[t].kind # "task" => CancelTarget(l, t) = t
<1>0. l \in LoopRecords /\ LinksOK(l) /\ Ranked(l)
  BY DEF LoopOK
<1>1. PICK N \in Nat : \E rank \in [Tasks -> 0 .. N] : DownLinks(l.data, rank)
  BY <1>0 DEF Ranked
<1>2. PICK rank \in [Tasks -> 0 .. N] : DownLinks(l.data, rank)
  BY <1>1
<1> DEFINE f == TargetFcn(l.data)
<1>3. f = [u \in Tasks |-> Follow(l.data, f, u)]
  BY <1>2, TargetExists
<1>4. \A t : CancelTarget(l, t) = f[t]
  BY CancelTargetIs
<1> HIDE DEF f
<1>5. \A t \in Tasks : f[t] = Follow(l.data, f, t)
  BY <1>3
<1> DEFINE Good(t) == /\ f[t] \in Tasks /\ l.data[f[t]].kind # "task"
                      /\ Live(l, t) => Live(l, f[t])
           T == {rank[t] : t \in {s \in Tasks : ~Good(s)}}
<1>6. T = {}
  <2> SUFFICES ASSUME T # {} PROVE FALSE
    OBVIOUS
  <2> HIDE DEF Good
  <2>1. T \in SUBSET Nat
    OBVIOUS
  <2>2. PICK n \in T : \A y \in T : n <= y
    BY <2>1, LeastNumber
  <2>3. PICK t \in Tasks : ~Good(t) /\ n = rank[t]
    BY <2>2
  <2>4. l.data[t].kind = "task"
    BY <1>5, <2>3 DEF Good, Follow
  <2> DEFINE u == l.data[t].task
  <2>5. u \in Tasks /\ rank[u] < rank[t] /\ f[t] = f[u]
    BY <1>2, <1>5, <2>4 DEF DownLinks, Follow
  <2>6. l.data[t] = OnTask(u)
    BY <1>0, <2>4, RecordIs, Kinds
  <2> HIDE DEF u
  <2>7. Live(l, u)
    <3>1. l.wait[u] # <<>>
      BY <1>0, <2>5, <2>6, RecordIs DEF LinksOK, Range
    <3> QED  BY <1>0, <2>5, <3>1 DEF LinksOK, Live
  <2>8. ~Good(u)
    BY <2>3, <2>5, <2>7 DEF Good
  <2>9. rank[u] \in T /\ rank[u] \in Nat /\ rank[t] \in Nat
    BY <2>5, <2>8
  <2> QED  BY <2>2, <2>3, <2>5, <2>9
<1>7. \A t \in Tasks : Good(t)
  BY <1>6
<1> QED  BY <1>4, <1>5, <1>7 DEF Follow

\* How many are in front of a place in the run queue.
LEMMA DueIn ==
    ASSUME NEW l \in LoopRecords, NEW time \in Nat
    PROVE  Due(l, time) \in 0 .. Len(l.runq)
<1> DEFINE D == {i \in DOMAIN l.runq : l.key[l.runq[i]] <= time}
           m == Len(l.runq)
<1>1. m \in Nat /\ D \in SUBSET (1 .. m)
  BY RecordIs
<1>2. IsFiniteSet(1 .. m) /\ Cardinality(1 .. m) = m
  <2> HIDE DEF m, D
  <2>1. 1 \in Int /\ m \in Int /\ (IF 1 > m THEN 0 ELSE m - 1 + 1) = m
    BY <1>1
  <2> QED  BY <2>1, FS_Interval
<1>3. IsFiniteSet(D) /\ Cardinality(D) <= Cardinality(1 .. m)
  BY <1>1, <1>2, FS_Subset
<1>4. Cardinality(D) \in Nat
  BY <1>3, FS_CardinalityType
<1>5. Due(l, time) = Cardinality(D)
  BY DEF Due
<1> HIDE DEF D, m
<1>6. Due(l, time) \in 0 .. m
  BY <1>1, <1>2, <1>3, <1>4, <1>5
<1> QED  BY <1>6 DEF m

\* What push does.
Pushed(p, l, t, time) ==
    /\ p \in LoopRecords
    /\ p.data = [l.data EXCEPT ![t] = None]
    /\ p.key = [l.key EXCEPT ![t] = time]
    /\ p.state = l.state /\ p.wait = l.wait
    /\ Once(p.runq) /\ Range(p.runq) = Range(l.runq) \cup {t}

\* It does so to a task that is not in the run queue.
LEMMA PushIs ==
    ASSUME NEW l \in LoopRecords, NEW t \in Tasks, NEW time \in Nat,
           Once(l.runq), ~Queued(l, t)
    PROVE  Pushed(Push(l, t, time), l, t, time)
<1> DEFINE p == Push(l, t, time)
           q == InsertAt(l.runq, Due(l, time) + 1, t)
<1>1. Due(l, time) \in 0 .. Len(l.runq)
  BY DueIn
<1>2. /\ q \in Seq(Tasks) /\ Once(q)
      /\ Range(q) = Range(l.runq) \cup {t}
  BY <1>1, RecordIs, InsertFacts DEF Queued
<1>3. p = [l EXCEPT !.data[t] = None, !.key[t] = time, !.runq = q]
  BY DEF Push
<1> HIDE DEF q, p
<1>4. /\ p.data = [l.data EXCEPT ![t] = None]
      /\ p.key = [l.key EXCEPT ![t] = time]
      /\ p.state = l.state /\ p.wait = l.wait /\ p.runq = q
  BY <1>3 DEF LoopRecords
<1>5. p \in LoopRecords
  BY <1>2, <1>3, ContentsFacts DEF LoopRecords
<1> QED  BY <1>2, <1>4, <1>5 DEF p, Pushed

\* Without new links there is no circle.
LEMMA RankedStays ==
    ASSUME NEW l, NEW m, Ranked(l),
           \A t \in Tasks : m.data[t].kind = "task" => m.data[t] = l.data[t]
    PROVE  Ranked(m)
  BY DEF Ranked, DownLinks

\* A task that does not await another one is pushed.
LEMMA PushKeeps ==
    ASSUME NEW l, NEW Off, LoopOK(l, Off), NEW t \in Tasks,
           NEW time \in Nat, Live(l, t), ~Queued(l, t),
           l.data[t].kind # "task"
    PROVE  LoopOK(Push(l, t, time), Off \ {t})
<1> DEFINE p == Push(l, t, time)
<1>0. l \in LoopRecords /\ LinksOK(l) /\ Ranked(l)
      /\ \A u \in Tasks : DataOK(l, u, u \in Off)
  BY DEF LoopOK
<1>1. /\ p \in LoopRecords
      /\ p.data = [l.data EXCEPT ![t] = None]
      /\ p.state = l.state /\ p.wait = l.wait
      /\ Once(p.runq) /\ Range(p.runq) = Range(l.runq) \cup {t}
  <2>1. Pushed(p, l, t, time)
    BY <1>0, PushIs DEF LinksOK
  <2> QED  BY <2>1 DEF Pushed
<1> HIDE DEF p
<1>2. /\ \A u \in Tasks \ {t} : p.data[u] = l.data[u]
      /\ p.data[t] = None
  BY <1>0, <1>1, RecordIs
<1>3. Ranked(p)
  BY <1>0, <1>2, RankedStays, ContentsFacts
<1>4. LinksOK(p)
  <2>1. \A u \in Tasks : p.data[t] # OnTask(u) /\ l.data[t] # OnTask(u)
    BY <1>2, ContentsFacts
  <2> QED  BY <1>0, <1>1, <1>2, <2>1 DEF LinksOK
<1>5. ASSUME NEW u \in Tasks PROVE DataOK(p, u, u \in Off \ {t})
  <2>1. CASE u = t
    BY <1>1, <1>2, <2>1, ContentsFacts DEF DataOK, Live, IsDone, Queued, Idles
  <2>2. CASE u # t
    <3>1. DataOK(l, u, u \in Off)
      BY <1>0
    <3> QED
      BY <1>1, <1>2, <2>2, <3>1 DEF DataOK, Live, IsDone, Queued, Idles
  <2> QED  BY <2>1, <2>2
<1> QED  BY <1>1, <1>3, <1>4, <1>5 DEF LoopOK, p

\* What create_task() does.
CreateIs(p, l, t, time) ==
    /\ p.state = [l.state EXCEPT ![t] = "running"]
    /\ p.data = [l.data EXCEPT ![t] = None]
    /\ p.key = [l.key EXCEPT ![t] = time]
    /\ p.wait = l.wait
    /\ Range(p.runq) = Range(l.runq) \cup {t}

\* A new task.
LEMMA CreateKeeps ==
    ASSUME NEW l, NEW Off, LoopOK(l, Off), NEW t \in Tasks,
           NEW time \in Nat, l.state[t] = "new"
    PROVE  /\ LoopOK(Create(l, t, time), Off \ {t})
           /\ CreateIs(Create(l, t, time), l, t, time)
<1> DEFINE m == [l EXCEPT !.state[t] = "running"]
<1>0. l \in LoopRecords /\ LinksOK(l) /\ Ranked(l)
      /\ \A u \in Tasks : DataOK(l, u, u \in Off)
  BY DEF LoopOK
<1>1. /\ m \in LoopRecords /\ m.runq = l.runq /\ m.key = l.key
      /\ m.data = l.data /\ m.wait = l.wait
      /\ m.state = [l.state EXCEPT ![t] = "running"]
  BY <1>0 DEF LoopRecords, TaskStates
<1>2. ~Queued(l, t) /\ l.data[t] = None
  BY <1>0 DEF DataOK
<1>3. Create(l, t, time) = Push(m, t, time)
  BY DEF Create
<1> HIDE DEF m
<1>4. /\ m.state[t] = "running"
      /\ \A u \in Tasks \ {t} : m.state[u] = l.state[u]
  BY <1>0, <1>1, RecordIs
<1>5. Ranked(m)
  BY <1>0, <1>1, RankedStays
<1>6. LinksOK(m)
  <2>1. l.state[t] # "queue" /\ m.state[t] # "queue"
    BY <1>4
  <2> QED  BY <1>0, <1>1, <1>4, <2>1 DEF LinksOK
<1>7. LoopOK(m, Off \cup {t})
  <2>1. ASSUME NEW u \in Tasks PROVE DataOK(m, u, u \in Off \cup {t})
    <3>1. CASE u = t
      BY <1>1, <1>2, <1>4, <3>1, ContentsFacts
         DEF DataOK, Live, IsDone, Queued, Idles
    <3>2. CASE u # t
      <4>1. DataOK(l, u, u \in Off)
        BY <1>0
      <4> QED
        BY <1>1, <1>4, <3>2, <4>1 DEF DataOK, Live, IsDone, Queued, Idles
    <3> QED  BY <3>1, <3>2
  <2> QED  BY <1>1, <1>5, <1>6, <2>1 DEF LoopOK
<1>8. Live(m, t) /\ ~Queued(m, t) /\ m.data[t].kind # "task"
  BY <1>1, <1>2, <1>4, ContentsFacts DEF Live, Queued
<1>9. LoopOK(Push(m, t, time), (Off \cup {t}) \ {t})
  BY <1>7, <1>8, PushKeeps
<1>10. (Off \cup {t}) \ {t} = Off \ {t}
  OBVIOUS
<1>11. LET p == Push(m, t, time) IN
       /\ p.data = [m.data EXCEPT ![t] = None]
       /\ p.key = [m.key EXCEPT ![t] = time]
       /\ p.state = m.state /\ p.wait = m.wait
       /\ Range(p.runq) = Range(m.runq) \cup {t}
  <2>1. Pushed(Push(m, t, time), m, t, time)
    BY <1>1, <1>6, <1>8, PushIs DEF LinksOK
  <2> QED  BY <2>1 DEF Pushed
<1> QED  BY <1>1, <1>3, <1>9, <1>10, <1>11 DEF CreateIs

\* The first task of the run queue is taken off it.
LEMMA ResumedIs ==
    ASSUME NEW l, NEW Off, LoopOK(l, Off), l.runq # <<>>
    PROVE  LET h == Head(l.runq)
               p == Resumed(l) IN
           /\ h \in Tasks /\ Queued(l, h) /\ p \in LoopRecords
           /\ p.data = [l.data EXCEPT ![h] = None]
           /\ p.key = l.key /\ p.state = l.state /\ p.wait = l.wait
           /\ Once(p.runq) /\ Range(p.runq) = Range(l.runq) \ {h}
<1> DEFINE h == Head(l.runq)
           p == Resumed(l)
           q == Tail(l.runq)
<1>0. l \in LoopRecords /\ LinksOK(l)
  BY DEF LoopOK
<1>1. /\ q \in Seq(Tasks) /\ Once(q) /\ h \in Range(l.runq) /\ h \in Tasks
      /\ Range(q) = Range(l.runq) \ {h}
  BY <1>0, RecordIs, TailFacts DEF LinksOK
<1>2. p = [l EXCEPT !.runq = q, !.data[h] = None]
  BY DEF Resumed
<1> HIDE DEF h, p, q
<1>3. /\ p.data = [l.data EXCEPT ![h] = None] /\ p.key = l.key
      /\ p.state = l.state /\ p.wait = l.wait /\ p.runq = q
  BY <1>0, <1>2 DEF LoopRecords
<1>4. p \in LoopRecords
  BY <1>0, <1>1, <1>2, ContentsFacts DEF LoopRecords
<1> QED  BY <1>1, <1>3, <1>4 DEF h, p, Queued

\* A task that has not ended runs.
LEMMA ResumedKeeps ==
    ASSUME NEW l, NEW Off, LoopOK(l, Off), l.runq # <<>>,
           Live(l, Head(l.runq))
    PROVE  LoopOK(Resumed(l), Off \cup {Head(l.runq)})
<1> DEFINE h == Head(l.runq)
           p == Resumed(l)
<1>0. l \in LoopRecords /\ LinksOK(l) /\ Ranked(l)
      /\ \A u \in Tasks : DataOK(l, u, u \in Off)
  BY DEF LoopOK
<1>1. /\ h \in Tasks /\ Queued(l, h) /\ p \in LoopRecords
      /\ p.data = [l.data EXCEPT ![h] = None]
      /\ p.key = l.key /\ p.state = l.state /\ p.wait = l.wait
      /\ Once(p.runq) /\ Range(p.runq) = Range(l.runq) \ {h}
  BY ResumedIs
<1>2. Live(l, h)
  OBVIOUS
<1> HIDE DEF h, p
<1>3. /\ \A u \in Tasks \ {h} : p.data[u] = l.data[u]
      /\ p.data[h] = None
  BY <1>0, <1>1, RecordIs
<1>4. Idles(l, h)
  BY <1>0, <1>1, <1>2 DEF DataOK
<1>5. Ranked(p)
  BY <1>0, <1>3, RankedStays, ContentsFacts
<1>6. LinksOK(p)
  <2>1. \A u \in Tasks : p.data[h] # OnTask(u) /\ l.data[h] # OnTask(u)
    BY <1>3, <1>4, ContentsFacts DEF Idles
  <2> QED  BY <1>0, <1>1, <1>3, <2>1 DEF LinksOK
<1>7. ASSUME NEW u \in Tasks PROVE DataOK(p, u, u \in Off \cup {h})
  <2>1. CASE u = h
    BY <1>1, <1>2, <1>3, <2>1, ContentsFacts
       DEF DataOK, Live, IsDone, Queued, Idles
  <2>2. CASE u # h
    <3>1. DataOK(l, u, u \in Off)
      BY <1>0
    <3> QED
      BY <1>1, <1>3, <2>2, <3>1 DEF DataOK, Live, IsDone, Queued, Idles
  <2> QED  BY <2>1, <2>2
<1>8. LoopOK(p, Off \cup {h})
  BY <1>1, <1>5, <1>6, <1>7 DEF LoopOK
<1> QED  BY <1>8 DEF h, p

\* One that has ended has its exception cleared or not.
LEMMA EndedKeeps ==
    ASSUME NEW l, NEW Off, LoopOK(l, Off), l.runq # <<>>,
           IsDone(l, Head(l.runq)), NEW x \in {None, l.data[Head(l.runq)]}
    PROVE  LET p == [Resumed(l) EXCEPT !.data[Head(l.runq)] = x] IN
           /\ LoopOK(p, Off) /\ p.state = l.state /\ p.key = l.key
           /\ p.data = [l.data EXCEPT ![Head(l.runq)] = x]
           /\ Range(p.runq) = Range(l.runq) \ {Head(l.runq)}
<1> DEFINE h == Head(l.runq)
           r == Resumed(l)
           p == [r EXCEPT !.data[h] = x]
<1>0. l \in LoopRecords /\ LinksOK(l) /\ Ranked(l)
      /\ \A u \in Tasks : DataOK(l, u, u \in Off)
  BY DEF LoopOK
<1>1. /\ h \in Tasks /\ Queued(l, h) /\ r \in LoopRecords
      /\ r.data = [l.data EXCEPT ![h] = None]
      /\ r.key = l.key /\ r.state = l.state /\ r.wait = l.wait
      /\ Once(r.runq) /\ Range(r.runq) = Range(l.runq) \ {h}
  BY ResumedIs
<1>2. IsDone(l, h) /\ x \in {None, l.data[h]}
  OBVIOUS
<1> HIDE DEF h, r
<1>3. x \in Contents
  BY <1>0, <1>1, <1>2, RecordIs, ContentsFacts
<1>4. /\ p.data = [r.data EXCEPT ![h] = x] /\ p.key = r.key
      /\ p.state = r.state /\ p.wait = r.wait /\ p.runq = r.runq
  BY <1>1 DEF LoopRecords
<1>5. p \in LoopRecords
  BY <1>1, <1>3 DEF LoopRecords
<1> HIDE DEF p
<1>6. /\ p.data = [l.data EXCEPT ![h] = x]
      /\ \A u \in Tasks \ {h} : p.data[u] = l.data[u]
      /\ p.data[h] = x
  BY <1>0, <1>1, <1>4, RecordIs
<1>7. x.kind \in {"ended", "none"} /\ l.data[h].kind \in {"ended", "none"}
  BY <1>0, <1>1, <1>2, ContentsFacts DEF DataOK
<1>8. Ranked(p)
  BY <1>0, <1>6, <1>7, RankedStays
<1>9. LinksOK(p)
  <2>1. \A u \in Tasks : p.data[h] # OnTask(u) /\ l.data[h] # OnTask(u)
    BY <1>6, <1>7, ContentsFacts
  <2> QED  BY <1>0, <1>1, <1>4, <1>6, <2>1 DEF LinksOK
<1>10. ASSUME NEW u \in Tasks PROVE DataOK(p, u, u \in Off)
  <2>1. CASE u = h
    BY <1>1, <1>2, <1>4, <1>6, <1>7, <2>1
       DEF DataOK, Live, IsDone, Queued, Idles
  <2>2. CASE u # h
    <3>1. DataOK(l, u, u \in Off)
      BY <1>0
    <3> QED
      BY <1>1, <1>4, <1>6, <2>2, <3>1 DEF DataOK, Live, IsDone, Queued, Idles
  <2> QED  BY <2>1, <2>2
<1>11. LoopOK(p, Off)
  BY <1>5, <1>8, <1>9, <1>10 DEF LoopOK
<1> QED  BY <1>1, <1>4, <1>6, <1>11 DEF h, p, r

\* The running task c awaits a task that has ended.
LEMMA AwaitEndedKeeps ==
    ASSUME NEW l, NEW Off, LoopOK(l, Off), NEW c, NEW t \in Tasks,
           NEW time, IsDone(l, t)
    PROVE  LET p == Await(l, c, t, time) IN
           /\ LoopOK(p, Off) /\ p.data = l.data /\ p.key = l.key
           /\ p.state = [l.state EXCEPT ![t] = "waited"]
           /\ p.runq = l.runq
<1> DEFINE p == Await(l, c, t, time)
<1>0. l \in LoopRecords /\ LinksOK(l) /\ Ranked(l)
      /\ \A u \in Tasks : DataOK(l, u, u \in Off)
  BY DEF LoopOK
<1>1. p = [l EXCEPT !.state[t] = "waited"]
  BY DEF Await
<1> HIDE DEF p
<1>2. /\ p \in LoopRecords /\ p.runq = l.runq /\ p.key = l.key
      /\ p.data = l.data /\ p.wait = l.wait
      /\ p.state = [l.state EXCEPT ![t] = "waited"]
  BY <1>0, <1>1 DEF LoopRecords, TaskStates
<1>3. /\ p.state[t] = "waited"
      /\ \A u \in Tasks \ {t} : p.state[u] = l.state[u]
  BY <1>0, <1>2, RecordIs
<1>4. Ranked(p)
  BY <1>0, <1>2, RankedStays
<1>5. LinksOK(p)
  <2>1. l.state[t] # "queue"
    BY DEF IsDone
  <2> QED  BY <1>0, <1>2, <1>3, <2>1 DEF LinksOK
<1>6. ASSUME NEW u \in Tasks PROVE DataOK(p, u, u \in Off)
  <2>1. DataOK(l, u, u \in Off)
    BY <1>0
  <2> QED
    BY <1>2, <1>3, <2>1 DEF DataOK, Live, IsDone, Queued, Idles
<1> QED  BY <1>2, <1>4, <1>5, <1>6 DEF LoopOK, p

\* A new link from c to t makes no circle, because the links from t do not
\* lead to c: the tasks that lead to c are put above all others.
LEMMA RankedGrows ==
    ASSUME NEW l, NEW Off, LoopOK(l, Off), NEW c \in Tasks, NEW t \in Tasks,
           l.data[c].kind # "task", CancelTarget(l, t) # c,
           NEW m, m.data = [l.data EXCEPT ![c] = OnTask(t)]
    PROVE  Ranked(m)
<1>0. l \in LoopRecords /\ LinksOK(l) /\ Ranked(l)
  BY DEF LoopOK
<1>1. PICK N \in Nat : \E rank \in [Tasks -> 0 .. N] : DownLinks(l.data, rank)
  BY <1>0 DEF Ranked
<1>2. PICK rank \in [Tasks -> 0 .. N] : DownLinks(l.data, rank)
  BY <1>1
<1> DEFINE M == N + N + 1
           High(u) == CancelTarget(l, u) = c
           new == [u \in Tasks |-> IF High(u) THEN rank[u] + N + 1
                                   ELSE rank[u]]
<1>3. M \in Nat /\ new \in [Tasks -> 0 .. M]
  <2>1. M \in Nat
    OBVIOUS
  <2>2. ASSUME NEW u \in Tasks PROVE new[u] \in 0 .. M
    <3>1. rank[u] \in 0 .. N
      OBVIOUS
    <3> HIDE DEF High
    <3> QED  BY <3>1
  <2> HIDE DEF M
  <2> QED  BY <2>1, <2>2
<1>4. /\ m.data[c] = OnTask(t)
      /\ \A u \in Tasks \ {c} : m.data[u] = l.data[u]
  BY <1>0, RecordIs
<1>5. High(c) /\ ~High(t)
  BY TargetFacts
<1>6. \A u \in Tasks : l.data[u].kind = "task" =>
                         (High(u) <=> High(l.data[u].task))
  BY TargetFacts
<1> HIDE DEF High, M
<1>7. DownLinks(m.data, new)
  <2> SUFFICES ASSUME NEW u \in Tasks, m.data[u].kind = "task"
               PROVE  m.data[u].task \in Tasks /\ new[m.data[u].task] < new[u]
    BY DEF DownLinks
  <2>1. CASE u = c
    <3>1. m.data[u].task = t
      BY <1>4, <2>1, ContentsFacts
    <3>2. rank[t] \in 0 .. N /\ rank[c] \in 0 .. N
      OBVIOUS
    <3> QED  BY <1>5, <2>1, <3>1, <3>2
  <2>2. CASE u # c
    <3> DEFINE v == l.data[u].task
    <3>1. m.data[u] = l.data[u] /\ l.data[u].kind = "task"
      BY <1>4, <2>2
    <3>2. v \in Tasks /\ rank[v] < rank[u] /\ (High(u) <=> High(v))
      BY <1>2, <1>6, <3>1 DEF DownLinks
    <3> HIDE DEF v
    <3>3. rank[v] \in Nat /\ rank[u] \in Nat
      BY <3>2
    <3>4. new[v] < new[u]
      BY <3>2, <3>3
    <3> QED  BY <3>1, <3>2, <3>4 DEF v
  <2> QED  BY <2>1, <2>2
<1> HIDE DEF new
<1> QED  BY <1>3, <1>7 DEF Ranked

\* What awaiting a task that goes on does.
AwaitIs(p, l, c, t) ==
    /\ p.data = [l.data EXCEPT ![c] = OnTask(t)]
    /\ p.state = [l.state EXCEPT ![t] = "queue"] /\ p.runq = l.runq

\* The running task c awaits one that goes on.
LEMMA AwaitLiveKeeps ==
    ASSUME NEW l, NEW Off, LoopOK(l, Off), NEW c \in Tasks, NEW t \in Tasks,
           NEW time \in Nat, c \in Off, Live(l, c), Live(l, t),
           CancelTarget(l, t) # c
    PROVE  /\ LoopOK(Await(l, c, t, time), Off \ {c})
           /\ AwaitIs(Await(l, c, t, time), l, c, t)
<1> DEFINE p == Await(l, c, t, time)
           q == Append(l.wait[t], c)
<1>0. l \in LoopRecords /\ LinksOK(l) /\ Ranked(l)
      /\ \A u \in Tasks : DataOK(l, u, u \in Off)
  BY DEF LoopOK
<1>1. ~Queued(l, c) /\ Idles(l, c)
  BY <1>0 DEF DataOK
<1>2. \A u \in Tasks : c \notin Range(l.wait[u])
  BY <1>0, <1>1, ContentsFacts DEF LinksOK, Idles
<1>3. /\ q \in Seq(Tasks) /\ Once(q) /\ q # <<>>
      /\ Range(q) = Range(l.wait[t]) \cup {c}
  <2>1. l.wait[t] \in Seq(Tasks) /\ Once(l.wait[t])
    BY <1>0, RecordIs DEF LinksOK
  <2> QED  BY <1>2, <2>1, AppendFacts
<1>4. ~IsDone(l, t)
  BY DEF Live, IsDone
<1>5. p = [l EXCEPT !.state[t] = "queue", !.wait[t] = q, !.key[c] = time,
                    !.data[c] = OnTask(t)]
  BY <1>4 DEF Await
<1> HIDE DEF p, q
<1>6. /\ p.runq = l.runq /\ p.key = [l.key EXCEPT ![c] = time]
      /\ p.data = [l.data EXCEPT ![c] = OnTask(t)]
      /\ p.wait = [l.wait EXCEPT ![t] = q]
      /\ p.state = [l.state EXCEPT ![t] = "queue"]
  BY <1>0, <1>5 DEF LoopRecords
<1>7. p \in LoopRecords
  BY <1>0, <1>3, <1>5, ContentsFacts DEF LoopRecords, TaskStates
<1>8. /\ p.data[c] = OnTask(t) /\ p.wait[t] = q /\ p.state[t] = "queue"
      /\ \A u \in Tasks \ {c} : p.data[u] = l.data[u]
      /\ \A u \in Tasks \ {t} : p.wait[u] = l.wait[u]
      /\ \A u \in Tasks \ {t} : p.state[u] = l.state[u]
  BY <1>0, <1>6, RecordIs
<1>9. Ranked(p)
  BY <1>1, <1>6, RankedGrows DEF Idles
<1>10. LinksOK(p)
  <2>1. Once(p.runq) /\ \A u \in Tasks : Once(p.wait[u])
    BY <1>0, <1>3, <1>6, <1>8 DEF LinksOK
  <2>2. \A u \in Tasks : p.state[u] = "queue" <=> p.wait[u] # <<>>
    BY <1>0, <1>3, <1>8 DEF LinksOK
  <2>3. ASSUME NEW u \in Tasks, NEW v \in Tasks
        PROVE  p.data[u] = OnTask(v) <=> u \in Range(p.wait[v])
    <3>1. CASE u = c
      <4>1. p.data[u] = OnTask(v) <=> v = t
        BY <1>8, <3>1, ContentsFacts
      <4>2. u \in Range(p.wait[v]) <=> v = t
        BY <1>2, <1>3, <1>8, <3>1
      <4> QED  BY <4>1, <4>2
    <3>2. CASE u # c
      <4>1. u \in Range(p.wait[v]) <=> u \in Range(l.wait[v])
        BY <1>3, <1>8, <3>2
      <4> QED  BY <1>0, <1>8, <3>2, <4>1 DEF LinksOK
    <3> QED  BY <3>1, <3>2
  <2> QED  BY <2>1, <2>2, <2>3 DEF LinksOK
<1>11. ASSUME NEW u \in Tasks PROVE DataOK(p, u, u \in Off \ {c})
  <2>1. Live(p, u) <=> Live(l, u)
    BY <1>8 DEF Live
  <2>2. p.state[u] = "new" <=> l.state[u] = "new"
    BY <1>8 DEF Live
  <2>3. IsDone(p, u) <=> IsDone(l, u)
    BY <1>4, <1>8 DEF IsDone
  <2>4. CASE u = c
    BY <1>1, <1>6, <1>8, <2>1, <2>2, <2>3, <2>4, ContentsFacts
       DEF DataOK, Queued, Idles, Live, IsDone
  <2>5. CASE u # c
    <3>1. DataOK(l, u, u \in Off) /\ (Queued(p, u) <=> Queued(l, u))
          /\ p.data[u] = l.data[u] /\ (Idles(p, u) <=> Idles(l, u))
      BY <1>0, <1>6, <1>8, <2>5 DEF Queued, Idles
    <3> QED
      BY <2>1, <2>2, <2>3, <2>5, <3>1 DEF DataOK
  <2> QED  BY <2>4, <2>5
<1> QED  BY <1>6, <1>7, <1>9, <1>10, <1>11 DEF LoopOK, AwaitIs, p

\* The data of a task that waits for nothing, or runs, is set.
LEMMA DataKeeps ==
    ASSUME NEW l, NEW Off, LoopOK(l, Off), NEW t \in Tasks, Live(l, t),
           Idles(l, t), NEW x, NEW On,
           \/ x = Cancelled /\ On = Off
           \/ (\E status \in Statuses : x = CancelledWith(status)) /\ On = Off
           \/ x = OnIo /\ t \in Off /\ On = Off \ {t}
    PROVE  LET p == [l EXCEPT !.data[t] = x] IN
           /\ LoopOK(p, On) /\ p.data = [l.data EXCEPT ![t] = x]
           /\ p.key = l.key /\ p.state = l.state /\ p.runq = l.runq
<1> DEFINE p == [l EXCEPT !.data[t] = x]
<1>0. l \in LoopRecords /\ LinksOK(l) /\ Ranked(l)
      /\ \A u \in Tasks : DataOK(l, u, u \in Off)
  BY DEF LoopOK
<1>1. x \in Contents /\ x.kind \in {"cancelled", "status", "io"}
  BY ContentsFacts
<1>2. /\ p \in LoopRecords /\ p.runq = l.runq /\ p.key = l.key
      /\ p.data = [l.data EXCEPT ![t] = x] /\ p.wait = l.wait
      /\ p.state = l.state
  BY <1>0, <1>1 DEF LoopRecords
<1> HIDE DEF p
<1>3. /\ p.data[t] = x
      /\ \A u \in Tasks \ {t} : p.data[u] = l.data[u]
  BY <1>0, <1>2, RecordIs
<1>4. Ranked(p)
  BY <1>0, <1>1, <1>3, RankedStays
<1>5. LinksOK(p)
  <2>1. \A u \in Tasks : p.data[t] # OnTask(u) /\ l.data[t] # OnTask(u)
    BY <1>1, <1>3, ContentsFacts DEF Idles
  <2> QED  BY <1>0, <1>2, <1>3, <2>1 DEF LinksOK
<1>6. ASSUME NEW u \in Tasks PROVE DataOK(p, u, u \in On)
  <2>1. DataOK(l, u, u \in Off)
    BY <1>0
  <2>2. CASE u = t
    BY <1>2, <1>3, <2>1, <2>2, ContentsFacts
       DEF DataOK, Live, IsDone, Queued, Idles
  <2>3. CASE u # t
    BY <1>2, <1>3, <2>1, <2>3 DEF DataOK, Live, IsDone, Queued, Idles
  <2> QED  BY <2>2, <2>3
<1> QED  BY <1>2, <1>4, <1>5, <1>6 DEF LoopOK, p

\* What cancel() does to the task u that it gets to.
CancelIs(p, l, u, time) ==
    /\ p.state = l.state /\ p.data = [l.data EXCEPT ![u] = Cancelled]
    /\ \A s \in Tasks \ {u} : /\ Queued(p, s) <=> Queued(l, s)
                              /\ p.key[s] = l.key[s]
    /\ p.key[u] <= time

\* cancel() of a task that goes on.  The running task's time has come, so it
\* is not moved.
LEMMA CancelKeeps ==
    ASSUME NEW l, NEW Off, LoopOK(l, Off), NEW t \in Tasks, Live(l, t),
           NEW time \in Nat, \A c \in Off : l.key[c] <= time
    PROVE  /\ LoopOK(Cancel(l, t, time), Off)
           /\ CancelIs(Cancel(l, t, time), l, CancelTarget(l, t), time)
<1> DEFINE u == CancelTarget(l, t)
           p == Cancel(l, t, time)
<1>0. l \in LoopRecords /\ LinksOK(l) /\ Ranked(l)
      /\ \A s \in Tasks : DataOK(l, s, s \in Off)
  BY DEF LoopOK
<1>1. u \in Tasks /\ Live(l, u) /\ l.data[u].kind # "task"
  BY TargetFacts
<1>2. l.data[u] = OnIo \/ Idles(l, u)
  BY <1>0, <1>1, RecordIs, Kinds DEF DataOK, Idles
<1>3. ~IsDone(l, t)
  BY DEF Live, IsDone
<1> DEFINE moved == IF l.data[u] = OnIo THEN Push(l, u, time)
                    ELSE IF l.key[u] > time
                    THEN Push([l EXCEPT !.runq = RemoveFirst(@, u)], u, time)
                    ELSE l
<1>4. p = [moved EXCEPT !.data[u] = Cancelled]
  BY <1>3 DEF Cancel
<1> HIDE DEF u, p
<1>5. CASE l.data[u] = OnIo
  <2>1. ~Idles(l, u)
    BY <1>5, ContentsFacts DEF Idles
  <2>2. u \notin Off /\ ~Queued(l, u)
    BY <1>0, <1>1, <2>1 DEF DataOK
  <2> DEFINE m == Push(l, u, time)
  <2>3. LoopOK(m, Off \ {u}) /\ Off \ {u} = Off
    BY <1>1, <2>2, PushKeeps
  <2>4. Pushed(m, l, u, time)
    BY <1>0, <1>1, <2>2, PushIs DEF LinksOK
  <2>5. p = [m EXCEPT !.data[u] = Cancelled]
    BY <1>4, <1>5
  <2> HIDE DEF m
  <2>6. Live(m, u) /\ Idles(m, u)
    BY <1>0, <1>1, <2>4, RecordIs, ContentsFacts DEF Pushed, Live, Idles
  <2>7. /\ LoopOK(p, Off) /\ p.data = [m.data EXCEPT ![u] = Cancelled]
        /\ p.key = m.key /\ p.state = m.state /\ p.runq = m.runq
    BY <1>1, <2>3, <2>5, <2>6, DataKeeps
  <2>8. p.data = [l.data EXCEPT ![u] = Cancelled]
    BY <1>0, <1>1, <2>4, <2>7, RecordIs DEF Pushed
  <2>9. CancelIs(p, l, u, time)
    BY <1>0, <1>1, <2>4, <2>7, <2>8, RecordIs DEF CancelIs, Pushed, Queued
  <2> QED  BY <2>7, <2>9 DEF p, u
<1>6. CASE l.data[u] # OnIo /\ l.key[u] > time
  <2>1. u \notin Off /\ Idles(l, u)
    <3>1. l.key[u] \in Nat
      BY <1>0, <1>1, RecordIs
    <3> QED  BY <1>2, <1>6, <3>1
  <2> DEFINE q == RemoveFirst(l.runq, u)
             r == [l EXCEPT !.runq = q]
             m == Push(r, u, time)
  <2>2. q \in Seq(Tasks) /\ Once(q) /\ Range(q) = Range(l.runq) \ {u}
    BY <1>0, RecordIs, RemoveFacts DEF LinksOK
  <2>3. p = [m EXCEPT !.data[u] = Cancelled]
    BY <1>4, <1>6
  <2> HIDE DEF q
  <2>4. /\ r \in LoopRecords /\ r.runq = q /\ r.data = l.data
        /\ r.key = l.key /\ r.state = l.state /\ r.wait = l.wait
    BY <1>0, <2>2 DEF LoopRecords
  <2> HIDE DEF r, m
  <2>5. LoopOK(r, Off \cup {u})
    <3>1. Ranked(r) /\ LinksOK(r)
      BY <1>0, <2>2, <2>4, RankedStays DEF LinksOK
    <3>2. ASSUME NEW s \in Tasks PROVE DataOK(r, s, s \in Off \cup {u})
      <4>1. DataOK(l, s, s \in Off)
        BY <1>0
      <4>2. CASE s = u
        BY <2>1, <2>2, <2>4, <4>1, <4>2
           DEF DataOK, Live, IsDone, Queued, Idles
      <4>3. CASE s # u
        BY <2>2, <2>4, <4>1, <4>3 DEF DataOK, Live, IsDone, Queued, Idles
      <4> QED  BY <4>2, <4>3
    <3> QED  BY <2>4, <3>1, <3>2 DEF LoopOK
  <2>6. Live(r, u) /\ ~Queued(r, u) /\ r.data[u].kind # "task"
    BY <1>1, <2>2, <2>4 DEF Live, Queued
  <2>7. LoopOK(m, (Off \cup {u}) \ {u}) /\ (Off \cup {u}) \ {u} = Off
    <3>1. LoopOK(m, (Off \cup {u}) \ {u})
      BY <1>1, <2>5, <2>6, PushKeeps DEF m
    <3> QED  BY <2>1, <3>1
  <2>8. Pushed(m, r, u, time)
    BY <1>1, <2>2, <2>4, <2>6, PushIs DEF m
  <2>9. Live(m, u) /\ Idles(m, u)
    BY <1>0, <1>1, <2>4, <2>8, RecordIs, ContentsFacts DEF Pushed, Live, Idles
  <2>10. /\ LoopOK(p, Off) /\ p.data = [m.data EXCEPT ![u] = Cancelled]
         /\ p.key = m.key /\ p.state = m.state /\ p.runq = m.runq
    BY <1>1, <2>3, <2>7, <2>9, DataKeeps
  <2>11. p.data = [l.data EXCEPT ![u] = Cancelled]
    <3>1. m.data = [l.data EXCEPT ![u] = None]
      BY <2>4, <2>8 DEF Pushed
    <3>2. p.data = [m.data EXCEPT ![u] = Cancelled]
      BY <2>10
    <3> QED  BY <3>1, <3>2
  <2>12. CancelIs(p, l, u, time)
    BY <1>0, <1>1, <2>2, <2>4, <2>8, <2>10, <2>11, RecordIs
       DEF CancelIs, Pushed, Queued
  <2> QED  BY <2>10, <2>12 DEF p, u
<1>7. CASE l.data[u] # OnIo /\ ~(l.key[u] > time)
  <2>1. Idles(l, u)
    BY <1>2, <1>7
  <2>2. p = [l EXCEPT !.data[u] = Cancelled]
    BY <1>4, <1>7
  <2>3. /\ LoopOK(p, Off) /\ p.data = [l.data EXCEPT ![u] = Cancelled]
        /\ p.key = l.key /\ p.state = l.state /\ p.runq = l.runq
    BY <1>1, <2>1, <2>2, DataKeeps
  <2>4. l.key[u] \in Nat
    BY <1>0, <1>1, RecordIs
  <2>5. CancelIs(p, l, u, time)
    BY <1>7, <2>3, <2>4 DEF CancelIs, Queued
  <2> QED  BY <2>3, <2>5 DEF p, u
<1> QED  BY <1>5, <1>6, <1>7

\* What the end of the running task c does to the loop.
FinishIs(p, l, c, how, time) ==
    /\ p.state = [l.state EXCEPT ![c] = IF l.state[c] = "queue"
                                        THEN "waited" ELSE "done"]
    /\ p.data[c] = Ended(how)
    /\ \A s \in Tasks \ {c} :
         IF s \in Range(l.wait[c]) THEN p.data[s] = None
         ELSE p.data[s] = l.data[s] /\ (Queued(p, s) <=> Queued(l, s))
    /\ Queued(p, c) => l.state[c] # "queue" /\ how = "exception"

\* It does so, and leaves the loop in order.
LEMMA FinishKeeps ==
    ASSUME NEW l, NEW Off, LoopOK(l, Off), NEW c \in Tasks, c \in Off,
           Live(l, c), NEW how \in Outcomes, NEW time \in Nat
    PROVE  /\ LoopOK(Finish(l, c, how, time), Off \ {c})
           /\ FinishIs(Finish(l, c, how, time), l, c, how, time)
<1> DEFINE w == l.wait[c]
           r == [l EXCEPT !.wait[c] = <<>>]
           woken == PushAll(r, w, time)
           end == IF l.state[c] = "queue" THEN "waited" ELSE "done"
           ended == [woken EXCEPT !.state[c] = end]
           alone == w = <<>> /\ how = "exception"
           queued == IF alone THEN Push(ended, c, time) ELSE ended
           p == Finish(l, c, how, time)
<1>0. l \in LoopRecords /\ LinksOK(l) /\ Ranked(l)
      /\ \A s \in Tasks : DataOK(l, s, s \in Off)
  BY DEF LoopOK
<1>1. p = [queued EXCEPT !.data[c] = Ended(how)]
  BY DEF Finish
<1>2. ~Queued(l, c) /\ Idles(l, c)
  BY <1>0 DEF DataOK
<1>3. /\ w \in Seq(Tasks) /\ Once(w) /\ c \notin Range(w)
      /\ (l.state[c] = "queue" <=> w # <<>>)
  BY <1>0, <1>2, RecordIs, ContentsFacts DEF LinksOK, Idles
<1>4. \A s \in Range(w) : s \in Tasks /\ l.data[s] = OnTask(c) /\ ~Queued(l, s)
  <2> SUFFICES ASSUME NEW s \in Range(w)
               PROVE  s \in Tasks /\ l.data[s] = OnTask(c) /\ ~Queued(l, s)
    OBVIOUS
  <2>1. s \in Tasks
    BY <1>3 DEF Range
  <2>2. l.data[s] = OnTask(c)
    BY <1>0, <2>1 DEF LinksOK
  <2>3. l.data[s].kind = "task" /\ ~Idles(l, s)
    BY <2>2, ContentsFacts DEF Idles
  <2>4. Live(l, s)
    <3>1. l.state[s] \in TaskStates /\ l.data[s] # None
      BY <1>0, <2>1, <2>3, RecordIs, ContentsFacts
    <3> QED  BY <1>0, <2>1, <2>3, <3>1 DEF DataOK, Live, IsDone, TaskStates
  <2> QED  BY <1>0, <2>1, <2>2, <2>3, <2>4 DEF DataOK
<1> HIDE DEF w, end
<1>5. /\ r \in LoopRecords /\ r.runq = l.runq /\ r.key = l.key
      /\ r.data = l.data /\ r.state = l.state
      /\ r.wait = [l.wait EXCEPT ![c] = <<>>]
  <2> DEFINE e == <<>>
  <2>1. e \in Seq(Tasks)
    OBVIOUS
  <2>2. r = [l EXCEPT !.wait[c] = e]
    OBVIOUS
  <2> HIDE DEF e, r
  <2>3. [l.wait EXCEPT ![c] = e] \in [Tasks -> Seq(Tasks)]
    BY <1>0, <2>1, RecordIs
  <2>4. /\ r.runq = l.runq /\ r.key = l.key
        /\ r.data = l.data /\ r.state = l.state
        /\ r.wait = [l.wait EXCEPT ![c] = e]
    BY <1>0, <2>2 DEF LoopRecords
  <2>5. r \in LoopRecords
    BY <1>0, <2>1, <2>2, <2>3 DEF LoopRecords
  <2> QED  BY <2>4, <2>5 DEF e
<1> DEFINE n == Due(r, time)
           q == SubSeq(r.runq, 1, n) \o w \o SubSeq(r.runq, n + 1, Len(r.runq))
           d == [t \in Tasks |-> IF t \in Range(w) THEN None ELSE l.data[t]]
           y == [t \in Tasks |-> IF t \in Range(w) THEN time ELSE l.key[t]]
<1> HIDE DEF r
<1>6. n \in 0 .. Len(r.runq)
  BY <1>5, DueIn
<1> HIDE DEF n
<1>7. q \in Seq(Tasks) /\ Once(q) /\ Range(q) = Range(l.runq) \cup Range(w)
  <2>1. Range(l.runq) \cap Range(w) = {}
    BY <1>4 DEF Queued
  <2>2. l.runq \in Seq(Tasks) /\ Once(l.runq)
    BY <1>0, RecordIs DEF LinksOK
  <2> QED  BY <1>3, <1>5, <1>6, <2>1, <2>2, SpliceFacts
<1>8. woken = [r EXCEPT !.data = d, !.key = y, !.runq = q]
  BY <1>5 DEF PushAll, n
<1> HIDE DEF q
<1>9. d \in [Tasks -> Contents] /\ y \in [Tasks -> Nat]
  BY <1>0, RecordIs, ContentsFacts
<1> HIDE DEF d, y, woken
<1>10. /\ woken \in LoopRecords /\ woken.runq = q /\ woken.key = y
       /\ woken.data = d /\ woken.state = l.state
       /\ woken.wait = [l.wait EXCEPT ![c] = <<>>]
  BY <1>5, <1>7, <1>8, <1>9 DEF LoopRecords
<1>11. end \in TaskStates
  BY DEF end, TaskStates
<1>12. /\ ended \in LoopRecords /\ ended.runq = q /\ ended.key = y
       /\ ended.data = d /\ ended.state = [l.state EXCEPT ![c] = end]
       /\ ended.wait = [l.wait EXCEPT ![c] = <<>>]
  BY <1>10, <1>11 DEF LoopRecords
<1> HIDE DEF ended
<1>13. c \notin Range(q)
  BY <1>2, <1>3, <1>7 DEF Queued
<1>14. /\ queued \in LoopRecords /\ Once(queued.runq)
       /\ Range(queued.runq) = Range(q) \cup (IF alone THEN {c} ELSE {})
       /\ queued.state = ended.state /\ queued.wait = ended.wait
       /\ \A s \in Tasks \ {c} : queued.data[s] = d[s]
  <2>1. CASE alone
    <3>1. Pushed(Push(ended, c, time), ended, c, time)
      BY <1>7, <1>12, <1>13, PushIs DEF Queued
    <3>2. queued = Push(ended, c, time)
      BY <2>1
    <3> QED  BY <1>9, <1>12, <2>1, <3>1, <3>2 DEF Pushed
  <2>2. CASE ~alone
    BY <1>7, <1>12, <2>2
  <2> QED  BY <2>1, <2>2
<1> HIDE DEF queued, p
<1>15. /\ p \in LoopRecords /\ p.runq = queued.runq
       /\ p.state = queued.state /\ p.wait = queued.wait
       /\ p.data = [queued.data EXCEPT ![c] = Ended(how)]
  BY <1>1, <1>14, ContentsFacts DEF LoopRecords
<1>16. /\ p.data[c] = Ended(how)
       /\ \A s \in Tasks \ {c} : p.data[s] = IF s \in Range(w) THEN None
                                             ELSE l.data[s]
  BY <1>14, <1>15, RecordIs DEF d
<1>17. /\ p.state = [l.state EXCEPT ![c] = end]
       /\ p.state[c] = end /\ \A s \in Tasks \ {c} : p.state[s] = l.state[s]
  BY <1>0, <1>12, <1>14, <1>15, RecordIs
<1>18. /\ p.wait[c] = <<>> /\ \A s \in Tasks \ {c} : p.wait[s] = l.wait[s]
  BY <1>0, <1>12, <1>14, <1>15, RecordIs
<1>19. /\ Once(p.runq)
       /\ Range(p.runq) = (Range(l.runq) \cup Range(w))
                             \cup (IF alone THEN {c} ELSE {})
  BY <1>7, <1>14, <1>15
<1>20. Ended(how).kind = "ended" /\ end \in {"waited", "done"}
  BY ContentsFacts DEF end
<1>21. Ranked(p)
  BY <1>0, <1>16, <1>20, RankedStays, ContentsFacts
<1>22. LinksOK(p)
  <2>1. \A s \in Tasks : Once(p.wait[s])
    BY <1>0, <1>18 DEF LinksOK, Once
  <2>2. \A s \in Tasks : p.state[s] = "queue" <=> p.wait[s] # <<>>
    BY <1>0, <1>17, <1>18, <1>20 DEF LinksOK
  <2>3. ASSUME NEW s \in Tasks, NEW v \in Tasks
        PROVE  p.data[s] = OnTask(v) <=> s \in Range(p.wait[v])
    <3>1. l.data[s] = OnTask(v) <=> s \in Range(l.wait[v])
      BY <1>0 DEF LinksOK
    <3>2. CASE v = c
      <4>1. s \notin Range(p.wait[v])
        BY <1>18, <3>2 DEF Range
      <4>2. p.data[s] # OnTask(v)
        BY <1>16, <1>20, <3>1, <3>2, ContentsFacts DEF w
      <4> QED  BY <4>1, <4>2
    <3>3. CASE v # c
      <4>1. p.wait[v] = l.wait[v]
        BY <1>18, <3>3
      <4>2. l.data[c] # OnTask(v) /\ p.data[c] # OnTask(v)
        BY <1>2, <1>16, <1>20, ContentsFacts DEF Idles
      <4>3. s \in Range(w) => l.data[s] # OnTask(v) /\ p.data[s] # OnTask(v)
        BY <1>3, <1>4, <1>16, <3>3, ContentsFacts
      <4> QED  BY <1>16, <3>1, <4>1, <4>2, <4>3
    <3> QED  BY <3>2, <3>3
  <2> QED  BY <1>19, <2>1, <2>2, <2>3 DEF LinksOK
<1>23. ASSUME NEW s \in Tasks PROVE DataOK(p, s, s \in Off \ {c})
  <2>1. DataOK(l, s, s \in Off)
    BY <1>0
  <2>2. CASE s = c
    BY <1>16, <1>17, <1>20, <2>2 DEF DataOK, Live, IsDone
  <2>3. CASE s # c /\ s \in Range(w)
    <3>1. s \notin Off /\ Live(l, s)
      <4>1. l.state[s] \in TaskStates /\ l.data[s] # None
            /\ l.data[s].kind = "task"
        BY <1>0, <1>4, <2>3, RecordIs, ContentsFacts
      <4> QED  BY <2>1, <4>1 DEF DataOK, Live, IsDone, TaskStates, Idles
    <3>2. p.data[s] = None /\ p.state[s] = l.state[s] /\ Queued(p, s)
      BY <1>16, <1>17, <1>19, <2>3 DEF Queued
    <3> QED  BY <3>1, <3>2, ContentsFacts DEF DataOK, Live, IsDone, Idles
  <2>4. CASE s # c /\ s \notin Range(w)
    <3>1. p.data[s] = l.data[s] /\ p.state[s] = l.state[s]
          /\ (Queued(p, s) <=> Queued(l, s))
      BY <1>16, <1>17, <1>19, <2>4 DEF Queued
    <3> QED  BY <2>1, <2>4, <3>1 DEF DataOK, Live, IsDone, Idles
  <2> QED  BY <2>2, <2>3, <2>4
<1>24. LoopOK(p, Off \ {c})
  BY <1>15, <1>21, <1>22, <1>23 DEF LoopOK
<1>25. Queued(p, c) => alone
  BY <1>7, <1>13, <1>19 DEF Queued
<1>26. FinishIs(p, l, c, how, time)
  BY <1>3, <1>16, <1>17, <1>19, <1>25 DEF FinishIs, w, end, Queued
<1> QED  BY <1>24, <1>26 DEF p

\* A loop with no tasks.
LEMMA NewLoopOK == LoopOK(NewLoop, {})
<1> DEFINE rank == [t \in Tasks |-> 0]
           e == <<>>
<1>1. e \in Seq(Tasks) /\ Once(e) /\ Range(e) = {}
  BY DEF Once, Range
<1>2. NewLoop = [runq |-> e, key |-> [t \in Tasks |-> 0],
                 data |-> [t \in Tasks |-> None],
                 state |-> [t \in Tasks |-> "new"],
                 wait |-> [t \in Tasks |-> e]]
  BY DEF NewLoop
<1>3. e = <<>>
  OBVIOUS
<1> HIDE DEF e
<1>4. /\ NewLoop.runq = e /\ \A t \in Tasks : NewLoop.data[t] = None
      /\ \A t \in Tasks : NewLoop.state[t] = "new"
      /\ \A t \in Tasks : NewLoop.wait[t] = e
  BY <1>2
<1>5. NewLoop \in LoopRecords
  BY <1>1, <1>2, ContentsFacts DEF LoopRecords, TaskStates
<1>6. LinksOK(NewLoop)
  BY <1>1, <1>3, <1>4, ContentsFacts DEF LinksOK
<1>7. Ranked(NewLoop)
  <2>1. rank \in [Tasks -> 0 .. 0] /\ DownLinks(NewLoop.data, rank)
    BY <1>4, ContentsFacts DEF DownLinks
  <2> HIDE DEF rank
  <2> QED  BY <2>1 DEF Ranked
<1>8. \A t \in Tasks : DataOK(NewLoop, t, t \in {})
  BY <1>1, <1>4 DEF DataOK, Queued, Live, IsDone
<1> QED  BY <1>5, <1>6, <1>7, <1>8 DEF LoopOK
-----------------------------------------------------------------------------
(***************************************************************************)
(* The order of the run queue                                              *)
(***************************************************************************)

\* s is in front of t.
Before(l, s, t) == \E i, j \in DOMAIN l.runq :
                      i < j /\ l.runq[i] = s /\ l.runq[j] = t

\* The queue is ordered by time.
InOrder(l) == \A i, j \in DOMAIN l.runq :
                 i <= j => l.key[l.runq[i]] <= l.key[l.runq[j]]

\* Those that are due are in front.
LEMMA DueSplits ==
    ASSUME NEW l \in LoopRecords, NEW time \in Nat, InOrder(l),
           NEW i \in DOMAIN l.runq
    PROVE  l.key[l.runq[i]] <= time <=> i <= Due(l, time)
<1> DEFINE key(x) == l.key[l.runq[x]]
           m == Len(l.runq)
           B == {x \in 1 .. m : ~(key(x) <= time)} \cup {m + 1}
           D == {x \in 1 .. m : key(x) <= time}
<1>1. m \in Nat /\ DOMAIN l.runq = 1 .. m
  BY RecordIs
<1>2. \A x \in 1 .. m : key(x) \in Nat
  BY RecordIs
<1>3. \A x, y \in 1 .. m : x <= y => key(x) <= key(y)
  BY <1>1 DEF InOrder
<1>4. Due(l, time) = Cardinality(D)
  BY <1>1 DEF Due
<1> HIDE DEF m, key
<1>5. B \in SUBSET Nat /\ m + 1 \in B
  BY <1>1
<1>6. PICK b \in B : \A y \in B : b <= y
  BY <1>5, LeastNumber
<1>7. b \in Nat /\ b - 1 \in Nat /\ b <= m + 1
  BY <1>1, <1>5, <1>6
<1>8. ASSUME NEW x \in 1 .. m PROVE key(x) <= time <=> x <= b - 1
  <2>1. CASE x < b
    <3>1. x \notin B
      BY <1>1, <1>6, <1>7, <2>1
    <3> QED  BY <1>1, <1>7, <2>1, <3>1
  <2>2. CASE b <= x
    <3>1. b \in 1 .. m /\ ~(key(b) <= time)
      BY <1>1, <1>6, <2>2
    <3>2. key(b) \in Nat /\ key(x) \in Nat /\ key(b) <= key(x)
      BY <1>2, <1>3, <2>2, <3>1
    <3> QED  BY <1>1, <1>7, <2>2, <3>1, <3>2
  <2> QED  BY <1>1, <1>7, <2>1, <2>2
<1>9. D = 1 .. b - 1
  <2>1. \A x : x \in D <=> x \in 1 .. b - 1
    BY <1>1, <1>7, <1>8
  <2> QED  BY <2>1
<1> HIDE DEF D
<1>10. Cardinality(D) = b - 1
  <2> DEFINE e == b - 1
  <2>1. e \in Nat
    BY <1>7
  <2> HIDE DEF e
  <2>2. Cardinality(1 .. e) = e
    <3>1. 1 <= e + 1
      BY <2>1
    <3> QED  BY <2>1, <3>1, FS_Interval
  <2> QED  BY <1>9, <2>2 DEF e
<1> QED  BY <1>1, <1>4, <1>8, <1>10 DEF key

\* What is put into the queue at its time comes behind all that is due, and
\* in front of all that is not.
Inserted(p, l, q, time) ==
    /\ \A s, t : Before(l, s, t) => Before(p, s, t)
    /\ \A s \in Range(l.runq), t \in Range(q) :
         IF l.key[s] <= time THEN Before(p, s, t) ELSE Before(p, t, s)

\* PushAll and Push, as far as the order goes.
LEMMA SpliceOrder ==
    ASSUME NEW l \in LoopRecords, InOrder(l), NEW time \in Nat,
           NEW q \in Seq(Tasks), NEW p,
           Spliced(p.runq, Tasks, l.runq, q, Due(l, time)),
           \A s \in Range(l.runq) : p.key[s] = l.key[s],
           \A s \in Range(q) : p.key[s] = time
    PROVE  InOrder(p) /\ Inserted(p, l, q, time)
<1> DEFINE n == Due(l, time)
           m == Len(l.runq)
           c == Len(q)
           old == l.runq
           new == p.runq
<1>1. /\ m \in Nat /\ c \in Nat /\ n \in 0 .. m
      /\ DOMAIN old = 1 .. m /\ DOMAIN q = 1 .. c
  <2>1. n \in 0 .. m
    BY DueIn
  <2>2. old \in Seq(Tasks)
    BY RecordIs
  <2> HIDE DEF n
  <2>3. m \in Nat /\ DOMAIN old = 1 .. m
    BY <2>2
  <2>4. c \in Nat /\ DOMAIN q = 1 .. c
    OBVIOUS
  <2> QED  BY <2>1, <2>3, <2>4
<1>2. /\ new \in Seq(Tasks) /\ Len(new) = m + c
      /\ \A i \in 1 .. n : new[i] = old[i]
      /\ \A i \in n + 1 .. n + c : new[i] = q[i - n]
      /\ \A i \in n + c + 1 .. m + c : new[i] = old[i - c]
  BY DEF Spliced
<1>3. DOMAIN new = 1 .. m + c
  <2> HIDE DEF m, c
  <2>1. DOMAIN new = 1 .. Len(new)
    BY <1>2
  <2> QED  BY <1>2, <2>1
<1>4. /\ \A i \in 1 .. m : l.key[old[i]] <= time <=> i <= n
      /\ \A i \in 1 .. m : l.key[old[i]] \in Nat
      /\ \A i \in 1 .. m : p.key[old[i]] = l.key[old[i]]
      /\ \A i \in 1 .. c : p.key[q[i]] = time
      /\ \A i, j \in 1 .. m : i <= j => l.key[old[i]] <= l.key[old[j]]
  <2>1. \A i \in 1 .. m : l.key[old[i]] <= time <=> i <= n
    BY <1>1, DueSplits
  <2>2. \A i \in 1 .. m : l.key[old[i]] \in Nat
    BY <1>1, RecordIs
  <2>3. \A i \in 1 .. m : p.key[old[i]] = l.key[old[i]]
    BY <1>1 DEF Range
  <2>4. \A i \in 1 .. c : p.key[q[i]] = time
    BY <1>1 DEF Range
  <2> QED  BY <1>1, <2>1, <2>2, <2>3, <2>4 DEF InOrder
<1> HIDE DEF n, m, c, old, new
<1>5. InOrder(p)
  <2> DEFINE at(i) == p.key[new[i]]
  <2>1. \A i \in 1 .. n : at(i) \in Nat /\ at(i) <= time
    BY <1>1, <1>2, <1>4
  <2>2. \A i \in n + 1 .. n + c : at(i) = time
    <3> SUFFICES ASSUME NEW i \in n + 1 .. n + c PROVE at(i) = time
      OBVIOUS
    <3>1. i - n \in 1 .. c /\ new[i] = q[i - n]
      BY <1>1, <1>2
    <3> QED  BY <1>4, <3>1
  <2>3. \A i \in n + c + 1 .. m + c :
           /\ at(i) = l.key[old[i - c]] /\ at(i) \in Nat /\ time <= at(i)
           /\ i - c \in 1 .. m
    <3> SUFFICES ASSUME NEW i \in n + c + 1 .. m + c
                 PROVE  /\ at(i) = l.key[old[i - c]] /\ at(i) \in Nat
                        /\ time <= at(i) /\ i - c \in 1 .. m
      OBVIOUS
    <3>1. i - c \in 1 .. m /\ ~(i - c <= n)
      BY <1>1
    <3>2. new[i] = old[i - c]
      BY <1>2
    <3> QED  BY <1>4, <3>1, <3>2
  <2>4. ASSUME NEW i \in 1 .. m + c, NEW j \in 1 .. m + c, i <= j
        PROVE  at(i) <= at(j)
    <3>1. CASE j \in 1 .. n
      <4>1. i \in 1 .. n /\ i \in 1 .. m /\ j \in 1 .. m
        BY <1>1, <2>4, <3>1
      <4> QED  BY <1>2, <1>4, <2>4, <3>1, <4>1
    <3>2. CASE j \in n + 1 .. n + c
      <4>1. i \in 1 .. n \/ i \in n + 1 .. n + c
        BY <1>1, <2>4, <3>2
      <4> QED  BY <2>1, <2>2, <3>2, <4>1
    <3>3. CASE j \in n + c + 1 .. m + c
      <4>1. CASE i \in n + c + 1 .. m + c
        <5>1. i - c <= j - c
          BY <1>1, <2>4
        <5> QED  BY <1>4, <2>3, <3>3, <4>1, <5>1
      <4>2. CASE i \in n + 1 .. n + c
        BY <2>2, <2>3, <3>3, <4>2
      <4>3. CASE i \in 1 .. n
        <5>1. at(i) \in Nat /\ at(i) <= time /\ time <= at(j) /\ at(j) \in Nat
          BY <2>1, <2>3, <3>3, <4>3
        <5> HIDE DEF at
        <5> QED  BY <5>1
      <4> QED  BY <1>1, <4>1, <4>2, <4>3
    <3> QED  BY <1>1, <3>1, <3>2, <3>3
  <2> QED  BY <1>3, <2>4 DEF InOrder, new
<1> DEFINE place(i) == IF i <= n THEN i ELSE i + c
<1>6. \A i \in 1 .. m : /\ place(i) \in 1 .. m + c
                        /\ new[place(i)] = old[i]
  <2> SUFFICES ASSUME NEW i \in 1 .. m
               PROVE  place(i) \in 1 .. m + c /\ new[place(i)] = old[i]
    OBVIOUS
  <2>1. CASE i <= n
    BY <1>1, <1>2, <2>1
  <2>2. CASE ~(i <= n)
    <3>1. i + c \in n + c + 1 .. m + c /\ (i + c) - c = i
      BY <1>1, <2>2
    <3> QED  BY <1>1, <1>2, <2>2, <3>1
  <2> QED  BY <2>1, <2>2
<1>7. \A i \in 1 .. c : n + i \in 1 .. m + c /\ new[n + i] = q[i]
  <2> SUFFICES ASSUME NEW i \in 1 .. c
               PROVE  n + i \in 1 .. m + c /\ new[n + i] = q[i]
    OBVIOUS
  <2>1. n + i \in n + 1 .. n + c /\ (n + i) - n = i
    BY <1>1
  <2> QED  BY <1>1, <1>2, <2>1
<1>8. ASSUME NEW s, NEW t, Before(l, s, t) PROVE Before(p, s, t)
  <2>1. PICK i \in 1 .. m, j \in 1 .. m :
               i < j /\ old[i] = s /\ old[j] = t
    BY <1>1, <1>8 DEF Before, old
  <2>2. place(i) < place(j)
    BY <1>1, <2>1
  <2> HIDE DEF place
  <2> QED  BY <1>3, <1>6, <2>1, <2>2 DEF Before, new
<1>9. ASSUME NEW s \in Range(l.runq), NEW t \in Range(q)
      PROVE  IF l.key[s] <= time THEN Before(p, s, t) ELSE Before(p, t, s)
  <2>1. PICK i \in 1 .. m : old[i] = s
    BY <1>1 DEF Range, old
  <2>2. PICK j \in 1 .. c : q[j] = t
    BY <1>1 DEF Range
  <2>3. l.key[s] <= time <=> i <= n
    BY <1>4, <2>1
  <2>4. CASE i <= n
    <3>1. place(i) < n + j
      BY <1>1, <2>4
    <3> HIDE DEF place
    <3>2. Before(p, s, t)
      BY <1>3, <1>6, <1>7, <2>1, <2>2, <3>1 DEF Before, new
    <3> QED  BY <2>3, <2>4, <3>2
  <2>5. CASE ~(i <= n)
    <3>1. n + j < place(i)
      BY <1>1, <2>5
    <3> HIDE DEF place
    <3>2. Before(p, t, s)
      BY <1>3, <1>6, <1>7, <2>1, <2>2, <3>1 DEF Before, new
    <3> QED  BY <2>3, <2>5, <3>2
  <2> QED  BY <2>4, <2>5
<1> QED  BY <1>5, <1>8, <1>9 DEF Inserted

\* The same queue with the same times is in the same order.
LEMMA SameOrder ==
    ASSUME NEW l \in LoopRecords, NEW p, p.runq = l.runq,
           \A s \in Range(l.runq) : p.key[s] = l.key[s]
    PROVE  /\ InOrder(l) => InOrder(p)
           /\ \A s, t : Before(p, s, t) <=> Before(l, s, t)
<1>1. \A i \in DOMAIN l.runq : p.key[l.runq[i]] = l.key[l.runq[i]]
  BY DEF Range
<1>2. InOrder(l) => InOrder(p)
  BY <1>1 DEF InOrder
<1>3. \A s, t : Before(p, s, t) <=> Before(l, s, t)
  BY DEF Before
<1> QED  BY <1>2, <1>3

\* push keeps the order.
LEMMA PushOrder ==
    ASSUME NEW l \in LoopRecords, InOrder(l), Once(l.runq), NEW t \in Tasks,
           ~Queued(l, t), NEW time \in Nat
    PROVE  /\ InOrder(Push(l, t, time))
           /\ Inserted(Push(l, t, time), l, <<t>>, time)
<1> DEFINE p == Push(l, t, time)
           q == <<t>>
           n == Due(l, time)
<1>1. q \in Seq(Tasks) /\ Range(q) = {t}
  BY DEF Range
<1>2. n \in 0 .. Len(l.runq) /\ l.runq \in Seq(Tasks)
  BY DueIn, RecordIs
<1>3. Pushed(p, l, t, time)
  BY PushIs
<1>4. /\ \A s \in Range(l.runq) : p.key[s] = l.key[s]
      /\ \A s \in Range(q) : p.key[s] = time
  <2>1. p.key = [l.key EXCEPT ![t] = time] /\ l.key \in [Tasks -> Nat]
    BY <1>3, RecordIs DEF Pushed
  <2>2. \A s \in Range(l.runq) : s \in Tasks /\ s # t
    BY <1>2 DEF Queued, Range
  <2> QED  BY <1>1, <2>1, <2>2
<1>5. p.runq = InsertAt(l.runq, n + 1, t)
  BY DEF Push, LoopRecords
<1> HIDE DEF n, q
<1>6. p.runq = SubSeq(l.runq, 1, n) \o q \o SubSeq(l.runq, n + 1, Len(l.runq))
  <2>1. (n + 1) - 1 = n
    BY <1>2
  <2> QED  BY <1>5, <2>1 DEF InsertAt, q
<1>7. Spliced(p.runq, Tasks, l.runq, q, n)
  BY <1>1, <1>2, <1>6, SpliceIs
<1> HIDE DEF p
<1>8. Spliced(p.runq, Tasks, l.runq, q, Due(l, time))
  BY <1>7 DEF n
<1>9. InOrder(p) /\ Inserted(p, l, q, time)
  BY <1>1, <1>4, <1>8, SpliceOrder
<1> QED  BY <1>9 DEF p, q

\* A new task comes behind all that is due.
LEMMA CreateOrder ==
    ASSUME NEW l, NEW Off, LoopOK(l, Off), InOrder(l), NEW t \in Tasks,
           l.state[t] = "new", NEW time \in Nat
    PROVE  /\ InOrder(Create(l, t, time))
           /\ Inserted(Create(l, t, time), l, <<t>>, time)
<1> DEFINE m == [l EXCEPT !.state[t] = "running"]
<1>1. l \in LoopRecords /\ Once(l.runq) /\ ~Queued(l, t)
  BY DEF LoopOK, LinksOK, DataOK
<1>2. m \in LoopRecords /\ m.runq = l.runq /\ m.key = l.key
  BY <1>1 DEF LoopRecords, TaskStates
<1>3. Create(l, t, time) = Push(m, t, time)
  BY DEF Create
<1> HIDE DEF m
<1>4. InOrder(m) /\ \A s, u : Before(m, s, u) <=> Before(l, s, u)
  BY <1>1, <1>2, SameOrder
<1>5. Once(m.runq) /\ ~Queued(m, t)
  BY <1>1, <1>2 DEF Queued
<1>6. InOrder(Push(m, t, time)) /\ Inserted(Push(m, t, time), m, <<t>>, time)
  BY <1>2, <1>4, <1>5, PushOrder
<1>7. Inserted(Push(m, t, time), l, <<t>>, time)
  BY <1>2, <1>4, <1>6 DEF Inserted
<1> QED  BY <1>3, <1>6, <1>7

\* The queue without its head.
LEMMA ResumedOrder ==
    ASSUME NEW l, NEW Off, LoopOK(l, Off), InOrder(l), l.runq # <<>>
    PROVE  /\ InOrder(Resumed(l))
           /\ \A s, t : Before(l, s, t) =>
                /\ t # Head(l.runq)
                /\ s # Head(l.runq) => Before(Resumed(l), s, t)
<1> DEFINE p == Resumed(l)
           old == l.runq
           m == Len(l.runq)
<1>1. l \in LoopRecords /\ old \in Seq(Tasks) /\ Once(old)
  BY RecordIs DEF LoopOK, LinksOK
<1>2. p.key = l.key /\ p.runq = Tail(old)
  BY <1>1 DEF Resumed, LoopRecords
<1> HIDE DEF p
<1>3. m \in Nat \ {0} /\ DOMAIN old = 1 .. m /\ Head(old) = old[1]
  BY <1>1
<1>4. /\ DOMAIN p.runq = 1 .. m - 1
      /\ \A i \in 1 .. m - 1 : p.runq[i] = old[i + 1]
  BY <1>1, <1>2
<1> HIDE DEF old, m
<1>5. InOrder(p)
  <2>1. \A i, j \in 1 .. m :
           i <= j => l.key[old[i]] <= l.key[old[j]]
    BY <1>3 DEF InOrder, old
  <2>2. ASSUME NEW i \in 1 .. m - 1, NEW j \in 1 .. m - 1, i <= j
        PROVE  p.key[p.runq[i]] <= p.key[p.runq[j]]
    <3>1. i + 1 \in 1 .. m /\ j + 1 \in 1 .. m /\ i + 1 <= j + 1
      BY <1>3, <2>2
    <3> QED  BY <1>2, <1>4, <2>1, <3>1
  <2> QED  BY <1>4, <2>2 DEF InOrder
<1>6. ASSUME NEW s, NEW t, Before(l, s, t)
      PROVE  t # Head(old) /\ (s # Head(old) => Before(p, s, t))
  <2>1. PICK i \in 1 .. m, j \in 1 .. m :
               i < j /\ old[i] = s /\ old[j] = t
    BY <1>3, <1>6 DEF Before, old
  <2>2. t # Head(old)
    BY <1>1, <1>3, <2>1 DEF Once
  <2>3. ASSUME s # Head(old) PROVE Before(p, s, t)
    <3>1. i # 1
      BY <1>3, <2>1, <2>3
    <3>2. /\ i - 1 \in 1 .. m - 1 /\ j - 1 \in 1 .. m - 1 /\ i - 1 < j - 1
          /\ (i - 1) + 1 = i /\ (j - 1) + 1 = j
      BY <1>3, <2>1, <3>1
    <3> QED  BY <1>4, <2>1, <3>2 DEF Before
  <2> QED  BY <2>2, <2>3
<1> QED  BY <1>5, <1>6 DEF p, old

\* The queue without a task u.
LEMMA RemoveOrder ==
    ASSUME NEW l \in LoopRecords, InOrder(l), NEW u \in Range(l.runq), NEW p,
           p.runq = RemoveFirst(l.runq, u), p.key = l.key
    PROVE  /\ InOrder(p)
           /\ \A s, t : Before(l, s, t) /\ s # u /\ t # u => Before(p, s, t)
<1> DEFINE old == l.runq
           new == p.runq
           m == Len(l.runq)
<1>1. old \in Seq(Tasks) /\ m \in Nat /\ DOMAIN old = 1 .. m
  BY RecordIs
<1>2. PICK n \in 1 .. m : old[n] = u /\ Without(new, Tasks, old, n)
  BY <1>1, RemoveIs
<1>3. /\ DOMAIN new = 1 .. m - 1
      /\ \A i \in 1 .. m - 1 : new[i] = IF i < n THEN old[i] ELSE old[i + 1]
  BY <1>1, <1>2 DEF Without
<1> HIDE DEF old, m, new
<1>4. InOrder(p)
  <2>1. \A i, j \in 1 .. m :
           i <= j => l.key[old[i]] <= l.key[old[j]]
    BY <1>1 DEF InOrder, old
  <2>2. ASSUME NEW i \in 1 .. m - 1, NEW j \in 1 .. m - 1, i <= j
        PROVE  p.key[new[i]] <= p.key[new[j]]
    <3> DEFINE x == IF i < n THEN i ELSE i + 1
               y == IF j < n THEN j ELSE j + 1
    <3>1. x \in 1 .. m /\ y \in 1 .. m /\ x <= y
      BY <1>1, <2>2
    <3>2. new[i] = old[x] /\ new[j] = old[y]
      BY <1>3
    <3> HIDE DEF x, y
    <3> QED  BY <2>1, <3>1, <3>2
  <2> QED  BY <1>3, <2>2 DEF InOrder, new
<1>5. ASSUME NEW s, NEW t, Before(l, s, t), s # u, t # u
      PROVE  Before(p, s, t)
  <2>1. PICK i \in 1 .. m, j \in 1 .. m :
               i < j /\ old[i] = s /\ old[j] = t
    BY <1>1, <1>5 DEF Before, old
  <2>2. i # n /\ j # n
    BY <1>2, <1>5, <2>1
  <2> DEFINE x == IF i < n THEN i ELSE i - 1
             y == IF j < n THEN j ELSE j - 1
  <2>3. /\ x \in 1 .. m - 1 /\ y \in 1 .. m - 1 /\ x < y
        /\ (IF x < n THEN x ELSE x + 1) = i
        /\ (IF y < n THEN y ELSE y + 1) = j
    BY <1>1, <2>1, <2>2
  <2> HIDE DEF x, y
  <2>4. new[x] = old[i] /\ new[y] = old[j]
    BY <1>3, <2>3
  <2> QED  BY <1>3, <2>1, <2>3, <2>4 DEF Before, new
<1> QED  BY <1>4, <1>5

\* cancel() of a task, as far as the order goes: the task u it gets to may be
\* brought forward, behind all that is due.
CancelOrdered(p, l, u, time) ==
    /\ InOrder(p)
    /\ \A s, t : Before(l, s, t) /\ s # u /\ t # u => Before(p, s, t)
    /\ \A s \in Tasks : /\ Before(l, s, u) /\ s # u /\ l.key[s] <= time
                        => Before(p, s, u)

\* It is so.
LEMMA CancelOrder ==
    ASSUME NEW l, NEW Off, LoopOK(l, Off), InOrder(l), NEW t \in Tasks,
           Live(l, t), NEW time \in Nat, \A c \in Off : l.key[c] <= time
    PROVE  CancelOrdered(Cancel(l, t, time), l, CancelTarget(l, t), time)
<1> DEFINE u == CancelTarget(l, t)
           p == Cancel(l, t, time)
<1>0. /\ l \in LoopRecords /\ Once(l.runq) /\ l.runq \in Seq(Tasks)
      /\ \A s \in Tasks : DataOK(l, s, s \in Off)
  BY RecordIs DEF LoopOK, LinksOK
<1>1. u \in Tasks /\ Live(l, u) /\ l.data[u].kind # "task"
  BY TargetFacts
<1>2. l.data[u] = OnIo \/ Idles(l, u)
  BY <1>0, <1>1, RecordIs, Kinds DEF DataOK, Idles
<1>3. ~IsDone(l, t)
  BY DEF Live, IsDone
<1> DEFINE moved == IF l.data[u] = OnIo THEN Push(l, u, time)
                    ELSE IF l.key[u] > time
                    THEN Push([l EXCEPT !.runq = RemoveFirst(@, u)], u, time)
                    ELSE l
<1>4. p = [moved EXCEPT !.data[u] = Cancelled]
  BY <1>3 DEF Cancel
<1> HIDE DEF u, p
<1>5. CASE l.data[u] = OnIo
  <2> DEFINE m == Push(l, u, time)
  <2>1. ~Idles(l, u)
    BY <1>5, ContentsFacts DEF Idles
  <2>2. ~Queued(l, u)
    BY <1>0, <1>1, <2>1 DEF DataOK
  <2>3. InOrder(m) /\ Inserted(m, l, <<u>>, time)
    BY <1>0, <1>1, <2>2, PushOrder
  <2>4. m \in LoopRecords
    BY <1>0, <1>1, <2>2, PushIs DEF Pushed
  <2>5. p = [m EXCEPT !.data[u] = Cancelled]
    BY <1>4, <1>5
  <2> HIDE DEF m
  <2>6. p.runq = m.runq /\ p.key = m.key
    BY <2>4, <2>5 DEF LoopRecords
  <2>7. InOrder(p) /\ \A s, v : Before(p, s, v) <=> Before(m, s, v)
    BY <2>3, <2>4, <2>6, SameOrder
  <2>8. CancelOrdered(p, l, u, time)
    BY <2>3, <2>7 DEF CancelOrdered, Inserted
  <2> QED  BY <2>8 DEF p, u
<1>6. CASE l.data[u] # OnIo /\ l.key[u] > time
  <2>1. Queued(l, u) /\ Idles(l, u)
    <3>1. u \notin Off
      <4>1. l.key[u] \in Nat
        BY <1>0, <1>1, RecordIs
      <4> QED  BY <1>6, <4>1
    <3> QED  BY <1>0, <1>1, <1>2, <1>6, <3>1 DEF DataOK
  <2> DEFINE q == RemoveFirst(l.runq, u)
             r == [l EXCEPT !.runq = q]
             m == Push(r, u, time)
  <2>2. q \in Seq(Tasks) /\ Once(q) /\ Range(q) = Range(l.runq) \ {u}
    BY <1>0, RemoveFacts
  <2>3. p = [m EXCEPT !.data[u] = Cancelled]
    BY <1>4, <1>6
  <2> HIDE DEF q
  <2>4. r \in LoopRecords /\ r.runq = q /\ r.key = l.key
    BY <1>0, <2>2 DEF LoopRecords
  <2> HIDE DEF r
  <2>5. /\ InOrder(r)
        /\ \A s, v : Before(l, s, v) /\ s # u /\ v # u => Before(r, s, v)
    BY <1>0, <2>1, <2>4, RemoveOrder DEF q, Queued
  <2>6. Once(r.runq) /\ ~Queued(r, u)
    BY <2>2, <2>4 DEF Queued
  <2>7. InOrder(m) /\ Inserted(m, r, <<u>>, time) /\ m \in LoopRecords
    <3>1. InOrder(m) /\ Inserted(m, r, <<u>>, time)
      BY <1>1, <2>4, <2>5, <2>6, PushOrder
    <3>2. Pushed(m, r, u, time)
      BY <1>1, <2>4, <2>6, PushIs
    <3> QED  BY <3>1, <3>2 DEF Pushed
  <2> HIDE DEF m
  <2>8. p.runq = m.runq /\ p.key = m.key
    BY <2>3, <2>7 DEF LoopRecords
  <2>9. InOrder(p) /\ \A s, v : Before(p, s, v) <=> Before(m, s, v)
    BY <2>7, <2>8, SameOrder
  <2>10. ASSUME NEW s \in Tasks, Before(l, s, u), s # u, l.key[s] <= time
         PROVE  Before(p, s, u)
    <3>1. s \in Range(r.runq)
      <4>1. s \in Range(l.runq)
        BY <2>10 DEF Before, Range
      <4> QED  BY <2>2, <2>4, <2>10, <4>1
    <3>2. u \in Range(<<u>>)
      BY DEF Range
    <3>3. Before(m, s, u)
      BY <2>4, <2>7, <2>10, <3>1, <3>2 DEF Inserted
    <3> QED  BY <2>9, <3>3
  <2>11. CancelOrdered(p, l, u, time)
    BY <2>5, <2>7, <2>9, <2>10 DEF CancelOrdered, Inserted
  <2> QED  BY <2>11 DEF p, u
<1>7. CASE l.data[u] # OnIo /\ ~(l.key[u] > time)
  <2>1. p = [l EXCEPT !.data[u] = Cancelled]
    BY <1>4, <1>7
  <2>2. p.runq = l.runq /\ p.key = l.key
    BY <1>0, <2>1 DEF LoopRecords
  <2>3. InOrder(p) /\ \A s, v : Before(p, s, v) <=> Before(l, s, v)
    BY <1>0, <2>2, SameOrder
  <2>4. CancelOrdered(p, l, u, time)
    BY <2>3 DEF CancelOrdered
  <2> QED  BY <2>4 DEF p, u
<1> QED  BY <1>5, <1>6, <1>7

\* The end of the running task c, as far as the order and the times go.
FinishOrdered(p, l, c, time) ==
    /\ InOrder(p) /\ Inserted(p, l, l.wait[c], time)
    /\ \A s \in Tasks \ {c} : s \notin Range(l.wait[c]) => p.key[s] = l.key[s]

\* It is so.
LEMMA FinishOrder ==
    ASSUME NEW l, NEW Off, LoopOK(l, Off), InOrder(l), NEW c \in Tasks,
           c \in Off, Live(l, c), NEW how \in Outcomes, NEW time \in Nat
    PROVE  FinishOrdered(Finish(l, c, how, time), l, c, time)
<1> DEFINE w == l.wait[c]
           r == [l EXCEPT !.wait[c] = <<>>]
           woken == PushAll(r, w, time)
           end == IF l.state[c] = "queue" THEN "waited" ELSE "done"
           ended == [woken EXCEPT !.state[c] = end]
           alone == w = <<>> /\ how = "exception"
           queued == IF alone THEN Push(ended, c, time) ELSE ended
           p == Finish(l, c, how, time)
<1>0. l \in LoopRecords /\ LinksOK(l) /\ l.runq \in Seq(Tasks)
      /\ \A s \in Tasks : DataOK(l, s, s \in Off)
  BY RecordIs DEF LoopOK
<1>1. p = [queued EXCEPT !.data[c] = Ended(how)]
  BY DEF Finish
<1>2. ~Queued(l, c) /\ Idles(l, c)
  BY <1>0 DEF DataOK
<1>3. w \in Seq(Tasks) /\ Once(w) /\ c \notin Range(w)
  BY <1>0, <1>2, RecordIs, ContentsFacts DEF LinksOK, Idles
<1>4. \A s \in Range(w) : s \in Tasks /\ ~Queued(l, s)
  <2> SUFFICES ASSUME NEW s \in Range(w)
               PROVE  s \in Tasks /\ ~Queued(l, s)
    OBVIOUS
  <2>1. s \in Tasks
    BY <1>3 DEF Range
  <2>2. l.data[s] = OnTask(c)
    BY <1>0, <2>1 DEF LinksOK
  <2>3. l.data[s].kind = "task" /\ ~Idles(l, s)
    BY <2>2, ContentsFacts DEF Idles
  <2>4. Live(l, s)
    <3>1. l.state[s] \in TaskStates /\ l.data[s] # None
      BY <1>0, <2>1, <2>3, RecordIs, ContentsFacts
    <3> QED  BY <1>0, <2>1, <2>3, <3>1 DEF DataOK, Live, IsDone, TaskStates
  <2> QED  BY <1>0, <2>1, <2>3, <2>4 DEF DataOK
<1> HIDE DEF w, end
<1>5. r \in LoopRecords /\ r.runq = l.runq /\ r.key = l.key /\ r.data = l.data
  <2> DEFINE e == <<>>
  <2>1. e \in Seq(Tasks)
    OBVIOUS
  <2>2. r = [l EXCEPT !.wait[c] = e]
    OBVIOUS
  <2> HIDE DEF e, r
  <2>3. [l.wait EXCEPT ![c] = e] \in [Tasks -> Seq(Tasks)]
    BY <1>0, <2>1, RecordIs
  <2> QED  BY <1>0, <2>1, <2>2, <2>3 DEF LoopRecords
<1> DEFINE n == Due(r, time)
           q == SubSeq(r.runq, 1, n) \o w \o SubSeq(r.runq, n + 1, Len(r.runq))
           d == [t \in Tasks |-> IF t \in Range(w) THEN None ELSE l.data[t]]
           y == [t \in Tasks |-> IF t \in Range(w) THEN time ELSE l.key[t]]
<1> HIDE DEF r
<1>6. n \in 0 .. Len(r.runq) /\ n = Due(l, time)
  <2>1. n \in 0 .. Len(r.runq)
    BY <1>5, DueIn
  <2> QED  BY <1>5, <2>1 DEF Due
<1> HIDE DEF n
<1>7. Spliced(q, Tasks, l.runq, w, n)
  BY <1>0, <1>3, <1>5, <1>6, SpliceIs
<1>8. q \in Seq(Tasks)
  BY <1>7 DEF Spliced
<1>9. Range(q) = Range(l.runq) \cup Range(w) /\ Once(q)
  <2>1. Range(l.runq) \cap Range(w) = {}
    BY <1>4 DEF Queued
  <2>2. Once(l.runq)
    BY <1>0 DEF LinksOK
  <2> QED  BY <1>0, <1>3, <1>5, <1>6, <2>1, <2>2, SpliceFacts
<1>10. woken = [r EXCEPT !.data = d, !.key = y, !.runq = q]
  BY <1>5 DEF PushAll, n
<1> HIDE DEF q
<1>11. d \in [Tasks -> Contents] /\ y \in [Tasks -> Nat]
  BY <1>0, RecordIs, ContentsFacts
<1>12. \A s \in Tasks : y[s] = IF s \in Range(w) THEN time ELSE l.key[s]
  OBVIOUS
<1> HIDE DEF d, y, woken
<1>13. woken \in LoopRecords /\ woken.runq = q /\ woken.key = y
  BY <1>5, <1>8, <1>10, <1>11 DEF LoopRecords
<1>14. ended \in LoopRecords /\ ended.runq = q /\ ended.key = y
  BY <1>13 DEF LoopRecords, end, TaskStates
<1> HIDE DEF ended
<1>15. InOrder(ended) /\ Inserted(ended, l, w, time)
  <2>1. \A s \in Range(l.runq) : ended.key[s] = l.key[s]
    <3>1. \A s \in Range(l.runq) : s \in Tasks /\ s \notin Range(w)
      BY <1>0, <1>4 DEF Queued, Range
    <3> QED  BY <1>12, <1>14, <3>1
  <2>2. \A s \in Range(w) : ended.key[s] = time
    BY <1>4, <1>12, <1>14
  <2>3. Spliced(ended.runq, Tasks, l.runq, w, Due(l, time))
    BY <1>6, <1>7, <1>14
  <2> QED  BY <1>0, <1>3, <2>1, <2>2, <2>3, SpliceOrder
<1>16. /\ queued \in LoopRecords /\ InOrder(queued)
       /\ \A s, t : Before(ended, s, t) => Before(queued, s, t)
       /\ \A s \in Tasks \ {c} : queued.key[s] = y[s]
  <2>1. CASE alone
    <3> DEFINE m == Push(ended, c, time)
    <3>1. Once(ended.runq) /\ ~Queued(ended, c)
      BY <1>2, <1>3, <1>9, <1>14 DEF Queued
    <3>2. Pushed(m, ended, c, time)
      BY <1>14, <3>1, PushIs
    <3>3. InOrder(m) /\ Inserted(m, ended, <<c>>, time)
      BY <1>14, <1>15, <3>1, PushOrder
    <3>4. queued = m
      BY <2>1
    <3> HIDE DEF m, queued
    <3>5. \A s \in Tasks \ {c} : m.key[s] = y[s]
      BY <1>11, <1>14, <3>2 DEF Pushed
    <3> QED  BY <3>2, <3>3, <3>4, <3>5 DEF Pushed, Inserted
  <2>2. CASE ~alone
    BY <1>14, <1>15, <2>2
  <2> QED  BY <2>1, <2>2
<1> HIDE DEF queued, p
<1>17. p.runq = queued.runq /\ p.key = queued.key
  BY <1>1, <1>16 DEF LoopRecords
<1>18. InOrder(p) /\ \A s, t : Before(p, s, t) <=> Before(queued, s, t)
  BY <1>16, <1>17, SameOrder
<1>19. Inserted(p, l, w, time)
  BY <1>15, <1>16, <1>18 DEF Inserted
<1>20. FinishOrdered(p, l, c, time)
  BY <1>12, <1>16, <1>17, <1>18, <1>19 DEF FinishOrdered, w
<1> QED  BY <1>20 DEF p

\* The running task c awaits a task: nobody moves.
LEMMA AwaitOrder ==
    ASSUME NEW l, NEW Off, LoopOK(l, Off), InOrder(l), NEW c \in Tasks,
           NEW t \in Tasks, NEW time \in Nat, c \in Off, Live(l, c)
    PROVE  LET p == Await(l, c, t, time) IN
           /\ InOrder(p)
           /\ \A s, u : Before(p, s, u) <=> Before(l, s, u)
           /\ \A s \in Tasks \ {c} : p.key[s] = l.key[s]
<1> DEFINE p == Await(l, c, t, time)
<1>1. l \in LoopRecords /\ ~Queued(l, c) /\ l.runq \in Seq(Tasks)
  BY RecordIs DEF LoopOK, DataOK
<1>2. /\ p.runq = l.runq /\ p.key \in {l.key, [l.key EXCEPT ![c] = time]}
  BY <1>1 DEF Await, LoopRecords
<1> HIDE DEF p
<1>3. \A s \in Tasks \ {c} : p.key[s] = l.key[s]
  BY <1>1, <1>2, RecordIs
<1>4. \A s \in Range(l.runq) : p.key[s] = l.key[s]
  BY <1>1, <1>3 DEF Queued, Range
<1>5. InOrder(p) /\ \A s, u : Before(p, s, u) <=> Before(l, s, u)
  BY <1>1, <1>2, <1>4, SameOrder
<1> QED  BY <1>3, <1>5 DEF p
-----------------------------------------------------------------------------
(***************************************************************************)
(* The same, seen from each task                                           *)
(***************************************************************************)

\* Nothing happens to the tasks that are not in S.
Others(p, l, S) ==
    \A t \in Tasks \ S :
        /\ p.state[t] = l.state[t] /\ p.data[t] = l.data[t]
        /\ p.key[t] = l.key[t] /\ (Queued(p, t) <=> Queued(l, t))

\* The task t comes to the run queue.
Comes(p, l, t, time) ==
    /\ Others(p, l, {t}) /\ p.data[t] = None /\ p.key[t] = time
    /\ Queued(p, t) /\ InOrder(p)
    /\ \A s, u : Before(l, s, u) => Before(p, s, u)
    /\ \A s \in Tasks : Queued(l, s) /\ l.key[s] <= time => Before(p, s, t)

\* A task is pushed.
LEMMA PushEffect ==
    ASSUME NEW l, NEW Off, LoopOK(l, Off), InOrder(l), NEW t \in Tasks,
           NEW time \in Nat, Live(l, t), ~Queued(l, t),
           l.data[t].kind # "task"
    PROVE  /\ LoopOK(Push(l, t, time), Off \ {t})
           /\ Comes(Push(l, t, time), l, t, time)
           /\ Push(l, t, time).state = l.state
<1> DEFINE p == Push(l, t, time)
<1>1. l \in LoopRecords /\ Once(l.runq)
  BY DEF LoopOK, LinksOK
<1>2. LoopOK(p, Off \ {t})
  BY PushKeeps
<1>3. Pushed(p, l, t, time)
  BY <1>1, PushIs
<1>4. InOrder(p) /\ Inserted(p, l, <<t>>, time)
  BY <1>1, PushOrder
<1> HIDE DEF p
<1>5. t \in Range(<<t>>)
  BY DEF Range
<1>6. Comes(p, l, t, time)
  BY <1>1, <1>3, <1>4, <1>5, RecordIs
     DEF Comes, Others, Pushed, Inserted, Queued
<1> QED  BY <1>2, <1>3, <1>6 DEF p, Pushed

\* A task is created.
LEMMA CreateEffect ==
    ASSUME NEW l, NEW Off, LoopOK(l, Off), InOrder(l), NEW t \in Tasks,
           NEW time \in Nat, l.state[t] = "new"
    PROVE  /\ LoopOK(Create(l, t, time), Off \ {t})
           /\ Comes(Create(l, t, time), l, t, time)
           /\ Create(l, t, time).state = [l.state EXCEPT ![t] = "running"]
<1> DEFINE p == Create(l, t, time)
<1>1. l \in LoopRecords
  BY DEF LoopOK
<1>2. LoopOK(p, Off \ {t}) /\ CreateIs(p, l, t, time)
  BY CreateKeeps
<1>3. InOrder(p) /\ Inserted(p, l, <<t>>, time)
  BY CreateOrder
<1> HIDE DEF p
<1>4. t \in Range(<<t>>)
  BY DEF Range
<1>5. Comes(p, l, t, time)
  BY <1>1, <1>2, <1>3, <1>4, RecordIs
     DEF Comes, Others, CreateIs, Inserted, Queued
<1> QED  BY <1>2, <1>5 DEF p, CreateIs

\* The task h at the head of the queue starts to run.
Starts(p, l, h) ==
    /\ h \in Tasks /\ Queued(l, h) /\ ~Queued(p, h)
    /\ Others(p, l, {h}) /\ p.data[h] = None /\ p.key[h] = l.key[h]
    /\ p.state[h] = l.state[h] /\ InOrder(p)
    /\ \A s, t : Before(l, s, t) =>
         t # h /\ (s # h => Before(p, s, t))

\* It does so by Resumed.
LEMMA ResumedEffect ==
    ASSUME NEW l, NEW Off, LoopOK(l, Off), InOrder(l), l.runq # <<>>,
           Live(l, Head(l.runq))
    PROVE  /\ LoopOK(Resumed(l), Off \cup {Head(l.runq)})
           /\ Starts(Resumed(l), l, Head(l.runq))
<1> DEFINE h == Head(l.runq)
           p == Resumed(l)
<1>1. LoopOK(p, Off \cup {h})
  BY ResumedKeeps
<1>2. /\ h \in Tasks /\ Queued(l, h) /\ p \in LoopRecords
      /\ p.data = [l.data EXCEPT ![h] = None]
      /\ p.key = l.key /\ p.state = l.state /\ p.wait = l.wait
      /\ Once(p.runq) /\ Range(p.runq) = Range(l.runq) \ {h}
  BY ResumedIs
<1>3. /\ InOrder(p)
      /\ \A s, t : Before(l, s, t) =>
           t # h /\ (s # h => Before(p, s, t))
  BY ResumedOrder
<1>4. l \in LoopRecords
  BY DEF LoopOK
<1> HIDE DEF p, h
<1>5. Starts(p, l, h)
  BY <1>2, <1>3, <1>4, RecordIs DEF Starts, Others, Queued
<1> QED  BY <1>1, <1>5 DEF p, h

\* The exception is left in the task u.
Told(p, l, u, time) ==
    /\ Others(p, l, {u}) /\ p.data[u] = Cancelled /\ p.state[u] = l.state[u]
    /\ CancelOrdered(p, l, u, time)

\* It is by cancel().
LEMMA CancelEffect ==
    ASSUME NEW l, NEW Off, LoopOK(l, Off), InOrder(l), NEW t \in Tasks,
           Live(l, t), NEW time \in Nat, \A c \in Off : l.key[c] <= time
    PROVE  /\ LoopOK(Cancel(l, t, time), Off)
           /\ CancelTarget(l, t) \in Tasks /\ Live(l, CancelTarget(l, t))
           /\ Told(Cancel(l, t, time), l, CancelTarget(l, t), time)
<1> DEFINE u == CancelTarget(l, t)
           p == Cancel(l, t, time)
<1>1. LoopOK(p, Off) /\ CancelIs(p, l, u, time)
  BY CancelKeeps
<1>2. CancelOrdered(p, l, u, time)
  BY CancelOrder
<1>3. u \in Tasks /\ Live(l, u)
  BY TargetFacts
<1>4. l \in LoopRecords
  BY DEF LoopOK
<1> HIDE DEF p, u
<1>5. Told(p, l, u, time)
  BY <1>1, <1>2, <1>3, <1>4, RecordIs DEF Told, Others, CancelIs
<1> QED  BY <1>1, <1>3, <1>5 DEF p, u

\* The running task c ends; those that wait for it wake.
Ends(p, l, c, how, time) ==
    /\ p.data[c] = Ended(how) /\ IsDone(p, c)
    /\ Queued(p, c) => how = "exception" /\ l.state[c] # "queue"
    /\ \A s \in Tasks \ {c} :
         /\ p.state[s] = l.state[s]
         /\ IF l.data[s] = OnTask(c) THEN p.data[s] = None
            ELSE /\ p.data[s] = l.data[s] /\ p.key[s] = l.key[s]
                 /\ (Queued(p, s) <=> Queued(l, s))
    /\ InOrder(p)
    /\ \A s, t : Before(l, s, t) => Before(p, s, t)
    /\ \A s, t \in Tasks : l.data[s] = OnTask(c) /\ Queued(l, t)
         /\ l.key[t] > time => Before(p, s, t)

\* It is so at its end.
LEMMA FinishEffect ==
    ASSUME NEW l, NEW Off, LoopOK(l, Off), InOrder(l), NEW c \in Tasks,
           c \in Off, Live(l, c), NEW how \in Outcomes, NEW time \in Nat
    PROVE  /\ LoopOK(Finish(l, c, how, time), Off \ {c})
           /\ Ends(Finish(l, c, how, time), l, c, how, time)
<1> DEFINE p == Finish(l, c, how, time)
<1>1. LoopOK(p, Off \ {c}) /\ FinishIs(p, l, c, how, time)
  BY FinishKeeps
<1>2. FinishOrdered(p, l, c, time)
  BY FinishOrder
<1>3. /\ l \in LoopRecords
      /\ \A s \in Tasks : l.data[s] = OnTask(c) <=> s \in Range(l.wait[c])
  BY DEF LoopOK, LinksOK
<1> HIDE DEF p
<1>4. p.data[c] = Ended(how) /\ IsDone(p, c)
  BY <1>1, <1>3, RecordIs DEF FinishIs, IsDone
<1>5. Queued(p, c) => how = "exception" /\ l.state[c] # "queue"
  BY <1>1 DEF FinishIs
<1>6. ASSUME NEW s \in Tasks \ {c}
      PROVE  /\ p.state[s] = l.state[s]
             /\ IF l.data[s] = OnTask(c) THEN p.data[s] = None
                ELSE /\ p.data[s] = l.data[s] /\ p.key[s] = l.key[s]
                     /\ (Queued(p, s) <=> Queued(l, s))
  <2>1. p.state[s] = l.state[s]
    BY <1>1, <1>3, RecordIs DEF FinishIs
  <2>2. CASE l.data[s] = OnTask(c)
    BY <1>1, <1>3, <2>1, <2>2 DEF FinishIs
  <2>3. CASE l.data[s] # OnTask(c)
    BY <1>1, <1>2, <1>3, <2>1, <2>3 DEF FinishIs, FinishOrdered
  <2> QED  BY <2>2, <2>3
<1>7. InOrder(p) /\ \A s, t : Before(l, s, t) => Before(p, s, t)
  BY <1>2 DEF FinishOrdered, Inserted
<1>8. ASSUME NEW s \in Tasks, NEW t \in Tasks, l.data[s] = OnTask(c),
             Queued(l, t), l.key[t] > time
      PROVE  Before(p, s, t)
  <2>1. ~(l.key[t] <= time)
    BY <1>3, <1>8, RecordIs
  <2>2. s \in Range(l.wait[c]) /\ t \in Range(l.runq)
    BY <1>3, <1>8 DEF Queued
  <2>3. Inserted(p, l, l.wait[c], time)
    BY <1>2 DEF FinishOrdered
  <2> QED  BY <2>1, <2>2, <2>3 DEF Inserted
<1>9. Ends(p, l, c, how, time)
  BY <1>4, <1>5, <1>6, <1>7, <1>8 DEF Ends
<1> QED  BY <1>1, <1>9 DEF p

\* The running task c awaits t.
WaitsFor(p, l, c, t) ==
    /\ Others(p, l, {c, t}) /\ p.data[c] = OnTask(t)
    /\ p.state[c] = l.state[c] /\ p.data[t] = l.data[t]
    /\ p.state[t] = "queue" /\ (Queued(p, t) <=> Queued(l, t))
    /\ p.key[t] = l.key[t] /\ ~Queued(p, c) /\ InOrder(p)
    /\ \A s, u : Before(l, s, u) => Before(p, s, u)

\* It does, when t goes on.
LEMMA AwaitEffect ==
    ASSUME NEW l, NEW Off, LoopOK(l, Off), InOrder(l), NEW c \in Tasks,
           NEW t \in Tasks, NEW time \in Nat, c \in Off, Live(l, c),
           Live(l, t), c # t, CancelTarget(l, t) # c
    PROVE  /\ LoopOK(Await(l, c, t, time), Off \ {c})
           /\ WaitsFor(Await(l, c, t, time), l, c, t)
<1> DEFINE p == Await(l, c, t, time)
<1>1. LoopOK(p, Off \ {c}) /\ AwaitIs(p, l, c, t)
  BY AwaitLiveKeeps
<1>2. /\ InOrder(p)
      /\ \A s, u : Before(p, s, u) <=> Before(l, s, u)
      /\ \A s \in Tasks \ {c} : p.key[s] = l.key[s]
  BY AwaitOrder
<1>3. l \in LoopRecords /\ ~Queued(l, c)
  BY DEF LoopOK, DataOK
<1> HIDE DEF p
<1>4. \A s : Queued(p, s) <=> Queued(l, s)
  BY <1>1 DEF AwaitIs, Queued
<1>5. WaitsFor(p, l, c, t)
  BY <1>1, <1>2, <1>3, <1>4, RecordIs DEF WaitsFor, Others, AwaitIs
<1> QED  BY <1>1, <1>5 DEF p
=============================================================================
