------------------------------ MODULE WebProofs ------------------------------
(***************************************************************************)
(* Safety of the way of a request, for every value of the constants: the   *)
(* ring of connections that wait for accept(), the bytes of a socket, the  *)
(* calls of wait_for() that read its lines, the answers of the web server  *)
(* and what the page shows.                                                *)
(***************************************************************************)
EXTENDS WaitFor, WebServer, PageClient, AcceptQueue, LwipSocket, TaskLemmas

(***************************************************************************)
(* Numbers and sequences                                                   *)
(***************************************************************************)

\* A multiple of p other than 0 is not between -p and p.
LEMMA MultipleIsFar ==
    ASSUME NEW m \in Int, NEW p \in Nat \ {0}, m * p < p, -p < m * p
    PROVE  m = 0
<1>1. CASE m >= 1
  <2>1. (m - 1) * p >= 0
    BY <1>1
  <2>2. (m - 1) * p = (m * p) - p
    OBVIOUS
  <2> QED  BY <2>1, <2>2
<1>2. CASE m <= -1
  <2>1. (-1 - m) * p >= 0
    BY <1>2
  <2>2. (-1 - m) * p = -(m * p) - p
    OBVIOUS
  <2> QED  BY <2>1, <2>2
<1> QED  BY <1>1, <1>2

\* The remainder is determined by what it is for.
LEMMA RemainderIs ==
    ASSUME NEW x \in Int, NEW p \in Nat \ {0}, NEW q \in Int,
           NEW r \in 0 .. p - 1, x = (q * p) + r
    PROVE  x % p = r
<1> DEFINE d == x \div p
<1>1. x = (p * d) + (x % p) /\ d \in Int /\ x % p \in 0 .. p - 1
  OBVIOUS
<1> HIDE DEF d
<1>2. (q - d) * p = (x % p) - r
  BY <1>1
<1>3. (q - d) * p < p /\ -p < (q - d) * p
  BY <1>1, <1>2
<1>4. q - d = 0
  BY <1>1, <1>3, MultipleIsFar
<1> QED  BY <1>1, <1>4

\* The index of a place in a ring, at most once around either way.
LEMMA AroundIs ==
    ASSUME NEW p \in Nat \ {0}, NEW x \in -p .. p + p - 1
    PROVE  x % p = IF x < 0 THEN x + p ELSE IF x < p THEN x ELSE x - p
<1>1. CASE x < 0
  <2>1. x = ((-1) * p) + (x + p) /\ x + p \in 0 .. p - 1
    BY <1>1
  <2> QED  BY <1>1, <2>1, RemainderIs
<1>2. CASE 0 <= x /\ x < p
  <2>1. x = (0 * p) + x
    OBVIOUS
  <2> QED  BY <1>2, <2>1, RemainderIs
<1>3. CASE p <= x
  <2>1. x = (1 * p) + (x - p) /\ x - p \in 0 .. p - 1
    BY <1>3
  <2> QED  BY <1>3, <2>1, RemainderIs
<1> QED  BY <1>1, <1>2, <1>3

\* RemoveFirst of the element that is at f and nowhere else.
LEMMA RemoveFirstIs ==
    ASSUME NEW S, NEW w \in Seq(S), Once(w), NEW f \in 1 .. Len(w)
    PROVE  Without(RemoveFirst(w, w[f]), S, w, f)
<1>1. w[f] \in Range(w) /\ DOMAIN w = 1 .. Len(w)
  BY DEF Range
<1>2. PICK p \in 1 .. Len(w) : /\ w[p] = w[f]
                              /\ Without(RemoveFirst(w, w[f]), S, w, p)
  BY <1>1, RemoveIs
<1>3. p = f
  BY <1>1, <1>2 DEF Once
<1> QED  BY <1>2, <1>3

\* r has the elements of w but the one at f, each of them once.
Loses(r, w, f) ==
    /\ Once(r)
    /\ \A p : (\E i \in DOMAIN r : r[i] = p)
                <=> (\E i \in DOMAIN w : w[i] = p) /\ p # w[f]

\* Nothing comes twice then either, and that element not at all.
LEMMA WithoutIs ==
    ASSUME NEW S, NEW w \in Seq(S), Once(w), NEW f \in 1 .. Len(w),
           NEW r, Without(r, S, w, f)
    PROVE  Loses(r, w, f)
<1> DEFINE m == Len(w)
           h(c) == IF c < f THEN c ELSE c + 1
<1>1. /\ m \in Nat /\ f \in 1 .. m /\ DOMAIN w = 1 .. m
      /\ DOMAIN r = 1 .. m - 1
  BY DEF Without
<1>2. \A i \in 1 .. m - 1 : r[i] = w[h(i)]
  BY DEF Without
<1>3. \A a, b \in 1 .. m : w[a] = w[b] => a = b
  BY <1>1 DEF Once
<1> HIDE DEF m
<1>4. /\ \A i \in 1 .. m - 1 : h(i) \in 1 .. m /\ h(i) # f
      /\ \A i, j \in 1 .. m - 1 : h(i) = h(j) => i = j
      /\ \A i \in 1 .. m : i # f => \E j \in 1 .. m - 1 : i = h(j)
  <2>1. /\ \A i \in 1 .. m - 1 : h(i) \in 1 .. m /\ h(i) # f
        /\ \A i, j \in 1 .. m - 1 : h(i) = h(j) => i = j
    BY <1>1
  <2>2. ASSUME NEW i \in 1 .. m, i # f
        PROVE  \E j \in 1 .. m - 1 : i = h(j)
    <3>1. CASE i < f
      <4>1. i \in 1 .. m - 1 /\ h(i) = i
        BY <1>1, <3>1
      <4> QED  BY <4>1
    <3>2. CASE i > f
      <4>1. i - 1 \in 1 .. m - 1 /\ h(i - 1) = i
        BY <1>1, <3>2
      <4> QED  BY <4>1
    <3> QED  BY <1>1, <2>2, <3>1, <3>2
  <2> QED  BY <2>1, <2>2
<1> HIDE DEF h
<1>5. Once(r)
  BY <1>1, <1>2, <1>3, <1>4 DEF Once
<1>6. ASSUME NEW p
      PROVE  (\E i \in DOMAIN r : r[i] = p)
               <=> (\E i \in DOMAIN w : w[i] = p) /\ p # w[f]
  <2>1. ASSUME NEW i \in DOMAIN r, r[i] = p
        PROVE  (\E j \in DOMAIN w : w[j] = p) /\ p # w[f]
    BY <1>1, <1>2, <1>3, <1>4, <2>1
  <2>2. ASSUME NEW i \in DOMAIN w, w[i] = p, p # w[f]
        PROVE  \E j \in DOMAIN r : r[j] = p
    BY <1>1, <1>2, <1>4, <2>2
  <2> QED  BY <2>1, <2>2
<1> QED  BY <1>5, <1>6 DEF Loses
-----------------------------------------------------------------------------
(***************************************************************************)
(* The connections that wait for accept()                                  *)
(***************************************************************************)

\* The j-th slot from g on, and how far slot i is from g.
Slot(g, j) == IF g + j < NSlots THEN g + j ELSE g + j - NSlots
Away(g, i) == IF i >= g THEN i - g ELSE i - g + NSlots

ConnStates == {"new", "waiting", "accepted", "gone"}

\* The ring a, read from g and written at put, holds the sequence w of those
\* connections that wait by c.
RingOK(a, g, put, w, c) ==
    /\ a \in [Slots -> Conns \cup {NULL}] /\ g \in Slots
    /\ w \in Seq(Conns) /\ Len(w) <= NSlots /\ Once(w)
    /\ put = Slot(g, Len(w))
    /\ \A i \in Slots : a[i] = IF Away(g, i) < Len(w) THEN w[Away(g, i) + 1]
                               ELSE NULL
    /\ c \in [Conns -> ConnStates]
    /\ \A p \in Conns : c[p] = "waiting" <=> \E i \in DOMAIN w : w[i] = p

\* There is at least one slot.
LEMMA SlotsAre == NSlots \in Nat \ {0} /\ Slots = 0 .. NSlots - 1
  BY AcceptAssumption DEF NSlots, Slots, alloc

\* The two are inverse to each other, and are what the code computes.
LEMMA SlotFacts ==
    ASSUME NEW g \in Slots
    PROVE  /\ \A j \in 0 .. NSlots : Slot(g, j) \in Slots
                /\ (g + j) % NSlots = Slot(g, j)
           /\ \A j \in 0 .. NSlots - 1 : Away(g, Slot(g, j)) = j
           /\ Slot(g, 0) = g /\ Slot(g, NSlots) = g
           /\ \A i \in Slots :
                /\ Away(g, i) \in 0 .. NSlots - 1
                /\ Slot(g, Away(g, i)) = i
                /\ (i - g) % NSlots = Away(g, i)
<1> DEFINE N == NSlots
<1>0. N \in Nat \ {0} /\ Slots = 0 .. N - 1
  BY SlotsAre
<1>1. /\ \A j \in 0 .. N : Slot(g, j) \in Slots
      /\ \A j \in 0 .. N - 1 : Away(g, Slot(g, j)) = j
      /\ Slot(g, 0) = g /\ Slot(g, N) = g
      /\ \A i \in Slots : Away(g, i) \in 0 .. N - 1 /\ Slot(g, Away(g, i)) = i
  <2> HIDE DEF N
  <2> QED  BY <1>0 DEF Slot, Away, N
<1>2. ASSUME NEW j \in 0 .. N PROVE (g + j) % N = Slot(g, j)
  <2> DEFINE x == g + j
  <2>1. x \in -N .. N + N - 1 /\ ~(x < 0)
    BY <1>0
  <2>2. Slot(g, j) = IF x < N THEN x ELSE x - N
    <3>1. x = g + j /\ N = NSlots /\ g \in Int /\ j \in Int /\ N \in Int
      BY <1>0
    <3> HIDE DEF x, N
    <3> QED  BY <3>1 DEF Slot
  <2> HIDE DEF x, N
  <2>3. x % N = IF x < 0 THEN x + N ELSE IF x < N THEN x ELSE x - N
    BY <1>0, <2>1, AroundIs
  <2> QED  BY <2>1, <2>2, <2>3 DEF x
<1>3. ASSUME NEW i \in Slots PROVE (i - g) % N = Away(g, i)
  <2> DEFINE x == i - g
  <2>1. x \in -N .. N + N - 1 /\ x < N /\ (x < 0 <=> ~(i >= g))
    BY <1>0
  <2>2. Away(g, i) = IF i >= g THEN x ELSE x + N
    BY DEF Away
  <2> HIDE DEF x, N
  <2>3. x % N = IF x < 0 THEN x + N ELSE IF x < N THEN x ELSE x - N
    BY <1>0, <2>1, AroundIs
  <2> QED  BY <2>1, <2>2, <2>3 DEF x
<1> QED  BY <1>1, <1>2, <1>3

\* The next slot.
LEMMA UpIs ==
    ASSUME NEW g \in Slots
    PROVE  /\ Up(g) \in Slots /\ Up(g) = Slot(g, 1)
           /\ \A j \in 0 .. NSlots - 1 : Slot(g, j + 1) = Up(Slot(g, j))
           /\ \A j \in 0 .. NSlots - 1 : Slot(Up(g), j) = Slot(g, j + 1)
           /\ \A i \in Slots : Away(Up(g), i) = IF i = g THEN NSlots - 1
                                                ELSE Away(g, i) - 1
<1> DEFINE N == NSlots
<1>0. N \in Nat \ {0} /\ Slots = 0 .. N - 1
  BY SlotsAre
<1>1. \A i \in Slots : Up(i) = IF i + 1 >= N THEN 0 ELSE i + 1
  BY AcceptAssumption, <1>0 DEF Up, NSlots, alloc
<1> HIDE DEF N
<1>2. /\ Up(g) \in Slots /\ Up(g) = Slot(g, 1)
      /\ \A j \in 0 .. N - 1 : Slot(Up(g), j) = Slot(g, j + 1)
  <2> DEFINE u == Up(g)
  <2>1. /\ \A j \in Int : Slot(g, j) = IF g + j < N THEN g + j ELSE g + j - N
        /\ \A j \in Int : Slot(u, j) = IF u + j < N THEN u + j ELSE u + j - N
    BY DEF Slot, N
  <2>2. u = IF g + 1 >= N THEN 0 ELSE g + 1
    BY <1>1
  <2> HIDE DEF u
  <2>3. u \in Slots /\ u = Slot(g, 1)
    BY <1>0, <2>1, <2>2
  <2>4. ASSUME NEW j \in 0 .. N - 1 PROVE Slot(u, j) = Slot(g, j + 1)
    <3>1. j \in Int /\ j + 1 \in Int /\ g \in Int /\ u \in Int
      BY <1>0, <2>3
    <3>2. /\ Slot(g, j + 1) = IF g + (j + 1) < N THEN g + (j + 1)
                              ELSE g + (j + 1) - N
          /\ Slot(u, j) = IF u + j < N THEN u + j ELSE u + j - N
      BY <2>1, <3>1
    <3> QED  BY <1>0, <2>2, <3>1, <3>2
  <2> QED  BY <2>3, <2>4 DEF u
<1>3. ASSUME NEW j \in 0 .. N - 1
      PROVE  Slot(g, j + 1) = Up(Slot(g, j))
  BY <1>0, <1>1 DEF Slot, N
<1>4. \A i \in Slots : Away(Up(g), i) = IF i = g THEN N - 1
                                        ELSE Away(g, i) - 1
  BY <1>0, <1>1 DEF Away, N
<1> QED  BY <1>2, <1>3, <1>4 DEF N

\* An empty ring.
LEMMA RingStarts == AcceptInit => RingOK(array, iget, iput, order, conn)
<1> SUFFICES ASSUME AcceptInit PROVE RingOK(array, iget, iput, order, conn)
  OBVIOUS
<1>0. NSlots \in Nat \ {0} /\ Slots = 0 .. NSlots - 1
  BY SlotsAre
<1>1. 0 \in Slots
  BY <1>0
<1>2. /\ order \in Seq(Conns) /\ Len(order) = 0 /\ Once(order)
      /\ DOMAIN order = {}
  BY DEF AcceptInit, Once
<1>3. iput = Slot(iget, Len(order)) /\ iget \in Slots
  BY <1>1, <1>2, SlotFacts DEF AcceptInit
<1>4. \A i \in Slots : Away(iget, i) \in 0 .. NSlots - 1
  BY <1>3, SlotFacts
<1>5. \A i \in Slots : ~(Away(iget, i) < Len(order))
  BY <1>2, <1>4
<1>6. /\ array \in [Slots -> Conns \cup {NULL}]
      /\ \A i \in Slots : array[i] = NULL
      /\ conn \in [Conns -> ConnStates]
      /\ \A p \in Conns : conn[p] # "waiting"
  BY DEF AcceptInit, ConnStates
<1> QED  BY <1>0, <1>2, <1>3, <1>5, <1>6 DEF RingOK

\* A connection comes.
LEMMA RingGrows ==
    ASSUME NEW a, NEW g, NEW put, NEW w, NEW c, RingOK(a, g, put, w, c),
           NEW p \in Conns, c[p] = "new", a[put] = NULL
    PROVE  RingOK([a EXCEPT ![put] = p], g, Up(put), Append(w, p),
                  [c EXCEPT ![p] = "waiting"])
<1> DEFINE N == NSlots
           L == Len(w)
           v == Append(w, p)
           b == [a EXCEPT ![put] = p]
           d == [c EXCEPT ![p] = "waiting"]
<1>0. N \in Nat \ {0} /\ Slots = 0 .. N - 1 /\ L \in Nat
  BY SlotsAre DEF RingOK
<1>1. /\ a \in [Slots -> Conns \cup {NULL}] /\ g \in Slots
      /\ w \in Seq(Conns) /\ L <= N /\ Once(w) /\ put = Slot(g, L)
      /\ \A i \in Slots : a[i] = IF Away(g, i) < L THEN w[Away(g, i) + 1]
                                 ELSE NULL
      /\ c \in [Conns -> ConnStates]
      /\ \A q \in Conns : c[q] = "waiting" <=> \E i \in DOMAIN w : w[i] = q
  BY DEF RingOK
<1>2. /\ v \in Seq(Conns) /\ Len(v) = L + 1 /\ v[L + 1] = p
      /\ \A i \in 1 .. L : v[i] = w[i]
      /\ DOMAIN w = 1 .. L /\ DOMAIN v = 1 .. L + 1
  BY <1>1
<1> HIDE DEF v, L, N
<1>3. L < N
  <2> SUFFICES ASSUME L = N PROVE FALSE
    BY <1>0, <1>1
  <2>1. put = g /\ Away(g, g) = 0
    <3>1. Slot(g, NSlots) = g
      BY <1>1, SlotFacts
    <3>2. Away(g, g) = 0
      BY <1>0, <1>1 DEF Away
    <3> QED  BY <1>1, <3>1, <3>2 DEF N
  <2>2. a[g] = w[1] /\ w[1] \in Conns
    BY <1>0, <1>1, <1>2, <2>1
  <2> QED  BY <2>1, <2>2, AcceptAssumption
<1>4. L \in 0 .. N - 1 /\ L + 1 <= N
  BY <1>0, <1>3
<1>5. put \in Slots /\ Away(g, put) = L /\ Up(put) = Slot(g, L + 1)
  <2>1. /\ put = Slot(g, L) /\ g \in Slots /\ L \in 0 .. NSlots - 1
        /\ L \in 0 .. NSlots
    BY <1>0, <1>1, <1>4 DEF N
  <2>a. \A j \in 0 .. NSlots : Slot(g, j) \in Slots
    BY <2>1, SlotFacts, Zenon
  <2>b. \A j \in 0 .. NSlots - 1 : Away(g, Slot(g, j)) = j
    BY <2>1, SlotFacts, Zenon
  <2>2. put \in Slots /\ Away(g, put) = L
    BY <2>1, <2>a, <2>b
  <2>3. Up(put) = Slot(g, L + 1)
    BY <2>1, <1>4, <1>0, UpIs DEF N
  <2> QED  BY <2>2, <2>3
<1>6. b \in [Slots -> Conns \cup {NULL}] /\ d \in [Conns -> ConnStates]
  BY <1>1 DEF ConnStates
<1>7. \A i \in 1 .. L : w[i] # p
  BY <1>1, <1>2
<1>8. Once(v)
  <2> SUFFICES ASSUME NEW i \in 1 .. L + 1, NEW j \in 1 .. L + 1, v[i] = v[j]
               PROVE  i = j
    BY <1>2 DEF Once
  <2>1. (i \in 1 .. L \/ i = L + 1) /\ (j \in 1 .. L \/ j = L + 1)
    BY <1>0
  <2>2. CASE i \in 1 .. L /\ j \in 1 .. L
    BY <1>1, <1>2, <2>2 DEF Once
  <2>3. CASE i = L + 1 \/ j = L + 1
    BY <1>2, <1>7, <2>1, <2>3
  <2> QED  BY <2>1, <2>2, <2>3
<1>9. ASSUME NEW i \in Slots
      PROVE  b[i] = IF Away(g, i) < L + 1 THEN v[Away(g, i) + 1] ELSE NULL
  <2> DEFINE x == Away(g, i)
  <2>1. x \in 0 .. N - 1 /\ Slot(g, x) = i
    BY <1>1, SlotFacts DEF N
  <2>2. a[i] = IF x < L THEN w[x + 1] ELSE NULL
    BY <1>1
  <2> HIDE DEF x
  <2>3. CASE i = put
    BY <1>0, <1>1, <1>2, <1>5, <2>3 DEF x
  <2>4. CASE i # put
    <3>1. x # L
      BY <1>1, <2>1, <2>4
    <3>2. b[i] = a[i]
      BY <1>1, <2>4
    <3> QED  BY <1>0, <1>2, <2>1, <2>2, <3>1, <3>2 DEF x
  <2> QED  BY <2>3, <2>4
<1>10. ASSUME NEW q \in Conns
       PROVE  d[q] = "waiting" <=> \E i \in DOMAIN v : v[i] = q
  <2>1. (\E i \in DOMAIN v : v[i] = q)
          <=> q = p \/ \E i \in DOMAIN w : w[i] = q
    BY <1>0, <1>2
  <2> QED  BY <1>1, <2>1
<1> HIDE DEF b, d
<1>11. RingOK(b, g, Up(put), v, d)
  BY <1>1, <1>2, <1>4, <1>5, <1>6, <1>8, <1>9, <1>10 DEF RingOK, N
<1> QED  BY <1>11 DEF b, d, v
\* What is in a ring, for the lemmas on what leaves it.
LEMMA RingIs ==
    ASSUME NEW a, NEW g, NEW put, NEW w, NEW c, RingOK(a, g, put, w, c)
    PROVE  /\ a \in [Slots -> Conns \cup {NULL}] /\ g \in Slots
           /\ w \in Seq(Conns) /\ Len(w) \in 0 .. NSlots /\ Once(w)
           /\ DOMAIN w = 1 .. Len(w) /\ put = Slot(g, Len(w))
           /\ \A i \in Slots : a[i] = IF Away(g, i) < Len(w)
                                      THEN w[Away(g, i) + 1] ELSE NULL
           /\ \A i \in 1 .. Len(w) : w[i] \in Conns /\ w[i] # NULL
           /\ c \in [Conns -> ConnStates]
           /\ \A p \in Conns :
                c[p] = "waiting" <=> \E i \in DOMAIN w : w[i] = p
<1>1. NSlots \in Nat
  BY SlotsAre
<1>2. w \in Seq(Conns) /\ Len(w) \in Nat /\ Len(w) <= NSlots
      /\ DOMAIN w = 1 .. Len(w)
  BY DEF RingOK
<1>3. \A i \in 1 .. Len(w) : w[i] \in Conns /\ w[i] # NULL
  BY <1>2, AcceptAssumption
<1> QED  BY <1>1, <1>2, <1>3 DEF RingOK

\* The oldest connection is accepted.
LEMMA RingTakes ==
    ASSUME NEW a, NEW g, NEW put, NEW w, NEW c, RingOK(a, g, put, w, c),
           a[g] # NULL
    PROVE  RingOK([a EXCEPT ![g] = NULL], Up(g), put, RemoveFirst(w, a[g]),
                  [c EXCEPT ![a[g]] = "accepted"])
<1> DEFINE N == NSlots
           L == Len(w)
           v == RemoveFirst(w, a[g])
           b == [a EXCEPT ![g] = NULL]
           d == [c EXCEPT ![a[g]] = "accepted"]
<1>0. N \in Nat \ {0} /\ Slots = 0 .. N - 1
  BY SlotsAre
<1>1. /\ a \in [Slots -> Conns \cup {NULL}] /\ g \in Slots
      /\ w \in Seq(Conns) /\ L \in 0 .. N /\ Once(w)
      /\ DOMAIN w = 1 .. L /\ put = Slot(g, L)
      /\ \A i \in Slots : a[i] = IF Away(g, i) < L
                                 THEN w[Away(g, i) + 1] ELSE NULL
      /\ \A i \in 1 .. L : w[i] \in Conns /\ w[i] # NULL
      /\ c \in [Conns -> ConnStates]
      /\ \A p \in Conns : c[p] = "waiting" <=> \E i \in DOMAIN w : w[i] = p
  BY RingIs
<1>2. Away(g, g) = 0
  BY <1>0, <1>1 DEF Away
<1>3. 0 < L /\ a[g] = w[1] /\ a[g] \in Conns
  BY <1>1, <1>2
<1>4. v \in Seq(Conns) /\ Without(v, Conns, w, 1)
  <2>1. 1 \in 1 .. Len(w) /\ v = RemoveFirst(w, w[1])
    BY <1>1, <1>3
  <2>2. Without(v, Conns, w, 1)
    BY <1>1, <2>1, RemoveFirstIs
  <2> QED  BY <2>2 DEF Without
<1>5. /\ Once(v)
      /\ \A p : (\E i \in DOMAIN v : v[i] = p)
                  <=> (\E i \in DOMAIN w : w[i] = p) /\ p # w[1]
  <2>1. 1 \in 1 .. Len(w) /\ Once(w) /\ w \in Seq(Conns)
    BY <1>1, <1>3
  <2> HIDE DEF v
  <2>2. Loses(v, w, 1)
    BY <1>4, <2>1, WithoutIs
  <2> QED  BY <2>2 DEF Loses
<1>6. Len(v) = L - 1 /\ \A i \in 1 .. L - 1 : v[i] = w[i + 1]
  BY <1>3, <1>4 DEF Without
<1> HIDE DEF v, L, N
<1>7. /\ Up(g) \in Slots
      /\ \A i \in Slots : Away(Up(g), i) = IF i = g THEN N - 1
                                           ELSE Away(g, i) - 1
      /\ put = Slot(Up(g), L - 1)
  <2>1. L - 1 \in 0 .. N - 1 /\ (L - 1) + 1 = L
    BY <1>0, <1>1, <1>3
  <2> QED  BY <1>1, <2>1, UpIs DEF N
<1>8. b \in [Slots -> Conns \cup {NULL}] /\ d \in [Conns -> ConnStates]
  BY <1>1 DEF ConnStates
<1>9. ASSUME NEW i \in Slots
      PROVE  b[i] = IF Away(Up(g), i) < L - 1 THEN v[Away(Up(g), i) + 1]
                    ELSE NULL
  <2> DEFINE x == Away(g, i)
  <2>1. x \in 0 .. N - 1 /\ (i # g => x # 0)
    <3>1. x \in 0 .. N - 1 /\ Slot(g, x) = i /\ Slot(g, 0) = g
      BY <1>1, SlotFacts DEF N
    <3> QED  BY <3>1
  <2>2. a[i] = IF x < L THEN w[x + 1] ELSE NULL
    BY <1>1
  <2> HIDE DEF x
  <2>3. CASE i = g
    <3>1. b[i] = NULL /\ Away(Up(g), i) = N - 1
      BY <1>1, <1>7, <2>3
    <3>2. ~(N - 1 < L - 1)
      BY <1>0, <1>1
    <3> QED  BY <3>1, <3>2
  <2>4. CASE i # g
    <3>1. b[i] = a[i] /\ Away(Up(g), i) = x - 1
      BY <1>1, <1>7, <2>4 DEF x
    <3>2. x < L => x \in 1 .. L - 1
      BY <1>0, <1>1, <2>1, <2>4
    <3>3. (x - 1 < L - 1 <=> x < L) /\ (x - 1) + 1 = x
      BY <1>0, <1>1, <2>1
    <3> QED  BY <1>6, <2>2, <3>1, <3>2, <3>3
  <2> QED  BY <2>3, <2>4
<1>10. ASSUME NEW q \in Conns
       PROVE  d[q] = "waiting" <=> \E i \in DOMAIN v : v[i] = q
  BY <1>1, <1>3, <1>5
<1>11. L - 1 <= N
  BY <1>0, <1>1
<1> HIDE DEF b, d
<1>12. RingOK(b, Up(g), put, v, d)
  BY <1>4, <1>5, <1>6, <1>7, <1>8, <1>9, <1>10, <1>11 DEF RingOK, N
<1> QED  BY <1>12 DEF b, d, v

(***************************************************************************)
(* The slots from iget up to iput are those of `order', all around the     *)
(* ring if it is full, and everything behind the connection that is        *)
(* dropped moves down by one.                                              *)
(***************************************************************************)
LEMMA RingDrops ==
    ASSUME RingOK(array, iget, iput, order, conn), NEW p \in Conns,
           conn[p] = "waiting"
    PROVE  RingOK(Removed(array, iput, p).array, iget,
                  Removed(array, iput, p).iput, RemoveFirst(order, p),
                  [conn EXCEPT ![p] = "gone"])
<1> DEFINE N == NSlots
           L == Len(order)
           v == RemoveFirst(order, p)
           d == [conn EXCEPT ![p] = "gone"]
           count == IF iput = iget THEN N ELSE (iput - iget) % N
           found == {j \in 0 .. count - 1 : array[(iget + j) % N] = p}
           b == [i \in Slots |->
                   IF (i - iget) % N >= count
                        \/ \A f \in found : (i - iget) % N < f
                   THEN array[i]
                   ELSE IF (i - iget) % N = count - 1 THEN NULL
                        ELSE array[(iget + (((i - iget) % N) + 1)) % N]]
           put == (iget + (count - 1)) % N
<1>0. N \in Nat \ {0} /\ Slots = 0 .. N - 1
  BY SlotsAre
<1>1. /\ array \in [Slots -> Conns \cup {NULL}] /\ iget \in Slots
      /\ order \in Seq(Conns) /\ L \in 0 .. N /\ Once(order)
      /\ DOMAIN order = 1 .. L /\ iput = Slot(iget, L)
      /\ \A i \in Slots : array[i] = IF Away(iget, i) < L
                                     THEN order[Away(iget, i) + 1] ELSE NULL
      /\ \A i \in 1 .. L : order[i] \in Conns /\ order[i] # NULL
      /\ conn \in [Conns -> ConnStates]
      /\ \A q \in Conns : conn[q] = "waiting"
                            <=> \E i \in DOMAIN order : order[i] = q
  BY RingIs
<1>2. PICK f \in 1 .. L : order[f] = p
  BY <1>1
<1>3. /\ \A j \in 0 .. N : Slot(iget, j) \in Slots
                /\ (iget + j) % N = Slot(iget, j)
      /\ \A j \in 0 .. N - 1 : Away(iget, Slot(iget, j)) = j
      /\ Slot(iget, 0) = iget /\ Slot(iget, N) = iget
      /\ \A i \in Slots :
           /\ Away(iget, i) \in 0 .. N - 1
           /\ Slot(iget, Away(iget, i)) = i
           /\ (i - iget) % N = Away(iget, i)
  BY <1>1, SlotFacts
<1>4. v \in Seq(Conns) /\ Without(v, Conns, order, f)
  BY <1>1, <1>2, RemoveFirstIs DEF Without
<1>5. /\ Once(v)
      /\ \A q : (\E i \in DOMAIN v : v[i] = q)
                  <=> (\E i \in DOMAIN order : order[i] = q) /\ q # order[f]
  <2>1. f \in 1 .. Len(order) /\ Once(order) /\ order \in Seq(Conns)
    BY <1>1
  <2> HIDE DEF v
  <2>2. Loses(v, order, f)
    BY <1>4, <2>1, WithoutIs
  <2> QED  BY <2>2 DEF Loses
<1>6. /\ Len(v) = L - 1
      /\ \A i \in 1 .. L - 1 : v[i] = IF i < f THEN order[i] ELSE order[i + 1]
  BY <1>4 DEF Without
<1>7. Removed(array, iput, p)
        = IF found = {} THEN [array |-> array, iput |-> iput]
          ELSE [array |-> b, iput |-> put]
  BY DEF Removed
<1> HIDE DEF v, L, N
<1>8. count = L
  <2>1. L \in 1 .. N
    BY <1>0, <1>1, <1>2
  <2>2. CASE L = N
    BY <1>1, <1>3, <2>2
  <2>3. CASE L # N
    <3>1. L \in 0 .. N - 1 /\ L # 0
      BY <1>0, <2>1, <2>3
    <3>2. Away(iget, iput) = L /\ iput \in Slots
      BY <1>0, <1>1, <1>3, <3>1
    <3>3. 0 \in 0 .. N - 1
      BY <1>0
    <3>4. iput # iget
      BY <1>3, <3>1, <3>2, <3>3
    <3> QED  BY <1>3, <3>2, <3>4
  <2> QED  BY <2>2, <2>3
<1> HIDE DEF count
<1>9. found = {f - 1}
  <2>1. ASSUME NEW j \in 0 .. L - 1
        PROVE  array[(iget + j) % N] = order[j + 1]
    <3>1. j \in 0 .. N /\ j \in 0 .. N - 1 /\ j < L
      BY <1>0, <1>1
    <3>2. (iget + j) % N = Slot(iget, j) /\ Slot(iget, j) \in Slots
          /\ Away(iget, Slot(iget, j)) = j
      BY <1>3, <3>1
    <3> QED  BY <1>1, <3>1, <3>2
  <2>2. \A j \in 0 .. L - 1 : order[j + 1] = p <=> j = f - 1
    <3> SUFFICES ASSUME NEW j \in 0 .. L - 1
                 PROVE  order[j + 1] = p <=> j = f - 1
      OBVIOUS
    <3>1. j + 1 \in 1 .. L
      BY <1>1
    <3>2. order[j + 1] = order[f] => j + 1 = f
      BY <1>1, <1>2, <3>1 DEF Once
    <3> QED  BY <1>1, <1>2, <3>1, <3>2
  <2>3. f - 1 \in 0 .. L - 1
    BY <1>1, <1>2
  <2>4. \A j : j \in found <=> j \in 0 .. L - 1 /\ array[(iget + j) % N] = p
    BY <1>8
  <2> HIDE DEF found
  <2> QED  BY <2>1, <2>2, <2>3, <2>4
<1> HIDE DEF found
<1>10. put = Slot(iget, L - 1)
  <2>1. L - 1 \in 0 .. N
    BY <1>0, <1>1, <1>2
  <2> QED  BY <1>3, <1>8, <2>1
<1>11. ASSUME NEW i \in Slots
       PROVE  b[i] = IF Away(iget, i) < L - 1 THEN v[Away(iget, i) + 1]
                     ELSE NULL
  <2> DEFINE x == Away(iget, i)
  <2>1. x \in 0 .. N - 1 /\ (i - iget) % N = x
    BY <1>3
  <2>2. array[i] = IF x < L THEN order[x + 1] ELSE NULL
    BY <1>1
  <2>3. b[i] = IF x >= L \/ x < f - 1 THEN array[i]
               ELSE IF x = L - 1 THEN NULL
               ELSE array[(iget + (x + 1)) % N]
    BY <1>8, <1>9, <2>1
  <2> HIDE DEF x, b
  <2>4. CASE x >= L \/ x < f - 1
    <3>1. b[i] = array[i]
      BY <2>3, <2>4
    <3>2. x < f - 1 => x + 1 \in 1 .. L - 1 /\ x + 1 < f /\ x < L - 1 /\ x < L
      BY <1>0, <1>1, <1>2, <2>1
    <3>3. x >= L => ~(x < L) /\ ~(x < L - 1)
      BY <1>0, <1>1, <2>1
    <3> QED  BY <1>6, <2>2, <2>4, <3>1, <3>2, <3>3 DEF x
  <2>5. CASE ~(x >= L \/ x < f - 1) /\ x = L - 1
    <3>1. ~(x < L - 1)
      BY <1>0, <1>1, <2>1, <2>5
    <3> QED  BY <2>3, <2>5, <3>1 DEF x
  <2>6. CASE ~(x >= L \/ x < f - 1) /\ x # L - 1
    <3>1. /\ x + 1 \in 0 .. N /\ x + 1 \in 0 .. N - 1 /\ x + 1 < L
          /\ x + 1 \in 1 .. L - 1 /\ ~(x + 1 < f) /\ x < L - 1
      BY <1>0, <1>1, <1>2, <2>1, <2>6
    <3> DEFINE y == x + 1
    <3>2. /\ (iget + y) % N = Slot(iget, y) /\ Slot(iget, y) \in Slots
          /\ Away(iget, Slot(iget, y)) = y
      BY <1>3, <3>1
    <3>3. array[(iget + y) % N] = order[y + 1]
      BY <1>1, <3>1, <3>2
    <3>4. v[y] = order[y + 1]
      BY <1>6, <3>1
    <3> QED  BY <2>3, <2>6, <3>1, <3>3, <3>4 DEF x
  <2> QED  BY <2>4, <2>5, <2>6
<1>12. b \in [Slots -> Conns \cup {NULL}]
  <2>1. ASSUME NEW i \in Slots PROVE b[i] \in Conns \cup {NULL}
    <3> DEFINE x == Away(iget, i)
    <3>1. x \in 0 .. N - 1
      BY <1>3
    <3>2. b[i] = IF x < L - 1 THEN v[x + 1] ELSE NULL
      BY <1>11
    <3>3. x < L - 1 => x + 1 \in 1 .. Len(v)
      BY <1>0, <1>1, <1>6, <3>1
    <3> HIDE DEF x, b
    <3>4. x < L - 1 => v[x + 1] \in Conns
      BY <1>4, <3>3
    <3> QED  BY <3>2, <3>4
  <2>2. b = [i \in Slots |-> b[i]]
    OBVIOUS
  <2> HIDE DEF b
  <2> QED  BY <2>1, <2>2
<1>13. d \in [Conns -> ConnStates]
  BY <1>1 DEF ConnStates
<1>14. ASSUME NEW q \in Conns
       PROVE  d[q] = "waiting" <=> \E i \in DOMAIN v : v[i] = q
  BY <1>1, <1>2, <1>5
<1>15. L - 1 <= N
  BY <1>0, <1>1
<1> HIDE DEF b, d, put
<1>16. RingOK(b, iget, put, v, d)
  BY <1>1, <1>4, <1>5, <1>6, <1>10, <1>11, <1>12, <1>13, <1>14, <1>15
     DEF RingOK, N
<1>17. Removed(array, iput, p).array = b /\ Removed(array, iput, p).iput = put
  BY <1>7, <1>9
<1> QED  BY <1>16, <1>17 DEF d, v
\* A connection that finds no room is none of those that wait.
LEMMA RingRefuses ==
    ASSUME NEW a, NEW g, NEW put, NEW w, NEW c, RingOK(a, g, put, w, c),
           NEW p \in Conns, c[p] = "new"
    PROVE  RingOK(a, g, put, w, [c EXCEPT ![p] = "gone"])
<1> DEFINE d == [c EXCEPT ![p] = "gone"]
<1>1. c \in [Conns -> ConnStates]
  BY DEF RingOK
<1>2. d \in [Conns -> ConnStates]
  BY <1>1 DEF ConnStates
<1>3. \A q \in Conns : d[q] = "waiting" <=> c[q] = "waiting"
  BY <1>1
<1> HIDE DEF d
<1>4. RingOK(a, g, put, w, d)
  BY <1>2, <1>3 DEF RingOK
<1> QED  BY <1>4 DEF d

\* While the socket is open its ring holds the waiting connections, and a
\* pending accept() looks at the slot that is read next.
AcceptInv == /\ open => RingOK(array, iget, iput, order, conn)
             /\ at # -1 => open /\ at = iget

\* Every step of the interrupt and of the thread keeps the ring in order.
LEMMA AcceptStep == AcceptInv /\ [AcceptNext]_acceptVars => AcceptInv'
<1> SUFFICES ASSUME AcceptInv, [AcceptNext]_acceptVars PROVE AcceptInv'
  OBVIOUS
<1> USE DEF AcceptInv
<1>1. ASSUME NEW p \in Conns, Incoming(p) PROVE AcceptInv'
  <2>1. RingOK(array, iget, iput, order, conn) /\ conn[p] = "new"
        /\ iget' = iget /\ at' = at /\ open' = open
    BY <1>1 DEF Incoming
  <2>2. CASE array[iput] = NULL
    <3>1. /\ array' = [array EXCEPT ![iput] = p] /\ iput' = Up(iput)
          /\ order' = Append(order, p)
          /\ conn' = [conn EXCEPT ![p] = "waiting"]
      BY <1>1, <2>2 DEF Incoming
    <3>2. RingOK(array', iget', iput', order', conn')
      BY <2>1, <2>2, <3>1, RingGrows
    <3> QED  BY <2>1, <3>2
  <2>3. CASE array[iput] # NULL
    <3>1. /\ array' = array /\ iput' = iput /\ order' = order
          /\ conn' = [conn EXCEPT ![p] = "gone"]
      BY <1>1, <2>3 DEF Incoming
    <3>2. RingOK(array', iget', iput', order', conn')
      BY <2>1, <3>1, RingRefuses
    <3> QED  BY <2>1, <3>2
  <2> QED  BY <2>2, <2>3
<1>2. ASSUME NEW p \in Conns, Dropped(p) PROVE AcceptInv'
  <2>1. iget' = iget /\ at' = at /\ open' = open
    BY <1>2 DEF Dropped
  <2>2. ASSUME open PROVE RingOK(array', iget', iput', order', conn')
    <3>1. RingOK(Removed(array, iput, p).array, iget,
                 Removed(array, iput, p).iput, RemoveFirst(order, p),
                 [conn EXCEPT ![p] = "gone"])
      BY <1>2, <2>2, RingDrops DEF Dropped
    <3> QED  BY <1>2, <3>1 DEF Dropped
  <2> QED  BY <2>1, <2>2
<1>3. ASSUME open, array[iget] # NULL, Take(iget), iput' = iput
      PROVE  RingOK(array', iget', iput', order', conn')
  <2>1. RingOK([array EXCEPT ![iget] = NULL], Up(iget), iput,
               RemoveFirst(order, array[iget]),
               [conn EXCEPT ![array[iget]] = "accepted"])
    BY <1>3, RingTakes
  <2> QED  BY <1>3, <2>1 DEF Take
<1>4. CASE Accept
  <2>1. open /\ open' = open /\ iput' = iput /\ at = -1
    BY <1>4 DEF Accept
  <2>2. CASE array[iget] # NULL
    <3>1. Take(iget) /\ at' = at
      BY <1>4, <2>2 DEF Accept
    <3> QED  BY <1>3, <2>1, <2>2, <3>1
  <2>3. CASE array[iget] = NULL
    <3>1. at' = iget /\ iget' = iget /\ conn' = conn /\ array' = array
          /\ order' = order
      BY <1>4, <2>3 DEF Accept
    <3> QED  BY <2>1, <3>1
  <2> QED  BY <2>2, <2>3
<1>5. CASE AcceptAgain
  <2>1. open /\ at = iget /\ open' = open /\ iput' = iput /\ at' = -1
    BY <1>5 DEF AcceptAgain
  <2>2. Take(iget) /\ array[iget] # NULL
    BY <1>5, <2>1 DEF AcceptAgain
  <2> QED  BY <1>3, <2>1, <2>2
<1>6. CASE AcceptTimesOut
  BY <1>6 DEF AcceptTimesOut, ring
<1>7. CASE CloseListener
  BY <1>7 DEF CloseListener
<1>8. CASE UNCHANGED acceptVars
  BY <1>8 DEF acceptVars
<1> QED  BY <1>1, <1>2, <1>4, <1>5, <1>6, <1>7, <1>8
            DEF AcceptNext, Arrives, Drops, Closed

\* What the ring is, as the properties say it.
LEMMA RingShows ==
    ASSUME RingOK(array, iget, iput, order, conn)
    PROVE  /\ [i \in Slots |-> LET j == ((i - iget) % NSlots) + 1 IN
                 IF j \in DOMAIN order THEN order[j] ELSE NULL] = array
           /\ {array[i] : i \in Slots} \ {NULL}
                = {p \in Conns : conn[p] = "waiting"}
<1> DEFINE L == Len(order)
           N == NSlots
<1>0. N \in Nat \ {0}
  BY SlotsAre
<1>1. /\ array \in [Slots -> Conns \cup {NULL}] /\ iget \in Slots
      /\ L \in 0 .. N /\ DOMAIN order = 1 .. L
      /\ \A i \in Slots : array[i] = IF Away(iget, i) < L
                                     THEN order[Away(iget, i) + 1] ELSE NULL
      /\ \A i \in 1 .. L : order[i] \in Conns /\ order[i] # NULL
      /\ \A p \in Conns : conn[p] = "waiting"
                            <=> \E i \in DOMAIN order : order[i] = p
  BY RingIs
<1>2. /\ \A j \in 0 .. N - 1 : Away(iget, Slot(iget, j)) = j
      /\ \A j \in 0 .. N : Slot(iget, j) \in Slots
      /\ \A i \in Slots : /\ Away(iget, i) \in 0 .. N - 1
                          /\ (i - iget) % N = Away(iget, i)
  BY <1>1, SlotFacts
<1> HIDE DEF L, N
<1>3. ASSUME NEW i \in Slots
      PROVE  array[i] = IF ((i - iget) % N) + 1 \in DOMAIN order
                        THEN order[((i - iget) % N) + 1] ELSE NULL
  <2> DEFINE x == Away(iget, i)
  <2>1. x \in 0 .. N - 1 /\ (i - iget) % N = x
    BY <1>2
  <2>2. array[i] = IF x < L THEN order[x + 1] ELSE NULL
    BY <1>1
  <2> HIDE DEF x
  <2>3. x + 1 \in DOMAIN order <=> x < L
    BY <1>0, <1>1, <2>1
  <2> QED  BY <2>1, <2>2, <2>3
<1>4. [i \in Slots |-> IF ((i - iget) % N) + 1 \in DOMAIN order
                       THEN order[((i - iget) % N) + 1] ELSE NULL] = array
  BY <1>1, <1>3
<1>5. ASSUME NEW p
      PROVE  p \in {array[i] : i \in Slots} \ {NULL}
               <=> p \in {q \in Conns : conn[q] = "waiting"}
  <2>1. ASSUME NEW i \in Slots, array[i] = p, p # NULL
        PROVE  p \in Conns /\ conn[p] = "waiting"
    <3> DEFINE x == Away(iget, i)
    <3>1. x \in 0 .. N - 1
      BY <1>2
    <3>2. p = IF x < L THEN order[x + 1] ELSE NULL
      BY <1>1, <2>1
    <3> HIDE DEF x
    <3>3. x < L /\ x + 1 \in 1 .. L
      BY <1>0, <1>1, <2>1, <3>1, <3>2
    <3> QED  BY <1>1, <3>2, <3>3
  <2>2. ASSUME p \in Conns, conn[p] = "waiting"
        PROVE  p # NULL /\ \E i \in Slots : array[i] = p
    <3>1. PICK m \in 1 .. L : order[m] = p
      BY <1>1, <2>2
    <3> DEFINE j == m - 1
    <3>2. j \in 0 .. N - 1 /\ j \in 0 .. N /\ j < L /\ j + 1 = m
      BY <1>0, <1>1, <3>1
    <3> HIDE DEF j
    <3>3. Slot(iget, j) \in Slots /\ Away(iget, Slot(iget, j)) = j
      BY <1>2, <3>2
    <3>4. array[Slot(iget, j)] = p
      BY <1>1, <3>1, <3>2, <3>3
    <3> QED  BY <2>2, <3>3, <3>4, AcceptAssumption
  <2> QED  BY <2>1, <2>2
<1>6. {array[i] : i \in Slots} \ {NULL} = {p \in Conns : conn[p] = "waiting"}
  BY <1>5
<1> QED  BY <1>4, <1>6 DEF N

(***************************************************************************)
(* Whatever the backlog and however connections come, are reset in the     *)
(* middle of the ring and are accepted, the ring of modlwip.c holds        *)
(* exactly those that wait, in the order of their arrival: the safety part *)
(* of WaitingAreServed.                                                    *)
(***************************************************************************)
THEOREM RingStaysInOrder ==
    AcceptSpec => [](RingHoldsWaiting /\ RingIsTheWaiting)
<1>1. AcceptInit => AcceptInv
  BY RingStarts DEF AcceptInv, AcceptInit
<1>2. AcceptInv => RingHoldsWaiting /\ RingIsTheWaiting
  <2>1. ASSUME AcceptInv, open PROVE RingHoldsWaiting /\ RingIsTheWaiting
    <3>1. RingOK(array, iget, iput, order, conn)
      BY <2>1 DEF AcceptInv
    <3> QED  BY <3>1, RingShows DEF RingHoldsWaiting, RingIsTheWaiting
  <2> QED  BY <2>1 DEF RingHoldsWaiting, RingIsTheWaiting
<1> QED  BY <1>1, <1>2, AcceptStep, PTL DEF AcceptSpec
-----------------------------------------------------------------------------
(***************************************************************************)
(* The web server                                                          *)
(***************************************************************************)

\* f says something of each client.
OfClients(f) == f = [c \in Clients |-> f[c]]

\* What client c has been sent, by where its task is.
ClientOK(l, n, b, w) ==
    /\ b # "missing"
    /\ l \in {"line", "headers", "handler"} => w = <<>>
    /\ l = "head" => w = <<Head1(n, b)>>
    /\ l = "body" => b # "" /\ w = <<Head1(n, b), b>>

ClientsOK == /\ OfClients(client) /\ OfClients(code) /\ OfClients(body)
             /\ OfClients(written)
             /\ \A c \in Clients :
                  ClientOK(client[c], code[c], body[c], written[c])

FilesOK == templates_loaded \in BOOLEAN /\ CacheIsWhole

\* What Append does.
LEMMA AppendIs ==
    ASSUME NEW S, NEW o \in Seq(S), NEW b \in S
    PROVE  /\ Append(o, b) \in Seq(S) /\ Len(Append(o, b)) = Len(o) + 1
           /\ \A i \in 1 .. Len(o) : Append(o, b)[i] = o[i]
           /\ Append(o, b)[Len(o) + 1] = b
  OBVIOUS

\* The head, and then the body.
LEMMA TwoAre == ASSUME NEW h, NEW b PROVE Append(<<h>>, b) = <<h, b>>
<1> DEFINE S == {h, b}
           o == <<h>>
           t == <<h, b>>
<1>1. o \in Seq(S) /\ Len(o) = 1 /\ o[1] = h /\ b \in S
  OBVIOUS
<1>2. t \in Seq(S) /\ Len(t) = 2 /\ t[1] = h /\ t[2] = b
  OBVIOUS
<1> DEFINE a == Append(o, b)
<1> HIDE DEF o, t, S
<1>3. a \in Seq(S) /\ Len(a) = 2 /\ a[1] = h /\ a[2] = b
  <2> DEFINE L == Len(o)
  <2>1. /\ a \in Seq(S) /\ Len(a) = L + 1
        /\ \A i \in 1 .. L : a[i] = o[i]
        /\ a[L + 1] = b
    <3>1. o \in Seq(S) /\ b \in S
      BY <1>1
    <3> QED  BY <3>1, AppendIs
  <2>2. L = 1 /\ o[1] = h
    BY <1>1
  <2> HIDE DEF a, L
  <2> QED  BY <2>1, <2>2
<1> HIDE DEF a
<1>4. \A i \in 1 .. Len(a) : a[i] = t[i]
  BY <1>2, <1>3
<1>5. a = t
  BY <1>2, <1>3, <1>4, SeqEqual
<1> QED  BY <1>5 DEF a, o, t

\* One client's task moves on.
LEMMA OneMoves ==
    ASSUME ClientsOK, NEW c \in Clients, NEW l, NEW n, NEW b, NEW w,
           client' = [client EXCEPT ![c] = l],
           code' = [code EXCEPT ![c] = n],
           body' = [body EXCEPT ![c] = b],
           written' = [written EXCEPT ![c] = w], ClientOK(l, n, b, w)
    PROVE  ClientsOK'
<1>1. /\ OfClients(client) /\ OfClients(code) /\ OfClients(body)
      /\ OfClients(written)
      /\ \A d \in Clients : ClientOK(client[d], code[d], body[d], written[d])
  BY DEF ClientsOK
<1>2. /\ client' = [d \in Clients |-> IF d = c THEN l ELSE client[d]]
      /\ code' = [d \in Clients |-> IF d = c THEN n ELSE code[d]]
      /\ body' = [d \in Clients |-> IF d = c THEN b ELSE body[d]]
      /\ written' = [d \in Clients |-> IF d = c THEN w ELSE written[d]]
  BY <1>1 DEF OfClients
<1>3. OfClients(client') /\ OfClients(code') /\ OfClients(body')
      /\ OfClients(written')
  BY <1>2 DEF OfClients
<1>4. ASSUME NEW d \in Clients
      PROVE  ClientOK(client'[d], code'[d], body'[d], written'[d])
  <2>1. CASE d = c
    BY <1>2, <2>1
  <2>2. CASE d # c
    <3>1. client'[d] = client[d] /\ code'[d] = code[d] /\ body'[d] = body[d]
          /\ written'[d] = written[d]
      BY <1>2, <2>2
    <3> QED  BY <1>1, <3>1
  <2> QED  BY <2>1, <2>2
<1> QED  BY <1>3, <1>4 DEF ClientsOK

\* Assigning what is there already changes nothing.
LEMMA SameAgain ==
    ASSUME NEW f, OfClients(f), NEW c \in Clients
    PROVE  f = [f EXCEPT ![c] = f[c]]
  BY DEF OfClients

\* A task that only goes on to where nothing more is said of what was sent,
\* or to where the same is said.
LEMMA OnlyGoes ==
    ASSUME ClientsOK, NEW c \in Clients, NEW l, Goto(c, l),
           code' = code, body' = body, written' = written,
           ClientOK(l, code[c], body[c], written[c])
    PROVE  ClientsOK'
<1> DEFINE n == code[c]
           b == body[c]
           w == written[c]
<1>1. /\ code' = [code EXCEPT ![c] = n]
      /\ body' = [body EXCEPT ![c] = b]
      /\ written' = [written EXCEPT ![c] = w]
  BY SameAgain DEF ClientsOK
<1>2. client' = [client EXCEPT ![c] = l]
  BY DEF Goto
<1>3. ClientOK(l, n, b, w)
  OBVIOUS
<1> HIDE DEF n, b, w
<1> QED  BY <1>1, <1>2, <1>3, OneMoves

\* The answer is chosen.
LEMMA AnswerGoes ==
    ASSUME ClientsOK, NEW c \in Clients, client[c] \in {"headers", "handler"},
           NEW n, NEW b, b # "missing", Answer(c, n, b)
    PROVE  ClientsOK'
<1>1. ClientOK(client[c], code[c], body[c], written[c])
      /\ OfClients(written)
  BY DEF ClientsOK
<1>2. written[c] = <<>>
  BY <1>1 DEF ClientOK
<1> DEFINE h == Head1(n, b)
<1>3. written' = [written EXCEPT ![c] = Append(@, h)]
  BY DEF Answer
<1> HIDE DEF h
<1>4. written' = [written EXCEPT ![c] = <<h>>]
  <2>1. Append(written[c], h) = <<h>>
    BY <1>2
  <2> QED  BY <1>1, <1>3, <2>1 DEF OfClients
<1>5. ClientOK("head", n, b, <<h>>)
  BY DEF ClientOK, h
<1>6. /\ code' = [code EXCEPT ![c] = n] /\ body' = [body EXCEPT ![c] = b]
      /\ client' = [client EXCEPT ![c] = "head"]
  BY DEF Answer, Goto
<1> DEFINE w == <<h>>
<1>7. written' = [written EXCEPT ![c] = w] /\ ClientOK("head", n, b, w)
  BY <1>4, <1>5
<1> HIDE DEF w
<1> QED  BY <1>6, <1>7, OneMoves

\* load_templates leaves all files or none, and all if it succeeds.
LEMMA LoadIs ==
    ASSUME FilesOK, NEW ok \in BOOLEAN, Load(ok)
    PROVE  FilesOK' /\ (ok => cache' = Files)
<1>1. CASE templates_loaded
  <2>1. ok /\ cache' = cache /\ templates_loaded' = templates_loaded
    BY <1>1 DEF Load
  <2> QED  BY <1>1, <2>1 DEF FilesOK, CacheIsWhole
<1>2. CASE ~templates_loaded
  <2>1. CASE ok /\ cache' = Files /\ templates_loaded' = TRUE
    BY <2>1 DEF FilesOK, CacheIsWhole
  <2>2. CASE ~ok /\ \E read \in SUBSET Files : read # Files /\ Failed(read)
    <3>1. ~ok /\ cache' = {} /\ templates_loaded' = FALSE
      BY <2>2 DEF Failed
    <3> QED  BY <3>1, Zenon DEF FilesOK, CacheIsWhole
  <2> QED  BY <1>2, <2>1, <2>2 DEF Load
<1> QED  BY <1>1, <1>2

\* A route's answer.
LEMMA RouteGoes ==
    ASSUME FilesOK, ClientsOK, NEW c \in Clients, NEW p, EndOfHeaders(c, p)
    PROVE  FilesOK' /\ ClientsOK'
<1>0. client[c] \in {"headers", "handler"}
      /\ ClientOK(client[c], code[c], body[c], written[c])
  BY DEF EndOfHeaders, ClientsOK
<1>1. ASSUME p \in Files, cache' = Files, AnswerFile(c, p)
      PROVE  ClientsOK'
  <2>1. p # "missing"
    BY <1>1 DEF Files
  <2>2. Answer(c, 200, p) \/ Answer(c, 200, "error")
    BY <1>1 DEF AnswerFile
  <2> QED  BY <1>0, <2>1, <2>2, AnswerGoes
<1>2. ASSUME p \in Files, RouteFile(c, p) PROVE FilesOK' /\ ClientsOK'
  <2>1. ASSUME NEW ok \in BOOLEAN, Load(ok),
               IF ok THEN AnswerFile(c, p) ELSE Answer(c, 500, "error")
        PROVE  FilesOK' /\ ClientsOK'
    <3>1. FilesOK' /\ (ok => cache' = Files)
      BY <2>1, LoadIs
    <3>2. CASE ok
      BY <1>1, <1>2, <2>1, <3>1, <3>2
    <3>3. CASE ~ok
      <4>1. Answer(c, 500, "error")
        BY <2>1, <3>3
      <4> QED  BY <1>0, <3>1, <4>1, AnswerGoes
    <3> QED  BY <3>2, <3>3
  <2>2. ASSUME templates_loaded, cache' = cache,
               templates_loaded' = templates_loaded, AnswerFile(c, p)
        PROVE  FilesOK' /\ ClientsOK'
    <3>1. cache' = Files
      BY <2>2 DEF FilesOK, CacheIsWhole
    <3>2. FilesOK'
      BY <2>2 DEF FilesOK, CacheIsWhole
    <3> QED  BY <1>1, <1>2, <2>2, <3>1, <3>2
  <2>3. NeedsFiles(p)
    BY <1>2 DEF NeedsFiles
  <2> QED  BY <1>2, <2>1, <2>2, <2>3 DEF RouteFile
<1>3. ASSUME RouteControl(c, p) PROVE FilesOK' /\ ClientsOK'
  <2>1. Answer(c, 200, "json")
    BY <1>3 DEF RouteControl
  <2>2. ClientsOK'
    BY <1>0, <2>1, AnswerGoes
  <2>3. ASSUME NEW ok \in BOOLEAN, Load(ok) PROVE FilesOK'
    BY <2>3, LoadIs
  <2>4. ASSUME cache' = {}, templates_loaded' = FALSE PROVE FilesOK'
    BY <2>4, Zenon DEF FilesOK, CacheIsWhole
  <2> QED  BY <1>3, <2>2, <2>3, <2>4 DEF RouteControl
<1>4. ASSUME RouteOther(c, p) PROVE FilesOK' /\ ClientsOK'
  <2>1. FilesOK'
    BY <1>4 DEF RouteOther, FilesOK, CacheIsWhole
  <2>3. ASSUME Goto(c, "handler"), UNCHANGED <<code, body, written>>
        PROVE  ClientsOK'
    <3>1. code' = code /\ body' = body /\ written' = written
      BY <2>3
    <3>2. ClientOK("handler", code[c], body[c], written[c])
      BY <1>0 DEF ClientOK
    <3> QED  BY <2>3, <3>1, <3>2, OnlyGoes
  <2>4. \/ Answer(c, 200, "json") \/ Answer(c, 500, "json")
        \/ Answer(c, 404, "") \/ Answer(c, 404, "error")
        \/ Goto(c, "handler") /\ UNCHANGED <<code, body, written>>
    BY <1>4 DEF RouteOther
  <2>5. Answer(c, 200, "json") => ClientsOK'
    BY <1>0, AnswerGoes
  <2>6. Answer(c, 500, "json") => ClientsOK'
    BY <1>0, AnswerGoes
  <2>7. Answer(c, 404, "") => ClientsOK'
    BY <1>0, AnswerGoes
  <2>8. Answer(c, 404, "error") => ClientsOK'
    BY <1>0, AnswerGoes
  <2>9. Goto(c, "handler") /\ UNCHANGED <<code, body, written>> => ClientsOK'
    BY <2>3
  <2>10. ClientsOK'
    BY <2>4, <2>5, <2>6, <2>7, <2>8, <2>9, Zenon
  <2> QED  BY <2>1, <2>10
<1> QED  BY <1>2, <1>3, <1>4 DEF EndOfHeaders

\* Every step of a client's task keeps the files and the answers whole.
LEMMA WebStep ==
    FilesOK /\ ClientsOK /\ [WebNext]_webVars => FilesOK' /\ ClientsOK'
<1> SUFFICES ASSUME FilesOK, ClientsOK, [WebNext]_webVars
             PROVE  FilesOK' /\ ClientsOK'
  OBVIOUS
<1>0. ASSUME cache' = cache, templates_loaded' = templates_loaded
      PROVE  FilesOK'
  BY <1>0 DEF FilesOK, CacheIsWhole
<1>1. CASE UNCHANGED webVars
  BY <1>0, <1>1 DEF webVars, ClientsOK, OfClients
<1>2. ASSUME NEW c \in Clients, Connect(c) PROVE FilesOK' /\ ClientsOK'
  <2> DEFINE e == <<>>
  <2>1. ClientOK("line", 200, "", e)
    BY DEF ClientOK
  <2>2. /\ client' = [client EXCEPT ![c] = "line"]
        /\ code' = [code EXCEPT ![c] = 200]
        /\ body' = [body EXCEPT ![c] = ""]
        /\ written' = [written EXCEPT ![c] = e]
        /\ cache' = cache /\ templates_loaded' = templates_loaded
    BY <1>2 DEF Connect, Goto
  <2> HIDE DEF e
  <2> QED  BY <1>0, <2>1, <2>2, OneMoves
<1>3. ASSUME NEW c \in Clients, NEW l, Goto(c, l), code' = code,
             body' = body, written' = written,
             cache' = cache, templates_loaded' = templates_loaded,
             \/ l \in {"closing", "gone", "failed", "none"}
             \/ l = "headers" /\ client[c] = "line"
      PROVE  FilesOK' /\ ClientsOK'
  <2>1. ClientOK(client[c], code[c], body[c], written[c])
    BY DEF ClientsOK
  <2>2. ClientOK(l, code[c], body[c], written[c])
    BY <1>3, <2>1 DEF ClientOK
  <2> QED  BY <1>0, <1>3, <2>2, OnlyGoes
<1>4. ASSUME NEW c \in Clients,
             ReadsLine(c) \/ ReadHeader(c) \/ PeerFallsQuiet(c)
      PROVE  FilesOK' /\ ClientsOK'
  <2>1. CASE ReadLine(c)
    BY <1>3, <2>1 DEF ReadLine
  <2>2. CASE NoLine(c)
    BY <1>3, <2>2 DEF NoLine
  <2>3. CASE ReadHeader(c) \/ PeerFallsQuiet(c)
    BY <1>0, <2>3 DEF ReadHeader, PeerFallsQuiet, webVars, ClientsOK,
                      OfClients
  <2> QED  BY <1>4, <2>1, <2>2, <2>3 DEF ReadsLine
<1>5. ASSUME NEW c \in Clients, HandlerReturns(c)
      PROVE  FilesOK' /\ ClientsOK'
  <2>1. /\ client[c] \in {"headers", "handler"}
        /\ Answer(c, 200, "json") \/ Answer(c, 500, "json")
        /\ cache' = cache /\ templates_loaded' = templates_loaded
    BY <1>5 DEF HandlerReturns
  <2> QED  BY <1>0, <2>1, AnswerGoes
<1>6. ASSUME NEW c \in Clients, Sends(c) PROVE FilesOK' /\ ClientsOK'
  <2>1. CASE SendBody(c) /\ body[c] = ""
    BY <1>3, <2>1 DEF SendBody
  <2>2. CASE SendBody(c) /\ body[c] # ""
    <3> DEFINE h == Head1(code[c], body[c])
               b == body[c]
    <3>1. /\ OfClients(written) /\ OfClients(code) /\ OfClients(body)
          /\ ClientOK(client[c], code[c], body[c], written[c])
      BY DEF ClientsOK
    <3>2. client[c] = "head" /\ written[c] = <<h>> /\ b # "missing"
          /\ b # ""
      BY <2>2, <3>1 DEF SendBody, ClientOK
    <3>3. ClientOK("body", code[c], b, <<h, b>>)
      BY <3>2 DEF ClientOK
    <3>4. /\ written' = [written EXCEPT ![c] = Append(@, b)]
          /\ client' = [client EXCEPT ![c] = "body"]
          /\ code' = code /\ body' = body
          /\ cache' = cache /\ templates_loaded' = templates_loaded
      BY <2>2 DEF SendBody, Goto
    <3>5. code' = [code EXCEPT ![c] = code[c]]
          /\ body' = [body EXCEPT ![c] = b]
      BY <3>1, <3>4, SameAgain
    <3> HIDE DEF h, b
    <3> DEFINE o == <<h>>
               w == <<h, b>>
    <3>6. Append(o, b) = w
      BY TwoAre
    <3>7. written[c] = o /\ ClientOK("body", code[c], b, w)
      BY <3>2, <3>3
    <3> HIDE DEF o, w
    <3>8. written' = [written EXCEPT ![c] = w]
      BY <3>1, <3>4, <3>6, <3>7 DEF OfClients
    <3>9. ClientsOK'
      BY <3>4, <3>5, <3>7, <3>8, OneMoves
    <3> QED  BY <1>0, <3>4, <3>9
  <2>3. CASE BodyDrained(c)
    BY <1>3, <2>3 DEF BodyDrained
  <2>4. CASE PeerGone(c)
    BY <1>3, <2>4 DEF PeerGone
  <2> QED  BY <1>6, <2>1, <2>2, <2>3, <2>4 DEF Sends
<1>7. ASSUME NEW c \in Clients, Raises(c) PROVE FilesOK' /\ ClientsOK'
  BY <1>3, <1>7 DEF Raises
<1>8. ASSUME NEW c \in Clients, Closes(c) PROVE FilesOK' /\ ClientsOK'
  BY <1>3, <1>8 DEF Closes
<1>9. ASSUME NEW c \in Clients, Routes(c) PROVE FilesOK' /\ ClientsOK'
  BY <1>9, RouteGoes DEF Routes
<1> QED  BY <1>1, <1>2, <1>4, <1>5, <1>6, <1>7, <1>8, <1>9 DEF WebNext

\* The server starts with all files or none, and with no client.
LEMMA WebStarts == WebInit => FilesOK /\ ClientsOK
<1> SUFFICES ASSUME WebInit PROVE FilesOK /\ ClientsOK
  OBVIOUS
<1>1. FilesOK
  BY DEF WebInit, FilesOK, CacheIsWhole
<1>2. OfClients(client) /\ OfClients(code) /\ OfClients(body)
      /\ OfClients(written)
  BY DEF WebInit, OfClients
<1>3. \A c \in Clients : client[c] = "none" /\ body[c] = ""
  BY DEF WebInit
<1>4. \A c \in Clients : ClientOK(client[c], code[c], body[c], written[c])
  BY <1>3 DEF ClientOK
<1> QED  BY <1>1, <1>2, <1>4 DEF ClientsOK

(***************************************************************************)
(* For any clients, the server has all of the files or none of them, no    *)
(* client is told that a file is missing, and a response that is sent to   *)
(* its end is the head and the body that the head announced: the safety    *)
(* part of AnswersAreWhole.                                                *)
(***************************************************************************)
THEOREM AnswersStayWhole ==
    WebSpec => [](CacheIsWhole /\ FileIsThere) /\ BodyAsAnnounced
<1>1. FilesOK /\ ClientsOK => CacheIsWhole /\ FileIsThere
  BY DEF FilesOK, ClientsOK, ClientOK, FileIsThere
<1>2. FilesOK /\ ClientsOK /\ [WebNext]_webVars
        => [\A c \in Clients :
              client[c] \in {"head", "body"} /\ client'[c] = "closing"
                => written'[c] = IF body[c] = "" THEN <<Head1(code[c], "")>>
                     ELSE <<Head1(code[c], body[c]), body[c]>>]_webVars
  <2> SUFFICES ASSUME ClientsOK, WebNext, NEW c \in Clients,
                      client[c] \in {"head", "body"}, client'[c] = "closing"
               PROVE  written'[c] = IF body[c] = ""
                        THEN <<Head1(code[c], "")>>
                        ELSE <<Head1(code[c], body[c]), body[c]>>
    OBVIOUS
  <2>1. ClientOK(client[c], code[c], body[c], written[c])
        /\ OfClients(client)
    BY DEF ClientsOK
  <2>2. ASSUME NEW d \in Clients, NEW l, Goto(d, l)
        PROVE  d = c /\ l = "closing"
    <3>1. client' = [x \in Clients |-> IF x = d THEN l ELSE client[x]]
      BY <2>1, <2>2 DEF OfClients, Goto
    <3> QED  BY <3>1
  <2>3. SendBody(c) \/ BodyDrained(c)
    <3>1. PICK d \in Clients :
             \/ Connect(d) \/ ReadsLine(d) \/ ReadHeader(d) \/ Routes(d)
             \/ HandlerReturns(d) \/ Sends(d) \/ Raises(d) \/ Closes(d)
             \/ PeerFallsQuiet(d)
      BY DEF WebNext
    <3>2. ~Connect(d)
      BY <2>2 DEF Connect
    <3>3. ~ReadsLine(d) /\ ~ReadHeader(d) /\ ~PeerFallsQuiet(d)
      <4>1. ~ReadLine(d)
        BY <2>2 DEF ReadLine
      <4>2. ~NoLine(d)
        BY <2>2 DEF NoLine
      <4>3. ~ReadHeader(d) /\ ~PeerFallsQuiet(d)
        BY DEF ReadHeader, PeerFallsQuiet, webVars
      <4> QED  BY <4>1, <4>2, <4>3 DEF ReadsLine
    <3>4. ASSUME NEW n, NEW b, Answer(d, n, b) PROVE FALSE
      BY <2>2, <3>4 DEF Answer
    <3>5. ASSUME NEW p, EndOfHeaders(d, p) PROVE FALSE
      <4>1. CASE RouteFile(d, p)
        BY <3>4, <4>1 DEF RouteFile, AnswerFile
      <4>2. CASE RouteControl(d, p)
        BY <3>4, <4>2 DEF RouteControl
      <4>3. CASE RouteOther(d, p)
        <5>1. ~Goto(d, "handler")
          BY <2>2
        <5> QED  BY <3>4, <4>3, <5>1 DEF RouteOther
      <4> QED  BY <3>5, <4>1, <4>2, <4>3 DEF EndOfHeaders
    <3>6. ~Routes(d)
      BY <3>5 DEF Routes
    <3>7. ~HandlerReturns(d)
      BY <3>4 DEF HandlerReturns
    <3>8. ~Raises(d)
      BY <2>2 DEF Raises
    <3>9. ~Closes(d)
      BY <2>2 DEF Closes
    <3>10. ~PeerGone(d)
      BY <2>2 DEF PeerGone
    <3>11. SendBody(d) \/ BodyDrained(d)
      BY <3>1, <3>2, <3>3, <3>6, <3>7, <3>8, <3>9, <3>10 DEF Sends
    <3>12. d = c
      <4>1. CASE SendBody(d) /\ body[d] = ""
        BY <2>2, <4>1 DEF SendBody
      <4>2. CASE SendBody(d) /\ body[d] # ""
        BY <2>2, <4>2 DEF SendBody
      <4>3. CASE BodyDrained(d)
        BY <2>2, <4>3 DEF BodyDrained
      <4> QED  BY <3>11, <4>1, <4>2, <4>3
    <3> QED  BY <3>11, <3>12
  <2>4. CASE BodyDrained(c)
    <3>1. client[c] = "body" /\ written' = written
      BY <2>4 DEF BodyDrained
    <3>2. written[c] = <<Head1(code[c], body[c]), body[c]>> /\ body[c] # ""
      BY <2>1, <3>1 DEF ClientOK
    <3> QED  BY <3>1, <3>2
  <2>5. CASE SendBody(c)
    <3>1. client[c] = "head" /\ written[c] = <<Head1(code[c], body[c])>>
      BY <2>1, <2>5 DEF ClientOK, SendBody
    <3>2. body[c] = ""
      BY <2>2, <2>5 DEF SendBody
    <3>3. written' = written
      BY <2>5, <3>2 DEF SendBody
    <3> QED  BY <3>1, <3>2, <3>3
  <2> QED  BY <2>3, <2>4, <2>5
<1> QED
  BY <1>1, <1>2, WebStarts, WebStep, PTL DEF WebSpec, BodyAsAnnounced
-----------------------------------------------------------------------------
(***************************************************************************)
(* The web page                                                            *)
(***************************************************************************)

\* A state lies between the one that is shown and the board's.
Between(a) == /\ a.version \in Int /\ boardState.version <= a.version
              /\ a.version <= pin.version

\* At most one fetch is under way, and none without isUpdating (which stays
\* set when the fetch fails); what it brings is not older than what is shown.
OneFetch ==
    \/ asked = 0 /\ answers = {} /\ isUpdating \in BOOLEAN
    \/ asked = 1 /\ answers = {} /\ isUpdating = TRUE
    \/ asked = 0 /\ isUpdating = TRUE /\ \E a : answers = {a} /\ Between(a)

PageInv == /\ pin.version \in Int /\ boardState.version \in Int
           /\ boardState.version <= pin.version
           /\ OneFetch

\* refreshBoardState starts a fetch only if none is under way.
LEMMA RefreshIs ==
    ASSUME PageInv, RefreshBoardState, pin' = pin, boardState' = boardState,
           answers' = answers
    PROVE  PageInv'
<1>1. ASSUME NEW a, Between(a) PROVE Between(a)'
  BY <1>1 DEF Between
<1>2. CASE isUpdating
  <2>1. isUpdating' = isUpdating /\ asked' = asked
    BY <1>2 DEF RefreshBoardState
  <2> QED  BY <1>1, <2>1 DEF PageInv, OneFetch
<1>3. CASE ~isUpdating
  <2>1. isUpdating' = TRUE /\ asked' = asked + 1
    BY <1>3 DEF RefreshBoardState
  <2>2. asked = 0 /\ answers = {}
    BY <1>3 DEF PageInv, OneFetch
  <2> QED  BY <2>1, <2>2 DEF PageInv, OneFetch
<1> QED  BY <1>2, <1>3

\* What the board sets is newer than all that is under way.
LEMMA PinIsNewer ==
    ASSUME PageInv, NEW v, boardState' = boardState, asked' = asked,
           pin' = [value |-> v, version |-> pin.version + 1],
           isUpdating' = isUpdating, answers' = answers
    PROVE  PageInv'
<1>1. pin'.version = pin.version + 1
  OBVIOUS
<1>2. ASSUME NEW a, Between(a) PROVE Between(a)'
  BY <1>1, <1>2 DEF Between, PageInv
<1> QED  BY <1>1, <1>2 DEF PageInv, OneFetch

\* What arrives was asked for after what is shown.
LEMMA ArrivesIs ==
    ASSUME PageInv, StateArrives
    PROVE  PageInv' /\ boardState'.version >= boardState.version
<1>1. PICK a \in answers : answers' = answers \ {a} /\ boardState' = a
  BY DEF StateArrives
<1>2. asked = 0 /\ answers = {a} /\ Between(a)
  BY <1>1 DEF PageInv, OneFetch
<1>3. answers' = {} /\ asked' = asked /\ pin' = pin /\ isUpdating' = FALSE
  BY <1>1, <1>2 DEF StateArrives
<1> QED  BY <1>1, <1>2, <1>3 DEF PageInv, OneFetch, Between

\* Every step keeps what is under way between what is shown and what is, and
\* shows nothing older.
LEMMA PageStep ==
    PageInv /\ [PageNext]_pageVars
      => PageInv' /\ boardState'.version >= boardState.version
<1> SUFFICES ASSUME PageInv, [PageNext]_pageVars
             PROVE  PageInv' /\ boardState'.version >= boardState.version
  OBVIOUS
<1>0. ASSUME boardState' = boardState
      PROVE  boardState'.version >= boardState.version
  BY <1>0 DEF PageInv
<1>1. CASE PageLoads
  BY <1>0, <1>1, RefreshIs DEF PageLoads
<1>2. CASE Poll
  BY <1>0, <1>2, RefreshIs DEF Poll
<1>3. CASE BoardAnswers
  <2>1. asked > 0 /\ asked' = asked - 1 /\ answers' = answers \cup {pin}
        /\ pin' = pin /\ boardState' = boardState /\ isUpdating' = isUpdating
    BY <1>3 DEF BoardAnswers, shown
  <2>2. asked = 1 /\ answers = {} /\ isUpdating = TRUE
    BY <2>1 DEF PageInv, OneFetch
  <2>3. answers' = {pin} /\ asked' = 0 /\ isUpdating' = TRUE
    BY <2>1, <2>2
  <2>4. Between(pin)'
    BY <2>1 DEF PageInv, Between
  <2>5. OneFetch'
    BY <2>1, <2>3, <2>4 DEF OneFetch
  <2> QED  BY <1>0, <2>1, <2>5 DEF PageInv
<1>4. CASE StateArrives
  BY <1>4, ArrivesIs
<1>5. CASE FetchFails
  <2>1. pin' = pin /\ boardState' = boardState /\ isUpdating' = isUpdating
    BY <1>5 DEF FetchFails, shown
  <2>2. asked' = 0 /\ answers' = {}
    <3>1. CASE asked > 0 /\ asked' = asked - 1 /\ answers' = answers
      BY <3>1 DEF PageInv, OneFetch
    <3>2. CASE \E a \in answers : answers' = answers \ {a} /\ asked' = asked
      BY <3>2 DEF PageInv, OneFetch
    <3> QED  BY <1>5, <3>1, <3>2 DEF FetchFails
  <2>3. isUpdating \in BOOLEAN
    BY DEF PageInv, OneFetch
  <2> QED  BY <1>0, <2>1, <2>2, <2>3 DEF PageInv, OneFetch
<1>6. ASSUME UNCHANGED <<pin, shown, asked, answers>>
      PROVE  PageInv' /\ boardState'.version >= boardState.version
  <2>1. pin' = pin /\ boardState' = boardState /\ isUpdating' = isUpdating
        /\ asked' = asked /\ answers' = answers
    BY <1>6 DEF shown
  <2>2. ASSUME NEW a, Between(a) PROVE Between(a)'
    BY <2>1, <2>2 DEF Between
  <2> QED  BY <1>0, <2>1, <2>2 DEF PageInv, OneFetch
<1>7. CASE TogglePinValue
  BY <1>6, <1>7 DEF TogglePinValue
<1>8. ASSUME NEW v \in 0 .. 1, BoardSets(v)
      PROVE  PageInv' /\ boardState'.version >= boardState.version
  BY <1>0, <1>8, PinIsNewer DEF BoardSets, shown
<1>9. CASE ActionReturns
  BY <1>6, <1>9 DEF ActionReturns
<1>10. CASE OtherSets
  BY <1>0, <1>10, PinIsNewer DEF OtherSets, shown
<1>11. CASE UNCHANGED pageVars
  BY <1>6, <1>11 DEF pageVars
<1> QED  BY <1>1, <1>2, <1>3, <1>4, <1>5, <1>7, <1>8, <1>9, <1>10, <1>11
            DEF PageNext, BoardActs, Idle

(***************************************************************************)
(* The page never shows an older state after a newer one, however polls,   *)
(* actions and failing fetches come together: the safety part of           *)
(* PageFollowsBoard.                                                       *)
(***************************************************************************)
THEOREM PageNeverGoesBack == PageSpec => ShownNeverOlder
<1>1. PageInit => PageInv
  <2> SUFFICES ASSUME PageInit PROVE PageInv
    OBVIOUS
  <2>1. asked = 0 /\ answers = {} /\ isUpdating \in BOOLEAN
    BY DEF PageInit
  <2>2. pin.version = 0 /\ boardState.version = -1
    BY DEF PageInit, Nothing
  <2> QED  BY <2>1, <2>2 DEF PageInv, OneFetch
<1>2. PageInv /\ [PageNext]_pageVars
        => PageInv' /\ [boardState'.version >= boardState.version]_pageVars
  BY PageStep
<1> QED  BY <1>1, <1>2, PTL DEF PageSpec, ShownNeverOlder
-----------------------------------------------------------------------------
(***************************************************************************)
(* A socket's stream                                                       *)
(***************************************************************************)

\* The bytes lo + 1 .. lo + n.
Run(lo, n) == [i \in 1 .. n |-> lo + i]

\* Two runs, one after the other.
LEMMA RunsJoin ==
    ASSUME NEW lo \in Int, NEW a \in Nat, NEW b \in Nat
    PROVE  Run(lo, a) \o Run(lo + a, b) = Run(lo, a + b)
<1> DEFINE r == Run(lo, a)
           s == Run(lo + a, b)
           t == Run(lo, a + b)
<1>1. /\ r \in Seq(Int) /\ Len(r) = a /\ \A i \in 1 .. a : r[i] = lo + i
      /\ s \in Seq(Int) /\ Len(s) = b
      /\ \A i \in 1 .. b : s[i] = (lo + a) + i
      /\ t \in Seq(Int) /\ Len(t) = a + b
      /\ \A i \in 1 .. a + b : t[i] = lo + i
  BY DEF Run
<1> HIDE DEF r, s, t
<1> DEFINE u == r \o s
<1>2. Joined(u, Int, r, s, a, b)
  BY <1>1, ConcatFacts
<1> HIDE DEF u
<1>3. /\ u \in Seq(Int) /\ Len(u) = a + b
      /\ \A i \in 1 .. a : u[i] = r[i]
      /\ \A i \in 1 .. b : u[a + i] = s[i]
  BY <1>1, <1>2 DEF Joined
<1>4. ASSUME NEW i \in 1 .. Len(u) PROVE u[i] = t[i]
  <2>1. i \in Int /\ i \in 1 .. a + b
    BY <1>3
  <2>2. CASE i <= a
    <3>1. i \in 1 .. a
      BY <2>1, <2>2
    <3> QED  BY <1>1, <1>3, <2>1, <3>1
  <2>3. CASE ~(i <= a)
    <3> DEFINE j == i - a
    <3>1. j \in 1 .. b /\ i = a + j
      BY <2>1, <2>3
    <3> HIDE DEF j
    <3>2. u[i] = s[j] /\ s[j] = (lo + a) + j /\ t[i] = lo + i
      BY <1>1, <1>3, <2>1, <3>1
    <3> QED  BY <3>1, <3>2
  <2> QED  BY <2>2, <2>3
<1>5. u = t
  BY <1>1, <1>3, <1>4, SeqEqual
<1> QED  BY <1>5 DEF u, r, s, t

\* The pbufs p are runs that follow each other from `base' up to `top'; e
\* is where each of them ends.
Chained(p, e, base, top) ==
    /\ p \in Seq(Seq(Int)) /\ e \in [0 .. Len(p) -> Int]
    /\ e[0] = base /\ e[Len(p)] = top
    /\ \A j \in 1 .. Len(p) :
         e[j - 1] < e[j] /\ p[j] = Run(e[j - 1], e[j] - e[j - 1])

\* No end lies before the base.
LEMMA EndsAreAfter ==
    ASSUME NEW p, NEW e, NEW base, NEW top, Chained(p, e, base, top)
    PROVE  \A j \in 0 .. Len(p) : e[j] \in Int /\ base <= e[j]
<1> DEFINE m == Len(p)
           T == {j \in 0 .. m : ~(base <= e[j])}
<1>1. /\ m \in Nat /\ e[0] = base /\ \A j \in 0 .. m : e[j] \in Int
      /\ \A j \in 1 .. m : e[j - 1] < e[j]
  <2>1. /\ p \in Seq(Seq(Int)) /\ e \in [0 .. m -> Int] /\ e[0] = base
        /\ \A j \in 1 .. m : e[j - 1] < e[j]
    BY DEF Chained
  <2>2. m \in Nat
    BY <2>1
  <2> HIDE DEF m
  <2> QED  BY <2>1, <2>2
<1> HIDE DEF m
<1>2. ASSUME T # {} PROVE FALSE
  <2>1. T \in SUBSET Nat
    BY <1>1
  <2>2. PICK x \in T : \A y \in T : x <= y
    BY <1>2, <2>1, LeastNumber
  <2>3. x \in 0 .. m /\ ~(base <= e[x])
    BY <2>2
  <2>4. x # 0
    BY <1>1, <2>3
  <2>5. x \in 1 .. m /\ x - 1 \in 0 .. m /\ ~(x <= x - 1)
    BY <1>1, <2>3, <2>4
  <2>6. base <= e[x - 1]
    BY <2>2, <2>5
  <2>7. e[x - 1] < e[x] /\ e[x] \in Int /\ e[x - 1] \in Int /\ base \in Int
    BY <1>1, <2>5
  <2> QED  BY <2>3, <2>6, <2>7
<1>3. \A j \in 0 .. m : base <= e[j]
  BY <1>2
<1> QED  BY <1>1, <1>3 DEF m

\* What the recursive function inside FlattenSeq is.
Flattens(f, p) == f = [i \in 1 .. Len(p) |-> IF i = 1 THEN p[i]
                                             ELSE f[i - 1] \o p[i]]

\* FlattenSeq makes one run of them.
LEMMA FlattenIs ==
    ASSUME NEW p, NEW e, NEW base, NEW top, Chained(p, e, base, top)
    PROVE  FlattenSeq(p) = Run(base, top - base) /\ top - base \in Nat
<1> DEFINE m == Len(p)
           w == [i \in 1 .. m |-> Run(base, e[i] - base)]
<1>1. /\ m \in Nat /\ e[0] = base /\ e[m] = top /\ p \in Seq(Seq(Int))
      /\ \A j \in 1 .. m : p[j] = Run(e[j - 1], e[j] - e[j - 1])
      /\ \A j \in 1 .. m : e[j - 1] < e[j]
  BY DEF Chained
<1>2. \A j \in 0 .. m : e[j] \in Int /\ base <= e[j]
  BY EndsAreAfter
<1>3. base \in Int /\ top \in Int /\ top - base \in Nat
  BY <1>1, <1>2
<1>4. CASE m = 0
  <2>1. FlattenSeq(p) = p
    BY <1>4 DEF FlattenSeq
  <2>2. p = <<>>
    BY <1>1, <1>4
  <2>3. top - base = 0
    BY <1>1, <1>3, <1>4
  <2>4. Run(base, 0) = <<>>
    BY DEF Run
  <2> QED  BY <1>3, <2>1, <2>2, <2>3, <2>4
<1>5. CASE m # 0
  <2>0. m \in 1 .. m /\ 1 \in 1 .. m
    BY <1>1, <1>5
  <2>1. ASSUME NEW i \in 1 .. m, i # 1
        PROVE  Run(base, e[i - 1] - base) \o p[i] = Run(base, e[i] - base)
    <3> DEFINE a == e[i - 1] - base
               b == e[i] - e[i - 1]
    <3>1. i \in Int /\ i - 1 \in 0 .. m /\ i \in 0 .. m
      BY <1>1, <2>1
    <3>2. /\ e[i - 1] \in Int /\ e[i] \in Int /\ base <= e[i - 1]
          /\ e[i - 1] < e[i]
      BY <1>1, <1>2, <2>1, <3>1
    <3>3. a \in Nat /\ b \in Nat /\ base + a = e[i - 1]
          /\ a + b = e[i] - base
      BY <1>3, <3>2, SMTT(30)
    <3>4. p[i] = Run(e[i - 1], b)
      BY <1>1, <2>1
    <3> HIDE DEF a, b
    <3>5. Run(base, a) \o Run(base + a, b) = Run(base, a + b)
      BY <1>3, <3>3, RunsJoin
    <3>6. Run(base, a) \o p[i] = Run(base, e[i] - base)
      BY <3>3, <3>4, <3>5
    <3> QED  BY <3>6 DEF a
  <2>2. p[1] = Run(base, e[1] - base)
    <3>1. 1 - 1 = 0
      OBVIOUS
    <3>2. p[1] = Run(e[1 - 1], e[1] - e[1 - 1])
      BY <1>1, <2>0
    <3> QED  BY <1>1, <3>1, <3>2
  <2>3. Flattens(w, p)
    <3>1. ASSUME NEW i \in 1 .. m
          PROVE  w[i] = IF i = 1 THEN p[i] ELSE w[i - 1] \o p[i]
      <4>1. CASE i = 1
        BY <2>2, <4>1
      <4>2. CASE i # 1
        <5>1. i - 1 \in 1 .. m
          BY <1>1, <3>1, <4>2
        <5>2. w[i - 1] = Run(base, e[i - 1] - base)
              /\ w[i] = Run(base, e[i] - base)
          BY <3>1, <5>1
        <5> QED  BY <2>1, <4>2, <5>2
      <4> QED  BY <4>1, <4>2
    <3>2. w = [i \in 1 .. m |-> w[i]]
      OBVIOUS
    <3> HIDE DEF w
    <3>3. w = [i \in 1 .. m |-> IF i = 1 THEN p[i] ELSE w[i - 1] \o p[i]]
      BY <3>1, <3>2
    <3> QED  BY <3>3 DEF Flattens
  <2> DEFINE g == CHOOSE f : f = [i \in 1 .. Len(p) |-> IF i = 1 THEN p[i]
                                                   ELSE f[i - 1] \o p[i]]
  <2>4. FlattenSeq(p) = g[m]
    BY <1>5 DEF FlattenSeq
  <2>5. Flattens(g, p)
    <3>1. \E f : f = [i \in 1 .. Len(p) |-> IF i = 1 THEN p[i]
                                            ELSE f[i - 1] \o p[i]]
      BY <2>3 DEF Flattens
    <3> QED  BY <3>1 DEF Flattens
  <2> HIDE DEF g, w
  <2>6. \A i \in 1 .. m : g[i] = IF i = 1 THEN p[i] ELSE g[i - 1] \o p[i]
    BY <2>5 DEF Flattens
  <2> DEFINE T == {i \in 1 .. m : g[i] # Run(base, e[i] - base)}
  <2>7. ASSUME T # {} PROVE FALSE
    <3>1. T \in SUBSET Nat
      BY <1>1
    <3>2. PICK x \in T : \A y \in T : x <= y
      BY <2>7, <3>1, LeastNumber
    <3>3. x \in 1 .. m /\ g[x] # Run(base, e[x] - base)
      BY <3>2
    <3>4. x # 1
      BY <2>2, <2>6, <3>3
    <3>5. x - 1 \in 1 .. m /\ ~(x <= x - 1)
      BY <1>1, <3>3, <3>4
    <3>6. g[x - 1] = Run(base, e[x - 1] - base)
      BY <3>2, <3>5
    <3>7. g[x] = g[x - 1] \o p[x]
      BY <2>6, <3>3, <3>4
    <3> QED  BY <2>1, <3>3, <3>4, <3>6, <3>7
  <2>8. g[m] = Run(base, e[m] - base)
    BY <2>0, <2>7
  <2> QED  BY <1>1, <1>3, <2>4, <2>8
<1> QED  BY <1>4, <1>5
\* The chain of pbufs starts where the first byte of it was, and is part
\* read up to recv_offset.
StreamOK ==
    /\ in \in Nat /\ got \in Nat /\ recv_offset \in Nat
    /\ \E e : Chained(pbufs, e, got - recv_offset, in)
    /\ IF pbufs = <<>> THEN recv_offset = 0 ELSE recv_offset < Len(pbufs[1])

\* The chain after its first pbuf.
LEMMA ChainTail ==
    ASSUME NEW p, NEW e, NEW base, NEW top, Chained(p, e, base, top),
           p # <<>>
    PROVE  /\ e[1] \in Int /\ base < e[1] /\ e[1] <= top /\ base \in Int
           /\ Len(p[1]) = e[1] - base /\ top \in Int
           /\ \E d : Chained(Tail(p), d, e[1], top)
<1> DEFINE m == Len(p)
           q == Tail(p)
           d == [j \in 0 .. m - 1 |-> e[j + 1]]
<1>1. /\ p \in Seq(Seq(Int)) /\ e \in [0 .. m -> Int] /\ m \in Nat
      /\ e[0] = base /\ e[m] = top
      /\ \A j \in 1 .. m :
           e[j - 1] < e[j] /\ p[j] = Run(e[j - 1], e[j] - e[j - 1])
  BY DEF Chained
<1>2. m # 0
  BY <1>1
<1>3. /\ q \in Seq(Seq(Int)) /\ Len(q) = m - 1
      /\ \A j \in 1 .. m - 1 : q[j] = p[j + 1]
  BY <1>1
<1> HIDE DEF q, m
<1>4. 1 \in 1 .. m /\ 1 - 1 = 0 /\ 0 \in 0 .. m /\ 1 \in 0 .. m
      /\ m \in 0 .. m
  BY <1>1, <1>2
<1>5. e[1] \in Int /\ base \in Int /\ top \in Int /\ base < e[1]
      /\ p[1] = Run(base, e[1] - base)
  BY <1>1, <1>4
<1>6. Len(p[1]) = e[1] - base
  BY <1>5 DEF Run
<1>7. /\ d \in [0 .. m - 1 -> Int] /\ d[0] = e[1] /\ d[m - 1] = top
      /\ \A j \in 0 .. m - 1 : d[j] = e[j + 1]
  BY <1>1, <1>2
<1> HIDE DEF d
<1>8. ASSUME NEW j \in 1 .. m - 1
      PROVE  d[j - 1] < d[j] /\ q[j] = Run(d[j - 1], d[j] - d[j - 1])
  <2> DEFINE i == j + 1
  <2>1. /\ i \in 1 .. m /\ j \in 0 .. m - 1 /\ j - 1 \in 0 .. m - 1
        /\ i - 1 = j /\ (j - 1) + 1 = j
    BY <1>1
  <2>2. d[j - 1] = e[j] /\ d[j] = e[i] /\ q[j] = p[i]
    BY <1>3, <1>7, <2>1
  <2>3. e[i - 1] < e[i] /\ p[i] = Run(e[i - 1], e[i] - e[i - 1])
    BY <1>1, <2>1
  <2> HIDE DEF i
  <2> QED  BY <2>1, <2>2, <2>3
<1>9. Chained(q, d, e[1], top)
  BY <1>3, <1>7, <1>8 DEF Chained
<1>10. e[1] <= top
  <2>1. \A j \in 0 .. Len(q) : e[1] <= d[j]
    BY <1>9, EndsAreAfter
  <2>2. m - 1 \in 0 .. Len(q)
    BY <1>1, <1>2, <1>3
  <2> QED  BY <1>7, <2>1, <2>2
<1> QED  BY <1>5, <1>6, <1>9, <1>10 DEF q

\* What waits is then what StreamInOrder says.
LEMMA StreamShows ==
    ASSUME StreamOK
    PROVE  LET rest == FlattenSeq(pbufs)
           IN  SubSeq(rest, recv_offset + 1, Len(rest))
               = [i \in 1 .. in - got |-> got + i]
<1> DEFINE base == got - recv_offset
           m == in - base
           rest == FlattenSeq(pbufs)
<1>1. in \in Nat /\ got \in Nat /\ recv_offset \in Nat
  BY DEF StreamOK
<1>2. PICK e : Chained(pbufs, e, base, in)
  BY DEF StreamOK
<1>3. rest = Run(base, m) /\ m \in Nat
  BY <1>2, FlattenIs
<1>4. base \in Int /\ base + recv_offset = got /\ m - recv_offset = in - got
  BY <1>1
<1> HIDE DEF rest, base, m
<1>5. rest \in Seq(Int) /\ Len(rest) = m
      /\ \A i \in 1 .. m : rest[i] = base + i
  BY <1>3, <1>4 DEF Run
<1>a. recv_offset <= m
  <2>1. CASE pbufs = <<>>
    BY <1>3, <2>1 DEF StreamOK
  <2>2. CASE pbufs # <<>>
    <3>1. /\ e[1] \in Int /\ base < e[1] /\ e[1] <= in
          /\ Len(pbufs[1]) = e[1] - base
      BY <1>2, <2>2, ChainTail
    <3>2. recv_offset < Len(pbufs[1])
      BY <2>2 DEF StreamOK
    <3> QED  BY <1>1, <1>4, <3>1, <3>2 DEF m
  <2> QED  BY <2>1, <2>2
<1> DEFINE s == SubSeq(rest, recv_offset + 1, m)
<1>6. s = [i \in 1 .. (m - (recv_offset + 1) + 1)
             |-> rest[i + (recv_offset + 1) - 1]]
  <2> DEFINE b == recv_offset + 1
             c == m - b + 1
             u == [i \in 1 .. c |-> rest[i + b - 1]]
  <2>1. b \in 1 .. m + 1 /\ m \in Nat /\ b \in Nat /\ c \in Nat
    BY <1>1, <1>3, <1>a
  <2> HIDE DEF b, c
  <2>2. /\ SubSeq(rest, b, m) \in Seq(Int) /\ Len(SubSeq(rest, b, m)) = c
        /\ \A i \in 1 .. c : SubSeq(rest, b, m)[i] = rest[b + i - 1]
    BY <1>5, <2>1 DEF c
  <2>3. \A i \in 1 .. c : i + b - 1 \in 1 .. m /\ b + i - 1 = i + b - 1
    BY <2>1 DEF c
  <2>4. /\ u \in Seq(Int) /\ Len(u) = c
        /\ \A i \in 1 .. c : u[i] = rest[i + b - 1]
    <3>1. \A i \in 1 .. c : rest[i + b - 1] \in Int
      BY <1>5, <2>3
    <3>2. u \in [1 .. c -> Int] /\ \A i \in 1 .. c : u[i] = rest[i + b - 1]
      BY <3>1
    <3> HIDE DEF u
    <3> QED  BY <2>1, <3>2
  <2> HIDE DEF u
  <2> DEFINE v == SubSeq(rest, b, m)
  <2>5. v \in Seq(Int) /\ Len(v) = c /\ \A i \in 1 .. Len(v) : v[i] = u[i]
    BY <2>2, <2>3, <2>4
  <2> HIDE DEF v
  <2>6. v = u
    BY <2>4, <2>5, SeqEqual
  <2> QED  BY <2>6 DEF u, v, b, c
<1> HIDE DEF s
<1>7. m - (recv_offset + 1) + 1 = in - got
  BY <1>1, <1>3, <1>4
<1>8. ASSUME NEW i \in 1 .. in - got
      PROVE  rest[i + (recv_offset + 1) - 1] = got + i
  <2> DEFINE j == i + (recv_offset + 1) - 1
  <2>1. j \in 1 .. m /\ base + j = got + i
    BY <1>1, <1>3, <1>4
  <2> HIDE DEF j
  <2>2. rest[j] = got + i
    BY <1>5, <2>1
  <2> QED  BY <2>2 DEF j
<1>9. s = [i \in 1 .. in - got |-> got + i]
  BY <1>6, <1>7, <1>8
<1> QED  BY <1>5, <1>9 DEF s, rest

\* A pbuf comes.
LEMMA DataIs == ASSUME StreamOK, NEW n \in 1 .. 2, Data(n) PROVE StreamOK'
<1> DEFINE m == Len(pbufs)
           base == got - recv_offset
           r == Run(in, n)
           q == Append(pbufs, r)
<1>1. in \in Nat /\ got \in Nat /\ recv_offset \in Nat
  BY DEF StreamOK
<1>2. PICK e : Chained(pbufs, e, base, in)
  BY DEF StreamOK
<1>3. /\ pbufs \in Seq(Seq(Int)) /\ e \in [0 .. m -> Int] /\ m \in Nat
      /\ e[0] = base /\ e[m] = in
      /\ \A j \in 1 .. m :
           e[j - 1] < e[j] /\ pbufs[j] = Run(e[j - 1], e[j] - e[j - 1])
  BY <1>2 DEF Chained
<1>4. r \in Seq(Int) /\ Len(r) = n
  BY <1>1 DEF Run
<1>5. in' = in + n /\ got' = got /\ recv_offset' = recv_offset /\ pbufs' = q
  BY DEF Data, Run
<1> HIDE DEF r
<1>6. /\ q \in Seq(Seq(Int)) /\ Len(q) = m + 1 /\ q[m + 1] = r
      /\ \A j \in 1 .. m : q[j] = pbufs[j]
  BY <1>3, <1>4, AppendIs
<1> DEFINE t == in + n
           d == [j \in 0 .. m + 1 |-> IF j <= m THEN e[j] ELSE t]
<1>7. t \in Int /\ in < t /\ n = t - in /\ t \in Nat
  BY <1>1
<1> HIDE DEF m, q, base, t
<1>8. /\ d \in [0 .. m + 1 -> Int] /\ d[m + 1] = t
      /\ \A j \in 0 .. m : d[j] = e[j]
  BY <1>3, <1>7
<1> HIDE DEF d
<1>9. ASSUME NEW j \in 1 .. m + 1
      PROVE  d[j - 1] < d[j] /\ q[j] = Run(d[j - 1], d[j] - d[j - 1])
  <2>1. CASE j <= m
    <3>1. j \in 1 .. m /\ j \in 0 .. m /\ j - 1 \in 0 .. m
      BY <1>3, <1>9, <2>1
    <3>2. d[j - 1] = e[j - 1] /\ d[j] = e[j] /\ q[j] = pbufs[j]
      BY <1>6, <1>8, <3>1
    <3> QED  BY <1>3, <3>1, <3>2
  <2>2. CASE ~(j <= m)
    <3>1. j = m + 1 /\ j - 1 = m /\ m \in 0 .. m
      BY <1>3, <1>9, <2>2
    <3>2. d[j - 1] = in /\ d[j] = t /\ q[j] = r
      BY <1>3, <1>6, <1>8, <3>1
    <3>3. r = Run(in, t - in)
      BY <1>7 DEF r
    <3> QED  BY <1>7, <3>2, <3>3
  <2> QED  BY <2>1, <2>2
<1>10. d[0] = base
  BY <1>3, <1>8
<1>11. Chained(q, d, base, t)
  BY <1>6, <1>8, <1>9, <1>10 DEF Chained
<1>12. got' - recv_offset' = base /\ in' = t
  BY <1>5 DEF base, t
<1>13. \E x : Chained(pbufs', x, got' - recv_offset', in')
  BY <1>5, <1>11, <1>12
<1>14. /\ pbufs' # <<>> /\ recv_offset' < Len(pbufs'[1])
  <2>1. CASE m = 0
    <3>1. pbufs = <<>>
      BY <1>3, <2>1 DEF m
    <3>2. recv_offset = 0
      BY <3>1 DEF StreamOK
    <3>3. q[1] = r /\ Len(q) = 1
      BY <1>3, <1>6, <2>1
    <3>4. Len(pbufs'[1]) = n /\ pbufs' # <<>> /\ recv_offset' = 0
      BY <1>4, <1>5, <3>2, <3>3
    <3> QED  BY <3>4
  <2>2. CASE m # 0
    <3>1. 1 \in 1 .. m /\ Len(q) # 0
      BY <1>3, <1>6, <2>2
    <3>2. pbufs # <<>>
      BY <1>3, <2>2 DEF m
    <3>3. recv_offset < Len(pbufs[1])
      BY <3>2 DEF StreamOK
    <3>4. q[1] = pbufs[1] /\ q # <<>>
      BY <1>6, <3>1
    <3> QED  BY <1>5, <3>3, <3>4
  <2> QED  BY <2>1, <2>2
<1> QED  BY <1>1, <1>5, <1>7, <1>12, <1>13, <1>14 DEF StreamOK
\* Part of the first pbuf is read, or all of it.
LEMMA CopiesIs ==
    ASSUME StreamOK, NEW len \in 1 .. 2, RecvCopies(len), pcb
    PROVE  StreamOK'
<1> DEFINE base == got - recv_offset
           left == Len(pbufs[1]) - recv_offset
           n == IF len > left THEN left ELSE len
<1>1. in \in Nat /\ got \in Nat /\ recv_offset \in Nat /\ in' = in
  BY DEF StreamOK, RecvCopies
<1>2. CASE pbufs = <<>>
  <2>1. got' = got /\ pbufs' = pbufs /\ recv_offset' = recv_offset
    BY <1>2 DEF RecvCopies
  <2> QED  BY <1>1, <2>1 DEF StreamOK
<1>3. CASE pbufs # <<>>
  <2>1. PICK e : Chained(pbufs, e, base, in)
    BY DEF StreamOK
  <2>2. /\ e[1] \in Int /\ base < e[1] /\ e[1] <= in /\ base \in Int
        /\ Len(pbufs[1]) = e[1] - base
        /\ \E d : Chained(Tail(pbufs), d, e[1], in)
    BY <1>3, <2>1, ChainTail
  <2>3. recv_offset < Len(pbufs[1])
    BY <1>3 DEF StreamOK
  <2>4. /\ got' = got + n
        /\ IF n = left THEN pbufs' = Tail(pbufs) /\ recv_offset' = 0
           ELSE recv_offset' = recv_offset + n /\ pbufs' = pbufs
    BY <1>3 DEF RecvCopies
  <2>5. left \in Nat \ {0} /\ left = e[1] - got
    BY <1>1, <2>2, <2>3
  <2> HIDE DEF left
  <2>6. n \in Nat /\ n <= left /\ n # 0
    BY <2>5
  <2> HIDE DEF n
  <2>7. CASE n = left
    <3>0. got \in Nat /\ got + n = e[1] /\ e[1] \in Nat
      BY <1>1, <2>2, <2>5, <2>7
    <3>1. got' = e[1] /\ pbufs' = Tail(pbufs) /\ recv_offset' = 0
          /\ got' \in Nat
      BY <3>0, <2>4, <2>7
    <3>2. got' - recv_offset' = e[1]
      BY <2>2, <3>1
    <3>3. \E d : Chained(pbufs', d, got' - recv_offset', in')
      BY <1>1, <2>2, <3>1, <3>2
    <3>4. IF pbufs' = <<>> THEN recv_offset' = 0
          ELSE recv_offset' < Len(pbufs'[1])
      <4>1. CASE pbufs' = <<>>
        BY <3>1, <4>1
      <4>2. CASE pbufs' # <<>>
        <5>1. PICK d : Chained(pbufs', d, got' - recv_offset', in')
          BY <3>3
        <5> DEFINE bs == got' - recv_offset'
                   q == pbufs'
                   t == in'
        <5>2. Chained(q, d, bs, t) /\ q # <<>>
          BY <4>2, <5>1
        <5> HIDE DEF bs, q, t
        <5>3. d[1] \in Int /\ bs < d[1] /\ bs \in Int
              /\ Len(q[1]) = d[1] - bs
          BY <5>2, ChainTail
        <5>4. Len(q[1]) > 0
          BY <5>3
        <5> QED  BY <3>1, <4>2, <5>4 DEF q
      <4> QED  BY <4>1, <4>2
    <3> QED  BY <1>1, <3>1, <3>3, <3>4 DEF StreamOK
  <2>8. CASE n # left
    <3>1. got' = got + n /\ pbufs' = pbufs /\ recv_offset' = recv_offset + n
      BY <2>4, <2>8
    <3>2. got' - recv_offset' = base /\ got' \in Nat /\ recv_offset' \in Nat
      BY <1>1, <2>6, <3>1
    <3>3. recv_offset' < Len(pbufs[1])
      <4>1. left = Len(pbufs[1]) - recv_offset /\ Len(pbufs[1]) \in Int
        BY <2>2 DEF left
      <4> QED  BY <1>1, <2>5, <2>6, <2>8, <3>1, <4>1
    <3>4. Chained(pbufs', e, got' - recv_offset', in')
      BY <1>1, <2>1, <3>1, <3>2
    <3> QED  BY <1>1, <1>3, <3>1, <3>2, <3>3, <3>4 DEF StreamOK
  <2> QED  BY <2>7, <2>8
<1> QED  BY <1>2, <1>3

\* The stream is in order as long as the pcb lives, and a blocking read has
\* seen the end only if nothing is left and nothing more can come.
Over == {"peer_closed", "error", "badf"}

SocketInv ==
    /\ pcb => StreamOK
    /\ caller = "recv_now" => timeout = "zero"
    /\ result = "eof" /\ timeout # "zero" => pbufs = <<>> /\ state \in Over

\* Every callback and every step of the thread keeps this, and a step that
\* ends a call with "eof" finds no data.
LEMMA SocketStep ==
    SocketInv /\ [SocketNext]_socketVars
      => SocketInv' /\ (result' = "eof" /\ caller' # caller
                          /\ timeout # "zero" => pbufs = <<>>)
<1> SUFFICES ASSUME SocketInv, [SocketNext]_socketVars
             PROVE  SocketInv' /\ (result' = "eof" /\ caller' # caller
                                     /\ timeout # "zero" => pbufs = <<>>)
  OBVIOUS
<1> DEFINE AtEof == result' = "eof" /\ timeout # "zero"
                     => pbufs = <<>> /\ pbufs' = <<>> /\ state' \in Over
           Looks == timeout' = timeout
                    /\ (caller' = "recv_now" => timeout = "zero")
<1>1. ASSUME pcb' => StreamOK', AtEof, Looks
      PROVE  SocketInv' /\ (result' = "eof" /\ caller' # caller
                              /\ timeout # "zero" => pbufs = <<>>)
  BY <1>1 DEF SocketInv
<1>2. ASSUME pbufs' = pbufs, recv_offset' = recv_offset, in' = in,
             got' = got, pcb' = pcb
      PROVE  pcb' => StreamOK'
  BY <1>2 DEF SocketInv, StreamOK
<1>3. ASSUME ~pcb' PROVE pcb' => StreamOK'
  BY <1>3
<1>4. CASE Callbacks
  <2>1. ASSUME NEW n \in 1 .. 2, Data(n)
        PROVE  (pcb' => StreamOK') /\ AtEof /\ Looks
    <3>1. StreamOK'
      BY <2>1, DataIs DEF Data, SocketInv
    <3>2. AtEof /\ Looks
      BY <2>1 DEF Data, SocketInv, Over
    <3> QED  BY <3>1, <3>2
  <2>2. CASE PeerCloses
    <3>1. pcb' => StreamOK'
      BY <1>2, <2>2 DEF PeerCloses, flow
    <3>2. AtEof /\ Looks
      BY <2>2 DEF PeerCloses, SocketInv, Over
    <3> QED  BY <1>1, <3>1, <3>2
  <2>3. CASE Connected
    <3>1. pcb' => StreamOK'
      BY <1>2, <2>3 DEF Connected, flow
    <3>2. AtEof /\ Looks
      BY <2>3 DEF Connected, SocketInv, Over
    <3> QED  BY <1>1, <3>1, <3>2
  <2>4. CASE Error
    <3>1. pcb' => StreamOK'
      BY <2>4 DEF Error
    <3>2. AtEof /\ Looks
      BY <2>4 DEF Error, SocketInv, Over
    <3> QED  BY <1>1, <3>1, <3>2
  <2>5. CASE Acked
    <3>1. pcb' => StreamOK'
      BY <1>2, <2>5 DEF Acked, flow
    <3>2. AtEof /\ Looks
      BY <2>5 DEF Acked, SocketInv, Over
    <3> QED  BY <1>1, <3>1, <3>2
  <2> QED  BY <1>1, <1>4, <2>1, <2>2, <2>3, <2>4, <2>5
              DEF Callbacks, Receives
<1>5. CASE Connecting
  <2>1. pcb' => StreamOK'
    <3>1. pbufs' = pbufs /\ recv_offset' = recv_offset /\ in' = in
          /\ got' = got /\ pcb' = pcb
      BY <1>5 DEF Connecting, ConnectSocket, ConnectEnds, ConnectTimesOut,
                  sock, flow
    <3> QED  BY <1>2, <3>1
  <2>2. CASE ConnectSocket
    <3>1. timeout' = timeout /\ pbufs' = pbufs
          /\ \/ caller' = "connect" /\ result' = result
             \/ caller' = "idle" /\ result' = "error"
      BY <2>2 DEF ConnectSocket, GoesTo, Return
    <3>2. state = "new" /\ state' \in {"new", "connecting"}
      BY <2>2 DEF ConnectSocket
    <3>3. AtEof /\ Looks
      BY <3>1, <3>2 DEF SocketInv, Over
    <3> QED  BY <1>1, <2>1, <3>3
  <2>3. CASE ConnectEnds
    <3>1. caller' = "idle" /\ timeout' = timeout
          /\ result' \in {"connected", "error", "index"}
      BY <2>3 DEF ConnectEnds, Return, sock, HasFailed
    <3> QED  BY <1>1, <2>1, <3>1
  <2>4. CASE ConnectTimesOut
    <3>1. AtEof /\ Looks
      BY <2>4 DEF ConnectTimesOut, Return, sock
    <3> QED  BY <1>1, <2>1, <3>1
  <2> QED  BY <1>5, <2>2, <2>3, <2>4 DEF Connecting
<1>6. CASE RecvChecks
  <2>1. pcb' => StreamOK'
    BY <1>2, <1>6 DEF RecvChecks, flow
  <2>2. AtEof /\ Looks
    BY <1>6 DEF RecvChecks, Return, GoesTo, HasFailed, SocketInv, Over
  <2> QED  BY <1>1, <2>1, <2>2
<1>7. CASE Receiving
  <2>1. ASSUME UNCHANGED <<sock, tries, flow>>
        PROVE  (pcb' => StreamOK') /\ timeout' = timeout /\ pbufs' = pbufs
               /\ state' = state
    BY <1>2, <2>1 DEF sock, flow
  <2>2. CASE RecvTests
    <3>1. AtEof /\ Looks
      BY <2>1, <2>2 DEF RecvTests, GoesTo, SocketInv
    <3> QED  BY <1>1, <2>1, <2>2, <3>1 DEF RecvTests
  <2>3. CASE RecvNow
    <3>1. AtEof /\ Looks
      BY <2>1, <2>3 DEF RecvNow, Return, SocketInv
    <3> QED  BY <1>1, <2>1, <2>3, <3>1 DEF RecvNow
  <2>4. CASE RecvWaits
    <3>1. AtEof /\ Looks
      BY <2>1, <2>4 DEF RecvWaits, GoesTo, SocketInv
    <3> QED  BY <1>1, <2>1, <2>4, <3>1 DEF RecvWaits
  <2>5. CASE RecvTimesOut
    <3>1. AtEof /\ Looks
      BY <2>1, <2>5 DEF RecvTimesOut, Return, SocketInv
    <3> QED  BY <1>1, <2>1, <2>5, <3>1 DEF RecvTimesOut
  <2>6. CASE RecvEnds
    <3>1. AtEof /\ Looks
      BY <2>1, <2>6 DEF RecvEnds, Return, GoesTo, SocketInv, Over
    <3> QED  BY <1>1, <2>1, <2>6, <3>1 DEF RecvEnds
  <2>7. ASSUME NEW len \in 1 .. 2, RecvCopies(len)
        PROVE  (pcb' => StreamOK') /\ AtEof /\ Looks
    <3>1. pcb' = pcb /\ timeout' = timeout /\ state' = state
      BY <2>7 DEF RecvCopies
    <3>2. pcb => StreamOK'
      BY <2>7, CopiesIs DEF SocketInv
    <3>3. \/ result' = "data" /\ caller' = "idle"
          \/ result' = result /\ caller' = "crashed" /\ pbufs' = pbufs
      BY <2>7 DEF RecvCopies, Return, Faults
    <3> QED  BY <3>1, <3>2, <3>3 DEF SocketInv
  <2> QED  BY <1>1, <1>7, <2>2, <2>3, <2>4, <2>5, <2>6, <2>7
              DEF Receiving, Copies
<1>8. CASE SendChecks
  <2>1. pcb' => StreamOK'
    BY <1>2, <1>8 DEF SendChecks, flow
  <2>2. AtEof /\ Looks
    BY <1>8 DEF SendChecks, Return, GoesTo, HasFailed, SocketInv, Over
  <2> QED  BY <1>1, <2>1, <2>2
<1>9. CASE Sending
  <2>1. pcb' => StreamOK'
    <3>1. pbufs' = pbufs /\ recv_offset' = recv_offset /\ in' = in
          /\ got' = got /\ pcb' = pcb
      BY <1>9 DEF Sending, SendLooks, SendWaits, SendTimesOut, SendWrites,
                  sock, flow
    <3> QED  BY <1>2, <3>1
  <2>2. timeout' = timeout /\ state' = state /\ pbufs' = pbufs
    BY <1>9 DEF Sending, SendLooks, SendWaits, SendTimesOut, SendWrites, sock
  <2>3. caller' # "recv_now" /\ (result' = result \/ result' # "eof")
    BY <1>9 DEF Sending, SendLooks, SendWaits, SendTimesOut, SendWrites,
                GoesTo, Return, Faults
  <2> QED  BY <1>1, <2>1, <2>2, <2>3 DEF SocketInv
<1>10. CASE Close
  <2>1. AtEof /\ Looks
    BY <1>10 DEF Close, SocketInv, Over
  <2>2. ~pcb'
    BY <1>10 DEF Close
  <2> QED  BY <1>1, <1>3, <2>1, <2>2
<1>11. CASE UNCHANGED socketVars
  <2>1. pcb' => StreamOK'
    BY <1>2, <1>11 DEF socketVars, sock, flow
  <2>2. AtEof /\ Looks
    BY <1>11 DEF socketVars, sock, SocketInv
  <2> QED  BY <1>1, <2>1, <2>2
<1> QED  BY <1>4, <1>5, <1>6, <1>7, <1>8, <1>9, <1>10, <1>11
            DEF SocketNext, Other

\* A new socket's stream is empty.
LEMMA SocketStarts == SocketInit => SocketInv
<1> SUFFICES ASSUME SocketInit PROVE SocketInv
  OBVIOUS
<1>1. pbufs = <<>> /\ recv_offset = 0 /\ in = 0 /\ got = 0
      /\ caller = "idle" /\ result = "none"
  BY DEF SocketInit
<1> DEFINE e == [j \in 0 .. 0 |-> 0]
           z == <<>>
<1>2. z \in Seq(Seq(Int)) /\ Len(z) = 0 /\ e \in [0 .. 0 -> Int]
      /\ e[0] = 0 /\ 1 .. 0 = {}
  OBVIOUS
<1>3. Chained(z, e, 0, 0)
  BY <1>2 DEF Chained
<1>4. got - recv_offset = 0
  BY <1>1
<1>5. \E x : Chained(pbufs, x, got - recv_offset, in)
  BY <1>1, <1>3, <1>4
<1>6. StreamOK
  BY <1>1, <1>5 DEF StreamOK
<1> QED  BY <1>1, <1>6 DEF SocketInv

(***************************************************************************)
(* Whatever pbufs come and whatever lengths are asked for, the bytes that  *)
(* wait are the next ones of the stream in order, and a blocking read that *)
(* reports the end has read all of it: the safety part of                  *)
(* StreamIsDelivered.                                                      *)
(***************************************************************************)
THEOREM StreamStaysInOrder ==
    SocketSpec => []StreamInOrder /\ EofAfterData
<1>1. SocketInv => StreamInOrder
  BY StreamShows DEF SocketInv, StreamInOrder
<1>2. SocketInv /\ [SocketNext]_socketVars
        => SocketInv' /\ [result' = "eof" /\ caller' # caller
                            /\ timeout # "zero" => pbufs = <<>>]_socketVars
  BY SocketStep
<1> QED
  BY <1>1, <1>2, SocketStarts, PTL DEF SocketSpec, EofAfterData
-----------------------------------------------------------------------------
(***************************************************************************)
(* wait_for: its inductive invariant                                       *)
(***************************************************************************)

\* The two tasks of the last call, and what is, or will be, thrown into W.
Reader == Aw(call)
Teller == Runner(call)
Pending == IF cur = W THEN exc ELSE k.data[W]

\* A task has ended and will not run again; the reader is told to stop.
Gone(t) == IsDone(k, t) /\ ~Queued(k, t)
Stopped == k.data[Reader] = Cancelled \/ (cur = Reader /\ exc = Cancelled)

\* The numbers, and the loop with its order.
WaitForTypes == /\ now \in Nat /\ call \in 0 .. Calls
                /\ waiter \in {"idle", "sleep", "await"}
                /\ outcome \in {"none", "result", "exception", "cancelled",
                                "timeout"}
Orderly == LoopOK(k, {t \in Tasks : t = cur}) /\ InOrder(k)

\* What runs is due, and has nothing left to be thrown into it.
RunningIsDue == cur # NoTask =>
    cur \in Tasks /\ Live(k, cur) /\ k.key[cur] <= now /\ k.data[cur] = None

\* Who awaits whom.
Links == \A t, u \in Tasks : k.data[t] = OnTask(u) =>
            \/ t = W /\ u = Teller /\ waiter = "await"
            \/ t = Teller /\ u = Reader

\* The call has been made and its runner has not run: it is in front of W.
Fresh == /\ k.state[Reader] = "running" /\ k.data[Reader] \in {None, OnIo}
         /\ k.state[Teller] = "running" /\ k.data[Teller] = None
         /\ cur \in {Reader, Teller} => exc = None
         /\ waiter = "sleep" /\ Queued(k, W) /\ k.key[Teller] <= now
         /\ Queued(k, Teller) => Before(k, Teller, W)
         /\ k.data[W] \in {None, Cancelled}

\* The runner awaits the reader.
Reading == /\ k.state[Reader] = "queue"
           /\ k.data[Reader] \in {None, OnIo, Cancelled}
           /\ Live(k, Teller) /\ k.data[Teller] = OnTask(Reader)
           /\ waiter # "sleep" => Stopped
           /\ waiter = "await" => k.data[W] = OnTask(Teller)
           /\ waiter = "sleep" => Pending \in {None, Cancelled}

\* The reader has ended and the runner has not told it yet.  If it was in
\* time, the runner is in front of W.
Woken == /\ Gone(Reader) /\ Live(k, Teller)
         /\ k.data[Teller] \in {None, Cancelled}
         /\ waiter = "await" => k.data[W] = OnTask(Teller)
         /\ waiter = "sleep" => Pending \in {None, Cancelled}
         /\ k.data[Reader] = Ended("return") /\ ~late =>
              /\ waiter # "await"
              /\ (waiter = "sleep" /\ Pending = None
                    => cur = Teller \/ Before(k, Teller, W))

\* Both have ended.
Finished == /\ Gone(Reader) /\ Gone(Teller)
            /\ k.data[Teller] = Ended("return")
            /\ waiter = "sleep" => Pending # None
            /\ waiter = "sleep" /\ Pending = CancelledWith("result") =>
                  k.data[Reader] = Ended("return")
            /\ waiter = "await" => k.data[W] # OnTask(Teller)
            /\ outcome = "result" => k.data[Reader] = Ended("return")
            /\ waiter = "await" \/ outcome = "timeout" =>
                  (k.data[Reader] = Ended("return") => late)

\* Where the last call is.
Phase == \/ outcome = "none" /\ Fresh
         \/ outcome \in {"none", "cancelled"} /\ (Reading \/ Woken)
         \/ Finished

CallOK == /\ waiter = "idle" <=> outcome # "none" \/ call = 0
          /\ call = 0 => outcome = "none" /\ ~told
          /\ told => \/ outcome = "cancelled"
                     \/ waiter = "sleep" /\ Pending = Cancelled
          /\ call # 0 => Phase

\* The tasks of the other calls.
OthersOK == \A i \in 1 .. Calls :
    /\ i > call => k.state[Aw(i)] = "new" /\ k.state[Runner(i)] = "new"
    /\ i < call => Gone(Aw(i)) /\ Gone(Runner(i))

\* The tasks that are there from the start.
WaiterOK ==
    /\ k.state[W] = "running" \/ (Gone(W) /\ waiter = "idle")
    /\ k.state[X] = "running" \/ Gone(X)
    /\ k.data[W].kind # "io" /\ k.data[X].kind \in {"none", "ended"}
    /\ exc \in Contents /\ exc.kind \in {"none", "cancelled", "status"}

WaitForInv == /\ WaitForTypes /\ Orderly /\ RunningIsDue /\ Links
              /\ CallOK /\ OthersOK /\ WaiterOK

\* The tasks are different ones.
LEMMA TaskNames ==
    /\ W \in Tasks /\ X \in Tasks /\ W # X /\ NoTask \notin Tasks
    /\ \A i \in 1 .. Calls : Aw(i) \in Tasks /\ Runner(i) \in Tasks
    /\ \A i, j : /\ Aw(i) # Runner(j) /\ Aw(i) \notin {W, X, NoTask}
                 /\ Runner(i) \notin {W, X, NoTask}
                 /\ Aw(i) = Aw(j) => i = j
                 /\ Runner(i) = Runner(j) => i = j
    /\ \A t \in Tasks : t \in {W, X} \/ \E i \in 1 .. Calls :
                                            t = Aw(i) \/ t = Runner(i)
<1>1. Tasks = {W, X} \cup {Aw(i) : i \in 1 .. Calls}
                     \cup {Runner(i) : i \in 1 .. Calls}
  BY WaitForAssumption
<1>2. \A i, j : /\ Aw(i) # Runner(j) /\ Aw(i) \notin {W, X, NoTask}
                /\ Runner(i) \notin {W, X, NoTask}
                /\ Aw(i) = Aw(j) => i = j
                /\ Runner(i) = Runner(j) => i = j
  BY DEF Aw, Runner, W, X, NoTask
<1>3. W # X /\ W # NoTask /\ X # NoTask
  BY DEF W, X, NoTask
<1>4. \A t \in Tasks : t \in {W, X} \/ \E i \in 1 .. Calls :
                                        t = Aw(i) \/ t = Runner(i)
  BY <1>1, Zenon
<1>5. W \in Tasks /\ X \in Tasks /\ NoTask \notin Tasks
  BY <1>1, <1>2, <1>3
<1>6. \A i \in 1 .. Calls : Aw(i) \in Tasks /\ Runner(i) \in Tasks
  BY <1>1
<1> QED  BY <1>2, <1>3, <1>4, <1>5, <1>6

\* The ways to end are different.
LEMMA EndsDiffer ==
    /\ Ended("return") # Ended("cancelled")
    /\ Ended("return") # Ended("exception")
    /\ \A how : Ended(how).kind = "ended"
    /\ \A status : /\ CancelledWith(status).kind = "status"
                   /\ CancelledWith(status).status = status
<1>1. \A how : Ended(how).how = how /\ Ended(how).kind = "ended"
  BY DEF Ended
<1> QED  BY <1>1 DEF CancelledWith

\* Only the four tasks that are going on may run or wait for the stream.
LEMMA WhoGoesOn ==
    ASSUME WaitForInv
    PROVE  /\ \A i \in 1 .. Calls :
                 /\ Live(k, Aw(i)) \/ Live(k, Runner(i)) => i = call
                 /\ k.data[Aw(i)] = OnIo => i = call /\ Live(k, Aw(i))
           /\ \A t \in Tasks : Queued(k, t) => Live(k, t)
           /\ call # 0 => /\ call \in 1 .. Calls
                          /\ Reader \in Tasks /\ Teller \in Tasks
           /\ k \in LoopRecords
           /\ \A t \in Tasks : DataOK(k, t, t = cur)
<1>1. /\ k \in LoopRecords
      /\ \A t \in Tasks : DataOK(k, t, t \in {u \in Tasks : u = cur})
  BY DEF WaitForInv, Orderly, LoopOK
<1>2. \A t \in Tasks : DataOK(k, t, t = cur)
  <2> SUFFICES ASSUME NEW t \in Tasks PROVE DataOK(k, t, t = cur)
    OBVIOUS
  <2>1. DataOK(k, t, t \in {u \in Tasks : u = cur})
    BY <1>1
  <2>2. t \in {u \in Tasks : u = cur} <=> t = cur
    OBVIOUS
  <2> QED  BY <2>1, <2>2, Zenon DEF DataOK
<1>3. call # 0 => call \in 1 .. Calls /\ Reader \in Tasks /\ Teller \in Tasks
  <2>1. call # 0 => call \in 1 .. Calls
    BY WaitForAssumption DEF WaitForInv, WaitForTypes
  <2> QED  BY <2>1, TaskNames DEF Reader, Teller
<1>4. ASSUME NEW i \in 1 .. Calls, i # call
      PROVE  /\ ~Live(k, Aw(i)) /\ ~Live(k, Runner(i))
             /\ k.data[Aw(i)] # OnIo
             /\ ~Queued(k, Aw(i)) /\ ~Queued(k, Runner(i))
  <2>1. Aw(i) \in Tasks /\ Runner(i) \in Tasks
    BY TaskNames
  <2>2. CASE i > call
    BY <1>2, <2>1, <2>2, ContentsFacts
       DEF WaitForInv, OthersOK, DataOK, Live
  <2>3. CASE i < call
    <3>1. Gone(Aw(i)) /\ Gone(Runner(i))
      BY <2>3 DEF WaitForInv, OthersOK
    <3> QED
      BY <1>2, <2>1, <3>1, ContentsFacts DEF DataOK, Live, Gone, IsDone
  <2>4. call \in Nat /\ i \in Nat
    BY WaitForAssumption DEF WaitForInv, WaitForTypes
  <2> QED  BY <1>4, <2>2, <2>3, <2>4
<1>5. call # 0 => /\ Live(k, Reader) \/ Gone(Reader)
                  /\ Live(k, Teller) \/ Gone(Teller)
  BY DEF WaitForInv, CallOK, Phase, Fresh, Reading, Woken, Finished, Live
<1>6. ASSUME NEW t \in Tasks, Queued(k, t) PROVE Live(k, t)
  <2>1. CASE t \in {W, X}
    BY <1>6, <2>1 DEF WaitForInv, WaiterOK, Gone, Live
  <2>2. ASSUME NEW i \in 1 .. Calls, t = Aw(i) \/ t = Runner(i)
        PROVE  Live(k, t)
    <3>1. i = call
      BY <1>4, <1>6, <2>2
    <3>2. call # 0
      BY <3>1, WaitForAssumption
    <3> QED  BY <1>5, <1>6, <2>2, <3>1, <3>2 DEF Gone, Reader, Teller
  <2> QED  BY <2>1, <2>2, TaskNames
<1>7. ASSUME NEW i \in 1 .. Calls, k.data[Aw(i)] = OnIo
      PROVE  i = call /\ Live(k, Aw(i))
  <2>1. i = call /\ call # 0
    BY <1>4, <1>7, WaitForAssumption
  <2>2. ~IsDone(k, Reader)
    BY <1>2, <1>3, <1>7, <2>1, ContentsFacts DEF DataOK, Reader
  <2> QED  BY <1>5, <2>1, <2>2 DEF Gone, Reader
<1> QED  BY <1>1, <1>2, <1>3, <1>4, <1>6, <1>7

\* The tasks of the other calls are left alone.
LEMMA OthersKept ==
    ASSUME WaitForInv, call' = call, NEW S, S \subseteq {W, X, Reader, Teller},
           \A t \in Tasks \ S : /\ k'.state[t] = k.state[t]
                               /\ (Queued(k', t) <=> Queued(k, t))
    PROVE  OthersOK'
<1> SUFFICES ASSUME NEW i \in 1 .. Calls
             PROVE  /\ i > call => /\ k'.state[Aw(i)] = "new"
                                   /\ k'.state[Runner(i)] = "new"
                    /\ i < call => /\ IsDone(k', Aw(i))
                                   /\ IsDone(k', Runner(i))
                                   /\ ~Queued(k', Aw(i))
                                   /\ ~Queued(k', Runner(i))
  BY DEF OthersOK, Gone
<1>1. call \in Nat /\ i \in Nat
  BY WaitForAssumption DEF WaitForInv, WaitForTypes
<1>2. ASSUME i # call PROVE Aw(i) \in Tasks \ S /\ Runner(i) \in Tasks \ S
  BY <1>2, TaskNames DEF Reader, Teller
<1> QED  BY <1>1, <1>2 DEF WaitForInv, OthersOK, Gone, IsDone

\* The tasks of the last call and W are left alone, and do not run.
LEMMA PhaseKept ==
    ASSUME WaitForInv,
           UNCHANGED <<waiter, call, outcome, told, late>>,
           now' \in Nat, now <= now',
           \A t \in {W} \cup (IF call = 0 THEN {} ELSE {Reader, Teller}) :
              /\ k'.state[t] = k.state[t] /\ k'.data[t] = k.data[t]
              /\ k'.key[t] = k.key[t] /\ (Queued(k', t) <=> Queued(k, t)),
           Before(k, Teller, W) => Before(k', Teller, W),
           \/ UNCHANGED <<cur, exc>>
           \/ cur \in {X, NoTask} /\ cur' \in {X, NoTask}
    PROVE  CallOK'
<1>1. Reader' = Reader /\ Teller' = Teller
  BY DEF Reader, Teller
<1>2. \A i : Aw(i) \notin {W, X, NoTask} /\ Runner(i) \notin {W, X, NoTask}
  BY TaskNames
<1>3. W \notin {X, NoTask}
  BY TaskNames
<1>4. Pending' = Pending
  BY <1>3 DEF Pending
<1>5. CASE call = 0
  BY <1>4, <1>5 DEF WaitForInv, CallOK
<1>6. CASE call # 0
  <2>1. /\ k'.state[Reader] = k.state[Reader]
        /\ k'.data[Reader] = k.data[Reader]
        /\ k'.state[Teller] = k.state[Teller]
        /\ k'.data[Teller] = k.data[Teller]
        /\ k'.key[Teller] = k.key[Teller] /\ k'.data[W] = k.data[W]
        /\ (Queued(k', Reader) <=> Queued(k, Reader))
        /\ (Queued(k', Teller) <=> Queued(k, Teller))
        /\ (Queued(k', W) <=> Queued(k, W))
    BY <1>6
  <2>2. Stopped' = Stopped
    BY <1>1, <1>2, <2>1 DEF Stopped, Reader
  <2>3. /\ cur' \in {Reader, Teller} => cur \in {Reader, Teller} /\ exc' = exc
        /\ cur = Teller => cur' = Teller
    BY <1>2 DEF Reader, Teller
  <2>4. Fresh => Fresh'
    <3>1. k.key[Teller] <= now => k.key[Teller] <= now'
      BY <1>6, WhoGoesOn, RecordIs DEF WaitForInv, WaitForTypes
    <3> QED  BY <1>1, <2>1, <2>3, <3>1 DEF Fresh
  <2>5. Reading => Reading'
    BY <1>1, <1>4, <2>1, <2>2 DEF Reading, Live
  <2>6. Woken => Woken'
    BY <1>1, <1>4, <2>1, <2>3 DEF Woken, Gone, IsDone, Live
  <2>7. Finished => Finished'
    BY <1>1, <1>4, <2>1 DEF Finished, Gone, IsDone
  <2>8. Phase => Phase'
    BY <2>4, <2>5, <2>6, <2>7 DEF Phase
  <2> QED  BY <1>4, <1>6, <2>8 DEF WaitForInv, CallOK
<1> QED  BY <1>5, <1>6
-----------------------------------------------------------------------------
(***************************************************************************)
(* wait_for: the invariant is kept, step by step                           *)
(***************************************************************************)

\* The set of the tasks that run has at most one.
LEMMA ActiveIs ==
    /\ \A c \in Tasks : {t \in Tasks : t = c} = {c}
    /\ {t \in Tasks : t = NoTask} = {}
  BY TaskNames

\* The time goes by, or nothing happens.
LEMMA TickKeeps ==
    ASSUME WaitForInv, Tick \/ UNCHANGED waitForVars PROVE WaitForInv'
<1>1. now \in Nat /\ k \in LoopRecords
  BY WhoGoesOn DEF WaitForInv, WaitForTypes
<1>2. /\ UNCHANGED <<k, cur, exc, waiter, call, outcome, cancels, told, late>>
      /\ now' \in Nat /\ now <= now'
  BY <1>1 DEF Tick, waitForVars
<1>3. WaitForTypes' /\ Orderly' /\ Links'
  BY <1>2 DEF WaitForInv, WaitForTypes, Orderly, Links, Teller, Reader
<1>4. RunningIsDue'
  <2>1. cur \in Tasks => k.key[cur] \in Nat
    BY <1>1, RecordIs
  <2> QED  BY <1>1, <1>2, <2>1 DEF WaitForInv, RunningIsDue
<1>5. CallOK'
  BY <1>2, PhaseKept
<1>6. OthersOK' /\ WaiterOK'
  BY <1>2 DEF WaitForInv, OthersOK, WaiterOK, Gone
<1> QED  BY <1>3, <1>4, <1>5, <1>6 DEF WaitForInv

\* The other task goes to sleep or ends.
LEMMA OtherKeeps ==
    ASSUME WaitForInv, OtherSleeps \/ OtherEnds PROVE WaitForInv'
<1>0. /\ cur = X /\ cur' = NoTask /\ now \in Nat
      /\ UNCHANGED <<now, exc, waiter, call, outcome, cancels, told, late>>
  BY DEF OtherSleeps, OtherEnds, WaitForInv, WaitForTypes
<1>1. /\ Live(k, X) /\ k.data[X] = None /\ LoopOK(k, {X}) /\ InOrder(k)
      /\ X \in Tasks /\ ~Queued(k, X)
  <2>1. X \in Tasks /\ X # NoTask
    BY TaskNames
  <2> QED
    BY <1>0, <2>1, ActiveIs, WhoGoesOn
       DEF WaitForInv, RunningIsDue, Orderly, DataOK
<1>2. {X} \ {X} = {} /\ {t \in Tasks : t = cur'} = {}
  BY <1>0, ActiveIs
<1>3. \A t \in Tasks : k.data[t] # OnTask(X)
  BY <1>1, TaskNames DEF WaitForInv, Links, Teller, Reader
<1>4. /\ LoopOK(k', {}) /\ InOrder(k') /\ Others(k', k, {X})
      /\ \A s, t : Before(k, s, t) => Before(k', s, t)
      /\ k'.data[X].kind \in {"none", "ended"}
      /\ k'.state[X] = k.state[X] \/ (IsDone(k', X) /\ ~Queued(k', X))
  <2>1. CASE OtherSleeps
    <3>1. now + 1 \in Nat /\ k' = Push(k, X, now + 1)
      BY <1>0, <2>1 DEF OtherSleeps
    <3>2. k.data[X].kind # "task" /\ None.kind = "none"
      BY <1>1, ContentsFacts
    <3>3. /\ LoopOK(k', {X} \ {X}) /\ Comes(k', k, X, now + 1)
          /\ k'.state = k.state
      BY <1>1, <3>1, <3>2, PushEffect
    <3> QED  BY <1>2, <3>2, <3>3 DEF Comes
  <2>2. CASE OtherEnds
    <3>1. k' = Finish(k, X, "return", now) /\ "return" \in Outcomes
      BY <2>2 DEF OtherEnds, Outcomes
    <3>2. /\ LoopOK(k', {X} \ {X}) /\ Ends(k', k, X, "return", now)
      BY <1>0, <1>1, <3>1, FinishEffect
    <3>3. Others(k', k, {X})
      BY <1>3, <3>2 DEF Ends, Others
    <3> QED  BY <1>2, <3>2, <3>3, EndsDiffer DEF Ends
  <2> QED  BY <2>1, <2>2
<1>5. WaitForTypes' /\ Orderly' /\ RunningIsDue'
  BY <1>0, <1>2, <1>4 DEF WaitForInv, WaitForTypes, Orderly, RunningIsDue
<1>6. Links'
  <2> SUFFICES ASSUME NEW t \in Tasks, NEW u \in Tasks,
                      k'.data[t] = OnTask(u)
               PROVE  \/ t = W /\ u = Teller /\ waiter = "await"
                      \/ t = Teller /\ u = Reader
    BY <1>0 DEF Links, Teller, Reader
  <2>1. t # X
    BY <1>4, ContentsFacts
  <2>2. k.data[t] = OnTask(u)
    BY <1>4, <2>1 DEF Others
  <2> QED  BY <2>2 DEF WaitForInv, Links
<1>7. CallOK'
  <2>1. \A t \in {W} \cup (IF call = 0 THEN {} ELSE {Reader, Teller}) :
           /\ k'.state[t] = k.state[t] /\ k'.data[t] = k.data[t]
           /\ k'.key[t] = k.key[t] /\ (Queued(k', t) <=> Queued(k, t))
    <3> SUFFICES ASSUME NEW t \in {W} \cup (IF call = 0 THEN {}
                                            ELSE {Reader, Teller})
                 PROVE  t \in Tasks \ {X}
      BY <1>4 DEF Others
    <3> QED  BY WhoGoesOn, TaskNames DEF Reader, Teller
  <2> QED  BY <1>0, <1>4, <2>1, PhaseKept
<1>8. OthersOK'
  BY <1>0, <1>4, OthersKept DEF Others
<1>9. WaiterOK'
  <2>1. W \in Tasks \ {X}
    BY TaskNames
  <2>2. /\ k'.state[W] = k.state[W] /\ k'.data[W] = k.data[W]
        /\ (Queued(k', W) <=> Queued(k, W))
    BY <1>4, <2>1 DEF Others
  <2> QED
    BY <1>0, <1>1, <1>4, <2>2 DEF WaitForInv, WaiterOK, Gone, IsDone, Live
<1> QED  BY <1>5, <1>6, <1>7, <1>8, <1>9 DEF WaitForInv

\* The loop runs the next task.
LEMMA ResumeKeeps ==
    ASSUME WaitForInv, Resume PROVE WaitForInv'
<1> DEFINE h == Head(k.runq)
<1>0. /\ cur = NoTask /\ cur' = h /\ k' = Resumed(k) /\ k.runq # <<>>
      /\ k.key[h] <= now /\ LoopOK(k, {}) /\ InOrder(k) /\ now \in Nat
      /\ UNCHANGED <<now, waiter, call, outcome, told, late>>
  BY ActiveIs DEF Resume, Ready, WaitForInv, Orderly, WaitForTypes
<1>1. /\ h \in Tasks /\ Queued(k, h) /\ Live(k, h)
      /\ \A t \in Tasks : DataOK(k, t, FALSE)
  <2>1. h \in Tasks /\ Queued(k, h)
    BY <1>0, ResumedIs
  <2>2. \A t \in Tasks : DataOK(k, t, FALSE)
    <3> SUFFICES ASSUME NEW t \in Tasks PROVE DataOK(k, t, FALSE)
      OBVIOUS
    <3>1. DataOK(k, t, t = cur) /\ t # cur
      BY <1>0, WhoGoesOn, TaskNames
    <3> QED  BY <3>1, Zenon DEF DataOK
  <2> QED  BY <2>1, <2>2, WhoGoesOn
<1>2. LoopOK(k', {h}) /\ Starts(k', k, h)
  <2>1. LoopOK(k', {} \cup {h}) /\ Starts(k', k, h)
    BY <1>0, <1>1, ResumedEffect
  <2> QED  BY <2>1
<1>3. exc' = k.data[h] /\ exc' \in Contents
      /\ exc'.kind \in {"none", "cancelled", "status"}
  <2>1. exc' = k.data[h]
    BY <1>0, <1>1 DEF Resume
  <2>2. Idles(k, h) /\ k.data[h] \in Contents
    BY <1>1, WhoGoesOn, RecordIs DEF DataOK
  <2> QED  BY <2>1, <2>2 DEF Idles
<1>4. h \in {W, X} \/ (call # 0 /\ h \in {Reader, Teller})
  <2>1. ASSUME NEW i \in 1 .. Calls, h = Aw(i) \/ h = Runner(i)
        PROVE  call # 0 /\ h \in {Reader, Teller}
    <3>1. i = call
      BY <1>1, <2>1, WhoGoesOn
    <3> QED  BY <2>1, <3>1, WaitForAssumption DEF Reader, Teller
  <2> QED  BY <1>1, <2>1, TaskNames
<1> HIDE DEF h
<1>5. WaitForTypes' /\ Orderly' /\ RunningIsDue'
  <2>1. WaitForTypes' /\ Orderly'
    BY <1>0, <1>1, <1>2, ActiveIs
       DEF WaitForInv, WaitForTypes, Orderly, Starts
  <2>2. RunningIsDue'
    BY <1>0, <1>1, <1>2 DEF RunningIsDue, Starts, Live
  <2> QED  BY <2>1, <2>2
<1>6. \A t \in Tasks \ {h} :
         /\ k'.state[t] = k.state[t] /\ k'.data[t] = k.data[t]
         /\ k'.key[t] = k.key[t] /\ (Queued(k', t) <=> Queued(k, t))
  BY <1>2 DEF Starts, Others
<1>7. /\ k'.data[h] = None /\ k'.state[h] = k.state[h] /\ ~Queued(k', h)
      /\ k'.key[h] = k.key[h]
  BY <1>2 DEF Starts
<1>8. Links'
  <2> SUFFICES ASSUME NEW t \in Tasks, NEW u \in Tasks,
                      k'.data[t] = OnTask(u)
               PROVE  \/ t = W /\ u = Teller /\ waiter = "await"
                      \/ t = Teller /\ u = Reader
    BY <1>0 DEF Links, Teller, Reader
  <2>1. t # h
    BY <1>7, ContentsFacts
  <2>2. k.data[t] = OnTask(u)
    BY <1>6, <2>1
  <2> QED  BY <2>2 DEF WaitForInv, Links
<1>9. Reader' = Reader /\ Teller' = Teller /\ W \in Tasks /\ X \in Tasks
      /\ Reader \notin {W, X, NoTask, Teller} /\ Teller \notin {W, X, NoTask}
      /\ W \notin {X, NoTask}
      /\ (call # 0 => Reader \in Tasks /\ Teller \in Tasks)
  BY <1>0, TaskNames, WhoGoesOn DEF Reader, Teller
<1>10. CallOK'
  <2>1. CASE h = X
    <3>1. \A t \in {W} \cup (IF call = 0 THEN {} ELSE {Reader, Teller}) :
             /\ k'.state[t] = k.state[t] /\ k'.data[t] = k.data[t]
             /\ k'.key[t] = k.key[t] /\ (Queued(k', t) <=> Queued(k, t))
      <4> SUFFICES ASSUME NEW t \in {W} \cup (IF call = 0 THEN {}
                                              ELSE {Reader, Teller})
                   PROVE  t \in Tasks \ {h}
        BY <1>6
      <4> QED  BY <1>9, <2>1
    <3>2. Before(k, Teller, W) => Before(k', Teller, W)
      BY <1>2, <1>9, <2>1 DEF Starts
    <3> QED  BY <1>0, <2>1, <3>1, <3>2, PhaseKept
  <2>2. CASE h = W
    <3>1. Pending' = Pending
      BY <1>0, <1>3, <1>9, <2>2 DEF Pending
    <3>2. CASE call = 0
      BY <1>0, <3>1, <3>2 DEF WaitForInv, CallOK
    <3>3. CASE call # 0
      <4>1. /\ k'.state[Reader] = k.state[Reader]
            /\ k'.data[Reader] = k.data[Reader]
            /\ k'.state[Teller] = k.state[Teller]
            /\ k'.data[Teller] = k.data[Teller]
            /\ (Queued(k', Reader) <=> Queued(k, Reader))
            /\ (Queued(k', Teller) <=> Queued(k, Teller))
        BY <1>6, <1>9, <2>2, <3>3
      <4>2. Stopped => Stopped'
        BY <1>0, <1>9, <4>1 DEF Stopped
      <4>3. k.data[W] # OnTask(Teller)
        <5>1. Idles(k, W)
          BY <1>1, <2>2 DEF DataOK
        <5> QED  BY <5>1, ContentsFacts DEF Idles
      <4>4. ~Fresh
        <5>1. ASSUME Fresh PROVE Queued(k, Teller)
          BY <1>1, <1>9, <3>3, <5>1, ContentsFacts
             DEF Fresh, DataOK, Live, Idles
        <5>2. ~Before(k, Teller, W)
          BY <1>2, <2>2 DEF Starts
        <5> QED  BY <5>1, <5>2 DEF Fresh
      <4>5. Reading => Reading'
        BY <1>0, <1>9, <3>1, <4>1, <4>2, <4>3 DEF Reading, Live
      <4>6. Woken => Woken'
        <5>1. ~Before(k, Teller, W)
          BY <1>2, <2>2 DEF Starts
        <5> QED
          BY <1>0, <1>9, <3>1, <4>1, <4>3, <5>1
             DEF Woken, Gone, IsDone, Live
      <4>7. Finished => Finished'
        <5>1. k'.data[W] # OnTask(Teller)
          BY <1>7, <2>2, ContentsFacts
        <5> QED
          BY <1>0, <1>9, <3>1, <4>1, <5>1 DEF Finished, Gone, IsDone
      <4>8. Phase => Phase'
        BY <1>0, <4>4, <4>5, <4>6, <4>7 DEF Phase
      <4> QED  BY <1>0, <3>1, <3>3, <4>8 DEF WaitForInv, CallOK
    <3> QED  BY <3>2, <3>3
  <2>3. CASE call # 0 /\ h \in {Reader, Teller}
    <3>1. /\ k'.data[W] = k.data[W] /\ (Queued(k', W) <=> Queued(k, W))
          /\ k'.state[Reader] = k.state[Reader]
          /\ k'.state[Teller] = k.state[Teller]
          /\ k'.key[Teller] = k.key[Teller]
      BY <1>6, <1>7, <1>9, <2>3
    <3>2. Pending' = Pending
      BY <1>0, <1>9, <2>3, <3>1 DEF Pending
    <3>3. CASE h = Reader
      <4>1. /\ k'.data[Teller] = k.data[Teller] /\ k'.data[Reader] = None
            /\ (Queued(k', Teller) <=> Queued(k, Teller))
        BY <1>6, <1>7, <1>9, <2>3, <3>3
      <4>2. /\ Idles(k, Reader) /\ ~Gone(Reader)
        BY <1>1, <3>3 DEF DataOK, Gone
      <4>3. Before(k, Teller, W) => Before(k', Teller, W)
        BY <1>2, <1>9, <3>3 DEF Starts
      <4>4. Fresh => Fresh'
        <5>1. Fresh => k.data[Reader] = None
          BY <4>2, ContentsFacts DEF Fresh, Idles
        <5> QED
          BY <1>0, <1>3, <1>9, <3>1, <3>3, <4>1, <4>3, <5>1 DEF Fresh
      <4>5. Reading => Reading'
        <5>1. Stopped => Stopped'
          BY <1>0, <1>3, <1>9, <3>3 DEF Stopped
        <5> QED  BY <1>0, <1>9, <3>1, <3>2, <4>1, <5>1 DEF Reading, Live
      <4>6. Phase => Phase'
        BY <1>0, <4>2, <4>4, <4>5 DEF Phase, Woken, Finished
      <4> QED  BY <1>0, <2>3, <3>2, <4>6 DEF WaitForInv, CallOK
    <3>4. CASE h = Teller
      <4>1. /\ k'.data[Reader] = k.data[Reader] /\ k'.data[Teller] = None
            /\ (Queued(k', Reader) <=> Queued(k, Reader))
            /\ ~Queued(k', Teller)
        BY <1>6, <1>7, <1>9, <2>3, <3>4
      <4>2. /\ Idles(k, Teller) /\ ~Gone(Teller)
        BY <1>1, <3>4 DEF DataOK, Gone
      <4>3. Fresh => Fresh'
        BY <1>0, <1>3, <1>9, <3>1, <3>4, <4>1 DEF Fresh
      <4>4. ~Reading
        BY <4>2, ContentsFacts DEF Reading, Idles
      <4>5. Woken => Woken'
        BY <1>0, <1>9, <3>1, <3>2, <3>4, <4>1
           DEF Woken, Gone, IsDone, Live
      <4>6. Phase => Phase'
        BY <1>0, <4>2, <4>3, <4>4, <4>5 DEF Phase, Finished
      <4> QED  BY <1>0, <2>3, <3>2, <4>6 DEF WaitForInv, CallOK
    <3> QED  BY <2>3, <3>3, <3>4
  <2> QED  BY <1>4, <2>1, <2>2, <2>3
<1>11. OthersOK'
  <2>1. {h} \subseteq {W, X, Reader, Teller}
    BY <1>4
  <2> QED  BY <1>0, <1>6, <2>1, OthersKept
<1>12. WaiterOK'
  <2>1. /\ k'.state[W] = k.state[W] /\ k'.state[X] = k.state[X]
        /\ Queued(k', W) => Queued(k, W)
        /\ Queued(k', X) => Queued(k, X)
        /\ k'.data[W] \in {None, k.data[W]} /\ k'.data[X] \in {None, k.data[X]}
    BY <1>6, <1>7, <1>9
  <2> QED
    BY <1>0, <1>3, <2>1, ContentsFacts DEF WaitForInv, WaiterOK, Gone, IsDone
<1> QED  BY <1>5, <1>8, <1>10, <1>11, <1>12 DEF WaitForInv

\* What is known when a task of the last call runs.
LEMMA CallRuns ==
    ASSUME WaitForInv, NEW i \in 1 .. Calls, cur \in {Aw(i), Runner(i)}
    PROVE  /\ i = call /\ call # 0 /\ cur \in Tasks /\ now \in Nat
           /\ Reader \in Tasks /\ Teller \in Tasks
           /\ W \in Tasks /\ X \in Tasks /\ W # X
           /\ Reader \notin {W, X, NoTask, Teller}
           /\ Teller \notin {W, X, NoTask}
           /\ Live(k, cur) /\ k.data[cur] = None /\ k.key[cur] <= now
           /\ ~Queued(k, cur) /\ LoopOK(k, {cur}) /\ InOrder(k)
           /\ cur = Aw(i) => (outcome = "none" /\ Fresh) \/ Reading
           /\ cur = Runner(i) => (outcome = "none" /\ Fresh) \/ Woken
           /\ Phase
<1>1. cur # NoTask
  BY TaskNames
<1>2. /\ cur \in Tasks /\ Live(k, cur) /\ k.data[cur] = None
      /\ k.key[cur] <= now
  BY <1>1 DEF WaitForInv, RunningIsDue
<1>3. i = call /\ call # 0
  BY <1>2, WhoGoesOn, WaitForAssumption
<1>4. Phase
  BY <1>3 DEF WaitForInv, CallOK
<1>5. ~Gone(cur)
  BY <1>2 DEF Gone, IsDone, Live
<1>6. ~Queued(k, cur)
  BY <1>2, WhoGoesOn DEF DataOK
<1>7. cur = Aw(i) => (outcome = "none" /\ Fresh) \/ Reading
  BY <1>3, <1>4, <1>5 DEF Phase, Woken, Finished, Reader
<1>8. cur = Runner(i) => (outcome = "none" /\ Fresh) \/ Woken
  BY <1>2, <1>3, <1>4, <1>5, ContentsFacts
     DEF Phase, Reading, Finished, Teller
<1>9. LoopOK(k, {cur}) /\ InOrder(k) /\ now \in Nat
  BY <1>2, ActiveIs DEF WaitForInv, Orderly, WaitForTypes
<1>10. /\ Reader \in Tasks /\ Teller \in Tasks
       /\ W \in Tasks /\ X \in Tasks /\ W # X
       /\ Reader \notin {W, X, NoTask, Teller}
       /\ Teller \notin {W, X, NoTask}
  BY <1>3, TaskNames, WhoGoesOn DEF Reader, Teller
<1> QED  BY <1>2, <1>3, <1>4, <1>6, <1>7, <1>8, <1>9, <1>10

\* The reader waits for its stream, or the stream is ready.
LEMMA WaitKeeps ==
    ASSUME WaitForInv, NEW i \in 1 .. Calls, AwWaits(i) \/ StreamReady(i)
    PROVE  WaitForInv'
<1> DEFINE x == IF AwWaits(i) THEN OnIo ELSE None
<1>0. /\ cur' = NoTask
      /\ UNCHANGED <<now, exc, waiter, call, outcome, cancels, told, late>>
  BY DEF AwWaits, StreamReady
<1>1. /\ i = call /\ call # 0 /\ now \in Nat
      /\ Reader \in Tasks /\ Teller \in Tasks
      /\ W \in Tasks /\ X \in Tasks /\ W # X
      /\ Reader \notin {W, X, NoTask, Teller}
      /\ Teller \notin {W, X, NoTask} /\ W # NoTask
      /\ Live(k, Reader) /\ Phase
      /\ cur \in {Reader, NoTask}
      /\ k.data[Reader] # Cancelled /\ (cur = Reader => exc = None)
  <2>1. CASE AwWaits(i)
    <3>1. cur = Aw(i) /\ exc = None
      BY <2>1 DEF AwWaits
    <3> QED  BY <3>1, CallRuns, TaskNames, ContentsFacts DEF Reader
  <2>2. CASE StreamReady(i)
    <3>1. cur = NoTask /\ k.data[Aw(i)] = OnIo
      BY <2>2 DEF StreamReady
    <3>2. i = call /\ Live(k, Aw(i)) /\ call # 0
      BY <3>1, WhoGoesOn, WaitForAssumption
    <3> QED
      BY <3>1, <3>2, WhoGoesOn, TaskNames, ContentsFacts
         DEF WaitForInv, CallOK, WaitForTypes, Reader, Teller
  <2> QED  BY <2>1, <2>2
<1>2. /\ LoopOK(k', {}) /\ InOrder(k') /\ Others(k', k, {Reader})
      /\ \A s, t : Before(k, s, t) => Before(k', s, t)
      /\ k'.data[Reader] \in {None, OnIo} /\ k'.state[Reader] = k.state[Reader]
  <2>1. CASE AwWaits(i)
    <3>1. /\ k' = [k EXCEPT !.data[Reader] = OnIo] /\ cur = Reader
          /\ LoopOK(k, {Reader}) /\ InOrder(k) /\ k.data[Reader] = None
          /\ k \in LoopRecords
      BY <1>1, <2>1, CallRuns, WhoGoesOn DEF AwWaits, Reader
    <3>2. Idles(k, Reader) /\ {Reader} \ {Reader} = {}
      BY <3>1, ContentsFacts DEF Idles
    <3>3. /\ LoopOK(k', {}) /\ k'.data = [k.data EXCEPT ![Reader] = OnIo]
          /\ k'.key = k.key /\ k'.state = k.state /\ k'.runq = k.runq
      BY <1>1, <3>1, <3>2, DataKeeps
    <3>4. /\ InOrder(k) => InOrder(k')
          /\ \A s, t : Before(k', s, t) <=> Before(k, s, t)
      BY <3>1, <3>3, SameOrder
    <3>5. Others(k', k, {Reader}) /\ k'.data[Reader] = OnIo
      BY <1>1, <3>1, <3>3, RecordIs DEF Others, Queued
    <3> QED  BY <3>1, <3>3, <3>4, <3>5
  <2>2. CASE StreamReady(i)
    <3>1. /\ k' = Push(k, Reader, now) /\ cur = NoTask
          /\ k.data[Reader] = OnIo
      BY <1>1, <2>2 DEF StreamReady, Reader
    <3>2. LoopOK(k, {}) /\ InOrder(k)
      BY <3>1, ActiveIs DEF WaitForInv, Orderly
    <3>3. ~Queued(k, Reader) /\ k.data[Reader].kind # "task"
      <4>1. DataOK(k, Reader, Reader = cur) /\ Reader # cur
        BY <1>1, <3>1, WhoGoesOn
      <4> QED
        BY <1>1, <3>1, <4>1, ContentsFacts DEF DataOK, Idles
    <3>4. /\ LoopOK(k', {} \ {Reader}) /\ Comes(k', k, Reader, now)
          /\ k'.state = k.state
      BY <1>1, <3>1, <3>2, <3>3, PushEffect
    <3> QED  BY <3>4 DEF Comes
  <2> QED  BY <2>1, <2>2
<1>3. Reader' = Reader /\ Teller' = Teller
  BY <1>0 DEF Reader, Teller
<1>4. \A t \in Tasks \ {Reader} :
         /\ k'.state[t] = k.state[t] /\ k'.data[t] = k.data[t]
         /\ k'.key[t] = k.key[t] /\ (Queued(k', t) <=> Queued(k, t))
  BY <1>2 DEF Others
<1>5. WaitForTypes' /\ Orderly' /\ RunningIsDue'
  BY <1>0, <1>2, ActiveIs
     DEF WaitForInv, WaitForTypes, Orderly, RunningIsDue
<1>6. Links'
  <2> SUFFICES ASSUME NEW t \in Tasks, NEW u \in Tasks,
                      k'.data[t] = OnTask(u)
               PROVE  \/ t = W /\ u = Teller /\ waiter = "await"
                      \/ t = Teller /\ u = Reader
    BY <1>0, <1>3 DEF Links
  <2>1. t # Reader
    BY <1>2, ContentsFacts
  <2>2. k.data[t] = OnTask(u)
    BY <1>4, <2>1
  <2> QED  BY <2>2 DEF WaitForInv, Links
<1>7. CallOK'
  <2>1. /\ k'.data[W] = k.data[W] /\ (Queued(k', W) <=> Queued(k, W))
        /\ k'.state[Teller] = k.state[Teller]
        /\ k'.data[Teller] = k.data[Teller]
        /\ k'.key[Teller] = k.key[Teller]
        /\ (Queued(k', Teller) <=> Queued(k, Teller))
    BY <1>1, <1>4
  <2>2. Pending' = Pending /\ ~Stopped
    BY <1>0, <1>1, <2>1, ContentsFacts DEF Pending, Stopped
  <2>3. Fresh => Fresh'
    BY <1>0, <1>1, <1>2, <1>3, <2>1 DEF Fresh
  <2>4. Reading => Reading'
    BY <1>0, <1>1, <1>2, <1>3, <2>1, <2>2 DEF Reading, Live
  <2>5. ~Woken /\ ~Finished
    BY <1>1 DEF Woken, Finished, Gone, IsDone, Live
  <2>6. Phase'
    BY <1>0, <1>1, <2>3, <2>4, <2>5 DEF Phase
  <2> QED  BY <1>0, <1>1, <2>2, <2>6 DEF WaitForInv, CallOK
<1>8. OthersOK'
  <2>1. {Reader} \subseteq {W, X, Reader, Teller}
    OBVIOUS
  <2> QED  BY <1>0, <1>4, <2>1, OthersKept
<1>9. WaiterOK'
  BY <1>0, <1>1, <1>4 DEF WaitForInv, WaiterOK, Gone, IsDone
<1> QED  BY <1>5, <1>6, <1>7, <1>8, <1>9 DEF WaitForInv

\* The reader ends.
LEMMA ReaderEndsKeeps ==
    ASSUME WaitForInv, NEW i \in 1 .. Calls, AwEnds(i) \/ AwCancelled(i)
    PROVE  WaitForInv'
<1>0. /\ cur = Aw(i) /\ cur' = NoTask
      /\ UNCHANGED <<now, waiter, call, outcome, cancels, told>>
      /\ exc' \in {exc, None}
  BY DEF AwEnds, AwCancelled
<1>1. /\ i = call /\ call # 0 /\ cur \in Tasks /\ now \in Nat
      /\ Reader \in Tasks /\ Teller \in Tasks
      /\ W \in Tasks /\ X \in Tasks /\ W # X
      /\ Reader \notin {W, X, NoTask, Teller}
      /\ Teller \notin {W, X, NoTask}
      /\ Live(k, cur) /\ k.data[cur] = None /\ k.key[cur] <= now
      /\ ~Queued(k, cur) /\ LoopOK(k, {cur}) /\ InOrder(k)
      /\ (outcome = "none" /\ Fresh) \/ Reading
      /\ Phase
  BY <1>0, CallRuns
<1>2. cur = Reader /\ W # NoTask
  BY <1>0, <1>1, TaskNames DEF Reader
<1>3. Reading
  <2>1. ASSUME Fresh PROVE FALSE
    <3>1. exc = None /\ k.state[Reader] = "running"
      BY <1>2, <2>1 DEF Fresh
    <3> QED  BY <1>2, <3>1 DEF AwEnds, AwCancelled
  <2> QED  BY <1>1, <2>1
<1>4. PICK how \in Outcomes :
             /\ k' = Finish(k, Reader, how, now)
             /\ how = "return" => /\ exc = None
                                  /\ late' = (late \/ k.key[W] <= now)
             /\ how # "return" \/ exc = None
  <2>1. CASE AwEnds(i)
    <3>1. /\ exc = None /\ late' = (late \/ (i = call /\ k.key[W] <= now))
          /\ \E how \in {"return", "exception"} : k' = Finish(k, cur, how, now)
      BY <2>1 DEF AwEnds
    <3> QED  BY <1>1, <1>2, <3>1 DEF Outcomes
  <2>2. CASE AwCancelled(i)
    BY <1>2, <2>2 DEF AwCancelled, Outcomes
  <2> QED  BY <2>1, <2>2
<1>5. LoopOK(k', {}) /\ Ends(k', k, Reader, how, now)
  <2>1. LoopOK(k', {Reader} \ {Reader}) /\ Ends(k', k, Reader, how, now)
    BY <1>1, <1>2, <1>4, FinishEffect
  <2> QED  BY <2>1
<1>6. Reader' = Reader /\ Teller' = Teller
  BY <1>0 DEF Reader, Teller
<1>7. \A t \in Tasks \ {Reader, Teller} :
         /\ k'.state[t] = k.state[t] /\ k'.data[t] = k.data[t]
         /\ k'.key[t] = k.key[t] /\ (Queued(k', t) <=> Queued(k, t))
  <2>1. \A t \in Tasks \ {Teller} : k.data[t] # OnTask(Reader)
    BY <1>1 DEF WaitForInv, Links
  <2> QED  BY <1>5, <2>1 DEF Ends
<1>8. /\ k'.data[Teller] = None /\ k'.state[Teller] = k.state[Teller]
      /\ Live(k, Teller)
      /\ k'.data[Reader] = Ended(how) /\ IsDone(k', Reader)
      /\ ~Queued(k', Reader)
  BY <1>1, <1>3, <1>5 DEF Ends, Reading
<1>9. WaitForTypes' /\ Orderly' /\ RunningIsDue'
  BY <1>0, <1>5, ActiveIs
     DEF WaitForInv, WaitForTypes, Orderly, RunningIsDue, Ends
<1>10. Links'
  <2> SUFFICES ASSUME NEW t \in Tasks, NEW u \in Tasks,
                      k'.data[t] = OnTask(u)
               PROVE  \/ t = W /\ u = Teller /\ waiter = "await"
                      \/ t = Teller /\ u = Reader
    BY <1>0, <1>6 DEF Links
  <2>1. t \notin {Reader, Teller}
    BY <1>8, ContentsFacts
  <2>2. k.data[t] = OnTask(u)
    BY <1>7, <2>1
  <2> QED  BY <2>2 DEF WaitForInv, Links
<1>11. CallOK'
  <2>1. /\ k'.data[W] = k.data[W] /\ (Queued(k', W) <=> Queued(k, W))
    BY <1>1, <1>7
  <2>2. Pending' = Pending
    BY <1>0, <1>1, <1>2, <2>1 DEF Pending
  <2>3. Woken'
    <3>1. /\ Gone(Reader)' /\ Live(k', Teller)
          /\ k'.data[Teller] \in {None, Cancelled}
          /\ waiter' = "await" => k'.data[W] = OnTask(Teller)
          /\ waiter' = "sleep" => Pending' \in {None, Cancelled}
      BY <1>0, <1>3, <1>6, <1>8, <2>1, <2>2 DEF Gone, Live, Reading
    <3>2. ASSUME k'.data[Reader] = Ended("return"), ~late'
          PROVE  /\ waiter # "await"
                 /\ (waiter = "sleep" /\ Pending = None
                       => Before(k', Teller, W))
      <4>1. how = "return"
        BY <1>8, <3>2, EndsDiffer DEF Outcomes
      <4>2. exc = None /\ ~(k.key[W] <= now)
        BY <1>4, <3>2, <4>1
      <4>3. waiter = "sleep"
        <5>1. ~Stopped
          BY <1>1, <1>2, <4>2, ContentsFacts DEF Stopped
        <5> QED  BY <1>3, <5>1 DEF Reading
      <4>4. ASSUME Pending = None PROVE Before(k', Teller, W)
        <5>1. k.data[W] = None /\ W # cur
          BY <1>1, <1>2, <4>4 DEF Pending
        <5>2. Live(k, W)
          BY <4>3 DEF WaitForInv, WaiterOK, Live
        <5>3. Queued(k, W)
          <6>1. DataOK(k, W, W = cur)
            BY <1>1, WhoGoesOn
          <6> QED  BY <5>1, <5>2, <6>1, ContentsFacts DEF DataOK, Idles
        <5>4. k.key[W] > now
          <6>1. k.key[W] \in Nat
            BY <1>1, WhoGoesOn, RecordIs
          <6> QED  BY <1>1, <4>2, <6>1
        <5>5. k.data[Teller] = OnTask(Reader)
          BY <1>3 DEF Reading
        <5> QED  BY <1>1, <1>5, <5>3, <5>4, <5>5 DEF Ends
      <4> QED  BY <4>3, <4>4
    <3> QED  BY <1>0, <1>6, <2>2, <3>1, <3>2 DEF Woken
  <2>4. outcome \in {"none", "cancelled"}
    <3>1. ~Finished
      BY <1>1, <1>2 DEF Finished, Gone, IsDone, Live
    <3> QED  BY <1>1, <3>1 DEF Phase
  <2>5. Phase'
    BY <1>0, <2>3, <2>4 DEF Phase
  <2> QED  BY <1>0, <1>1, <2>2, <2>5 DEF WaitForInv, CallOK
<1>12. OthersOK'
  <2>1. {Reader, Teller} \subseteq {W, X, Reader, Teller}
    OBVIOUS
  <2> QED  BY <1>0, <1>7, <2>1, OthersKept
<1>13. WaiterOK'
  BY <1>0, <1>1, <1>7, ContentsFacts DEF WaitForInv, WaiterOK, Gone, IsDone
<1> QED  BY <1>9, <1>10, <1>11, <1>12, <1>13 DEF WaitForInv

\* The runner starts and awaits the reader.
LEMMA RunnerStartsKeeps ==
    ASSUME WaitForInv, NEW i \in 1 .. Calls, RunnerStarts(i)
    PROVE  WaitForInv'
<1>0. /\ cur = Runner(i) /\ cur' = NoTask /\ exc = None /\ Live(k, Aw(i))
      /\ k' = Await(k, cur, Aw(i), now)
      /\ UNCHANGED <<now, exc, waiter, call, outcome, cancels, told, late>>
  BY DEF RunnerStarts
<1>1. /\ i = call /\ call # 0 /\ cur \in Tasks /\ now \in Nat
      /\ Reader \in Tasks /\ Teller \in Tasks
      /\ W \in Tasks /\ X \in Tasks /\ W # X
      /\ Reader \notin {W, X, NoTask, Teller}
      /\ Teller \notin {W, X, NoTask}
      /\ Live(k, cur) /\ k.data[cur] = None
      /\ ~Queued(k, cur) /\ LoopOK(k, {cur}) /\ InOrder(k)
      /\ (outcome = "none" /\ Fresh) \/ Woken
  BY <1>0, CallRuns
<1>2. cur = Teller /\ Live(k, Reader) /\ k' = Await(k, Teller, Reader, now)
      /\ W # NoTask
  BY <1>0, <1>1, TaskNames DEF Reader, Teller
<1>3. outcome = "none" /\ Fresh
  BY <1>1, <1>2 DEF Woken, Gone, IsDone, Live
<1>4. LoopOK(k', {}) /\ WaitsFor(k', k, Teller, Reader)
  <2>1. k.data[Reader].kind # "task"
    BY <1>3, ContentsFacts DEF Fresh
  <2>2. CancelTarget(k, Reader) = Reader
    BY <1>1, <2>1, TargetFacts
  <2>3. /\ LoopOK(k', {Teller} \ {Teller})
        /\ WaitsFor(k', k, Teller, Reader)
    BY <1>1, <1>2, <2>2, AwaitEffect
  <2> QED  BY <2>3
<1>5. Reader' = Reader /\ Teller' = Teller
  BY <1>0 DEF Reader, Teller
<1>6. \A t \in Tasks \ {Reader, Teller} :
         /\ k'.state[t] = k.state[t] /\ k'.data[t] = k.data[t]
         /\ k'.key[t] = k.key[t] /\ (Queued(k', t) <=> Queued(k, t))
  BY <1>4 DEF WaitsFor, Others
<1>7. /\ k'.data[Teller] = OnTask(Reader) /\ k'.state[Teller] = k.state[Teller]
      /\ k'.data[Reader] = k.data[Reader] /\ k'.state[Reader] = "queue"
  BY <1>4 DEF WaitsFor
<1>8. WaitForTypes' /\ Orderly' /\ RunningIsDue'
  BY <1>0, <1>4, ActiveIs
     DEF WaitForInv, WaitForTypes, Orderly, RunningIsDue, WaitsFor
<1>9. Links'
  <2> SUFFICES ASSUME NEW t \in Tasks, NEW u \in Tasks,
                      k'.data[t] = OnTask(u)
               PROVE  \/ t = W /\ u = Teller /\ waiter = "await"
                      \/ t = Teller /\ u = Reader
    BY <1>0, <1>5 DEF Links
  <2>1. CASE t = Teller
    <3>1. u = Reader
      BY <1>7, <2>1, ContentsFacts
    <3> QED  BY <2>1, <3>1
  <2>2. CASE t # Teller
    <3>1. k.data[t] = OnTask(u)
      BY <1>6, <1>7, <2>2
    <3> QED  BY <3>1 DEF WaitForInv, Links
  <2> QED  BY <2>1, <2>2
<1>10. CallOK'
  <2>1. k'.data[W] = k.data[W]
    BY <1>1, <1>6
  <2>2. Pending' = Pending /\ Pending = k.data[W]
    BY <1>0, <1>1, <1>2, <2>1 DEF Pending
  <2>3. Reading'
    BY <1>0, <1>1, <1>2, <1>3, <1>5, <1>7, <2>2 DEF Reading, Fresh, Live
  <2>4. Phase'
    BY <1>0, <1>3, <2>3 DEF Phase
  <2> QED  BY <1>0, <1>1, <2>2, <2>4 DEF WaitForInv, CallOK
<1>11. OthersOK'
  <2>1. {Reader, Teller} \subseteq {W, X, Reader, Teller}
    OBVIOUS
  <2> QED  BY <1>0, <1>6, <2>1, OthersKept
<1>12. WaiterOK'
  BY <1>0, <1>1, <1>6 DEF WaitForInv, WaiterOK, Gone, IsDone
<1> QED  BY <1>8, <1>9, <1>10, <1>11, <1>12 DEF WaitForInv

\* What the runner tells W: nothing, if W waits for something or has been
\* told something else.
TellsW(p, status) ==
    /\ LoopOK(p, {Teller}) /\ InOrder(p) /\ Others(p, k, {W})
    /\ p.state = k.state
    /\ p.data[W] = IF k.data[W] = None /\ Live(k, W)
                   THEN CancelledWith(status) ELSE k.data[W]
    /\ ~Live(k, W) => (Queued(p, W) <=> Queued(k, W))

\* It does so.
LEMMA TellEffect ==
    ASSUME WaitForInv, NEW i \in 1 .. Calls, cur = Runner(i),
           NEW status \in Statuses
    PROVE  TellsW(Tell(k, i, status), status)
<1> DEFINE p == Tell(k, i, status)
<1>1. /\ cur = Teller /\ now \in Nat /\ W \in Tasks /\ Teller # W
      /\ LoopOK(k, {Teller}) /\ InOrder(k) /\ k.key[Teller] <= now
      /\ k \in LoopRecords /\ k.state[W] # "new"
  <2>1. k.state[W] # "new"
    BY DEF WaitForInv, WaiterOK, Gone, IsDone
  <2>2. k \in LoopRecords
    BY WhoGoesOn
  <2> QED  BY <2>1, <2>2, CallRuns DEF Teller
<1>2. IsDone(k, W) <=> ~Live(k, W)
  BY <1>1, RecordIs DEF IsDone, Live, TaskStates
<1>3. CASE k.data[W] = None /\ Live(k, W)
  <2> DEFINE m == Cancel(k, W, now)
  <2>1. /\ LoopOK(m, {Teller})
        /\ Told(m, k, CancelTarget(k, W), now)
    BY <1>1, <1>3, CancelEffect
  <2>2. CancelTarget(k, W) = W
    BY <1>1, <1>3, TargetFacts, ContentsFacts
  <2>3. p = [m EXCEPT !.data[W] = CancelledWith(status)]
    BY <1>2, <1>3 DEF Tell
  <2> HIDE DEF m
  <2>4. Told(m, k, W, now)
    BY <2>1, <2>2
  <2>5. Live(m, W) /\ Idles(m, W) /\ m \in LoopRecords
    BY <1>3, <2>1, <2>4, ContentsFacts DEF Told, Live, Idles, LoopOK
  <2>6. /\ LoopOK(p, {Teller})
        /\ p.data = [m.data EXCEPT ![W] = CancelledWith(status)]
        /\ p.key = m.key /\ p.state = m.state /\ p.runq = m.runq
    BY <1>1, <2>1, <2>3, <2>5, DataKeeps
  <2>7. InOrder(p)
    <3>1. InOrder(m)
      BY <2>4 DEF Told, CancelOrdered
    <3> QED  BY <2>5, <2>6, <3>1, SameOrder
  <2> HIDE DEF p
  <2>8. Others(p, k, {W}) /\ p.data[W] = CancelledWith(status)
    BY <1>1, <2>4, <2>5, <2>6, RecordIs DEF Told, Others, Queued
  <2>9. p.state = k.state
    <3>1. \A t \in Tasks : p.state[t] = k.state[t]
      BY <2>4, <2>6 DEF Told, Others
    <3>2. /\ p.state \in [Tasks -> TaskStates]
          /\ k.state \in [Tasks -> TaskStates]
      BY <1>1, <2>5, <2>6, RecordIs
    <3> QED  BY <3>1, <3>2
  <2> QED  BY <1>3, <2>6, <2>7, <2>8, <2>9 DEF TellsW, p
<1>4. CASE ~(k.data[W] = None /\ Live(k, W))
  <2>1. p = k
    BY <1>2, <1>4 DEF Tell
  <2> QED  BY <1>1, <1>4, <2>1 DEF TellsW, Others
<1> QED  BY <1>3, <1>4

\* The runner ends, and tells W.
LEMMA RunnerEndsKeeps ==
    ASSUME WaitForInv, NEW i \in 1 .. Calls, RunnerEnds(i)
    PROVE  WaitForInv'
<1> DEFINE status == IF exc # None THEN "cancelled" ELSE Status(k.data[Aw(i)])
           l == Tell(k, i, status)
<1>0. /\ cur = Runner(i) /\ cur' = NoTask /\ exc' = None
      /\ k.state[Aw(i)] # "running"
      /\ k' = Finish(l, cur, "return", now)
      /\ UNCHANGED <<now, waiter, call, outcome, cancels, told, late>>
  BY DEF RunnerEnds
<1>1. /\ i = call /\ call # 0 /\ cur \in Tasks /\ now \in Nat
      /\ Reader \in Tasks /\ Teller \in Tasks
      /\ W \in Tasks /\ X \in Tasks /\ W # X
      /\ Reader \notin {W, X, NoTask, Teller}
      /\ Teller \notin {W, X, NoTask}
      /\ Live(k, cur) /\ k.data[cur] = None
      /\ ~Queued(k, cur) /\ LoopOK(k, {cur}) /\ InOrder(k)
      /\ (outcome = "none" /\ Fresh) \/ Woken
      /\ Phase
  BY <1>0, CallRuns
<1>2. cur = Teller /\ Reader = Aw(i) /\ W # NoTask
  BY <1>0, <1>1, TaskNames DEF Reader, Teller
<1>3. Woken /\ outcome \in {"none", "cancelled"}
  <2>1. ~Fresh
    BY <1>0, <1>2 DEF Fresh
  <2>2. Woken /\ ~Finished
    BY <1>1, <1>2, <2>1 DEF Finished, Gone, IsDone, Live
  <2> QED  BY <1>1, <2>1, <2>2 DEF Phase
<1>4. /\ status \in Statuses
      /\ status = "result" => k.data[Reader] = Ended("return")
  BY <1>2 DEF Status, Statuses
<1>5. TellsW(l, status)
  BY <1>0, <1>4, TellEffect
<1> HIDE DEF status, l
<1>6. /\ LoopOK(l, {Teller}) /\ InOrder(l) /\ l.state = k.state
      /\ \A t \in Tasks \ {W} :
           /\ k.data[t] = l.data[t] /\ (Queued(l, t) <=> Queued(k, t))
      /\ l.data[W] = IF k.data[W] = None /\ Live(k, W)
                     THEN CancelledWith(status) ELSE k.data[W]
      /\ ~Live(k, W) => (Queued(l, W) <=> Queued(k, W))
  BY <1>5 DEF TellsW, Others
<1>7. LoopOK(k', {}) /\ Ends(k', l, Teller, "return", now)
  <2>1. Live(l, Teller) /\ "return" \in Outcomes
    BY <1>1, <1>2, <1>6 DEF Live, Outcomes
  <2>2. /\ LoopOK(k', {Teller} \ {Teller})
        /\ Ends(k', l, Teller, "return", now)
    BY <1>0, <1>1, <1>2, <1>6, <2>1, FinishEffect
  <2> QED  BY <2>2
<1>8. Reader' = Reader /\ Teller' = Teller
  BY <1>0 DEF Reader, Teller
<1>9. \A t \in Tasks \ {W, Teller} :
         /\ k'.state[t] = k.state[t] /\ k'.data[t] = k.data[t]
         /\ (Queued(k', t) <=> Queued(k, t))
  <2>1. \A t \in Tasks \ {W} : k.data[t] # OnTask(Teller)
    <3> SUFFICES ASSUME NEW t \in Tasks \ {W}, k.data[t] = OnTask(Teller)
                 PROVE  FALSE
      OBVIOUS
    <3>1. t = Teller /\ Teller = Reader
      BY <1>1 DEF WaitForInv, Links
    <3> QED  BY <1>1, <3>1
  <2> QED  BY <1>6, <1>7, <2>1 DEF Ends
<1>10. /\ k'.state[W] = k.state[W]
       /\ k'.data[W] = IF l.data[W] = OnTask(Teller) THEN None ELSE l.data[W]
       /\ l.data[W] # OnTask(Teller) => (Queued(k', W) <=> Queued(l, W))
  BY <1>1, <1>6, <1>7 DEF Ends
<1>11. /\ k'.data[Teller] = Ended("return") /\ IsDone(k', Teller)
       /\ ~Queued(k', Teller)
  BY <1>7 DEF Ends
<1>12. WaitForTypes' /\ Orderly' /\ RunningIsDue'
  BY <1>0, <1>7, ActiveIs
     DEF WaitForInv, WaitForTypes, Orderly, RunningIsDue, Ends
<1>13. CancelledWith(status).kind = "status"
  BY EndsDiffer
<1>14. Links'
  <2> SUFFICES ASSUME NEW t \in Tasks, NEW u \in Tasks,
                      k'.data[t] = OnTask(u)
               PROVE  \/ t = W /\ u = Teller /\ waiter = "await"
                      \/ t = Teller /\ u = Reader
    BY <1>0, <1>8 DEF Links
  <2>1. t # Teller
    BY <1>11, ContentsFacts, EndsDiffer
  <2>2. k.data[t] = OnTask(u)
    BY <1>6, <1>9, <1>10, <1>13, <2>1, ContentsFacts
  <2> QED  BY <2>2 DEF WaitForInv, Links
<1>15. Pending = k.data[W] /\ Pending' = k'.data[W]
  BY <1>0, <1>1, <1>2 DEF Pending
<1>16. Gone(Reader)' /\ Gone(Teller)' /\ k'.data[Reader] = k.data[Reader]
  BY <1>1, <1>3, <1>8, <1>9, <1>11 DEF Woken, Gone, IsDone
<1>17. CallOK'
  <2>1. ASSUME waiter = "sleep"
        PROVE  /\ Pending' # None
               /\ Pending' = CancelledWith("result") =>
                     k.data[Reader] = Ended("return")
               /\ Pending = Cancelled => Pending' = Cancelled
    <3>1. Live(k, W)
      BY <2>1 DEF WaitForInv, WaiterOK, Live
    <3>2. k.data[W] \in {None, Cancelled}
      BY <1>3, <1>15, <2>1 DEF Woken
    <3>3. CASE k.data[W] = None
      <4>1. Pending' = CancelledWith(status)
        BY <1>6, <1>10, <1>13, <1>15, <3>1, <3>3, ContentsFacts
      <4>2. CancelledWith(status).status = status
        BY EndsDiffer
      <4>3. CancelledWith("result").status = "result"
        BY EndsDiffer
      <4> QED  BY <1>4, <1>13, <1>15, <3>3, <4>1, <4>2, <4>3, ContentsFacts
    <3>4. CASE k.data[W] = Cancelled
      <4>1. Pending' = Cancelled
        BY <1>6, <1>10, <1>15, <3>4, ContentsFacts
      <4> QED  BY <4>1, ContentsFacts, EndsDiffer
    <3> QED  BY <3>2, <3>3, <3>4
  <2>2. ASSUME waiter = "await"
        PROVE  /\ k'.data[W] # OnTask(Teller)
               /\ k.data[Reader] = Ended("return") => late
    BY <1>3, <1>6, <1>10, <2>2, ContentsFacts DEF Woken
  <2>3. Finished'
    BY <1>0, <1>3, <1>8, <1>11, <1>16, <2>1, <2>2 DEF Finished
  <2>4. Phase'
    BY <2>3 DEF Phase
  <2> QED  BY <1>0, <1>1, <2>1, <2>4 DEF WaitForInv, CallOK
<1>18. OthersOK'
  <2>1. {W, Teller} \subseteq {W, X, Reader, Teller}
    OBVIOUS
  <2> QED  BY <1>0, <1>9, <2>1, OthersKept
<1>19. WaiterOK'
  <2>1. ASSUME Gone(W) PROVE Gone(W)'
    <3>1. ~Live(k, W) /\ k.data[W].kind \in {"ended", "none"}
      BY <1>1, <2>1, WhoGoesOn DEF Gone, IsDone, Live, DataOK
    <3>2. l.data[W] # OnTask(Teller)
      BY <1>6, <3>1, ContentsFacts
    <3> QED  BY <1>6, <1>10, <2>1, <3>1, <3>2 DEF Gone, IsDone
  <2>2. k'.data[W].kind # "io"
    BY <1>6, <1>10, <1>13, ContentsFacts DEF WaitForInv, WaiterOK
  <2> QED
    BY <1>0, <1>1, <1>9, <1>10, <2>1, <2>2, ContentsFacts
       DEF WaitForInv, WaiterOK, Gone, IsDone
<1> QED  BY <1>12, <1>14, <1>17, <1>18, <1>19 DEF WaitForInv

\* What is known when W runs.
LEMMA WaiterRuns ==
    ASSUME WaitForInv, cur = W
    PROVE  /\ W \in Tasks /\ X \in Tasks /\ W # X /\ W # NoTask /\ X # NoTask
           /\ Live(k, W) /\ k.state[W] = "running" /\ k.data[W] = None
           /\ ~Queued(k, W) /\ k.key[W] <= now /\ now \in Nat /\ call \in Nat
           /\ LoopOK(k, {W}) /\ InOrder(k) /\ Pending = exc
           /\ call = 0 => waiter = "idle"
           /\ call # 0 =>
                /\ call \in 1 .. Calls
                /\ Reader \in Tasks /\ Teller \in Tasks
                /\ Reader \notin {W, X, NoTask, Teller}
                /\ Teller \notin {W, X, NoTask}
                /\ \/ /\ Reading \/ Woken
                      /\ waiter # "await" /\ ~Finished
                      /\ outcome \in {"none", "cancelled"}
                   \/ Finished
<1>1. /\ W \in Tasks /\ X \in Tasks /\ W # X /\ W # NoTask /\ X # NoTask
      /\ \A i : /\ Aw(i) \notin {W, X, NoTask, Runner(i)}
                /\ Runner(i) \notin {W, X, NoTask}
  BY TaskNames
<1>2. Live(k, W) /\ k.data[W] = None /\ k.key[W] <= now
  BY <1>1 DEF WaitForInv, RunningIsDue
<1>3. k.state[W] = "running"
  BY <1>2 DEF WaitForInv, WaiterOK, Gone, IsDone, Live
<1>4. ~Queued(k, W)
  BY <1>1, <1>2, WhoGoesOn DEF DataOK
<1>5. LoopOK(k, {W}) /\ InOrder(k) /\ Pending = exc
  BY <1>1, ActiveIs DEF WaitForInv, Orderly, Pending
<1>6. /\ now \in Nat /\ call \in Nat
      /\ call = 0 => waiter = "idle"
      /\ call # 0 => Phase
  BY WaitForAssumption DEF WaitForInv, WaitForTypes, CallOK
<1>7. k.data[W] # OnTask(Teller)
  BY <1>2, ContentsFacts
<1>8. Phase => \/ /\ Reading \/ Woken
                  /\ waiter # "await" /\ ~Finished
                  /\ outcome \in {"none", "cancelled"}
               \/ Finished
  BY <1>4, <1>7 DEF Phase, Fresh, Reading, Woken
<1> QED
  BY <1>1, <1>2, <1>3, <1>4, <1>5, <1>6, <1>8, WhoGoesOn DEF Reader, Teller

\* W calls wait_for.
LEMMA CallKeeps ==
    ASSUME WaitForInv, Call PROVE WaitForInv'
<1> DEFINE a == Aw(call + 1)
           r == Runner(call + 1)
           one == Create(k, a, now)
           two == Create(one, r, now)
           time == now + Timeout
<1>0. /\ cur = W /\ waiter = "idle" /\ outcome # "cancelled" /\ exc = None
      /\ call < Calls /\ call' = call + 1
      /\ k' = Push(two, W, time)
      /\ waiter' = "sleep" /\ cur' = NoTask
      /\ outcome' = "none" /\ told' = FALSE /\ late' = FALSE
      /\ now' = now /\ exc' = exc
  BY DEF Call
<1>1. /\ W \in Tasks /\ X \in Tasks /\ W # X /\ W # NoTask /\ X # NoTask
      /\ Live(k, W) /\ k.state[W] = "running" /\ k.data[W] = None
      /\ ~Queued(k, W) /\ now \in Nat /\ call \in Nat
      /\ LoopOK(k, {W}) /\ InOrder(k)
      /\ call # 0 => /\ call \in 1 .. Calls
                     /\ Reader \in Tasks /\ Teller \in Tasks
  BY <1>0, WaiterRuns
<1>2. call # 0 => Finished
  BY <1>0, WaiterRuns DEF WaitForInv, CallOK
<1>3. /\ call + 1 \in 1 .. Calls /\ time \in Nat /\ now <= time
      /\ \A i \in 1 .. Calls : i > call + 1 => i > call
      /\ \A i \in 1 .. Calls : i < call + 1 => i < call \/ i = call
  BY <1>0, <1>1, WaitForAssumption
<1>4. /\ a \in Tasks /\ r \in Tasks /\ a # r
      /\ a \notin {W, X, NoTask} /\ r \notin {W, X, NoTask}
  BY <1>3, TaskNames
<1>5. k.state[a] = "new" /\ k.state[r] = "new"
  BY <1>1, <1>3 DEF WaitForInv, OthersOK
<1> HIDE DEF a, r, time
<1>6. /\ LoopOK(one, {W}) /\ Comes(one, k, a, now)
      /\ one.state = [k.state EXCEPT ![a] = "running"]
  <2>1. /\ LoopOK(one, {W} \ {a}) /\ Comes(one, k, a, now)
        /\ one.state = [k.state EXCEPT ![a] = "running"]
    BY <1>1, <1>4, <1>5, CreateEffect
  <2>2. {W} \ {a} = {W}
    BY <1>4
  <2> QED  BY <2>1, <2>2
<1>7. k.state \in [Tasks -> TaskStates]
  BY <1>1, RecordIs DEF LoopOK
<1> HIDE DEF one
<1>8. /\ LoopOK(two, {W}) /\ Comes(two, one, r, now)
      /\ two.state = [one.state EXCEPT ![r] = "running"]
  <2>1. one.state[r] = "new" /\ InOrder(one)
    BY <1>4, <1>5, <1>6, <1>7 DEF Comes
  <2>2. /\ LoopOK(two, {W} \ {r}) /\ Comes(two, one, r, now)
        /\ two.state = [one.state EXCEPT ![r] = "running"]
    <3>1. LoopOK(one, {W}) /\ r \in Tasks /\ now \in Nat
      BY <1>1, <1>4, <1>6
    <3> QED  BY <2>1, <3>1, CreateEffect
  <2>3. {W} \ {r} = {W}
    BY <1>4
  <2> QED  BY <2>2, <2>3
<1> HIDE DEF two
<1>9. \A t \in Tasks \ {a, r} :
         /\ two.state[t] = k.state[t] /\ two.data[t] = k.data[t]
         /\ (Queued(two, t) <=> Queued(k, t))
  BY <1>6, <1>8 DEF Comes, Others
<1>10. /\ two.state[a] = "running" /\ two.data[a] = None
       /\ two.state[r] = "running" /\ two.data[r] = None
       /\ Queued(two, r) /\ two.key[r] = now
  BY <1>4, <1>6, <1>7, <1>8 DEF Comes, Others
<1>11. /\ LoopOK(k', {}) /\ Comes(k', two, W, time)
       /\ k'.state = two.state
  <2>1. /\ Live(two, W) /\ ~Queued(two, W) /\ two.data[W].kind # "task"
        /\ InOrder(two)
    BY <1>1, <1>4, <1>8, <1>9, ContentsFacts DEF Live, Comes
  <2>2. /\ LoopOK(k', {W} \ {W}) /\ Comes(k', two, W, time)
        /\ k'.state = two.state
    BY <1>0, <1>1, <1>3, <1>8, <2>1, PushEffect
  <2> QED  BY <2>2
<1>12. \A t \in Tasks \ {a, r, W} :
          /\ k'.state[t] = k.state[t] /\ k'.data[t] = k.data[t]
          /\ (Queued(k', t) <=> Queued(k, t))
  BY <1>9, <1>11 DEF Comes, Others
<1>13. /\ k'.state[a] = "running" /\ k'.data[a] = None
       /\ k'.state[r] = "running" /\ k'.data[r] = None
       /\ k'.key[r] = now
  BY <1>4, <1>10, <1>11 DEF Comes, Others
<1>14. /\ k'.state[W] = "running" /\ k'.data[W] = None /\ Queued(k', W)
       /\ Before(k', r, W)
  BY <1>1, <1>3, <1>4, <1>9, <1>10, <1>11 DEF Comes
<1>15. Reader' = a /\ Teller' = r
  BY <1>0 DEF Reader, Teller, a, r
<1>16. WaitForTypes' /\ Orderly' /\ RunningIsDue'
  BY <1>0, <1>1, <1>3, <1>11, ActiveIs
     DEF WaitForInv, WaitForTypes, Orderly, RunningIsDue, Comes
<1>17. Links'
  <2> SUFFICES ASSUME NEW t \in Tasks, NEW u \in Tasks,
                      k'.data[t] = OnTask(u)
               PROVE  FALSE
    BY DEF Links
  <2>1. t \notin {a, r, W}
    BY <1>13, <1>14, ContentsFacts
  <2>2. k.data[t] = OnTask(u)
    BY <1>12, <2>1
  <2>3. t = Teller
    BY <2>1, <2>2 DEF WaitForInv, Links
  <2>4. call = 0
    BY <1>2, <2>2, <2>3, ContentsFacts, EndsDiffer DEF Finished
  <2>5. \A i \in 1 .. Calls : i # 0
    BY WaitForAssumption
  <2> QED  BY <2>3, <2>4, <2>5, TaskNames DEF Teller
<1>18. CallOK'
  <2>1. Fresh'
    <3>1. k'.key[r] <= now
      BY <1>1, <1>13
    <3> QED
      BY <1>0, <1>4, <1>13, <1>14, <1>15, <3>1 DEF Fresh
  <2>2. call' # 0
    BY <1>0, <1>1
  <2> QED  BY <1>0, <2>1, <2>2 DEF CallOK, Phase
<1>19. OthersOK'
  <2> SUFFICES ASSUME NEW i \in 1 .. Calls
               PROVE  /\ i > call + 1 => /\ k'.state[Aw(i)] = "new"
                                         /\ k'.state[Runner(i)] = "new"
                      /\ i < call + 1 => Gone(Aw(i))' /\ Gone(Runner(i))'
    BY <1>0 DEF OthersOK
  <2>1. CASE i = call + 1
    BY <1>1, <2>1
  <2>2. CASE i # call + 1
    <3>1. Aw(i) \in Tasks \ {a, r, W} /\ Runner(i) \in Tasks \ {a, r, W}
      BY <2>2, TaskNames DEF a, r
    <3>2. i > call + 1 => k.state[Aw(i)] = "new" /\ k.state[Runner(i)] = "new"
      BY <1>3 DEF WaitForInv, OthersOK
    <3>3. i < call + 1 => Gone(Aw(i)) /\ Gone(Runner(i))
      <4>1. i = call => Gone(Aw(i)) /\ Gone(Runner(i))
        BY <1>1, <1>2, WaitForAssumption DEF Finished, Reader, Teller
      <4> QED  BY <1>3, <4>1 DEF WaitForInv, OthersOK
    <3> QED  BY <1>12, <3>1, <3>2, <3>3 DEF Gone, IsDone
  <2> QED  BY <2>1, <2>2
<1>20. WaiterOK'
  <2>1. X \in Tasks \ {a, r, W}
    BY <1>1, <1>4
  <2> QED
    BY <1>0, <1>12, <1>14, <2>1, ContentsFacts
       DEF WaitForInv, WaiterOK, Gone, IsDone
<1> QED  BY <1>16, <1>17, <1>18, <1>19, <1>20 DEF WaitForInv

\* W learns how its call has ended, or catches what is thrown into it.
LEMMA LeavesKeeps ==
    ASSUME WaitForInv, Answered \/ AfterRunner \/ CatchElsewhere
    PROVE  WaitForInv'
<1>0. /\ cur = W /\ exc' = None
      /\ UNCHANGED <<k, now, cur, call, told, late>>
  BY DEF Answered, AfterRunner, CatchElsewhere, Leave
<1>1. /\ W \in Tasks /\ W # X /\ W # NoTask /\ k.data[W] = None
      /\ Pending = exc /\ Pending' = None
  BY <1>0, WaiterRuns DEF Pending
<1>2. Reader' = Reader /\ Teller' = Teller
  BY <1>0 DEF Reader, Teller
<1>3. Orderly' /\ RunningIsDue' /\ OthersOK'
  BY <1>0 DEF WaitForInv, Orderly, RunningIsDue, OthersOK, Gone
<1>4. Links'
  <2> SUFFICES ASSUME NEW t \in Tasks, NEW u \in Tasks,
                      k.data[t] = OnTask(u)
               PROVE  t = Teller /\ u = Reader
    BY <1>0, <1>2 DEF Links
  <2> QED  BY <1>1, ContentsFacts DEF WaitForInv, Links
<1>5. CASE Answered
  <2>1. /\ waiter = "sleep" /\ exc.kind = "status" /\ outcome' = exc.status
        /\ waiter' = "idle"
    BY <1>5 DEF Answered, Leave
  <2>2. exc \notin {None, Cancelled}
    BY <2>1, ContentsFacts
  <2>3. call # 0 /\ outcome = "none" /\ ~told
    BY <1>1, <2>1, <2>2 DEF WaitForInv, CallOK
  <2>4. Finished
    BY <1>0, <1>1, <2>1, <2>2, <2>3, WaiterRuns DEF Reading, Woken
  <2>5. /\ exc.status \in Statuses
        /\ exc = CancelledWith(exc.status)
    <3>1. exc \in Contents
      BY DEF WaitForInv, WaiterOK
    <3>2. \E status \in Statuses : exc = CancelledWith(status)
      BY <2>1, <3>1, ContentsFacts DEF Contents
    <3> QED  BY <3>2, ContentsFacts
  <2>6. Finished'
    BY <1>0, <1>1, <1>2, <2>1, <2>4, <2>5
       DEF Finished, Gone, Statuses
  <2>7. CallOK'
    BY <1>0, <2>1, <2>3, <2>5, <2>6 DEF CallOK, Phase, Statuses
  <2>8. WaitForTypes'
    BY <1>0, <2>1, <2>5 DEF WaitForInv, WaitForTypes, Statuses
  <2>9. WaiterOK'
    BY <1>0, <2>1, ContentsFacts DEF WaitForInv, WaiterOK, Gone
  <2> QED  BY <1>3, <1>4, <2>7, <2>8, <2>9 DEF WaitForInv
<1>6. CASE AfterRunner
  <2>1. /\ waiter = "await" /\ outcome' \in {"cancelled", "timeout"}
        /\ waiter' = "idle"
    BY <1>6 DEF AfterRunner, Leave
  <2>2. call # 0 /\ outcome = "none" /\ ~told
    BY <2>1 DEF WaitForInv, CallOK
  <2>3. Finished
    BY <1>0, <2>1, <2>2, WaiterRuns
  <2>4. Finished'
    BY <1>0, <1>2, <2>1, <2>3 DEF Finished, Gone
  <2>5. CallOK'
    BY <1>0, <2>1, <2>2, <2>4 DEF CallOK, Phase
  <2>6. WaitForTypes'
    BY <1>0, <2>1 DEF WaitForInv, WaitForTypes
  <2>7. WaiterOK'
    BY <1>0, <2>1, ContentsFacts DEF WaitForInv, WaiterOK, Gone
  <2> QED  BY <1>3, <1>4, <2>5, <2>6, <2>7 DEF WaitForInv
<1>7. CASE CatchElsewhere
  <2>1. waiter = "idle" /\ waiter' = "idle" /\ outcome' = outcome
    BY <1>7 DEF CatchElsewhere
  <2>2. CallOK'
    <3>1. call = 0 => CallOK'
      BY <1>0, <2>1 DEF WaitForInv, CallOK
    <3>2. ASSUME call # 0 PROVE Phase'
      <4>1. /\ Reader \notin {W, X, NoTask, Teller}
            /\ Teller \notin {W, X, NoTask}
        BY <1>0, <3>2, WaiterRuns
      <4>2. Reading => Reading'
        BY <1>0, <1>2, <2>1, <4>1 DEF Reading, Stopped
      <4>3. Woken => Woken'
        BY <1>0, <1>2, <2>1 DEF Woken, Gone
      <4>4. Finished => Finished'
        BY <1>0, <1>2, <2>1 DEF Finished, Gone
      <4> QED
        BY <1>0, <2>1, <3>2, <4>2, <4>3, <4>4, WaiterRuns DEF Phase
    <3> QED  BY <1>0, <2>1, <3>1, <3>2 DEF WaitForInv, CallOK
  <2>3. WaitForTypes'
    BY <1>0, <2>1 DEF WaitForInv, WaitForTypes
  <2>4. WaiterOK'
    BY <1>0, <2>1, ContentsFacts DEF WaitForInv, WaiterOK, Gone
  <2> QED  BY <1>3, <1>4, <2>2, <2>3, <2>4 DEF WaitForInv
<1> QED  BY <1>5, <1>6, <1>7

\* W sleeps between two calls, or ends.
LEMMA RestsKeeps ==
    ASSUME WaitForInv, SleepElsewhere \/ EndWaiter PROVE WaitForInv'
<1>0. /\ cur = W /\ cur' = NoTask /\ exc' = None /\ waiter = "idle"
      /\ UNCHANGED <<now, waiter, call, outcome, cancels, told, late>>
  BY DEF SleepElsewhere, EndWaiter
<1>1. /\ W \in Tasks /\ X \in Tasks /\ W # X /\ W # NoTask /\ X # NoTask
      /\ Live(k, W) /\ k.state[W] = "running" /\ k.data[W] = None
      /\ ~Queued(k, W) /\ now \in Nat /\ LoopOK(k, {W}) /\ InOrder(k)
  BY <1>0, WaiterRuns
<1>2. /\ LoopOK(k', {}) /\ InOrder(k') /\ Others(k', k, {W})
      /\ k'.data[W].kind \in {"none", "ended"}
      /\ \/ k'.state[W] = k.state[W]
         \/ IsDone(k', W) /\ ~Queued(k', W)
  <2>1. CASE SleepElsewhere
    <3>1. k' = Push(k, W, now + 1) /\ now + 1 \in Nat
      BY <1>1, <2>1 DEF SleepElsewhere
    <3>2. k.data[W].kind # "task"
      BY <1>1, ContentsFacts
    <3>3. /\ LoopOK(k', {W} \ {W}) /\ Comes(k', k, W, now + 1)
          /\ k'.state = k.state
      BY <1>1, <3>1, <3>2, PushEffect
    <3>4. {W} \ {W} = {}
      OBVIOUS
    <3> QED  BY <3>3, <3>4, ContentsFacts DEF Comes
  <2>2. CASE EndWaiter
    <3>1. k' = Finish(k, W, "return", now) /\ "return" \in Outcomes
      BY <2>2 DEF EndWaiter, Outcomes
    <3>2. LoopOK(k', {W} \ {W}) /\ Ends(k', k, W, "return", now)
      BY <1>1, <3>1, FinishEffect
    <3>3. \A t \in Tasks : k.data[t] # OnTask(W)
      BY <1>1, TaskNames DEF WaitForInv, Links, Teller, Reader
    <3>4. Others(k', k, {W})
      BY <3>2, <3>3 DEF Ends, Others
    <3>5. {W} \ {W} = {}
      OBVIOUS
    <3> QED  BY <3>2, <3>4, <3>5, EndsDiffer DEF Ends
  <2> QED  BY <2>1, <2>2
<1>3. Reader' = Reader /\ Teller' = Teller
  BY <1>0 DEF Reader, Teller
<1>4. \A t \in Tasks \ {W} :
         /\ k'.state[t] = k.state[t] /\ k'.data[t] = k.data[t]
         /\ k'.key[t] = k.key[t] /\ (Queued(k', t) <=> Queued(k, t))
  BY <1>2 DEF Others
<1>5. WaitForTypes' /\ Orderly' /\ RunningIsDue'
  BY <1>0, <1>2, ActiveIs
     DEF WaitForInv, WaitForTypes, Orderly, RunningIsDue
<1>6. Links'
  <2> SUFFICES ASSUME NEW t \in Tasks, NEW u \in Tasks,
                      k'.data[t] = OnTask(u)
               PROVE  t = Teller /\ u = Reader
    BY <1>3 DEF Links
  <2>1. t # W
    BY <1>2, ContentsFacts
  <2>2. k.data[t] = OnTask(u)
    BY <1>4, <2>1
  <2> QED  BY <2>1, <2>2 DEF WaitForInv, Links
<1>7. CallOK'
  <2>1. call = 0 => CallOK'
    BY <1>0 DEF WaitForInv, CallOK
  <2>2. ASSUME call # 0 PROVE Phase'
    <3>1. /\ Reader \in Tasks \ {W} /\ Teller \in Tasks \ {W}
          /\ Reader # NoTask
      BY <1>0, <2>2, WaiterRuns
    <3>2. Reading => Reading'
      BY <1>0, <1>3, <1>4, <3>1 DEF Reading, Stopped, Live
    <3>3. Woken => Woken'
      BY <1>0, <1>3, <1>4, <3>1 DEF Woken, Gone, Live, IsDone
    <3>4. Finished => Finished'
      BY <1>0, <1>3, <1>4, <3>1 DEF Finished, Gone, IsDone
    <3> QED
      BY <1>0, <2>2, <3>2, <3>3, <3>4, WaiterRuns DEF Phase
  <2> QED  BY <1>0, <2>1, <2>2 DEF WaitForInv, CallOK
<1>8. OthersOK'
  <2>1. {W} \subseteq {W, X, Reader, Teller}
    OBVIOUS
  <2> QED  BY <1>0, <1>4, <2>1, OthersKept
<1>9. WaiterOK'
  BY <1>0, <1>1, <1>2, <1>4, ContentsFacts
     DEF WaitForInv, WaiterOK, Gone, IsDone
<1> QED  BY <1>5, <1>6, <1>7, <1>8, <1>9 DEF WaitForInv

\* What cancel() of the runner does, before or after the reader has ended.
Stops(p, c, u) ==
    /\ LoopOK(p, {c}) /\ Told(p, k, u, now) /\ CancelTarget(p, Teller) = u
    /\ CancelTarget(k, Teller) = u
    /\ u = IF Reading THEN Reader ELSE Teller

\* It does so.
LEMMA StopEffect ==
    ASSUME WaitForInv, Reading \/ Woken, Reader \in Tasks, Teller \in Tasks,
           Reader # Teller,
           NEW c \in Tasks, cur = c
    PROVE  \E u \in {Reader, Teller} : Stops(Cancel(k, Teller, now), c, u)
<1> DEFINE p == Cancel(k, Teller, now)
           u == IF Reading THEN Reader ELSE Teller
<1>1. /\ LoopOK(k, {c}) /\ InOrder(k) /\ now \in Nat /\ Live(k, Teller)
      /\ \A s \in {c} : k.key[s] <= now
  <2>1. c # NoTask
    BY TaskNames
  <2>2. LoopOK(k, {c})
    BY ActiveIs DEF WaitForInv, Orderly
  <2> QED
    BY <2>1, <2>2
       DEF WaitForInv, Orderly, WaitForTypes, RunningIsDue, Reading, Woken
<1>2. CancelTarget(k, Teller) = u
  <2>1. CASE Reading
    <3>1. k.data[Teller] = OnTask(Reader) /\ k.data[Reader].kind # "task"
      BY <2>1, ContentsFacts DEF Reading
    <3>2. k.data[Teller].kind = "task" /\ k.data[Teller].task = Reader
      BY <3>1, ContentsFacts
    <3> QED  BY <1>1, <2>1, <3>1, <3>2, TargetFacts
  <2>2. CASE ~Reading
    <3>1. k.data[Teller].kind # "task"
      BY <2>2, ContentsFacts DEF Woken
    <3> QED  BY <1>1, <2>2, <3>1, TargetFacts
  <2> QED  BY <2>1, <2>2
<1>3. LoopOK(p, {c}) /\ Told(p, k, u, now)
  BY <1>1, <1>2, CancelEffect
<1> HIDE DEF p
<1>4. CancelTarget(p, Teller) = u
  <2>1. CASE Reading
    <3>1. p.data[Teller] = OnTask(Reader) /\ p.data[Reader].kind # "task"
      BY <1>3, <2>1, ContentsFacts DEF Reading, Told, Others
    <3>2. p.data[Teller].kind = "task" /\ p.data[Teller].task = Reader
      BY <3>1, ContentsFacts
    <3> QED  BY <1>3, <2>1, <3>1, <3>2, TargetFacts
  <2>2. CASE ~Reading
    <3>1. p.data[Teller].kind # "task"
      BY <1>3, <2>2, ContentsFacts DEF Told
    <3> QED  BY <1>3, <2>2, <3>1, TargetFacts
  <2> QED  BY <2>1, <2>2
<1>5. Stops(p, c, u)
  BY <1>2, <1>3, <1>4 DEF Stops
<1> QED  BY <1>5 DEF p

\* The sleep of W is cancelled by X: the runner is given up.
LEMMA CancelledKeeps ==
    ASSUME WaitForInv, CancelledInSleep PROVE WaitForInv'
<1>0. /\ cur = W /\ cur' = cur /\ exc = Cancelled /\ exc' = None
      /\ waiter = "sleep" /\ waiter' = "idle" /\ outcome' = "cancelled"
      /\ k' = Cancel(k, Teller, now)
      /\ UNCHANGED <<now, call, told, late>>
  BY DEF CancelledInSleep, Leave, Teller
<1>1. /\ W \in Tasks /\ X \in Tasks /\ W # X /\ W # NoTask /\ X # NoTask
      /\ k.data[W] = None /\ call # 0
      /\ Reader \in Tasks /\ Teller \in Tasks
      /\ Reader \notin {W, X, NoTask, Teller}
      /\ Teller \notin {W, X, NoTask}
      /\ Reading \/ Woken \/ Finished
  BY <1>0, WaiterRuns
<1>2. Reader' = Reader /\ Teller' = Teller
  BY <1>0 DEF Reader, Teller
<1>3. CASE Finished
  <2>1. k' = k
    BY <1>0, <1>3 DEF Finished, Gone, Cancel
  <2>2. WaitForTypes' /\ Orderly' /\ RunningIsDue' /\ OthersOK' /\ WaiterOK'
    BY <1>0, <2>1, ContentsFacts
       DEF WaitForInv, WaitForTypes, Orderly, RunningIsDue, OthersOK,
           WaiterOK, Gone
  <2>3. Links'
    <3> SUFFICES ASSUME NEW t \in Tasks, NEW u \in Tasks,
                        k.data[t] = OnTask(u)
                 PROVE  t = Teller /\ u = Reader
      BY <1>2, <2>1 DEF Links
    <3> QED  BY <1>1, ContentsFacts DEF WaitForInv, Links
  <2>4. Finished'
    BY <1>0, <1>2, <1>3, <2>1 DEF Finished, Gone
  <2>5. CallOK'
    BY <1>0, <1>1, <2>4 DEF CallOK, Phase
  <2> QED  BY <2>2, <2>3, <2>5 DEF WaitForInv
<1>4. CASE Reading \/ Woken
  <2>1. PICK u \in {Reader, Teller} : Stops(k', W, u)
    BY <1>0, <1>1, <1>4, StopEffect
  <2>2. /\ LoopOK(k', {W}) /\ InOrder(k') /\ k'.data[u] = Cancelled
        /\ k'.state[u] = k.state[u]
        /\ \A t \in Tasks \ {u} :
             /\ k'.state[t] = k.state[t] /\ k'.data[t] = k.data[t]
             /\ k'.key[t] = k.key[t] /\ (Queued(k', t) <=> Queued(k, t))
    BY <2>1 DEF Stops, Told, Others, CancelOrdered
  <2>3. WaitForTypes' /\ Orderly' /\ RunningIsDue'
    BY <1>0, <1>1, <2>2, ActiveIs
       DEF WaitForInv, WaitForTypes, Orderly, RunningIsDue, Live
  <2>4. Links'
    <3> SUFFICES ASSUME NEW t \in Tasks, NEW v \in Tasks,
                        k'.data[t] = OnTask(v)
                 PROVE  t = Teller /\ v = Reader
      BY <1>2 DEF Links
    <3>1. t # u
      BY <2>2, ContentsFacts
    <3>2. k.data[t] = OnTask(v)
      BY <2>2, <3>1
    <3> QED  BY <1>1, <3>2, ContentsFacts DEF WaitForInv, Links
  <2>5. Reading' \/ Woken'
    <3>1. CASE Reading
      <4>1. u = Reader
        BY <2>1, <3>1 DEF Stops
      <4> QED
        BY <1>0, <1>1, <1>2, <2>2, <3>1, <4>1 DEF Reading, Stopped, Live
    <3>2. CASE ~Reading
      <4>1. u = Teller
        BY <2>1, <3>2 DEF Stops
      <4> QED
        BY <1>0, <1>1, <1>2, <1>4, <2>2, <3>2, <4>1
           DEF Woken, Gone, Live, IsDone
    <3> QED  BY <3>1, <3>2
  <2>6. CallOK'
    BY <1>0, <1>1, <2>5 DEF CallOK, Phase
  <2>7. OthersOK'
    <3>1. {u} \subseteq {W, X, Reader, Teller}
      OBVIOUS
    <3> QED  BY <1>0, <2>2, <3>1, OthersKept
  <2>8. WaiterOK'
    BY <1>0, <1>1, <2>2, ContentsFacts
       DEF WaitForInv, WaiterOK, Gone, IsDone
  <2> QED  BY <2>3, <2>4, <2>6, <2>7, <2>8 DEF WaitForInv
<1> QED  BY <1>1, <1>3, <1>4

\* The sleep of W ends: the runner is given up and awaited.
LEMMA TimedOutKeeps ==
    ASSUME WaitForInv, TimedOut PROVE WaitForInv'
<1> DEFINE stopped == Cancel(k, Teller, now)
<1>0. /\ cur = W /\ exc = None /\ exc' = exc
      /\ waiter = "sleep" /\ waiter' = "await" /\ outcome' = outcome
      /\ k' = Await(stopped, W, Teller, now)
      /\ cur' = IF IsDone(k, Teller) THEN W ELSE NoTask
      /\ UNCHANGED <<now, call, told, late>>
  BY DEF TimedOut, Teller
<1>1. /\ W \in Tasks /\ X \in Tasks /\ W # X /\ W # NoTask /\ X # NoTask
      /\ Live(k, W) /\ k.state[W] = "running" /\ k.data[W] = None
      /\ call # 0 /\ Pending = None /\ ~Queued(k, W) /\ now \in Nat
      /\ Reader \in Tasks /\ Teller \in Tasks
      /\ Reader \notin {W, X, NoTask, Teller}
      /\ Teller \notin {W, X, NoTask}
  BY <1>0, WaiterRuns
<1>2. (Reading \/ Woken) /\ outcome = "none" /\ ~told
  <2>1. ~Finished
    BY <1>0, <1>1 DEF Finished
  <2>2. outcome = "none"
    BY <1>0, <1>1 DEF WaitForInv, CallOK
  <2>3. ~told
    BY <1>1, <2>2, ContentsFacts DEF WaitForInv, CallOK
  <2> QED  BY <1>0, <1>1, <2>1, <2>2, <2>3, WaiterRuns
<1>3. PICK u \in {Reader, Teller} : Stops(stopped, W, u)
  BY <1>0, <1>1, <1>2, StopEffect
<1> HIDE DEF stopped
<1>4. /\ LoopOK(stopped, {W}) /\ InOrder(stopped)
      /\ stopped.data[u] = Cancelled /\ stopped.state[u] = k.state[u]
      /\ \A t \in Tasks \ {u} :
           /\ stopped.state[t] = k.state[t] /\ stopped.data[t] = k.data[t]
           /\ (Queued(stopped, t) <=> Queued(k, t))
  BY <1>3 DEF Stops, Told, Others, CancelOrdered
<1>5. Live(k, Teller)
  BY <1>2 DEF Reading, Woken
<1>6. cur' = NoTask
  BY <1>0, <1>5 DEF IsDone, Live
<1>7. LoopOK(k', {}) /\ WaitsFor(k', stopped, W, Teller)
  <2>1. Live(stopped, W) /\ Live(stopped, Teller)
    BY <1>1, <1>4, <1>5 DEF Live
  <2>2. CancelTarget(stopped, Teller) # W
    BY <1>1, <1>3 DEF Stops
  <2>3. /\ LoopOK(k', {W} \ {W}) /\ WaitsFor(k', stopped, W, Teller)
    BY <1>0, <1>1, <1>4, <2>1, <2>2, AwaitEffect
  <2> QED  BY <2>3
<1>8. Reader' = Reader /\ Teller' = Teller
  BY <1>0 DEF Reader, Teller
<1>9. /\ k'.data[W] = OnTask(Teller) /\ k'.state[W] = "running"
      /\ k'.data[Teller] = stopped.data[Teller] /\ k'.state[Teller] = "queue"
      /\ k'.data[Reader] = stopped.data[Reader]
      /\ k'.state[Reader] = k.state[Reader]
      /\ (Queued(k', Reader) <=> Queued(stopped, Reader))
  BY <1>1, <1>3, <1>4, <1>7 DEF WaitsFor, Others
<1>10. \A t \in Tasks \ {W, Reader, Teller} :
          /\ k'.state[t] = k.state[t] /\ k'.data[t] = k.data[t]
          /\ (Queued(k', t) <=> Queued(k, t))
  BY <1>4, <1>7 DEF WaitsFor, Others
<1>11. WaitForTypes' /\ Orderly' /\ RunningIsDue'
  BY <1>0, <1>6, <1>7, ActiveIs
     DEF WaitForInv, WaitForTypes, Orderly, RunningIsDue, WaitsFor
<1>12. Links'
  <2> SUFFICES ASSUME NEW t \in Tasks, NEW v \in Tasks,
                      k'.data[t] = OnTask(v)
               PROVE  \/ t = W /\ v = Teller
                      \/ t = Teller /\ v = Reader
    BY <1>0, <1>8 DEF Links
  <2>1. CASE t = W
    BY <1>9, <2>1, ContentsFacts
  <2>2. CASE t # W
    <3>1. k'.data[t] \in {k.data[t], Cancelled}
      BY <1>3, <1>4, <1>9, <1>10, <2>2
    <3>2. k.data[t] = OnTask(v)
      BY <3>1, ContentsFacts
    <3> QED  BY <2>2, <3>2 DEF WaitForInv, Links
  <2> QED  BY <2>1, <2>2
<1>13. CallOK'
  <2>1. CASE Reading
    <3>1. u = Reader
      BY <1>3, <2>1 DEF Stops
    <3>2. Reading'
      BY <1>0, <1>1, <1>4, <1>8, <1>9, <2>1, <3>1
         DEF Reading, Stopped, Live
    <3> QED  BY <1>0, <1>1, <1>2, <3>2 DEF CallOK, Phase
  <2>2. CASE ~Reading
    <3>1. u = Teller
      BY <1>3, <2>2 DEF Stops
    <3>2. Gone(Reader)' /\ k'.data[Reader] = k.data[Reader]
      BY <1>1, <1>2, <1>4, <1>8, <1>9, <2>2, <3>1 DEF Woken, Gone, IsDone
    <3>3. ~(k.data[Reader] = Ended("return") /\ ~late)
      <4>1. ~Before(k, Teller, W)
        BY <1>1 DEF Before, Queued, Range
      <4> QED  BY <1>0, <1>1, <1>2, <2>2, <4>1 DEF Woken
    <3>4. Woken'
      BY <1>0, <1>4, <1>8, <1>9, <3>1, <3>2, <3>3 DEF Woken, Live
    <3> QED  BY <1>0, <1>1, <1>2, <3>4 DEF CallOK, Phase
  <2> QED  BY <2>1, <2>2
<1>14. OthersOK'
  <2>1. {W, Reader, Teller} \subseteq {W, X, Reader, Teller}
    OBVIOUS
  <2> QED  BY <1>0, <1>10, <2>1, OthersKept
<1>15. WaiterOK'
  BY <1>0, <1>1, <1>9, <1>10, ContentsFacts
     DEF WaitForInv, WaiterOK, Gone, IsDone
<1> QED  BY <1>11, <1>12, <1>13, <1>14, <1>15 DEF WaitForInv

\* X cancels W, wherever W is.
LEMMA CancelWaiterKeeps ==
    ASSUME WaitForInv, CancelWaiter PROVE WaitForInv'
<1>0. /\ cur = X /\ k' = Cancel(k, W, now) /\ Live(k, W)
      /\ told' = (told \/ waiter = "sleep")
      /\ UNCHANGED <<now, cur, exc, waiter, call, outcome, late>>
  BY DEF CancelWaiter
<1>1. /\ W \in Tasks /\ X \in Tasks /\ W # X /\ W # NoTask /\ X # NoTask
      /\ Reader \notin {W, X, NoTask, Teller}
      /\ Teller \notin {W, X, NoTask}
      /\ call # 0 => Reader \in Tasks /\ Teller \in Tasks
      /\ now \in Nat
  BY TaskNames, WhoGoesOn DEF Reader, Teller, WaitForInv, WaitForTypes
<1>2. /\ LoopOK(k, {X}) /\ InOrder(k) /\ \A s \in {X} : k.key[s] <= now
      /\ k.state[W] = "running"
  BY <1>0, <1>1, ActiveIs
     DEF WaitForInv, Orderly, RunningIsDue, WaiterOK, Gone, IsDone, Live
<1>3. Reader' = Reader /\ Teller' = Teller
  BY <1>0 DEF Reader, Teller
<1>4. Pending = k.data[W] /\ Pending' = k'.data[W]
  BY <1>0, <1>1 DEF Pending
<1> DEFINE u == CancelTarget(k, W)
<1>5. LoopOK(k', {X}) /\ Told(k', k, u, now) /\ u \in Tasks
  BY <1>0, <1>1, <1>2, CancelEffect
<1>6. CASE k.data[W].kind = "task"
  <2>1. k.data[W] = OnTask(Teller) /\ waiter = "await"
    <3>1. k.data[W].task \in Tasks /\ k.data[W] = OnTask(k.data[W].task)
      BY <1>1, <1>6, WhoGoesOn, RecordIs, Kinds
    <3> QED  BY <1>1, <3>1 DEF WaitForInv, Links
  <2>2. call # 0 /\ outcome = "none" /\ ~told
    BY <2>1 DEF WaitForInv, CallOK
  <2>3. Reading \/ Woken
    BY <2>1, <2>2 DEF WaitForInv, CallOK, Phase, Fresh, Finished
  <2>4. u = CancelTarget(k, Teller)
    BY <1>1, <1>2, <1>6, <2>1, TargetFacts, ContentsFacts
  <2>5. u = IF Reading THEN Reader ELSE Teller
    <3>1. \E v \in {Reader, Teller} : Stops(Cancel(k, Teller, now), X, v)
      BY <1>0, <1>1, <2>2, <2>3, StopEffect
    <3> QED  BY <2>4, <3>1 DEF Stops
  <2> HIDE DEF u
  <2>6. u \in {Reader, Teller}
    BY <2>5
  <2>7. /\ k'.data[u] = Cancelled /\ k'.state[u] = k.state[u] /\ InOrder(k')
        /\ \A t \in Tasks \ {u} :
             /\ k'.state[t] = k.state[t] /\ k'.data[t] = k.data[t]
             /\ k'.key[t] = k.key[t] /\ (Queued(k', t) <=> Queued(k, t))
    BY <1>5 DEF Told, Others, CancelOrdered
  <2>8. WaitForTypes' /\ Orderly' /\ RunningIsDue'
    BY <1>0, <1>1, <1>5, <2>6, <2>7, ActiveIs
       DEF WaitForInv, WaitForTypes, Orderly, RunningIsDue, Live
  <2>9. Links'
    <3> SUFFICES ASSUME NEW t \in Tasks, NEW v \in Tasks,
                        k'.data[t] = OnTask(v)
                 PROVE  \/ t = W /\ v = Teller /\ waiter = "await"
                        \/ t = Teller /\ v = Reader
      BY <1>0, <1>3 DEF Links
    <3>1. t # u
      BY <2>7, ContentsFacts
    <3>2. k.data[t] = OnTask(v)
      BY <2>7, <3>1
    <3> QED  BY <3>2 DEF WaitForInv, Links
  <2>10. Reading' \/ Woken'
    <3>1. CASE Reading
      BY <1>0, <1>1, <1>3, <2>1, <2>2, <2>5, <2>7, <3>1
         DEF Reading, Stopped, Live
    <3>2. CASE ~Reading
      BY <1>0, <1>1, <1>3, <2>1, <2>2, <2>3, <2>5, <2>7, <3>2
         DEF Woken, Gone, IsDone, Live
    <3> QED  BY <3>1, <3>2
  <2>11. CallOK'
    BY <1>0, <2>1, <2>2, <2>10 DEF CallOK, Phase
  <2>12. OthersOK'
    <3>1. {u} \subseteq {W, X, Reader, Teller}
      BY <2>6
    <3> QED  BY <1>0, <2>7, <3>1, OthersKept
  <2>13. WaiterOK'
    BY <1>0, <1>1, <2>6, <2>7 DEF WaitForInv, WaiterOK, Gone, IsDone
  <2> QED  BY <2>8, <2>9, <2>11, <2>12, <2>13 DEF WaitForInv
<1>7. CASE k.data[W].kind # "task"
  <2>1. u = W
    BY <1>1, <1>2, <1>7, TargetFacts
  <2> HIDE DEF u
  <2>2. /\ k'.data[W] = Cancelled /\ k'.state[W] = k.state[W] /\ InOrder(k')
        /\ \A t \in Tasks \ {W} :
             /\ k'.state[t] = k.state[t] /\ k'.data[t] = k.data[t]
             /\ k'.key[t] = k.key[t] /\ (Queued(k', t) <=> Queued(k, t))
        /\ CancelOrdered(k', k, W, now)
    BY <1>5, <2>1 DEF Told, Others, CancelOrdered
  <2>3. Queued(k', W)
    <3>1. DataOK(k', W, W \in {X}) /\ ~(W \in {X})
      BY <1>1, <1>5 DEF LoopOK
    <3> QED  BY <1>2, <2>2, <3>1, ContentsFacts DEF DataOK, Live, Idles
  <2>4. WaitForTypes' /\ Orderly' /\ RunningIsDue'
    BY <1>0, <1>1, <1>5, <2>2, ActiveIs
       DEF WaitForInv, WaitForTypes, Orderly, RunningIsDue, Live
  <2>5. Links'
    <3> SUFFICES ASSUME NEW t \in Tasks, NEW v \in Tasks,
                        k'.data[t] = OnTask(v)
                 PROVE  \/ t = W /\ v = Teller /\ waiter = "await"
                        \/ t = Teller /\ v = Reader
      BY <1>0, <1>3 DEF Links
    <3>1. t # W
      BY <2>2, ContentsFacts
    <3>2. k.data[t] = OnTask(v)
      BY <2>2, <3>1
    <3> QED  BY <3>2 DEF WaitForInv, Links
  <2>6. ASSUME call # 0 PROVE Phase'
    <3>1. Reader \in Tasks \ {W} /\ Teller \in Tasks \ {W}
      BY <1>1, <2>6
    <3>2. Phase /\ k.data[W] # OnTask(Teller)
      BY <1>7, <2>6, ContentsFacts DEF WaitForInv, CallOK
    <3>3. Fresh => Fresh'
      <4>1. ASSUME Fresh, Queued(k, Teller) PROVE Before(k', Teller, W)
        BY <1>1, <2>2, <3>1, <4>1 DEF Fresh, CancelOrdered
      <4>2. k'.data[W] \in {None, Cancelled}
        BY <2>2
      <4> QED
        BY <1>0, <1>3, <2>2, <2>3, <3>1, <4>1, <4>2 DEF Fresh
    <3>4. Reading => Reading'
      BY <1>0, <1>3, <1>4, <2>2, <3>1, <3>2 DEF Reading, Stopped, Live
    <3>5. Woken => Woken'
      <4>1. Cancelled # None
        BY ContentsFacts
      <4> QED
        BY <1>0, <1>3, <1>4, <2>2, <3>1, <3>2, <4>1
           DEF Woken, Gone, IsDone, Live
    <3>6. Finished => Finished'
      <4>1. /\ Cancelled # None /\ Cancelled # OnTask(Teller)
            /\ Cancelled # CancelledWith("result")
        BY ContentsFacts, EndsDiffer
      <4> QED
        BY <1>0, <1>3, <1>4, <2>2, <3>1, <4>1
           DEF Finished, Gone, IsDone
    <3> QED  BY <1>0, <3>2, <3>3, <3>4, <3>5, <3>6 DEF Phase
  <2>7. CallOK'
    BY <1>0, <1>4, <2>2, <2>6 DEF WaitForInv, CallOK
  <2>8. OthersOK'
    <3>1. {W} \subseteq {W, X, Reader, Teller}
      OBVIOUS
    <3> QED  BY <1>0, <2>2, <3>1, OthersKept
  <2>9. WaiterOK'
    BY <1>0, <1>1, <1>2, <2>2, ContentsFacts
       DEF WaitForInv, WaiterOK, Gone, IsDone
  <2> QED  BY <2>4, <2>5, <2>7, <2>8, <2>9 DEF WaitForInv
<1> QED  BY <1>6, <1>7

\* At the start.
LEMMA WaitForStarts ==
    ASSUME WaitForInit PROVE WaitForInv
<1> DEFINE one == Create(NewLoop, W, 0)
<1>0. /\ k = Create(one, X, 0) /\ now = 0 /\ cur = NoTask /\ exc = None
      /\ waiter = "idle" /\ call = 0 /\ outcome = "none" /\ told = FALSE
  BY DEF WaitForInit
<1>1. W \in Tasks /\ X \in Tasks /\ W # X /\ 0 \in Nat
  BY TaskNames
<1>2. /\ \A t \in Tasks : NewLoop.state[t] = "new" /\ NewLoop.data[t] = None
      /\ NewLoop.runq = <<>>
  BY DEF NewLoop
<1>3. InOrder(NewLoop)
  BY <1>2 DEF InOrder
<1>4. LoopOK(NewLoop, {}) /\ NewLoop.state \in [Tasks -> TaskStates]
  <2>1. LoopOK(NewLoop, {})
    BY NewLoopOK
  <2> QED  BY <2>1, RecordIs DEF LoopOK
<1>5. /\ LoopOK(one, {} \ {W}) /\ Comes(one, NewLoop, W, 0)
      /\ one.state = [NewLoop.state EXCEPT ![W] = "running"]
  BY <1>1, <1>2, <1>3, <1>4, CreateEffect
<1> HIDE DEF one
<1>6. one.state[X] = "new" /\ InOrder(one) /\ {} \ {W} = {}
  BY <1>1, <1>2, <1>4, <1>5 DEF Comes
<1>7. /\ LoopOK(k, {} \ {X}) /\ Comes(k, one, X, 0)
      /\ k.state = [one.state EXCEPT ![X] = "running"]
  BY <1>0, <1>1, <1>5, <1>6, CreateEffect
<1>8. /\ \A t \in Tasks \ {W, X} : k.state[t] = "new"
      /\ k.state[W] = "running" /\ k.state[X] = "running"
      /\ \A t \in Tasks : k.data[t] = None
  BY <1>1, <1>2, <1>4, <1>5, <1>7 DEF Comes, Others
<1>9. WaitForTypes
  BY <1>0, WaitForAssumption DEF WaitForTypes
<1>10. Orderly /\ RunningIsDue
  <2>1. {} \ {X} = {}
    OBVIOUS
  <2> QED  BY <1>0, <1>7, <2>1, ActiveIs DEF Orderly, RunningIsDue, Comes
<1>11. Links
  BY <1>8, ContentsFacts DEF Links
<1>12. CallOK
  BY <1>0 DEF CallOK
<1>13. OthersOK
  <2>1. \A i \in 1 .. Calls : ~(i < 0)
    BY WaitForAssumption
  <2> QED  BY <1>0, <1>8, <2>1, TaskNames DEF OthersOK
<1>14. WaiterOK
  BY <1>0, <1>1, <1>8, ContentsFacts DEF WaiterOK
<1> QED  BY <1>9, <1>10, <1>11, <1>12, <1>13, <1>14 DEF WaitForInv

\* Every step keeps the invariant.
LEMMA WaitForStep ==
    ASSUME WaitForInv, [WaitForNext]_waitForVars PROVE WaitForInv'
<1>1. CASE Resume
  BY <1>1, ResumeKeeps
<1>2. CASE WaitForSteps
  BY <1>2, CallKeeps, CancelledKeeps, LeavesKeeps, TimedOutKeeps
     DEF WaitForSteps
<1>3. CASE WaiterSteps
  BY <1>3, LeavesKeeps, RestsKeeps DEF WaiterSteps
<1>4. CASE Runs
  BY <1>4, RunnerStartsKeeps, RunnerEndsKeeps DEF Runs
<1>5. CASE ReaderSteps
  BY <1>5, WaitKeeps, ReaderEndsKeeps DEF ReaderSteps
<1>6. CASE StreamEvent
  BY <1>6, WaitKeeps DEF StreamEvent
<1>7. CASE OtherSteps
  BY <1>7, CancelWaiterKeeps, OtherKeeps DEF OtherSteps
<1>8. CASE Tick \/ Quiet \/ UNCHANGED waitForVars
  BY <1>8, TickKeeps DEF Quiet
<1> QED
  BY <1>1, <1>2, <1>3, <1>4, <1>5, <1>6, <1>7, <1>8 DEF WaitForNext

\* What the invariant says of a call that has ended.
LEMMA EndIsRight ==
    ASSUME WaitForInv
    PROVE  NoReaderLeftBehind /\ OutsideCancelWins /\ InTimeIsNoTimeout
<1>1. call = 0 => outcome = "none" /\ ~told
  BY DEF WaitForInv, CallOK
<1>2. call # 0 => Phase
  BY DEF WaitForInv, CallOK
<1>3. NoReaderLeftBehind
  <2> SUFFICES ASSUME NEW i \in 1 .. call, i < call \/ outcome # "none"
               PROVE  \/ IsDone(k, Aw(i)) \/ k.data[Aw(i)] = Cancelled
                      \/ cur = Aw(i) /\ exc = Cancelled
    BY DEF NoReaderLeftBehind
  <2>1. call \in 0 .. Calls /\ Calls \in Nat
    BY WaitForAssumption DEF WaitForInv, WaitForTypes
  <2>2. i \in 1 .. Calls /\ call # 0 /\ (i < call \/ i = call)
    BY <2>1
  <2>3. CASE i < call
    BY <2>2, <2>3 DEF WaitForInv, OthersOK, Gone
  <2>4. CASE i = call
    <3>1. outcome # "none" /\ waiter = "idle" /\ Reader = Aw(i)
      BY <2>1, <2>4 DEF WaitForInv, CallOK, Reader
    <3> QED
      BY <1>2, <2>2, <3>1
         DEF Phase, Reading, Woken, Finished, Gone, Stopped
  <2> QED  BY <2>2, <2>3, <2>4
<1>4. OutsideCancelWins
  BY DEF WaitForInv, CallOK, OutsideCancelWins
<1>5. InTimeIsNoTimeout
  BY <1>1, <1>2 DEF InTimeIsNoTimeout, Phase, Finished, Reader
<1> QED  BY <1>3, <1>4, <1>5

\* A call of wait_for() ends with what really happened, and leaves no reader
\* behind (funcs.py:7-51): the safety half of AnswerLimitOrCancel.
THEOREM CallsEndRight ==
    WaitForSpec =>
      [](NoReaderLeftBehind /\ OutsideCancelWins /\ InTimeIsNoTimeout)
<1>1. WaitForInit => WaitForInv
  BY WaitForStarts
<1>2. WaitForInv /\ [WaitForNext]_waitForVars => WaitForInv'
  BY WaitForStep
<1>3. WaitForInv => NoReaderLeftBehind /\ OutsideCancelWins
                      /\ InTimeIsNoTimeout
  BY EndIsRight
<1> QED  BY <1>1, <1>2, <1>3, PTL DEF WaitForSpec
=============================================================================
