---------------------------- MODULE StorageProofs ----------------------------
(***************************************************************************)
(* What the board keeps, for any size of it: the MicroPython heap, whose   *)
(* allocation table gc_alloc, gc_free, gc_realloc and collections change   *)
(* for any number of threads, a collection of it (both in Gc), and the     *)
(* directory tree of the flash file system under power loss (LfsTree).     *)
(***************************************************************************)
EXTENDS Gc, LfsTree, FiniteSetTheorems, WellFoundedInduction, TLAPS

(***************************************************************************)
(* Numbers                                                                 *)
(***************************************************************************)

\* A set of natural numbers that is not empty has a least one.
LEMMA LeastOf ==
    ASSUME NEW T \in SUBSET Nat, T # {}
    PROVE  \E x \in T : \A y \in T : x <= y
<1> DEFINE R == OpToRel(<, Nat)
<1>1. IsWellFoundedOn(R, Nat)
  BY NatLessThanWellFounded
<1>2. \A x, y \in Nat : x < y => <<x, y>> \in R
  BY DEF OpToRel
<1> HIDE DEF R
<1>3. PICK x \in T : \A y \in T : ~(<<y, x>> \in R)
  BY <1>1, WFMin
<1>4. ASSUME NEW y \in T PROVE x <= y
  <2>1. x \in Nat /\ y \in Nat /\ ~(y < x)
    BY <1>2, <1>3
  <2> QED  BY <2>1
<1> QED  BY <1>4

\* It is its Min.
LEMMA MinIs ==
    ASSUME NEW T \in SUBSET Nat, T # {}
    PROVE  Min(T) \in T /\ \A y \in T : Min(T) <= y
<1>1. \E z \in T : \A y \in T : z <= y
  BY LeastOf
<1> QED  BY <1>1 DEF Min

\* One that is bounded has a greatest one, its Max.
LEMMA MaxIs ==
    ASSUME NEW T \in SUBSET Nat, T # {}, NEW m \in Nat, \A y \in T : y <= m
    PROVE  Max(T) \in T /\ \A y \in T : y <= Max(T)
<1> DEFINE U == {m - y : y \in T}
<1>1. U \in SUBSET Nat /\ U # {}
  <2>1. ASSUME NEW y \in T PROVE m - y \in Nat
    <3>1. y \in Nat /\ y <= m
      OBVIOUS
    <3> QED  BY <3>1
  <2> QED  BY <2>1
<1>2. PICK u \in U : \A v \in U : u <= v
  BY <1>1, MinIs
<1>3. PICK x \in T : u = m - x
  BY <1>2
<1>4. ASSUME NEW y \in T PROVE x >= y
  <2>1. m - y \in U
    OBVIOUS
  <2>2. m - x <= m - y /\ x \in Nat /\ y \in Nat
    BY <1>2, <1>3, <2>1
  <2> QED  BY <2>2
<1>5. \E z \in T : \A y \in T : z >= y
  BY <1>4
<1>6. Max(T) \in T /\ \A y \in T : Max(T) >= y
  BY <1>5 DEF Max
<1> QED  BY <1>6

\* The smaller and the larger of two numbers.
LEMMA TwoNumbers ==
    ASSUME NEW a \in Nat, NEW b \in Nat
    PROVE  /\ Min({a, b}) \in Nat /\ Min({a, b}) <= a /\ Min({a, b}) <= b
           /\ Max({a, b}) \in Nat /\ a <= Max({a, b}) /\ b <= Max({a, b})
<1> DEFINE T == {a, b}
<1>1. T \in SUBSET Nat /\ T # {}
  OBVIOUS
<1>2. PICK m \in Nat : \A y \in T : y <= m
  <2>1. a + b \in Nat /\ \A y \in T : y <= a + b
    OBVIOUS
  <2> QED  BY <2>1
<1>3. Min(T) \in T /\ \A y \in T : Min(T) <= y
  BY <1>1, MinIs
<1>4. Max(T) \in T /\ \A y \in T : y <= Max(T)
  BY <1>1, <1>2, MaxIs
<1> QED  BY <1>1, <1>3, <1>4

\* The byte that describes block b begins at or below b.
LEMMA ByteOf ==
    ASSUME NEW b \in Nat
    PROVE  /\ b \div BLOCKS_PER_ATB \in Nat
           /\ (b \div BLOCKS_PER_ATB) * BLOCKS_PER_ATB <= b
<1> DEFINE p == BLOCKS_PER_ATB
           d == b \div p
<1>1. p \in Nat \ {0}
  BY GcAllocAssumption
<1>2. d \in Int /\ b = (p * d) + (b % p) /\ b % p \in 0 .. p - 1
  BY <1>1
<1> HIDE DEF d, p
<1>3. p * d <= b /\ p * d = d * p
  BY <1>1, <1>2
<1>4. d \in Nat
  <2>1. ASSUME d < 0 PROVE FALSE
    <3>1. p * d <= p * (-1)
      BY <1>1, <1>2, <2>1
    <3> QED  BY <1>1, <1>2, <3>1
  <2> QED  BY <1>2, <2>1
<1> QED  BY <1>3, <1>4 DEF d, p

\* A smaller byte number is a smaller block number.
LEMMA ByteOrder ==
    ASSUME NEW i \in Nat, NEW j \in Nat, i <= j
    PROVE  i * BLOCKS_PER_ATB <= j * BLOCKS_PER_ATB
           /\ i * BLOCKS_PER_ATB \in Nat
<1> DEFINE p == BLOCKS_PER_ATB
<1>1. p \in Nat
  BY GcAllocAssumption
<1>2. PICK k \in Nat : j = i + k
  <2>1. j - i \in Nat /\ j = i + (j - i)
    OBVIOUS
  <2> QED  BY <2>1
<1> HIDE DEF p
<1>3. j * p = (i * p) + (k * p) /\ k * p \in Nat /\ i * p \in Nat
  BY <1>1, <1>2
<1> QED  BY <1>3 DEF p
\* The number of blocks, and the largest request.
LEMMA BlockCount ==
    /\ NBlocks \in Nat \ {0} /\ MaxBlocks \in Nat /\ MaxBlocks <= NBlocks
<1>1. BLOCKS_PER_ATB \in Nat \ {0} /\ ByteLen \in Nat \ {0}
  BY GcAllocAssumption
<1>2. NBlocks \in Nat \ {0}
  BY <1>1 DEF NBlocks
<1>3. MaxBlocks \in 1 .. NBlocks
  BY GcAllocAssumption DEF NBlocks
<1> HIDE DEF NBlocks
<1> QED  BY <1>2, <1>3

(***************************************************************************)
(* Objects and the table                                                   *)
(***************************************************************************)

\* The objects lie in the heap, apart from each other.
Apart(o) ==
    /\ DOMAIN o \subseteq Blocks
    /\ \A h \in DOMAIN o :
         o[h] \in [n : Nat \ {0}, fin : BOOLEAN] /\ h + o[h].n <= NBlocks
    /\ \A h, g \in DOMAIN o : h < g => h + o[h].n <= g

\* Block b belongs to the object at h.
Covers(o, h, b) == h <= b /\ b < h + o[h].n

\* The kind of block b if the objects are o, and the table of all kinds.
Kind(o, b) ==
    IF b \in DOMAIN o THEN "HEAD"
    ELSE IF \E h \in DOMAIN o : h < b /\ b < h + o[h].n THEN "TAIL" ELSE "FREE"

TableOf(o) == [b \in 0 .. NBlocks |-> Kind(o, b)]

\* What Apart says of one object, as numbers.
LEMMA OneObject ==
    ASSUME NEW o, Apart(o), NEW h \in DOMAIN o
    PROVE  /\ h \in Nat /\ h < NBlocks /\ o[h].n \in Nat /\ o[h].n >= 1
           /\ h + o[h].n \in Nat /\ h + o[h].n <= NBlocks
           /\ o[h].fin \in BOOLEAN
           /\ o[h] \in [n : Nat \ {0}, fin : BOOLEAN]
<1>1. h \in Blocks /\ o[h] \in [n : Nat \ {0}, fin : BOOLEAN]
      /\ h + o[h].n <= NBlocks
  BY DEF Apart
<1> QED  BY <1>1, BlockCount DEF Blocks

\* A block is covered by one object at most.
LEMMA OneCovers ==
    ASSUME NEW o, Apart(o), NEW h \in DOMAIN o, NEW g \in DOMAIN o,
           NEW b \in Nat, Covers(o, h, b), Covers(o, g, b)
    PROVE  h = g
<1>1. h \in Nat /\ g \in Nat /\ o[h].n \in Nat /\ o[g].n \in Nat
  BY OneObject
<1>2. (h < g => h + o[h].n <= g) /\ (g < h => g + o[g].n <= h)
  BY DEF Apart
<1> QED  BY <1>1, <1>2 DEF Covers

\* Free is what no object covers, a tail what one covers after its head.
LEMMA KindIs ==
    ASSUME NEW o, Apart(o), NEW b \in Nat
    PROVE  /\ Kind(o, b) \in {"HEAD", "TAIL", "FREE"}
           /\ Kind(o, b) = "FREE" <=> ~ \E h \in DOMAIN o : Covers(o, h, b)
           /\ Kind(o, b) = "TAIL"
                <=> \E h \in DOMAIN o : Covers(o, h, b) /\ h # b
           /\ Kind(o, b) = "HEAD" <=> b \in DOMAIN o
<1>1. ASSUME NEW h \in DOMAIN o
      PROVE  Covers(o, h, b) <=> b = h \/ (h < b /\ b < h + o[h].n)
  BY OneObject DEF Covers
<1>2. ASSUME NEW h \in DOMAIN o, b \in DOMAIN o, Covers(o, h, b)
      PROVE  h = b
  <2>1. Covers(o, b, b)
    BY <1>1, <1>2
  <2> QED  BY <1>2, <2>1, OneCovers
<1>3. CASE b \in DOMAIN o
  <2>1. Kind(o, b) = "HEAD" /\ Covers(o, b, b)
    BY <1>1, <1>3 DEF Kind
  <2> QED  BY <1>2, <1>3, <2>1
<1>4. CASE b \notin DOMAIN o
  <2>1. ASSUME NEW h \in DOMAIN o
        PROVE  Covers(o, h, b) <=> (h < b /\ b < h + o[h].n)
    BY <1>1, <1>4
  <2>2. ASSUME NEW h \in DOMAIN o PROVE h # b
    BY <1>4
  <2> QED  BY <1>4, <2>1, <2>2 DEF Kind
<1> QED  BY <1>3, <1>4
\* The chain of an object in the table is its blocks, so that its size in
\* the table is the size it was given.
LEMMA ChainIs ==
    ASSUME Apart(obj), atb = TableOf(obj), NEW h \in DOMAIN obj
    PROVE  /\ \A c \in Nat : c \in Chain(h) <=> Covers(obj, h, c)
           /\ Chain(h) \subseteq Nat
           /\ Size(h) = obj[h].n
<1> DEFINE n == obj[h].n
<1>1. h \in Nat /\ n \in Nat /\ n >= 1 /\ h + n <= NBlocks /\ NBlocks \in Nat
  BY OneObject, BlockCount
<1>2. ASSUME NEW d \in 0 .. NBlocks
      PROVE  atb[d] = "TAIL"
               <=> \E g \in DOMAIN obj : Covers(obj, g, d) /\ g # d
  <2>1. d \in Nat /\ atb[d] = Kind(obj, d)
    BY BlockCount DEF TableOf
  <2> QED  BY <2>1, KindIs
<1>3. ASSUME NEW c \in Chain(h) PROVE c \in Nat /\ Covers(obj, h, c)
  <2>1. c \in h .. NBlocks /\ \A d \in h + 1 .. c : atb[d] = "TAIL"
    BY DEF Chain
  <2>2. c \in Nat /\ h <= c /\ c <= NBlocks
    BY <1>1, <2>1
  <2>3. ASSUME h + n <= c PROVE FALSE
    <3>1. h + n \in h + 1 .. c /\ h + n \in 0 .. NBlocks /\ h + n \in Nat
      BY <1>1, <2>2, <2>3
    <3>2. atb[h + n] = "TAIL"
      BY <2>1, <3>1
    <3>3. PICK g \in DOMAIN obj : Covers(obj, g, h + n) /\ g # h + n
      BY <1>2, <3>1, <3>2
    <3>4. g \in Nat /\ obj[g].n \in Nat
      BY OneObject
    <3>5. (h < g => h + n <= g) /\ (g < h => g + obj[g].n <= h)
      BY DEF Apart
    <3>6. g <= h + n /\ h + n < g + obj[g].n
      BY <3>3 DEF Covers
    <3>7. CASE g = h
      <4>1. h + n < h + n
        BY <3>6, <3>7
      <4> QED  BY <1>1, <4>1
    <3>8. CASE g # h
      <4> HIDE DEF n
      <4> QED  BY <1>1, <3>3, <3>4, <3>5, <3>6, <3>8
    <3> QED  BY <3>7, <3>8
  <2> QED  BY <1>1, <2>2, <2>3 DEF Covers
<1>4. ASSUME NEW c \in Nat, Covers(obj, h, c) PROVE c \in Chain(h)
  <2>1. h <= c /\ c < h + n
    BY <1>4 DEF Covers
  <2>2. c \in h .. NBlocks
    BY <1>1, <2>1
  <2>3. ASSUME NEW d \in h + 1 .. c PROVE atb[d] = "TAIL"
    <3>1. d \in 0 .. NBlocks /\ h <= d /\ d < h + n /\ h # d
      BY <1>1, <2>1, <2>2
    <3> QED  BY <1>2, <3>1 DEF Covers
  <2> QED  BY <2>2, <2>3 DEF Chain
<1>5. Chain(h) = h .. (h + n - 1)
  <2>1. ASSUME NEW c \in Chain(h) PROVE c \in h .. (h + n - 1)
    <3>1. c \in Nat /\ h <= c /\ c < h + n
      BY <1>3 DEF Covers
    <3> QED  BY <1>1, <3>1
  <2>2. ASSUME NEW c \in h .. (h + n - 1) PROVE c \in Chain(h)
    <3>1. c \in Nat /\ h <= c /\ c < h + n
      BY <1>1
    <3> QED  BY <1>4, <3>1 DEF Covers
  <2> QED  BY <2>1, <2>2
<1>6. Cardinality(h .. (h + n - 1)) = n
  <2> DEFINE e == h + n - 1
  <2>1. h \in Int /\ e \in Int /\ ~(h > e) /\ e - h + 1 = n
    BY <1>1
  <2> HIDE DEF e, n
  <2>2. Cardinality(h .. e) = e - h + 1
    BY <2>1, FS_Interval
  <2> QED  BY <2>1, <2>2 DEF e
<1> QED  BY <1>3, <1>4, <1>5, <1>6 DEF Size

\* A block of the heap is free exactly if the table has no object over it.
LEMMA BlockIs ==
    ASSUME Apart(obj), atb = TableOf(obj), NEW b \in 0 .. NBlocks
    PROVE  /\ b \in Nat /\ atb[b] = Kind(obj, b)
           /\ atb[b] = "FREE" <=> ~ \E h \in DOMAIN obj : Covers(obj, h, b)
<1>1. b \in Nat /\ atb[b] = Kind(obj, b)
  BY BlockCount DEF TableOf
<1> QED  BY <1>1, KindIs

\* A new object where all blocks are free.
LEMMA PlaceTable ==
    ASSUME NEW o, Apart(o), NEW h \in Nat,
           NEW r \in [n : Nat \ {0}, fin : BOOLEAN], h + r.n <= NBlocks,
           \A b \in h .. h + r.n - 1 : Kind(o, b) = "FREE"
    PROVE  /\ h \notin DOMAIN o
           /\ Apart(With(o, h, r))
           /\ \A b \in Nat :
                Kind(With(o, h, r), b) =
                  IF b = h THEN "HEAD"
                  ELSE IF b \in h + 1 .. h + r.n - 1 THEN "TAIL"
                  ELSE Kind(o, b)
<1> DEFINE q == With(o, h, r)
           n == r.n
<1>1. n \in Nat /\ n >= 1 /\ h + n <= NBlocks /\ NBlocks \in Nat
  BY BlockCount
<1>2. ASSUME NEW g \in DOMAIN o, NEW b \in Nat, h <= b, b < h + n,
             Covers(o, g, b)
      PROVE  FALSE
  <2>1. b \in h .. h + n - 1
    BY <1>1, <1>2
  <2> QED  BY <1>2, <2>1, KindIs
<1>3. h \notin DOMAIN o
  <2>1. ASSUME h \in DOMAIN o PROVE FALSE
    <3>1. Covers(o, h, h)
      BY <2>1, OneObject DEF Covers
    <3> QED  BY <1>1, <1>2, <2>1, <3>1
  <2> QED  BY <2>1
<1>4. DOMAIN q = DOMAIN o \cup {h} /\ q[h] = r
      /\ \A g \in DOMAIN o : q[g] = o[g]
  <2>1. DOMAIN q = DOMAIN o \cup {h} /\ q[h] = r
        /\ \A g \in DOMAIN o : g # h => q[g] = o[g]
    BY DEF With
  <2> HIDE DEF q
  <2> QED  BY <1>3, <2>1
<1> HIDE DEF q
<1>5. ASSUME NEW g \in DOMAIN o
      PROVE  (h < g => h + n <= g) /\ (g < h => g + o[g].n <= h)
  <2>1. g \in Nat /\ o[g].n \in Nat /\ o[g].n >= 1
    BY OneObject
  <2>2. ASSUME h < g, ~(h + n <= g) PROVE FALSE
    <3>1. Covers(o, g, g) /\ h <= g /\ g < h + n
      BY <1>1, <2>1, <2>2 DEF Covers
    <3> QED  BY <1>2, <2>1, <3>1
  <2>3. ASSUME g < h, ~(g + o[g].n <= h) PROVE FALSE
    <3>1. Covers(o, g, h)
      BY <2>1, <2>3 DEF Covers
    <3> QED  BY <1>1, <1>2, <3>1
  <2> QED  BY <2>2, <2>3
<1>6. Apart(q)
  <2>1. h \in Blocks /\ DOMAIN q \subseteq Blocks
    BY <1>1, <1>4 DEF Apart, Blocks
  <2>2. ASSUME NEW g \in DOMAIN q
        PROVE  q[g] \in [n : Nat \ {0}, fin : BOOLEAN]
               /\ g + q[g].n <= NBlocks
    <3>1. CASE g = h
      BY <1>1, <1>4, <3>1
    <3>2. CASE g \in DOMAIN o
      BY <1>4, <3>2 DEF Apart
    <3> QED  BY <1>4, <3>1, <3>2
  <2>3. ASSUME NEW f \in DOMAIN q, NEW g \in DOMAIN q, f < g
        PROVE  f + q[f].n <= g
    <3>1. CASE f = h /\ g = h
      BY <1>1, <2>3, <3>1
    <3>2. CASE f = h /\ g \in DOMAIN o
      BY <1>4, <1>5, <2>3, <3>2
    <3>3. CASE f \in DOMAIN o /\ g = h
      BY <1>4, <1>5, <2>3, <3>3
    <3>4. CASE f \in DOMAIN o /\ g \in DOMAIN o
      BY <1>4, <2>3, <3>4 DEF Apart
    <3> QED  BY <1>4, <3>1, <3>2, <3>3, <3>4
  <2> QED  BY <2>1, <2>2, <2>3 DEF Apart
<1>7. ASSUME NEW b \in Nat
      PROVE  Kind(q, b) = IF b = h THEN "HEAD"
                          ELSE IF b \in h + 1 .. h + n - 1 THEN "TAIL"
                          ELSE Kind(o, b)
  <2>1. CASE b = h
    BY <1>4, <2>1 DEF Kind
  <2>2. CASE b \in h + 1 .. h + n - 1
    <3>1. h # b /\ Covers(q, h, b)
      BY <1>1, <1>4, <2>2 DEF Covers
    <3>2. Kind(q, b) = "TAIL"
      BY <1>4, <1>6, <3>1, KindIs
    <3> QED  BY <2>2, <3>1, <3>2
  <2>3. CASE b # h /\ b \notin h + 1 .. h + n - 1
    <3>1. ~(h < b /\ b < h + n)
      BY <1>1, <2>3
    <3>2. ASSUME NEW g \in DOMAIN q
          PROVE  (g < b /\ b < g + q[g].n)
                   <=> g \in DOMAIN o /\ g < b /\ b < g + o[g].n
      <4>1. CASE g = h
        BY <1>3, <1>4, <3>1, <4>1
      <4>2. CASE g \in DOMAIN o
        BY <1>4, <4>2
      <4> QED  BY <1>4, <4>1, <4>2
    <3>3. b \in DOMAIN q <=> b \in DOMAIN o
      BY <1>4, <2>3
    <3>4. (\E g \in DOMAIN q : g < b /\ b < g + q[g].n)
            <=> \E g \in DOMAIN o : g < b /\ b < g + o[g].n
      BY <1>4, <3>2
    <3>5. Kind(q, b) = Kind(o, b)
      BY <3>3, <3>4 DEF Kind
    <3> QED  BY <2>3, <3>5
  <2> QED  BY <2>1, <2>2, <2>3
<1> QED  BY <1>3, <1>6, <1>7 DEF q
\* The objects of D go, and their blocks are free.
LEMMA RemoveTable ==
    ASSUME NEW o, Apart(o), NEW D \in SUBSET DOMAIN o
    PROVE  /\ Apart(Without(o, D))
           /\ DOMAIN Without(o, D) = DOMAIN o \ D
           /\ \A g \in DOMAIN o \ D : Without(o, D)[g] = o[g]
           /\ \A b \in Nat :
                Kind(Without(o, D), b) =
                  IF \E h \in D : Covers(o, h, b) THEN "FREE" ELSE Kind(o, b)
<1> DEFINE q == Without(o, D)
<1>1. DOMAIN q = DOMAIN o \ D /\ \A g \in DOMAIN o \ D : q[g] = o[g]
  BY DEF Without
<1> HIDE DEF q
<1>2. Apart(q)
  BY <1>1 DEF Apart
<1>3. ASSUME NEW b \in Nat
      PROVE  Kind(q, b) = IF \E h \in D : Covers(o, h, b) THEN "FREE"
                          ELSE Kind(o, b)
  <2>1. CASE \E h \in D : Covers(o, h, b)
    <3>1. PICK h \in D : Covers(o, h, b)
      BY <2>1
    <3>2. ASSUME NEW g \in DOMAIN q, Covers(q, g, b) PROVE FALSE
      <4>1. g \in DOMAIN o /\ g \notin D /\ Covers(o, g, b)
        BY <1>1, <3>2 DEF Covers
      <4>2. h = g
        BY <3>1, <4>1, OneCovers
      <4> QED  BY <4>1, <4>2
    <3>3. Kind(q, b) = "FREE"
      BY <1>2, <3>2, KindIs
    <3> QED  BY <2>1, <3>3
  <2>2. CASE ~ \E h \in D : Covers(o, h, b)
    <3>1. b \in DOMAIN o => b \notin D
      <4>1. ASSUME b \in D PROVE Covers(o, b, b)
        BY <4>1, OneObject DEF Covers
      <4> QED  BY <2>2, <4>1
    <3>2. ASSUME NEW g \in D, g < b, b < g + o[g].n PROVE FALSE
      <4>1. g \in Nat
        BY OneObject
      <4>2. Covers(o, g, b)
        BY <3>2, <4>1 DEF Covers
      <4> QED  BY <2>2, <4>2
    <3>3. b \in DOMAIN q <=> b \in DOMAIN o
      BY <1>1, <3>1
    <3>4. (\E g \in DOMAIN q : g < b /\ b < g + q[g].n)
            <=> \E g \in DOMAIN o : g < b /\ b < g + o[g].n
      BY <1>1, <3>2
    <3>5. Kind(q, b) = Kind(o, b)
      BY <3>3, <3>4 DEF Kind
    <3> QED  BY <2>2, <3>5
  <2> QED  BY <2>1, <2>2
<1> QED  BY <1>1, <1>2, <1>3 DEF q

\* An object of another size, as obj and gc_realloc write it.
Resized(o, h, n) == [o EXCEPT ![h].n = n]

\* What a change of size leaves alone.
LEMMA ResizedIs ==
    ASSUME NEW o, Apart(o), NEW h \in DOMAIN o, NEW n \in Nat \ {0}
    PROVE  /\ DOMAIN Resized(o, h, n) = DOMAIN o
           /\ \A g \in DOMAIN o : g # h => Resized(o, h, n)[g] = o[g]
           /\ Resized(o, h, n)[h].n = n
           /\ Resized(o, h, n)[h].fin = o[h].fin
           /\ Resized(o, h, n)[h] \in [n : Nat \ {0}, fin : BOOLEAN]
<1>1. o[h] \in [n : Nat \ {0}, fin : BOOLEAN]
  BY OneObject
<1> DEFINE r == [o[h] EXCEPT !.n = n]
<1>2. r \in [n : Nat \ {0}, fin : BOOLEAN] /\ r.n = n /\ r.fin = o[h].fin
  BY <1>1
<1> HIDE DEF r
<1>3. Resized(o, h, n)[h] = r
  BY DEF Resized, r
<1>4. DOMAIN Resized(o, h, n) = DOMAIN o
      /\ \A g \in DOMAIN o : g # h => Resized(o, h, n)[g] = o[g]
  BY DEF Resized
<1> QED  BY <1>2, <1>3, <1>4

\* An object gets a size that leaves it apart from the others: the blocks it
\* covers become heads and tails, those it leaves become free.
LEMMA ResizeTable ==
    ASSUME NEW o, Apart(o), NEW h \in DOMAIN o, NEW n \in Nat \ {0},
           h + n <= NBlocks,
           \A b \in h + o[h].n .. h + n - 1 : Kind(o, b) = "FREE"
    PROVE  /\ Apart(Resized(o, h, n))
           /\ \A b \in Nat :
                Kind(Resized(o, h, n), b) =
                  IF h + o[h].n <= b /\ b < h + n THEN "TAIL"
                  ELSE IF h + n <= b /\ b < h + o[h].n THEN "FREE"
                  ELSE Kind(o, b)
<1> DEFINE q == Resized(o, h, n)
           m == o[h].n
<1>1. h \in Nat /\ m \in Nat /\ m >= 1 /\ n \in Nat /\ n >= 1
      /\ h + n <= NBlocks /\ h + m <= NBlocks /\ NBlocks \in Nat
  BY OneObject, BlockCount
<1>2. DOMAIN q = DOMAIN o /\ (\A g \in DOMAIN o : g # h => q[g] = o[g])
      /\ q[h].n = n /\ q[h] \in [n : Nat \ {0}, fin : BOOLEAN]
  BY ResizedIs
<1> HIDE DEF q
<1>3. ASSUME NEW g \in DOMAIN o, g # h
      PROVE  /\ g \in Nat /\ o[g].n \in Nat /\ o[g].n >= 1
             /\ (h < g => h + m <= g /\ h + n <= g)
             /\ (g < h => g + o[g].n <= h)
  <2>1. g \in Nat /\ o[g].n \in Nat /\ o[g].n >= 1
    BY OneObject
  <2>2. (h < g => h + m <= g) /\ (g < h => g + o[g].n <= h)
    BY DEF Apart
  <2>3. ASSUME h < g, ~(h + n <= g) PROVE FALSE
    <3>1. g \in h + m .. h + n - 1
      BY <1>1, <2>1, <2>2, <2>3
    <3>2. Kind(o, g) = "FREE" /\ Kind(o, g) = "HEAD"
      BY <3>1 DEF Kind
    <3> QED  BY <3>2
  <2> QED  BY <2>1, <2>2, <2>3
<1>4. Apart(q)
  <2>1. DOMAIN q \subseteq Blocks
    BY <1>2 DEF Apart
  <2>2. ASSUME NEW g \in DOMAIN q
        PROVE  q[g] \in [n : Nat \ {0}, fin : BOOLEAN]
               /\ g + q[g].n <= NBlocks
    <3>1. CASE g = h
      BY <1>1, <1>2, <3>1
    <3>2. CASE g # h
      BY <1>2, <3>2 DEF Apart
    <3> QED  BY <3>1, <3>2
  <2>3. ASSUME NEW f \in DOMAIN q, NEW g \in DOMAIN q, f < g
        PROVE  f + q[f].n <= g
    <3>1. CASE f = h /\ g = h
      BY <1>1, <2>3, <3>1
    <3>2. CASE f = h /\ g # h
      BY <1>2, <1>3, <2>3, <3>2
    <3>3. CASE f # h /\ g = h
      BY <1>2, <1>3, <2>3, <3>3
    <3>4. CASE f # h /\ g # h
      BY <1>2, <2>3, <3>4 DEF Apart
    <3> QED  BY <3>1, <3>2, <3>3, <3>4
  <2> QED  BY <2>1, <2>2, <2>3 DEF Apart
<1>5. ASSUME NEW b \in Nat
      PROVE  Kind(q, b) = IF h + m <= b /\ b < h + n THEN "TAIL"
                          ELSE IF h + n <= b /\ b < h + m THEN "FREE"
                          ELSE Kind(o, b)
  <2>1. CASE h + m <= b /\ b < h + n
    <3>1. Covers(q, h, b) /\ h # b
      BY <1>1, <1>2, <2>1 DEF Covers
    <3>2. Kind(q, b) = "TAIL"
      BY <1>2, <1>4, <3>1, KindIs
    <3> QED  BY <2>1, <3>2
  <2>2. CASE h + n <= b /\ b < h + m
    <3>1. ASSUME NEW g \in DOMAIN q, Covers(q, g, b) PROVE FALSE
      <4>1. CASE g = h
        BY <1>1, <1>2, <2>2, <3>1, <4>1 DEF Covers
      <4>2. CASE g # h
        <5>1. Covers(o, g, b) /\ Covers(o, h, b)
          BY <1>1, <1>2, <2>2, <3>1, <4>2 DEF Covers
        <5> QED  BY <1>2, <4>2, <5>1, OneCovers
      <4> QED  BY <4>1, <4>2
    <3>2. Kind(q, b) = "FREE"
      BY <1>4, <3>1, KindIs
    <3>3. ~(h + m <= b /\ b < h + n)
      BY <1>1, <2>2
    <3> QED  BY <2>2, <3>2, <3>3
  <2>3. CASE ~(h + m <= b /\ b < h + n) /\ ~(h + n <= b /\ b < h + m)
    <3>1. ASSUME NEW g \in DOMAIN o
          PROVE  (g < b /\ b < g + q[g].n) <=> (g < b /\ b < g + o[g].n)
      <4>1. CASE g = h
        BY <1>1, <1>2, <2>3, <4>1
      <4>2. CASE g # h
        BY <1>2, <4>2
      <4> QED  BY <4>1, <4>2
    <3>2. (\E g \in DOMAIN q : g < b /\ b < g + q[g].n)
            <=> \E g \in DOMAIN o : g < b /\ b < g + o[g].n
      BY <1>2, <3>1
    <3>3. Kind(q, b) = Kind(o, b)
      BY <1>2, <3>2 DEF Kind
    <3> QED  BY <2>3, <3>3
  <2> QED  BY <2>1, <2>2, <2>3
<1> QED  BY <1>4, <1>5 DEF q
(***************************************************************************)
(* The stretches under the mutex and the table                             *)
(***************************************************************************)

\* The table is that of the objects, which are apart, and the indexes are
\* what the search and the sweep take them for.
TableOK == /\ Apart(obj) /\ atb = TableOf(obj)
           /\ gc_last_free_atb_index \in Nat /\ gc_last_used_block \in Nat
           /\ NoFreeBelow /\ LastUsedCovers

\* Where the search of gc_alloc ends: a run of free blocks, the first one.
LEMMA FirstRun ==
    ASSUME NEW n \in 1 .. MaxBlocks, NEW from \in Nat, Runs(n, from) # {}
    PROVE  LET i == Min(Runs(n, from)) IN
           /\ i \in Nat /\ i < NBlocks /\ i + 1 - n \in Nat
           /\ from <= i + 1 - n
           /\ \A b \in i + 1 - n .. i : atb[b] = "FREE"
           /\ \A j \in Runs(n, from) : i <= j
<1> DEFINE T == Runs(n, from)
           i == Min(T)
<1>1. NBlocks \in Nat /\ n \in Nat /\ n >= 1
  BY BlockCount
<1>2. T \in SUBSET Nat
  BY <1>1 DEF Runs, Blocks
<1>3. i \in T /\ \A j \in T : i <= j
  BY <1>2, MinIs
<1>4. i \in Blocks /\ i + 1 >= from + n
      /\ \A b \in i + 1 - n .. i : atb[b] = "FREE"
  BY <1>3 DEF Runs
<1> HIDE DEF i, T
<1>5. i \in Nat /\ i < NBlocks /\ i + 1 - n \in Nat /\ from <= i + 1 - n
  BY <1>1, <1>4 DEF Blocks
<1> QED  BY <1>3, <1>4, <1>5 DEF i, T

\* gc_alloc's run of free blocks becomes an object.
LEMMA PlaceKeeps ==
    ASSUME TableOK, NEW t, NEW n \in 1 .. MaxBlocks, NEW fin \in BOOLEAN,
           NEW old,
           Runs(n, gc_last_free_atb_index * BLOCKS_PER_ATB) # {},
           NEW i,
           i = Min(Runs(n, gc_last_free_atb_index * BLOCKS_PER_ATB)),
           Place(t, n, fin, old, i)
    PROVE  /\ TableOK'
           /\ i + 1 - n \in Nat /\ i + 1 - n < NBlocks
           /\ i + 1 - n \notin DOMAIN obj
<1> DEFINE from == gc_last_free_atb_index * BLOCKS_PER_ATB
           h == i + 1 - n
           r == [n |-> n, fin |-> fin]
<1>1. from \in Nat
  BY ByteOrder DEF TableOK
<1>2. NBlocks \in Nat /\ n \in Nat /\ n >= 1 /\ n \in Nat \ {0}
  BY BlockCount
<1> HIDE DEF from
<1>3. /\ i \in Nat /\ i < NBlocks /\ h \in Nat /\ from <= h
      /\ \A b \in h .. i : atb[b] = "FREE"
      /\ \A j \in Runs(n, from) : i <= j
  BY <1>1, FirstRun DEF from
<1>4. r \in [n : Nat \ {0}, fin : BOOLEAN] /\ r.n = n
  BY <1>2
<1>5. h + r.n <= NBlocks /\ h < NBlocks /\ h + r.n - 1 = i
      /\ h + 1 = i + 2 - n /\ h <= i
  BY <1>2, <1>3, <1>4
<1>6. /\ atb' = [b \in DOMAIN atb |->
                   IF b = h THEN "HEAD"
                   ELSE IF b \in i + 2 - n .. i THEN "TAIL" ELSE atb[b]]
      /\ obj' = With(obj, h, r)
      /\ gc_last_used_block' = Max({gc_last_used_block, i})
      /\ gc_last_free_atb_index' =
           IF n = 1 THEN (i + 1) \div BLOCKS_PER_ATB
                    ELSE gc_last_free_atb_index
  BY DEF Place
<1> HIDE DEF h, r
<1>7. Apart(obj) /\ atb = TableOf(obj) /\ DOMAIN atb = 0 .. NBlocks
      /\ gc_last_free_atb_index \in Nat /\ gc_last_used_block \in Nat
  BY DEF TableOK, TableOf
<1>8. \A b \in h .. h + r.n - 1 : Kind(obj, b) = "FREE"
  <2>1. ASSUME NEW b \in h .. i PROVE Kind(obj, b) = "FREE"
    <3>1. b \in 0 .. NBlocks
      BY <1>2, <1>3
    <3> QED  BY <1>3, <1>7, <3>1, BlockIs
  <2> QED  BY <1>5, <2>1
<1> DEFINE q == With(obj, h, r)
<1>9. /\ h \notin DOMAIN obj /\ Apart(q)
      /\ \A b \in Nat :
           Kind(q, b) = IF b = h THEN "HEAD"
                        ELSE IF b \in h + 1 .. h + r.n - 1 THEN "TAIL"
                        ELSE Kind(obj, b)
  BY <1>3, <1>4, <1>5, <1>7, <1>8, PlaceTable
<1> HIDE DEF q
<1>10. ASSUME NEW b \in 0 .. NBlocks
       PROVE  b \in Nat /\ atb'[b] = Kind(q, b)
              /\ atb'[b] = IF h <= b /\ b <= i
                             THEN (IF b = h THEN "HEAD" ELSE "TAIL")
                             ELSE atb[b]
  <2>1. b \in Nat /\ atb[b] = Kind(obj, b)
    BY <1>7, BlockIs
  <2>2. atb'[b] = IF b = h THEN "HEAD"
                  ELSE IF b \in i + 2 - n .. i THEN "TAIL" ELSE atb[b]
    BY <1>6, <1>7
  <2>3. b \in i + 2 - n .. i <=> h + 1 <= b /\ b <= i
    BY <1>2, <1>3, <1>5, <2>1
  <2>4. b \in h + 1 .. h + r.n - 1 <=> b \in i + 2 - n .. i
    BY <1>5
  <2>5. h + 1 <= b <=> h <= b /\ b # h
    BY <1>3, <2>1
  <2>6. atb'[b] = Kind(q, b)
    BY <1>9, <2>1, <2>2, <2>4
  <2>7. b = h => h <= b /\ b <= i
    BY <1>3, <1>5
  <2> QED  BY <2>1, <2>2, <2>3, <2>5, <2>6, <2>7
<1>11. atb' = TableOf(q) /\ obj' = q
  <2>1. DOMAIN atb' = 0 .. NBlocks
    BY <1>6, <1>7
  <2>2. atb' = [b \in 0 .. NBlocks |-> atb'[b]]
    BY <1>6, <2>1
  <2> QED  BY <1>6, <1>10, <2>2 DEF TableOf, q
<1>12. gc_last_used_block' \in Nat /\ gc_last_used_block <= gc_last_used_block'
       /\ i <= gc_last_used_block'
  BY <1>3, <1>6, <1>7, TwoNumbers
<1>13. LastUsedCovers'
  <2>1. ASSUME NEW b \in Blocks, atb'[b] # "FREE"
        PROVE  b <= gc_last_used_block'
    <3>1. b \in 0 .. NBlocks /\ b \in Nat
      BY <1>2 DEF Blocks
    <3>2. CASE h <= b /\ b <= i
      BY <1>3, <1>12, <3>1, <3>2
    <3>3. CASE ~(h <= b /\ b <= i)
      <4>1. atb[b] # "FREE"
        BY <1>10, <2>1, <3>1, <3>3
      <4>2. b <= gc_last_used_block
        BY <4>1 DEF TableOK, LastUsedCovers
      <4> QED  BY <1>7, <1>12, <3>1, <4>2
    <3> QED  BY <3>2, <3>3
  <2> QED  BY <2>1 DEF LastUsedCovers
<1>14. gc_last_free_atb_index' \in Nat /\ NoFreeBelow'
  <2>1. ASSUME NEW b \in Blocks, atb'[b] = "FREE"
        PROVE  b \in Nat /\ atb[b] = "FREE" /\ ~(h <= b /\ b <= i)
               /\ from <= b
    <3>1. b \in 0 .. NBlocks /\ b \in Nat
      BY <1>2 DEF Blocks
    <3>2. ~(h <= b /\ b <= i) /\ atb[b] = "FREE"
      BY <1>10, <2>1, <3>1
    <3> QED  BY <1>1, <3>1, <3>2 DEF TableOK, NoFreeBelow, from
  <2>2. CASE n = 1
    <3> DEFINE d == (i + 1) \div BLOCKS_PER_ATB
    <3>1. i + 1 \in Nat
      BY <1>3
    <3>2. d \in Nat /\ d * BLOCKS_PER_ATB <= i + 1
      BY <3>1, ByteOf
    <3>3. d * BLOCKS_PER_ATB \in Nat
      BY <3>2, ByteOrder
    <3>4. gc_last_free_atb_index' = d
      BY <1>6, <2>2
    <3> HIDE DEF d
    <3>5. ASSUME NEW b \in Blocks, atb'[b] = "FREE"
          PROVE  b >= d * BLOCKS_PER_ATB
      <4>1. b \in Nat /\ atb[b] = "FREE" /\ ~(h <= b /\ b <= i) /\ from <= b
        BY <2>1, <3>5
      <4>2. b \in Runs(n, from)
        <5>1. b + 1 >= from + 1 /\ \A c \in b + 1 - 1 .. b : c = b
          BY <1>1, <4>1
        <5> QED  BY <2>2, <4>1, <5>1 DEF Runs
      <4>3. i <= b
        BY <1>3, <4>2
      <4>4. h = i
        BY <1>3, <2>2 DEF h
      <4>5. i + 1 <= b
        BY <1>3, <4>1, <4>3, <4>4
      <4> QED  BY <1>3, <3>2, <3>3, <4>1, <4>5
    <3> QED  BY <3>2, <3>4, <3>5 DEF NoFreeBelow
  <2>3. CASE n # 1
    <3>1. gc_last_free_atb_index' = gc_last_free_atb_index
      BY <1>6, <2>3
    <3>2. ASSUME NEW b \in Blocks, atb'[b] = "FREE" PROVE b >= from
      BY <1>1, <2>1, <3>2
    <3> QED  BY <1>7, <3>1, <3>2 DEF NoFreeBelow, from
  <2> QED  BY <2>2, <2>3
<1>15. Apart(obj)' /\ (atb = TableOf(obj))'
  BY <1>9, <1>11 DEF Apart, TableOf, Kind
<1> QED
  BY <1>3, <1>5, <1>9, <1>12, <1>13, <1>14, <1>15 DEF TableOK, h
\* Blocks from c on become free and the index goes no higher than c's byte.
LEMMA IndexAfterFree ==
    ASSUME TableOK, NEW c \in Nat,
           gc_last_free_atb_index' =
             Min({gc_last_free_atb_index, c \div BLOCKS_PER_ATB}),
           \A b \in Blocks :
             atb'[b] = "FREE" => atb[b] = "FREE" \/ c <= b
    PROVE  gc_last_free_atb_index' \in Nat /\ NoFreeBelow'
<1> DEFINE p == BLOCKS_PER_ATB
           k == gc_last_free_atb_index
           m == gc_last_free_atb_index'
           d == c \div p
<1>1. d \in Nat /\ d * p <= c
  BY ByteOf
<1>2. k \in Nat
  BY DEF TableOK
<1>3. m \in Nat /\ m <= k /\ m <= d
  BY <1>1, <1>2, TwoNumbers
<1> HIDE DEF d, k, m
<1>4. m * p <= k * p /\ m * p <= d * p /\ m * p \in Nat /\ k * p \in Nat
      /\ d * p \in Nat
  BY <1>1, <1>2, <1>3, ByteOrder
<1>5. ASSUME NEW b \in Blocks, atb'[b] = "FREE" PROVE b >= m * p
  <2>1. b \in Nat
    BY BlockCount DEF Blocks
  <2>2. CASE atb[b] = "FREE"
    <3>1. b >= k * p
      BY <2>2 DEF TableOK, NoFreeBelow, k
    <3> QED  BY <1>4, <2>1, <3>1
  <2>3. CASE c <= b
    BY <1>1, <1>4, <2>1, <2>3
  <2> QED  BY <1>5, <2>2, <2>3
<1> QED  BY <1>3, <1>5 DEF NoFreeBelow, m

\* gc_free of an object.
LEMMA FreedKeeps ==
    ASSUME TableOK, NEW h \in DOMAIN obj, Freed(h)
    PROVE  TableOK'
<1> DEFINE q == Without(obj, {h})
<1>1. Apart(obj) /\ atb = TableOf(obj) /\ DOMAIN atb = 0 .. NBlocks
      /\ gc_last_used_block \in Nat /\ NBlocks \in Nat
  BY BlockCount DEF TableOK, TableOf
<1>2. /\ atb' = [c \in DOMAIN atb |->
                   IF c \in Chain(h) THEN "FREE" ELSE atb[c]]
      /\ obj' = q /\ gc_last_used_block' = gc_last_used_block
      /\ gc_last_free_atb_index' =
           Min({gc_last_free_atb_index, h \div BLOCKS_PER_ATB})
  BY DEF Freed
<1>3. /\ Apart(q)
      /\ \A b \in Nat :
           Kind(q, b) = IF \E g \in {h} : Covers(obj, g, b) THEN "FREE"
                        ELSE Kind(obj, b)
  BY <1>1, RemoveTable
<1> HIDE DEF q
<1>4. ASSUME NEW b \in 0 .. NBlocks
      PROVE  /\ b \in Nat /\ atb'[b] = Kind(q, b)
             /\ atb'[b] = IF Covers(obj, h, b) THEN "FREE" ELSE atb[b]
  <2>1. b \in Nat /\ atb[b] = Kind(obj, b)
    BY <1>1, BlockIs
  <2>2. b \in Chain(h) <=> Covers(obj, h, b)
    BY <1>1, <2>1, ChainIs
  <2>3. atb'[b] = IF Covers(obj, h, b) THEN "FREE" ELSE atb[b]
    BY <1>1, <1>2, <2>2
  <2>4. Kind(q, b) = IF Covers(obj, h, b) THEN "FREE" ELSE Kind(obj, b)
    BY <1>3, <2>1
  <2> QED  BY <2>1, <2>3, <2>4
<1>5. atb' = TableOf(q)
  <2>1. DOMAIN atb' = 0 .. NBlocks
    BY <1>1, <1>2
  <2>2. atb' = [b \in 0 .. NBlocks |-> atb'[b]]
    BY <1>2, <2>1
  <2> QED  BY <1>4, <2>2 DEF TableOf
<1>6. h \in Nat
  BY <1>1, OneObject
<1>7. ASSUME NEW b \in Blocks
      PROVE  b \in 0 .. NBlocks /\ b \in Nat
  BY <1>1 DEF Blocks
<1>8. gc_last_free_atb_index' \in Nat /\ NoFreeBelow'
  <2>1. ASSUME NEW b \in Blocks, atb'[b] = "FREE"
        PROVE  atb[b] = "FREE" \/ h <= b
    BY <1>4, <1>7, <2>1 DEF Covers
  <2> QED  BY <1>2, <1>6, <2>1, IndexAfterFree
<1>9. LastUsedCovers'
  <2>1. ASSUME NEW b \in Blocks, atb'[b] # "FREE" PROVE atb[b] # "FREE"
    BY <1>4, <1>7, <2>1
  <2> QED  BY <1>2, <2>1 DEF TableOK, LastUsedCovers
<1>10. Apart(obj)' /\ (atb = TableOf(obj))'
  BY <1>2, <1>3, <1>5 DEF Apart, TableOf, Kind
<1> QED  BY <1>1, <1>2, <1>8, <1>9, <1>10 DEF TableOK

\* gc_realloc to fewer blocks.
LEMMA ShrinkKeeps ==
    ASSUME TableOK, NEW t, NEW h \in DOMAIN obj, NEW n \in 1 .. MaxBlocks,
           Shrink(t, h, n)
    PROVE  TableOK'
<1> DEFINE q == Resized(obj, h, n)
           m == obj[h].n
<1>1. Apart(obj) /\ atb = TableOf(obj) /\ DOMAIN atb = 0 .. NBlocks
      /\ gc_last_used_block \in Nat /\ NBlocks \in Nat
  BY BlockCount DEF TableOK, TableOf
<1>2. h \in Nat /\ m \in Nat /\ h + m <= NBlocks /\ n \in Nat
      /\ n \in Nat \ {0} /\ h + n \in Nat
  BY <1>1, OneObject, BlockCount
<1>3. Size(h) = m
  BY <1>1, ChainIs
<1>4. /\ n < m
      /\ atb' = [c \in DOMAIN atb |->
                   IF c \in Chain(h) /\ c >= h + n THEN "FREE" ELSE atb[c]]
      /\ obj' = q /\ gc_last_used_block' = gc_last_used_block
      /\ gc_last_free_atb_index' =
           Min({gc_last_free_atb_index, (h + n) \div BLOCKS_PER_ATB})
  BY <1>3 DEF Shrink, Resized
<1>5. h + n <= NBlocks /\ h + m .. h + n - 1 = {}
  BY <1>1, <1>2, <1>4
<1>6. \A b \in h + m .. h + n - 1 : Kind(obj, b) = "FREE"
  BY <1>5
<1>7. /\ Apart(q)
      /\ \A b \in Nat :
           Kind(q, b) = IF h + m <= b /\ b < h + n THEN "TAIL"
                        ELSE IF h + n <= b /\ b < h + m THEN "FREE"
                        ELSE Kind(obj, b)
  BY <1>1, <1>2, <1>5, <1>6, ResizeTable
<1> HIDE DEF q, m
<1>8. ASSUME NEW b \in 0 .. NBlocks
      PROVE  /\ b \in Nat /\ atb'[b] = Kind(q, b)
             /\ atb'[b] = IF h + n <= b /\ b < h + m THEN "FREE" ELSE atb[b]
  <2>1. b \in Nat /\ atb[b] = Kind(obj, b)
    BY <1>1, BlockIs
  <2>2. b \in Chain(h) <=> h <= b /\ b < h + m
    BY <1>1, <2>1, ChainIs DEF Covers, m
  <2>3. (b \in Chain(h) /\ b >= h + n) <=> (h + n <= b /\ b < h + m)
    BY <1>2, <2>1, <2>2
  <2>4. atb'[b] = IF h + n <= b /\ b < h + m THEN "FREE" ELSE atb[b]
    BY <1>1, <1>4, <2>3
  <2>5. ~(h + m <= b /\ b < h + n)
    BY <1>2, <1>4, <2>1
  <2>6. Kind(q, b) = IF h + n <= b /\ b < h + m THEN "FREE" ELSE Kind(obj, b)
    BY <1>7, <2>1, <2>5
  <2> QED  BY <2>1, <2>4, <2>6
<1>9. atb' = TableOf(q)
  <2>1. DOMAIN atb' = 0 .. NBlocks
    BY <1>1, <1>4
  <2>2. atb' = [b \in 0 .. NBlocks |-> atb'[b]]
    BY <1>4, <2>1
  <2> QED  BY <1>8, <2>2 DEF TableOf
<1>10. ASSUME NEW b \in Blocks
       PROVE  b \in 0 .. NBlocks /\ b \in Nat
  BY <1>1 DEF Blocks
<1>11. gc_last_free_atb_index' \in Nat /\ NoFreeBelow'
  <2>1. ASSUME NEW b \in Blocks, atb'[b] = "FREE"
        PROVE  atb[b] = "FREE" \/ h + n <= b
    BY <1>8, <1>10, <2>1
  <2> QED  BY <1>2, <1>4, <2>1, IndexAfterFree
<1>12. LastUsedCovers'
  <2>1. ASSUME NEW b \in Blocks, atb'[b] # "FREE" PROVE atb[b] # "FREE"
    BY <1>8, <1>10, <2>1
  <2> QED  BY <1>4, <2>1 DEF TableOK, LastUsedCovers
<1>13. Apart(obj)' /\ (atb = TableOf(obj))'
  BY <1>4, <1>7, <1>9 DEF Apart, TableOf, Kind
<1> QED  BY <1>1, <1>4, <1>11, <1>12, <1>13 DEF TableOK

\* gc_realloc in place to more blocks.
LEMMA ExpandKeeps ==
    ASSUME TableOK, NEW t, NEW h \in DOMAIN obj, NEW n \in 1 .. MaxBlocks,
           Expand(t, h, n)
    PROVE  TableOK'
<1> DEFINE q == Resized(obj, h, n)
           m == obj[h].n
<1>1. Apart(obj) /\ atb = TableOf(obj) /\ DOMAIN atb = 0 .. NBlocks
      /\ gc_last_used_block \in Nat /\ NBlocks \in Nat
      /\ gc_last_free_atb_index \in Nat
  BY BlockCount DEF TableOK, TableOf
<1>2. h \in Nat /\ m \in Nat /\ h + m <= NBlocks /\ n \in Nat
      /\ n \in Nat \ {0} /\ h + n \in Nat
  BY <1>1, OneObject, BlockCount
<1>3. Size(h) = m
  BY <1>1, ChainIs
<1>4. /\ m < n /\ h + n <= NBlocks
      /\ \A c \in h + m .. h + n - 1 : atb[c] = "FREE"
      /\ atb' = [c \in DOMAIN atb |->
                   IF c \in h + m .. h + n - 1 THEN "TAIL" ELSE atb[c]]
      /\ obj' = q
      /\ gc_last_used_block' = Max({gc_last_used_block, h + n})
      /\ gc_last_free_atb_index' = gc_last_free_atb_index
  BY <1>2, <1>3 DEF Expand, RoomAfter, Resized
<1>5. ASSUME NEW b \in h + m .. h + n - 1 PROVE Kind(obj, b) = "FREE"
  <2>1. b \in 0 .. NBlocks
    BY <1>1, <1>2, <1>4
  <2> QED  BY <1>1, <1>4, <2>1, BlockIs
<1>6. /\ Apart(q)
      /\ \A b \in Nat :
           Kind(q, b) = IF h + m <= b /\ b < h + n THEN "TAIL"
                        ELSE IF h + n <= b /\ b < h + m THEN "FREE"
                        ELSE Kind(obj, b)
  BY <1>1, <1>2, <1>4, <1>5, ResizeTable
<1> HIDE DEF q, m
<1>7. ASSUME NEW b \in 0 .. NBlocks
      PROVE  /\ b \in Nat /\ atb'[b] = Kind(q, b)
             /\ atb'[b] = IF h + m <= b /\ b < h + n THEN "TAIL" ELSE atb[b]
  <2>1. b \in Nat /\ atb[b] = Kind(obj, b)
    BY <1>1, BlockIs
  <2>2. b \in h + m .. h + n - 1 <=> h + m <= b /\ b < h + n
    BY <1>2, <2>1
  <2>3. atb'[b] = IF h + m <= b /\ b < h + n THEN "TAIL" ELSE atb[b]
    BY <1>1, <1>4, <2>2
  <2>4. ~(h + n <= b /\ b < h + m)
    BY <1>2, <1>4, <2>1
  <2>5. Kind(q, b) = IF h + m <= b /\ b < h + n THEN "TAIL" ELSE Kind(obj, b)
    BY <1>6, <2>1, <2>4
  <2> QED  BY <2>1, <2>3, <2>5
<1>8. atb' = TableOf(q)
  <2>1. DOMAIN atb' = 0 .. NBlocks
    BY <1>1, <1>4
  <2>2. atb' = [b \in 0 .. NBlocks |-> atb'[b]]
    BY <1>4, <2>1
  <2> QED  BY <1>7, <2>2 DEF TableOf
<1>9. ASSUME NEW b \in Blocks
      PROVE  b \in 0 .. NBlocks /\ b \in Nat
  BY <1>1 DEF Blocks
<1>10. NoFreeBelow'
  <2>1. ASSUME NEW b \in Blocks, atb'[b] = "FREE" PROVE atb[b] = "FREE"
    BY <1>7, <1>9, <2>1
  <2> QED  BY <1>4, <2>1 DEF TableOK, NoFreeBelow
<1>11. gc_last_used_block' \in Nat /\ gc_last_used_block <= gc_last_used_block'
       /\ h + n <= gc_last_used_block'
  BY <1>1, <1>2, <1>4, TwoNumbers
<1>12. LastUsedCovers'
  <2>1. ASSUME NEW b \in Blocks, atb'[b] # "FREE"
        PROVE  b <= gc_last_used_block'
    <3>1. CASE h + m <= b /\ b < h + n
      BY <1>2, <1>9, <1>11, <3>1
    <3>2. CASE ~(h + m <= b /\ b < h + n)
      <4>1. atb[b] # "FREE"
        BY <1>7, <1>9, <2>1, <3>2
      <4>2. b <= gc_last_used_block
        BY <4>1 DEF TableOK, LastUsedCovers
      <4> QED  BY <1>1, <1>9, <1>11, <4>2
    <3> QED  BY <3>1, <3>2
  <2> QED  BY <2>1 DEF LastUsedCovers
<1>13. Apart(obj)' /\ (atb = TableOf(obj))'
  BY <1>4, <1>6, <1>8 DEF Apart, TableOf, Kind
<1> QED  BY <1>1, <1>4, <1>10, <1>11, <1>12, <1>13 DEF TableOK
\* A collection of objects that no call in progress holds.  The sweep ends
\* at the last used block, above which nothing is used: no mark stays.
LEMMA CollectKeeps ==
    ASSUME TableOK, NEW D \in SUBSET DOMAIN obj, Collect(D)
    PROVE  TableOK'
<1> DEFINE q == Without(obj, D)
           gone == UNION {Chain(b) : b \in D}
           last == gc_last_used_block
           kept == {b \in Blocks :
                      b <= last /\ atb[b] # "FREE" /\ b \notin gone}
<1>1. Apart(obj) /\ atb = TableOf(obj) /\ DOMAIN atb = 0 .. NBlocks
      /\ last \in Nat /\ NBlocks \in Nat
  BY BlockCount DEF TableOK, TableOf
<1>2. /\ atb' = [b \in DOMAIN atb |->
                   IF b <= last /\ b \in gone THEN "FREE"
                   ELSE IF ~(b <= last) /\ b \in DOMAIN obj \ D THEN "MARK"
                   ELSE atb[b]]
      /\ obj' = q /\ gc_last_free_atb_index' = 0
      /\ gc_last_used_block' = Max(kept \cup {0})
  BY DEF Collect
<1>3. /\ Apart(q)
      /\ \A b \in Nat :
           Kind(q, b) = IF \E g \in D : Covers(obj, g, b) THEN "FREE"
                        ELSE Kind(obj, b)
  BY <1>1, RemoveTable
<1>4. ASSUME NEW b \in Nat
      PROVE  b \in gone <=> \E g \in D : Covers(obj, g, b)
  <2>1. ASSUME NEW g \in D PROVE b \in Chain(g) <=> Covers(obj, g, b)
    BY <1>1, ChainIs
  <2> QED  BY <2>1
<1> HIDE DEF q, gone, last
<1>5. ASSUME NEW b \in 0 .. NBlocks
      PROVE  /\ b \in Nat /\ atb'[b] = Kind(q, b)
             /\ atb'[b] # "FREE"
                  => b <= last /\ atb[b] # "FREE" /\ b \notin gone
  <2>1. /\ b \in Nat /\ atb[b] = Kind(obj, b)
        /\ atb[b] = "FREE" <=> ~ \E h \in DOMAIN obj : Covers(obj, h, b)
    BY <1>1, BlockIs
  <2>2. ASSUME NEW h \in DOMAIN obj, Covers(obj, h, b) PROVE b <= last
    <3>1. b < h + obj[h].n /\ h + obj[h].n <= NBlocks /\ h + obj[h].n \in Nat
      BY <1>1, <2>2, OneObject DEF Covers
    <3>2. b \in Blocks
      BY <1>1, <2>1, <3>1 DEF Blocks
    <3>3. atb[b] # "FREE"
      BY <2>1, <2>2
    <3> QED  BY <3>2, <3>3 DEF TableOK, LastUsedCovers, last
  <2>3. b \in DOMAIN obj => b <= last
    <3>1. ASSUME b \in DOMAIN obj PROVE Covers(obj, b, b)
      BY <1>1, <3>1, OneObject DEF Covers
    <3> QED  BY <2>2, <3>1
  <2>4. b \in gone => b <= last
    BY <1>4, <2>1, <2>2
  <2>5. atb'[b] = IF b \in gone THEN "FREE" ELSE atb[b]
    <3>1. atb'[b] = IF b <= last /\ b \in gone THEN "FREE"
                    ELSE IF ~(b <= last) /\ b \in DOMAIN obj \ D THEN "MARK"
                    ELSE atb[b]
      BY <1>1, <1>2
    <3> QED  BY <2>3, <2>4, <3>1
  <2>6. Kind(q, b) = IF b \in gone THEN "FREE" ELSE Kind(obj, b)
    BY <1>3, <1>4, <2>1
  <2>7. atb[b] # "FREE" => b <= last
    BY <2>1, <2>2
  <2> QED  BY <2>1, <2>5, <2>6, <2>7
<1>6. atb' = TableOf(q)
  <2>1. DOMAIN atb' = 0 .. NBlocks
    BY <1>1, <1>2
  <2>2. atb' = [b \in 0 .. NBlocks |-> atb'[b]]
    BY <1>2, <2>1
  <2> QED  BY <1>5, <2>2 DEF TableOf
<1>7. ASSUME NEW b \in Blocks
      PROVE  b \in 0 .. NBlocks /\ b \in Nat /\ b >= 0
  BY <1>1 DEF Blocks
<1>8. NoFreeBelow'
  <2>1. BLOCKS_PER_ATB \in Nat /\ 0 * BLOCKS_PER_ATB = 0
    BY GcAllocAssumption
  <2> QED  BY <1>2, <1>7, <2>1 DEF NoFreeBelow
<1>9. gc_last_used_block' \in Nat
      /\ \A b \in kept : b <= gc_last_used_block'
  <2> DEFINE K == kept \cup {0}
  <2>1. K \in SUBSET Nat /\ K # {} /\ \A b \in K : b <= NBlocks
    BY <1>1, <1>7 DEF Blocks
  <2>2. gc_last_used_block' = Max(K)
    BY <1>2
  <2>3. \A b \in kept : b \in K
    OBVIOUS
  <2> HIDE DEF K
  <2>4. Max(K) \in K /\ \A y \in K : y <= Max(K)
    BY <1>1, <2>1, MaxIs
  <2> QED  BY <2>1, <2>2, <2>3, <2>4
<1>10. LastUsedCovers'
  <2>1. ASSUME NEW b \in Blocks, atb'[b] # "FREE"
        PROVE  b <= gc_last_used_block'
    BY <1>5, <1>7, <1>9, <2>1
  <2> QED  BY <2>1 DEF LastUsedCovers
<1>11. Apart(obj)' /\ (atb = TableOf(obj))'
  BY <1>2, <1>3, <1>6 DEF Apart, TableOf, Kind
<1> QED  BY <1>2, <1>8, <1>9, <1>10, <1>11 DEF TableOK

(***************************************************************************)
(* The calls in progress                                                   *)
(***************************************************************************)

\* Where a call can be, and what it remembers there.
Stops == {"idle", "alloc", "collect", "again", "refused", "flag", "move"}

Calls == [at : Stops, n : Nat, fin : BOOLEAN,
          new : 0 .. NBlocks, old : 0 .. NBlocks]

\* The objects that a call holds.
Ptrs(r) == {r.new, r.old} \ {NULL}

\* A call holds objects that exist, has a size to search for, and the object
\* whose flag it is about to set was allocated with a finaliser.
CallOK(o, r) ==
    /\ r \in Calls /\ Ptrs(r) \subseteq DOMAIN o
    /\ r.at \in {"alloc", "collect", "again"} => r.n \in 1 .. MaxBlocks
    /\ r.at = "flag" => r.new # NULL /\ o[r.new].fin
    /\ r.at = "move" => r.old # NULL

\* No two calls hold the same object.
CallsOK(o, p) ==
    /\ p \in [Threads -> Calls]
    /\ \A t \in Threads : CallOK(o, p[t])
    /\ \A t, u \in Threads : t # u => Ptrs(p[t]) \cap Ptrs(p[u]) = {}

\* NULL is no object.
LEMMA NullIs == NULL \in 0 .. NBlocks /\ NULL \notin Blocks
BY BlockCount DEF NULL, Blocks

\* A thread that is in no call holds nothing.
LEMMA NoCallIs ==
    ASSUME NEW o
    PROVE  CallOK(o, Idle) /\ Ptrs(Idle) = {} /\ Idle.at = "idle"
BY NullIs DEF CallOK, Calls, Stops, Ptrs, Idle

\* Thread t's call becomes r, and the objects o become q: what is to be
\* shown for the calls to stay in order.
LEMMA CallStep ==
    ASSUME NEW o, NEW q, NEW p, CallsOK(o, p), NEW t \in Threads, NEW r,
           CallOK(q, r),
           \A u \in Threads \ {t} :
             /\ Ptrs(p[u]) \cap Ptrs(r) = {}
             /\ Ptrs(p[u]) \subseteq DOMAIN q
             /\ \A x \in Ptrs(p[u]) : q[x].fin = o[x].fin
    PROVE  CallsOK(q, [p EXCEPT ![t] = r])
<1> DEFINE s == [p EXCEPT ![t] = r]
<1>1. p \in [Threads -> Calls] /\ r \in Calls
  BY DEF CallsOK, CallOK
<1>2. s \in [Threads -> Calls] /\ s[t] = r
      /\ \A u \in Threads \ {t} : s[u] = p[u]
  BY <1>1
<1> HIDE DEF s
<1>3. ASSUME NEW u \in Threads PROVE CallOK(q, s[u])
  <2>1. CASE u = t
    BY <1>2, <2>1
  <2>2. CASE u # t
    <3>1. CallOK(o, p[u]) /\ s[u] = p[u]
      BY <1>2, <2>2 DEF CallsOK
    <3>2. Ptrs(p[u]) \subseteq DOMAIN q
          /\ \A x \in Ptrs(p[u]) : q[x].fin = o[x].fin
      BY <2>2
    <3>3. ASSUME p[u].at = "flag" PROVE p[u].new # NULL /\ q[p[u].new].fin
      <4>1. p[u].new # NULL /\ o[p[u].new].fin
        BY <3>1, <3>3 DEF CallOK
      <4>2. p[u].new \in Ptrs(p[u])
        BY <4>1 DEF Ptrs
      <4>3. q[p[u].new].fin = o[p[u].new].fin
        BY <3>2, <4>2
      <4> QED  BY <4>1, <4>3
    <3> QED  BY <3>1, <3>2, <3>3 DEF CallOK
  <2> QED  BY <2>1, <2>2
<1>4. ASSUME NEW u \in Threads, NEW v \in Threads, u # v
      PROVE  Ptrs(s[u]) \cap Ptrs(s[v]) = {}
  <2>1. CASE u = t
    <3>1. s[u] = r /\ s[v] = p[v] /\ v \in Threads \ {t}
      BY <1>2, <1>4, <2>1
    <3>2. Ptrs(p[v]) \cap Ptrs(r) = {}
      BY <3>1
    <3> QED  BY <3>1, <3>2
  <2>2. CASE v = t
    <3>1. s[v] = r /\ s[u] = p[u] /\ u \in Threads \ {t}
      BY <1>2, <1>4, <2>2
    <3> QED  BY <3>1
  <2>3. CASE u # t /\ v # t
    BY <1>2, <1>4, <2>3 DEF CallsOK
  <2> QED  BY <2>1, <2>2, <2>3
<1> QED  BY <1>2, <1>3, <1>4 DEF CallsOK, s

\* The flags, block by block: those of the objects with a finaliser whose
\* allocation has come to its end.
Flagged(o, p, b) ==
    /\ b \in DOMAIN o /\ o[b].fin
    /\ ~ \E u \in Threads : p[u].at = "flag" /\ p[u].new = b

\* This is what FlagsAreObjects says.
LEMMA FlagsAre ==
    FlagsAreObjects <=> \A b : b \in ftb <=> Flagged(obj, pc, b)
<1> DEFINE F == {b \in DOMAIN obj : obj[b].fin}
                  \ {pc[t].new : t \in {u \in Threads : pc[u].at = "flag"}}
<1>1. ASSUME NEW b PROVE b \in F <=> Flagged(obj, pc, b)
  BY DEF Flagged
<1> HIDE DEF F
<1>2. FlagsAreObjects <=> ftb = F
  BY DEF FlagsAreObjects, F
<1>3. ftb = F <=> \A b : b \in ftb <=> b \in F
  OBVIOUS
<1> QED  BY <1>1, <1>2, <1>3
\* The same of the next state.
LEMMA FlagsWillBe ==
    ASSUME \A b : b \in ftb' <=> Flagged(obj', pc', b)
    PROVE  FlagsAreObjects'
<1> DEFINE F == {b \in DOMAIN obj' : obj'[b].fin}
                  \ {pc'[t].new : t \in {u \in Threads : pc'[u].at = "flag"}}
<1>1. ASSUME NEW b PROVE b \in F <=> Flagged(obj', pc', b)
  BY DEF Flagged
<1> HIDE DEF F
<1>2. ftb' = F
  BY <1>1
<1> QED  BY <1>2 DEF FlagsAreObjects, F

(***************************************************************************)
(* The inductive invariant and its steps                                   *)
(***************************************************************************)

HeapInv == TableOK /\ CallsOK(obj, pc) /\ FlagsAreObjects

\* What is to be shown of a step in which thread t's call becomes r.
LEMMA HeapStep ==
    ASSUME HeapInv, TableOK', NEW t \in Threads, NEW r,
           pc' = [pc EXCEPT ![t] = r], CallOK(obj', r),
           \A u \in Threads \ {t} :
             /\ Ptrs(pc[u]) \cap Ptrs(r) = {}
             /\ Ptrs(pc[u]) \subseteq DOMAIN obj'
             /\ \A x \in Ptrs(pc[u]) : obj'[x].fin = obj[x].fin,
           \A b : b \in ftb' <=> Flagged(obj', pc', b)
    PROVE  HeapInv'
<1>1. CallsOK(obj, pc)
  BY DEF HeapInv
<1>2. CallsOK(obj', pc')
  <2> DEFINE s == [pc EXCEPT ![t] = r]
  <2>1. CallsOK(obj', s)
    BY <1>1, CallStep
  <2> HIDE DEF s
  <2>2. pc' = s
    BY DEF s
  <2> QED  BY <2>1, <2>2
<1>3. FlagsAreObjects'
  BY FlagsWillBe
<1> QED  BY <1>2, <1>3 DEF HeapInv, CallsOK, CallOK, Ptrs

\* What the invariant says of one thread.
LEMMA OneCall ==
    ASSUME HeapInv, NEW t \in Threads
    PROVE  /\ pc \in [Threads -> Calls] /\ CallOK(obj, pc[t])
           /\ pc[t] \in Calls /\ Ptrs(pc[t]) \subseteq DOMAIN obj
           /\ \A u \in Threads \ {t} :
                /\ Ptrs(pc[u]) \cap Ptrs(pc[t]) = {}
                /\ Ptrs(pc[u]) \subseteq DOMAIN obj
BY DEF HeapInv, CallsOK, CallOK

\* How the flags change with one call.
LEMMA FlagStep ==
    ASSUME HeapInv, NEW t \in Threads, NEW r, NEW q, NEW b,
           ~(pc[t].at = "flag" /\ pc[t].new = b),
           ~(r.at = "flag" /\ r.new = b),
           b \in DOMAIN q <=> b \in DOMAIN obj,
           b \in DOMAIN q => q[b].fin = obj[b].fin
    PROVE  Flagged(q, [pc EXCEPT ![t] = r], b) <=> Flagged(obj, pc, b)
<1> DEFINE s == [pc EXCEPT ![t] = r]
<1>1. pc \in [Threads -> Calls]
  BY OneCall
<1>2. s[t] = r /\ \A u \in Threads \ {t} : s[u] = pc[u]
  BY <1>1
<1> HIDE DEF s
<1>3. ASSUME NEW u \in Threads
      PROVE  (s[u].at = "flag" /\ s[u].new = b)
               <=> (pc[u].at = "flag" /\ pc[u].new = b)
  BY <1>2
<1>4. Flagged(q, s, b) <=> Flagged(obj, pc, b)
  BY <1>3 DEF Flagged
<1> QED  BY <1>4 DEF s

\* gc_alloc's search, at whichever place of a call.
LEMMA SearchKeeps ==
    ASSUME HeapInv, NEW t \in Threads, NEW n \in 1 .. MaxBlocks,
           NEW fin \in BOOLEAN, NEW old \in {NULL, pc[t].old},
           NEW otherwise \in {"collect", "refused"}, pc[t].at # "flag",
           Search(t, n, fin, old, otherwise)
    PROVE  HeapInv'
<1> DEFINE runs == Runs(n, gc_last_free_atb_index * BLOCKS_PER_ATB)
           i == Min(runs)
           h == i + 1 - n
<1>1. TableOK /\ Apart(obj) /\ n \in Nat /\ NULL \in 0 .. NBlocks
      /\ NULL \notin DOMAIN obj
  BY NullIs, BlockCount DEF HeapInv, TableOK, Apart
<1>2. /\ pc \in [Threads -> Calls] /\ pc[t] \in Calls
      /\ Ptrs(pc[t]) \subseteq DOMAIN obj
      /\ \A u \in Threads \ {t} :
           /\ Ptrs(pc[u]) \cap Ptrs(pc[t]) = {}
           /\ Ptrs(pc[u]) \subseteq DOMAIN obj
  BY OneCall
<1>3. /\ old \in 0 .. NBlocks
      /\ old # NULL => old \in Ptrs(pc[t]) /\ old \in DOMAIN obj
  BY <1>1, <1>2 DEF Calls, Ptrs
<1>4. \A b : b \in ftb <=> Flagged(obj, pc, b)
  BY FlagsAre DEF HeapInv
<1>5. CASE runs # {} /\ Place(t, n, fin, old, i)
  <2>1. TableOK' /\ h \in Nat /\ h < NBlocks /\ h \notin DOMAIN obj
    BY <1>1, <1>5, PlaceKeeps
  <2> DEFINE v == [n |-> n, fin |-> fin]
             r == IF fin \/ old # NULL
                    THEN [at |-> IF fin THEN "flag" ELSE "move", n |-> n,
                          fin |-> fin, new |-> h, old |-> old]
                    ELSE Idle
  <2>2. obj' = With(obj, h, v) /\ pc' = [pc EXCEPT ![t] = r] /\ ftb' = ftb
    BY <1>5 DEF Place
  <2>3. h \in 0 .. NBlocks /\ h # NULL
    BY <2>1, BlockCount DEF NULL
  <2> HIDE DEF h
  <2>4. DOMAIN obj' = DOMAIN obj \cup {h} /\ obj'[h].fin = fin
        /\ \A g \in DOMAIN obj : obj'[g] = obj[g]
    BY <2>1, <2>2 DEF With
  <2>5. /\ CallOK(obj', r)
        /\ r.at # "idle" => r.new = h
        /\ Ptrs(r) \subseteq Ptrs(pc[t]) \cup {h}
        /\ r.at = "flag" <=> fin
    <3>1. CASE fin \/ old # NULL
      <4>1. r = [at |-> IF fin THEN "flag" ELSE "move", n |-> n,
                 fin |-> fin, new |-> h, old |-> old]
        BY <3>1
      <4> HIDE DEF r
      <4>2. r \in Calls
        BY <1>1, <1>3, <2>3, <4>1 DEF Calls, Stops
      <4>3. r.new = h /\ r.old = old /\ r.at = (IF fin THEN "flag" ELSE "move")
        BY <4>1
      <4>4. Ptrs(r) \subseteq Ptrs(pc[t]) \cup {h}
        BY <1>3, <4>3 DEF Ptrs
      <4>5. Ptrs(r) \subseteq DOMAIN obj'
        BY <1>2, <2>4, <4>4
      <4> QED  BY <2>3, <2>4, <3>1, <4>2, <4>3, <4>4, <4>5 DEF CallOK
    <3>2. CASE ~(fin \/ old # NULL)
      <4>1. r = Idle
        BY <3>2
      <4> HIDE DEF r
      <4> QED  BY <3>2, <4>1, NoCallIs
    <3> QED  BY <3>1, <3>2
  <2> HIDE DEF r
  <2>6. ASSUME NEW u \in Threads \ {t}
        PROVE  /\ Ptrs(pc[u]) \cap Ptrs(r) = {}
               /\ Ptrs(pc[u]) \subseteq DOMAIN obj'
               /\ \A x \in Ptrs(pc[u]) : obj'[x].fin = obj[x].fin
    BY <1>2, <2>1, <2>4, <2>5
  <2>7. ASSUME NEW b PROVE b \in ftb' <=> Flagged(obj', pc', b)
    <3>1. CASE b = h
      <4>1. ~Flagged(obj, pc, b)
        BY <2>1, <3>1 DEF Flagged
      <4>2. ~Flagged(obj', pc', b)
        <5>1. CASE fin
          <6>1. pc'[t].at = "flag" /\ pc'[t].new = b
            BY <1>2, <2>2, <2>5, <3>1, <5>1
          <6> QED  BY <6>1 DEF Flagged
        <5>2. CASE ~fin
          BY <2>4, <3>1, <5>2 DEF Flagged
        <5> QED  BY <5>1, <5>2
      <4> QED  BY <1>4, <2>2, <4>1, <4>2
    <3>2. CASE b # h
      <4>1. ~(pc[t].at = "flag" /\ pc[t].new = b)
            /\ ~(r.at = "flag" /\ r.new = b)
        BY <2>5, <3>2
      <4>2. (b \in DOMAIN obj' <=> b \in DOMAIN obj)
            /\ (b \in DOMAIN obj' => obj'[b].fin = obj[b].fin)
        BY <2>4, <3>2
      <4>3. Flagged(obj', [pc EXCEPT ![t] = r], b) <=> Flagged(obj, pc, b)
        BY <4>1, <4>2, FlagStep
      <4> QED  BY <1>4, <2>2, <4>3
    <3> QED  BY <3>1, <3>2
  <2> QED  BY <2>1, <2>2, <2>5, <2>6, <2>7, HeapStep
<1>6. CASE /\ runs = {}
           /\ pc' = [pc EXCEPT ![t] = [at |-> otherwise, n |-> n,
                                       fin |-> fin, new |-> NULL, old |-> old]]
           /\ UNCHANGED <<atb, ftb, indices, obj>>
  <2> DEFINE r == [at |-> otherwise, n |-> n, fin |-> fin, new |-> NULL,
                   old |-> old]
  <2>1. TableOK' /\ obj' = obj /\ ftb' = ftb
    BY <1>1, <1>6 DEF TableOK, indices, NoFreeBelow, LastUsedCovers, TableOf,
                      Kind, Apart
  <2>2. r \in Calls /\ r.at = otherwise /\ r.n = n /\ r.new = NULL
        /\ r.old = old
    BY <1>1, <1>3 DEF Calls, Stops
  <2>3. pc' = [pc EXCEPT ![t] = r]
    BY <1>6
  <2> HIDE DEF r
  <2>4. Ptrs(r) \subseteq Ptrs(pc[t])
    BY <1>3, <2>2 DEF Ptrs
  <2>5. CallOK(obj', r)
    BY <1>2, <2>1, <2>2, <2>4 DEF CallOK
  <2>6. ASSUME NEW b PROVE b \in ftb' <=> Flagged(obj', pc', b)
    <3>1. Flagged(obj', [pc EXCEPT ![t] = r], b) <=> Flagged(obj, pc, b)
      <4>1. ~(pc[t].at = "flag" /\ pc[t].new = b)
            /\ ~(r.at = "flag" /\ r.new = b)
        BY <2>2
      <4>2. (b \in DOMAIN obj' <=> b \in DOMAIN obj)
            /\ (b \in DOMAIN obj' => obj'[b].fin = obj[b].fin)
        BY <2>1
      <4> QED  BY <4>1, <4>2, FlagStep
    <3> QED  BY <1>4, <2>1, <2>3, <3>1
  <2>7. ASSUME NEW u \in Threads \ {t}
        PROVE  /\ Ptrs(pc[u]) \cap Ptrs(r) = {}
               /\ Ptrs(pc[u]) \subseteq DOMAIN obj'
               /\ \A x \in Ptrs(pc[u]) : obj'[x].fin = obj[x].fin
    BY <1>2, <2>1, <2>4
  <2> QED  BY <2>1, <2>3, <2>5, <2>6, <2>7, HeapStep
<1> QED  BY <1>5, <1>6 DEF Search
\* A step that leaves the table, the flags and the objects alone.
LEMMA TableStays ==
    ASSUME TableOK, UNCHANGED <<atb, indices, obj>>
    PROVE  TableOK'
BY DEF TableOK, indices, NoFreeBelow, LastUsedCovers, TableOf, Kind, Apart

\* gc_alloc returns NULL.
LEMMA RefusedKeeps ==
    ASSUME HeapInv, NEW t \in Threads, Refused(t)
    PROVE  HeapInv'
<1>1. pc[t].at = "refused" /\ pc' = [pc EXCEPT ![t] = Idle]
      /\ obj' = obj /\ ftb' = ftb
  BY DEF Refused
<1>2. TableOK'
  BY TableStays DEF HeapInv, Refused
<1>3. CallOK(obj', Idle) /\ Ptrs(Idle) = {} /\ Idle.at = "idle"
  BY NoCallIs
<1>4. \A u \in Threads \ {t} : Ptrs(pc[u]) \subseteq DOMAIN obj
  BY OneCall
<1>5. ASSUME NEW b PROVE b \in ftb' <=> Flagged(obj', pc', b)
  <2>1. Flagged(obj', [pc EXCEPT ![t] = Idle], b) <=> Flagged(obj, pc, b)
    BY <1>1, <1>3, FlagStep
  <2>2. b \in ftb <=> Flagged(obj, pc, b)
    BY FlagsAre DEF HeapInv
  <2> QED  BY <1>1, <2>1, <2>2
<1> QED  BY <1>1, <1>2, <1>3, <1>4, <1>5, HeapStep

\* gc_alloc sets the finaliser flag: no other call is about to set that one.
LEMMA SetFlagKeeps ==
    ASSUME HeapInv, NEW t \in Threads, SetFlag(t)
    PROVE  HeapInv'
<1> DEFINE c == pc[t]
           h == pc[t].new
           r == IF c.old = NULL THEN Idle ELSE [c EXCEPT !.at = "move"]
<1>1. pc[t].at = "flag" /\ ftb' = ftb \cup {h} /\ obj' = obj
  BY DEF SetFlag
<1>2. /\ pc \in [Threads -> Calls] /\ CallOK(obj, c) /\ c \in Calls
      /\ \A u \in Threads \ {t} :
           /\ Ptrs(pc[u]) \cap Ptrs(pc[t]) = {}
           /\ Ptrs(pc[u]) \subseteq DOMAIN obj
  BY OneCall
<1>3. pc' = [pc EXCEPT ![t] = r]
  BY <1>2 DEF SetFlag
<1>4. TableOK'
  BY TableStays DEF HeapInv, SetFlag
<1>5. h # NULL /\ obj[h].fin /\ h \in Ptrs(c) /\ h \in DOMAIN obj
  BY <1>1, <1>2 DEF CallOK, Ptrs
<1>6. CallOK(obj', r) /\ Ptrs(r) \subseteq Ptrs(c) /\ r.at # "flag"
  <2>1. CASE c.old = NULL
    <3>1. r = Idle
      BY <2>1
    <3> HIDE DEF r
    <3> QED  BY <3>1, NoCallIs
  <2>2. CASE c.old # NULL
    <3>1. r = [c EXCEPT !.at = "move"]
      BY <2>2
    <3>2. r \in Calls /\ r.at = "move" /\ r.new = c.new /\ r.old = c.old
      <4> HIDE DEF c, r
      <4> QED  BY <1>2, <3>1 DEF Calls, Stops
    <3> HIDE DEF r
    <3>3. Ptrs(r) = Ptrs(c)
      BY <3>2 DEF Ptrs
    <3> QED  BY <1>1, <1>2, <2>2, <3>2, <3>3 DEF CallOK
  <2> QED  BY <2>1, <2>2
<1> HIDE DEF r, c
<1>7. ASSUME NEW u \in Threads \ {t}
      PROVE  /\ Ptrs(pc[u]) \cap Ptrs(r) = {}
             /\ Ptrs(pc[u]) \subseteq DOMAIN obj'
             /\ \A x \in Ptrs(pc[u]) : obj'[x].fin = obj[x].fin
  BY <1>1, <1>2, <1>6 DEF c
<1>8. ASSUME NEW b PROVE b \in ftb' <=> Flagged(obj', pc', b)
  <2>1. b \in ftb <=> Flagged(obj, pc, b)
    BY FlagsAre DEF HeapInv
  <2>2. CASE b = h
    <3>1. ASSUME NEW u \in Threads, pc'[u].at = "flag", pc'[u].new = b
          PROVE  FALSE
      <4>1. CASE u = t
        BY <1>2, <1>3, <1>6, <3>1, <4>1
      <4>2. CASE u # t
        <5>1. pc[u].new = h
          BY <1>2, <1>3, <2>2, <3>1, <4>2
        <5>2. h \in Ptrs(pc[u]) /\ h \in Ptrs(pc[t])
          BY <1>5, <5>1 DEF Ptrs, c
        <5> QED  BY <1>2, <4>2, <5>2
      <4> QED  BY <4>1, <4>2
    <3>2. Flagged(obj', pc', b)
      BY <1>1, <1>5, <2>2, <3>1 DEF Flagged
    <3> QED  BY <1>1, <2>2, <3>2
  <2>3. CASE b # h
    <3>1. Flagged(obj', [pc EXCEPT ![t] = r], b) <=> Flagged(obj, pc, b)
      BY <1>1, <1>6, <2>3, FlagStep
    <3> QED  BY <1>1, <1>3, <2>1, <2>3, <3>1
  <2> QED  BY <2>2, <2>3
<1> QED  BY <1>1, <1>3, <1>4, <1>6, <1>7, <1>8, HeapStep

\* The objects of D go: the flags that are left are those of the others.
LEMMA FlagsWithout ==
    ASSUME HeapInv, NEW D \in SUBSET DOMAIN obj, obj' = Without(obj, D),
           ftb' = ftb \ D, NEW t \in Threads, NEW r, r.at # "flag",
           pc[t].at # "flag", pc' = [pc EXCEPT ![t] = r], NEW b
    PROVE  b \in ftb' <=> Flagged(obj', pc', b)
<1>1. b \in ftb <=> Flagged(obj, pc, b)
  BY FlagsAre DEF HeapInv
<1>2. DOMAIN obj' = DOMAIN obj \ D
      /\ \A g \in DOMAIN obj \ D : obj'[g] = obj[g]
  BY DEF Without
<1>3. CASE b \in D
  BY <1>2, <1>3 DEF Flagged
<1>4. CASE b \notin D
  <2>1. Flagged(obj', [pc EXCEPT ![t] = r], b) <=> Flagged(obj, pc, b)
    BY <1>2, <1>4, FlagStep
  <2> QED  BY <1>1, <1>4, <2>1
<1> QED  BY <1>3, <1>4

\* What no call holds.
LEMMA NotHeld ==
    ASSUME NEW b \in DOMAIN obj \ Held, NEW u \in Threads
    PROVE  b \notin Ptrs(pc[u])
BY DEF Held, Ptrs

\* A call that stays as it is.
LEMMA SameCall ==
    ASSUME HeapInv, NEW t \in Threads
    PROVE  pc = [pc EXCEPT ![t] = pc[t]]
<1>1. pc \in [Threads -> Calls]
  BY OneCall
<1> QED  BY <1>1

\* Objects go that no call holds, and thread t's call becomes r.
LEMMA GoneStep ==
    ASSUME HeapInv, TableOK', NEW D \in SUBSET DOMAIN obj,
           obj' = Without(obj, D), ftb' = ftb \ D,
           NEW t \in Threads, NEW r, r.at # "flag", pc[t].at # "flag",
           pc' = [pc EXCEPT ![t] = r], CallOK(obj', r),
           Ptrs(r) \subseteq Ptrs(pc[t]),
           \A u \in Threads \ {t} : Ptrs(pc[u]) \cap D = {}
    PROVE  HeapInv'
<1>1. \A u \in Threads \ {t} :
        /\ Ptrs(pc[u]) \cap Ptrs(pc[t]) = {}
        /\ Ptrs(pc[u]) \subseteq DOMAIN obj
  BY OneCall
<1>2. DOMAIN obj' = DOMAIN obj \ D
      /\ \A g \in DOMAIN obj \ D : obj'[g] = obj[g]
  BY DEF Without
<1>3. ASSUME NEW u \in Threads \ {t}
      PROVE  /\ Ptrs(pc[u]) \cap Ptrs(r) = {}
             /\ Ptrs(pc[u]) \subseteq DOMAIN obj'
             /\ \A x \in Ptrs(pc[u]) : obj'[x].fin = obj[x].fin
  <2>1. Ptrs(pc[u]) \subseteq DOMAIN obj \ D
    BY <1>1
  <2> QED  BY <1>1, <1>2, <2>1
<1>4. \A b : b \in ftb' <=> Flagged(obj', pc', b)
  BY FlagsWithout
<1> QED  BY <1>3, <1>4, HeapStep
\* gc_free of an object that is the program's own.
LEMMA FreeKeeps ==
    ASSUME HeapInv, NEW t \in Threads, NEW h \in DOMAIN obj \ Held, Free(t, h)
    PROVE  HeapInv'
<1>1. pc[t].at = "idle" /\ Freed(h) /\ pc' = pc
      /\ obj' = Without(obj, {h}) /\ ftb' = ftb \ {h}
  BY DEF Free, Freed
<1>2. TableOK'
  BY <1>1, FreedKeeps DEF HeapInv
<1>3. pc' = [pc EXCEPT ![t] = pc[t]]
  BY <1>1, SameCall
<1>4. CallOK(obj, pc[t]) /\ Ptrs(pc[t]) \subseteq DOMAIN obj
  BY OneCall
<1>5. \A u \in Threads : h \notin Ptrs(pc[u])
  BY NotHeld
<1>6. CallOK(obj', pc[t])
  <2>1. DOMAIN obj' = DOMAIN obj \ {h}
    BY <1>1 DEF Without
  <2>2. Ptrs(pc[t]) \subseteq DOMAIN obj'
    BY <1>4, <1>5, <2>1
  <2> QED  BY <1>1, <1>4, <2>2 DEF CallOK
<1> DEFINE D == {h}
<1>7. D \in SUBSET DOMAIN obj /\ obj' = Without(obj, D) /\ ftb' = ftb \ D
      /\ \A u \in Threads \ {t} : Ptrs(pc[u]) \cap D = {}
  BY <1>1, <1>5
<1> HIDE DEF D
<1>8. pc[t].at # "flag" /\ Ptrs(pc[t]) \subseteq Ptrs(pc[t])
  BY <1>1
<1> QED  BY <1>2, <1>3, <1>6, <1>7, <1>8, GoneStep

\* gc_realloc frees the object it has moved: no other call holds it.
LEMMA MoveFreesKeeps ==
    ASSUME HeapInv, NEW t \in Threads, MoveFrees(t)
    PROVE  HeapInv'
<1> DEFINE h == pc[t].old
           D == {h}
<1>1. pc[t].at = "move" /\ Freed(h) /\ pc' = [pc EXCEPT ![t] = Idle]
      /\ obj' = Without(obj, D) /\ ftb' = ftb \ D
  BY DEF MoveFrees, Freed
<1>2. /\ CallOK(obj, pc[t]) /\ Ptrs(pc[t]) \subseteq DOMAIN obj
      /\ \A u \in Threads \ {t} : Ptrs(pc[u]) \cap Ptrs(pc[t]) = {}
  BY OneCall
<1>3. h # NULL /\ h \in Ptrs(pc[t]) /\ h \in DOMAIN obj
  BY <1>1, <1>2 DEF CallOK, Ptrs
<1>4. TableOK'
  BY <1>1, <1>3, FreedKeeps DEF HeapInv
<1>5. D \in SUBSET DOMAIN obj
      /\ \A u \in Threads \ {t} : Ptrs(pc[u]) \cap D = {}
  BY <1>2, <1>3
<1>6. CallOK(obj', Idle) /\ Ptrs(Idle) = {} /\ Idle.at = "idle"
  BY NoCallIs
<1>7. Idle.at # "flag" /\ pc[t].at # "flag" /\ Ptrs(Idle) \subseteq Ptrs(pc[t])
  BY <1>1, <1>6
<1> HIDE DEF D, h
<1> QED  BY <1>1, <1>4, <1>5, <1>6, <1>7, GoneStep

\* An object changes its size only.
LEMMA ResizeStep ==
    ASSUME HeapInv, TableOK', NEW t \in Threads, NEW h \in DOMAIN obj,
           NEW n \in 1 .. MaxBlocks, pc[t].at = "idle", pc' = pc,
           obj' = [obj EXCEPT ![h].n = n], ftb' = ftb
    PROVE  HeapInv'
<1>1. Apart(obj) /\ n \in Nat \ {0}
  BY BlockCount DEF HeapInv, TableOK
<1>2. obj' = Resized(obj, h, n)
  BY DEF Resized
<1>3. DOMAIN obj' = DOMAIN obj
      /\ \A g \in DOMAIN obj : obj'[g].fin = obj[g].fin
  <2>1. /\ DOMAIN Resized(obj, h, n) = DOMAIN obj
        /\ \A g \in DOMAIN obj : g # h => Resized(obj, h, n)[g] = obj[g]
        /\ Resized(obj, h, n)[h].fin = obj[h].fin
    BY <1>1, ResizedIs
  <2> QED  BY <1>2, <2>1
<1>4. pc' = [pc EXCEPT ![t] = pc[t]]
  BY SameCall
<1>5. /\ CallOK(obj, pc[t])
      /\ \A u \in Threads \ {t} :
           /\ Ptrs(pc[u]) \cap Ptrs(pc[t]) = {}
           /\ Ptrs(pc[u]) \subseteq DOMAIN obj
  BY OneCall
<1>6. CallOK(obj', pc[t])
  BY <1>3, <1>5 DEF CallOK
<1>7. ASSUME NEW b PROVE b \in ftb' <=> Flagged(obj', pc', b)
  <2>1. Flagged(obj', [pc EXCEPT ![t] = pc[t]], b) <=> Flagged(obj, pc, b)
    BY <1>3, FlagStep
  <2>2. b \in ftb <=> Flagged(obj, pc, b)
    BY FlagsAre DEF HeapInv
  <2> QED  BY <1>4, <2>1, <2>2
<1>8. ASSUME NEW u \in Threads \ {t}
      PROVE  /\ Ptrs(pc[u]) \cap Ptrs(pc[t]) = {}
             /\ Ptrs(pc[u]) \subseteq DOMAIN obj'
             /\ \A x \in Ptrs(pc[u]) : obj'[x].fin = obj[x].fin
  BY <1>3, <1>5
<1> QED  BY <1>4, <1>6, <1>7, <1>8, HeapStep

\* gc_realloc lets go of the mutex before it moves an object of its own.
LEMMA MoveBeginsKeeps ==
    ASSUME HeapInv, NEW t \in Threads, NEW h \in DOMAIN obj \ Held,
           NEW n \in 1 .. MaxBlocks, MoveBegins(t, h, n)
    PROVE  HeapInv'
<1> DEFINE r == [at |-> "alloc", n |-> n, fin |-> h \in ftb, new |-> NULL,
                 old |-> h]
<1>1. pc[t].at = "idle" /\ pc' = [pc EXCEPT ![t] = r]
      /\ obj' = obj /\ ftb' = ftb
  BY DEF MoveBegins
<1>2. TableOK'
  BY TableStays DEF HeapInv, MoveBegins
<1>3. h \in 0 .. NBlocks /\ h # NULL /\ NULL \in 0 .. NBlocks /\ n \in Nat
  <2>1. h \in Blocks
    BY DEF HeapInv, TableOK, Apart
  <2> QED  BY <2>1, NullIs, BlockCount DEF Blocks
<1>4. r.at = "alloc" /\ r.n = n /\ r.new = NULL /\ r.old = h /\ r \in Calls
  <2> DEFINE f == h \in ftb
  <2>1. f \in BOOLEAN
    OBVIOUS
  <2> HIDE DEF f
  <2> QED  BY <1>3, <2>1 DEF Calls, Stops
<1> HIDE DEF r
<1>5. Ptrs(r) = {h}
  BY <1>3, <1>4 DEF Ptrs
<1>6. CallOK(obj', r)
  BY <1>1, <1>4, <1>5 DEF CallOK
<1>7. \A u \in Threads \ {t} : Ptrs(pc[u]) \subseteq DOMAIN obj
  BY OneCall
<1>8. ASSUME NEW u \in Threads \ {t}
      PROVE  /\ Ptrs(pc[u]) \cap Ptrs(r) = {}
             /\ Ptrs(pc[u]) \subseteq DOMAIN obj'
             /\ \A x \in Ptrs(pc[u]) : obj'[x].fin = obj[x].fin
  <2>1. h \notin Ptrs(pc[u])
    BY NotHeld
  <2> QED  BY <1>1, <1>5, <1>7, <2>1
<1>9. ASSUME NEW b PROVE b \in ftb' <=> Flagged(obj', pc', b)
  <2>1. Flagged(obj', [pc EXCEPT ![t] = r], b) <=> Flagged(obj, pc, b)
    BY <1>1, <1>4, FlagStep
  <2>2. b \in ftb <=> Flagged(obj, pc, b)
    BY FlagsAre DEF HeapInv
  <2> QED  BY <1>1, <2>1, <2>2
<1> QED  BY <1>1, <1>2, <1>6, <1>8, <1>9, HeapStep

\* A collection, of gc_alloc or of the program.
LEMMA CollectsKeeps ==
    ASSUME HeapInv, NEW t \in Threads, NEW D \in SUBSET (DOMAIN obj \ Held),
           AllocCollects(t, D) \/ ProgramCollects(t, D)
    PROVE  HeapInv'
<1> DEFINE c == pc[t]
           r == IF c.at = "collect" THEN [c EXCEPT !.at = "again"] ELSE c
<1>1. Collect(D) /\ c.at \in {"collect", "idle"}
  BY DEF AllocCollects, ProgramCollects
<1>2. obj' = Without(obj, D) /\ ftb' = ftb \ D
  BY <1>1 DEF Collect
<1>3. pc \in [Threads -> Calls] /\ CallOK(obj, c) /\ c \in Calls
  BY OneCall
<1>4. pc' = [pc EXCEPT ![t] = r]
  <2>1. CASE AllocCollects(t, D)
    BY <1>3, <2>1 DEF AllocCollects
  <2>2. CASE ProgramCollects(t, D)
    BY <1>3, <2>2, SameCall DEF ProgramCollects
  <2> QED  BY <2>1, <2>2
<1>5. D \in SUBSET DOMAIN obj
  OBVIOUS
<1>6. TableOK'
  BY <1>1, <1>5, CollectKeeps DEF HeapInv
<1>7. ASSUME NEW u \in Threads PROVE Ptrs(pc[u]) \cap D = {}
  <2>1. ASSUME NEW x \in D PROVE x \notin Ptrs(pc[u])
    BY NotHeld
  <2> QED  BY <2>1
<1>8. r \in Calls /\ r.new = c.new /\ r.old = c.old /\ r.n = c.n
      /\ r.at \in {"again", "idle"} /\ (c.at = "idle" => r.at = "idle")
  <2> HIDE DEF c
  <2> QED  BY <1>1, <1>3 DEF Calls, Stops
<1> HIDE DEF r
<1>9. Ptrs(r) = Ptrs(c)
  BY <1>8 DEF Ptrs
<1>10. CallOK(obj', r)
  <2>1. DOMAIN obj' = DOMAIN obj \ D
    BY <1>2 DEF Without
  <2>2. Ptrs(c) \subseteq DOMAIN obj
    BY <1>3 DEF CallOK
  <2>3. Ptrs(r) \subseteq DOMAIN obj'
    BY <1>7, <1>9, <2>1, <2>2
  <2>4. r.at = "again" => r.n \in 1 .. MaxBlocks
    BY <1>1, <1>3, <1>8 DEF CallOK
  <2> QED  BY <1>8, <2>3, <2>4 DEF CallOK
<1>11. r.at # "flag" /\ pc[t].at # "flag" /\ Ptrs(r) \subseteq Ptrs(pc[t])
  BY <1>1, <1>8, <1>9
<1> QED  BY <1>2, <1>4, <1>5, <1>6, <1>7, <1>10, <1>11, GoneStep

\* Every step keeps the invariant.
LEMMA HeapStays == HeapInv /\ [GcNext]_gcVars => HeapInv'
<1> SUFFICES ASSUME HeapInv, [GcNext]_gcVars PROVE HeapInv'
  OBVIOUS
<1>1. CASE UNCHANGED <<atb, ftb, indices, pc, obj>>
  <2>1. TableOK'
    BY <1>1, TableStays DEF HeapInv
  <2>2. obj' = obj /\ pc' = pc /\ ftb' = ftb
    BY <1>1
  <2>3. CallsOK(obj', pc') /\ FlagsAreObjects'
    BY <2>2 DEF HeapInv, FlagsAreObjects
  <2>4. CallsOK(obj, pc)' <=> CallsOK(obj', pc')
    BY DEF CallsOK, CallOK, Ptrs
  <2> QED  BY <2>1, <2>3, <2>4 DEF HeapInv
<1>2. CASE Allocs
  <2>1. PICK t \in Threads, n \in 1 .. MaxBlocks, fin \in BOOLEAN :
          Alloc(t, n, fin)
    BY <1>2 DEF Allocs
  <2>2. pc[t].at # "flag" /\ NULL \in {NULL, pc[t].old}
        /\ Otherwise \in {"collect", "refused"}
        /\ Search(t, n, fin, NULL, Otherwise)
    BY <2>1 DEF Alloc, Otherwise
  <2> QED  BY <2>2, SearchKeeps
<1>3. CASE AllocGoesOn
  <2>1. PICK t \in Threads : AllocAgain(t) \/ Refused(t) \/ SetFlag(t)
    BY <1>3 DEF AllocGoesOn
  <2>2. CASE AllocAgain(t)
    <3>1. CallOK(obj, pc[t])
      BY OneCall
    <3>2. pc[t].n \in 1 .. MaxBlocks /\ pc[t].fin \in BOOLEAN
          /\ pc[t].at # "flag" /\ pc[t].old \in {NULL, pc[t].old}
          /\ Search(t, pc[t].n, pc[t].fin, pc[t].old, "refused")
      BY <2>2, <3>1 DEF AllocAgain, CallOK, Calls
    <3> QED  BY <3>2, SearchKeeps
  <2> QED  BY <2>1, <2>2, RefusedKeeps, SetFlagKeeps
<1>4. CASE Frees
  BY <1>4, FreeKeeps DEF Frees
<1>5. CASE Reallocs
  <2>1. PICK t \in Threads, n \in 1 .. MaxBlocks, h \in DOMAIN obj \ Held :
          Shrink(t, h, n) \/ Expand(t, h, n) \/ MoveBegins(t, h, n)
    BY <1>5 DEF Reallocs
  <2>2. h \in DOMAIN obj
    OBVIOUS
  <2>3. CASE Shrink(t, h, n)
    <3>1. TableOK'
      BY <2>2, <2>3, ShrinkKeeps DEF HeapInv
    <3>2. pc[t].at = "idle" /\ pc' = pc /\ ftb' = ftb
          /\ obj' = [obj EXCEPT ![h].n = n]
      BY <2>3 DEF Shrink
    <3> QED  BY <2>2, <3>1, <3>2, ResizeStep
  <2>4. CASE Expand(t, h, n)
    <3>1. TableOK'
      BY <2>2, <2>4, ExpandKeeps DEF HeapInv
    <3>2. pc[t].at = "idle" /\ pc' = pc /\ ftb' = ftb
          /\ obj' = [obj EXCEPT ![h].n = n]
      BY <2>4 DEF Expand
    <3> QED  BY <2>2, <3>1, <3>2, ResizeStep
  <2> QED  BY <2>1, <2>3, <2>4, MoveBeginsKeeps
<1>6. CASE MoveSteps
  <2>1. PICK t \in Threads : MoveAllocs(t) \/ MoveFrees(t)
    BY <1>6 DEF MoveSteps
  <2>2. CASE MoveAllocs(t)
    <3>1. CallOK(obj, pc[t])
      BY OneCall
    <3>2. pc[t].n \in 1 .. MaxBlocks /\ pc[t].fin \in BOOLEAN
          /\ pc[t].at # "flag" /\ pc[t].old \in {NULL, pc[t].old}
          /\ Otherwise \in {"collect", "refused"}
          /\ Search(t, pc[t].n, pc[t].fin, pc[t].old, Otherwise)
      BY <2>2, <3>1 DEF MoveAllocs, CallOK, Calls, Otherwise
    <3> QED  BY <3>2, SearchKeeps
  <2> QED  BY <2>1, <2>2, MoveFreesKeeps
<1>7. CASE Collects
  BY <1>7, CollectsKeeps DEF Collects
<1> QED
  BY <1>1, <1>2, <1>3, <1>4, <1>5, <1>6, <1>7
     DEF GcNext, HeapSteps, Enable, Disable, gcVars

\* The heap after gc_init.
LEMMA HeapStarts == GcInit => HeapInv
<1> SUFFICES ASSUME GcInit PROVE HeapInv
  OBVIOUS
<1>1. DOMAIN obj = {} /\ atb = [b \in 0 .. NBlocks |-> "FREE"] /\ ftb = {}
      /\ pc = [t \in Threads |-> Idle]
      /\ gc_last_free_atb_index = 0 /\ gc_last_used_block = 0
  BY DEF GcInit
<1>2. NBlocks \in Nat /\ BLOCKS_PER_ATB \in Nat /\ 0 * BLOCKS_PER_ATB = 0
  BY BlockCount, GcAllocAssumption
<1>3. Apart(obj) /\ atb = TableOf(obj)
  BY <1>1 DEF Apart, TableOf, Kind
<1>4. \A b \in Blocks : b \in Nat /\ b >= 0 /\ b \in 0 .. NBlocks
  BY <1>2 DEF Blocks
<1>5. NoFreeBelow /\ LastUsedCovers
  BY <1>1, <1>2, <1>4 DEF NoFreeBelow, LastUsedCovers
<1>6. CallsOK(obj, pc)
  <2>1. \A t \in Threads : pc[t] = Idle
    BY <1>1
  <2>2. CallOK(obj, Idle) /\ Ptrs(Idle) = {}
    BY NoCallIs
  <2>3. Idle \in Calls
    BY <2>2 DEF CallOK
  <2>4. pc \in [Threads -> Calls]
    BY <1>1, <2>3
  <2> QED  BY <2>1, <2>2, <2>4 DEF CallsOK
<1>7. FlagsAreObjects
  BY <1>1 DEF FlagsAreObjects
<1> QED  BY <1>1, <1>3, <1>5, <1>6, <1>7 DEF HeapInv, TableOK

\* A search that begins at the last-free byte misses no run.
LEMMA NothingMissed ==
    ASSUME TableOK, NEW n \in 1 .. MaxBlocks,
           Runs(n, gc_last_free_atb_index * BLOCKS_PER_ATB) = {}
    PROVE  Runs(n, 0) = {}
<1> DEFINE from == gc_last_free_atb_index * BLOCKS_PER_ATB
<1>1. n \in Nat /\ n >= 1 /\ NBlocks \in Nat
  BY BlockCount
<1>2. from \in Nat
  BY ByteOrder DEF TableOK
<1>3. \A b \in Blocks : atb[b] = "FREE" => b >= from
  BY DEF TableOK, NoFreeBelow
<1> HIDE DEF from
<1>4. ASSUME NEW i \in Runs(n, 0) PROVE FALSE
  <2>1. i \in Blocks /\ i + 1 >= 0 + n
        /\ \A b \in i + 1 - n .. i : atb[b] = "FREE"
    BY DEF Runs
  <2>2. i \in Nat /\ i + 1 - n \in Blocks /\ i + 1 - n \in i + 1 - n .. i
    BY <1>1, <2>1 DEF Blocks
  <2>3. i + 1 - n >= from
    BY <1>3, <2>1, <2>2
  <2>4. i + 1 >= from + n
    BY <1>1, <1>2, <2>2, <2>3
  <2>5. i \in Runs(n, from)
    BY <2>1, <2>4 DEF Runs
  <2> QED  BY <2>5 DEF from
<1> QED  BY <1>4

\* A call comes to be refused only by a search that has found nothing.
LEMMA RefusedAfterSearch ==
    ASSUME HeapInv, [GcNext]_gcVars, NEW t \in Threads,
           pc[t].at # "refused", pc'[t].at = "refused"
    PROVE  Runs(pc'[t].n, 0) = {}
<1>1. pc \in [Threads -> Calls] /\ CallOK(obj, pc[t])
  BY OneCall
<1>2. ASSUME NEW u \in Threads, NEW r, pc' = [pc EXCEPT ![u] = r]
      PROVE  u = t /\ r.at = "refused" /\ pc'[t] = r
  BY <1>1, <1>2
<1>3. ASSUME NEW u \in Threads, NEW n \in 1 .. MaxBlocks, NEW fin, NEW old,
             NEW otherwise, Search(u, n, fin, old, otherwise)
      PROVE  Runs(pc'[t].n, 0) = {}
  <2> DEFINE runs == Runs(n, gc_last_free_atb_index * BLOCKS_PER_ATB)
             i == Min(runs)
             r == [at |-> otherwise, n |-> n, fin |-> fin, new |-> NULL,
                   old |-> old]
             s == IF fin \/ old # NULL
                    THEN [at |-> IF fin THEN "flag" ELSE "move", n |-> n,
                          fin |-> fin, new |-> i + 1 - n, old |-> old]
                    ELSE Idle
  <2>1. CASE Place(u, n, fin, old, i)
    <3>1. pc' = [pc EXCEPT ![u] = s]
      BY <2>1 DEF Place
    <3>2. s.at # "refused"
      BY DEF Idle
    <3> HIDE DEF s
    <3> QED  BY <1>2, <3>1, <3>2
  <2>2. CASE runs = {} /\ pc' = [pc EXCEPT ![u] = r]
    <3>1. r.n = n
      OBVIOUS
    <3>2. Runs(n, 0) = {}
      BY <2>2, NothingMissed DEF HeapInv
    <3> HIDE DEF r
    <3>3. pc'[t] = r
      BY <1>2, <2>2
    <3> QED  BY <3>1, <3>2, <3>3
  <2> QED  BY <1>3, <2>1, <2>2 DEF Search
<1>4. ASSUME NEW u \in Threads, Refused(u) PROVE FALSE
  <2>1. pc' = [pc EXCEPT ![u] = Idle] /\ Idle.at # "refused"
    BY <1>4 DEF Refused, Idle
  <2> QED  BY <1>2, <2>1
<1>5. ASSUME NEW u \in Threads, MoveFrees(u) PROVE FALSE
  <2>1. pc' = [pc EXCEPT ![u] = Idle] /\ Idle.at # "refused"
    BY <1>5 DEF MoveFrees, Idle
  <2> QED  BY <1>2, <2>1
<1>6. ASSUME NEW u \in Threads, SetFlag(u) PROVE FALSE
  <2> DEFINE r == IF pc[u].old = NULL THEN Idle
                  ELSE [pc[u] EXCEPT !.at = "move"]
  <2>1. pc' = [pc EXCEPT ![u] = r]
    BY <1>1, <1>6 DEF SetFlag
  <2>2. r.at # "refused"
    <3>1. CASE pc[u].old = NULL
      BY <3>1 DEF Idle
    <3>2. CASE pc[u].old # NULL
      <4>1. pc[u] \in Calls
        BY <1>1
      <4>2. r = [pc[u] EXCEPT !.at = "move"]
        BY <3>2
      <4> QED  BY <4>1, <4>2 DEF Calls
    <3> QED  BY <3>1, <3>2
  <2> HIDE DEF r
  <2> QED  BY <1>2, <2>1, <2>2
<1>7. ASSUME NEW u \in Threads, NEW h, NEW n, MoveBegins(u, h, n)
      PROVE  FALSE
  <2> DEFINE r == [at |-> "alloc", n |-> n, fin |-> h \in ftb, new |-> NULL,
                   old |-> h]
  <2>1. pc' = [pc EXCEPT ![u] = r] /\ r.at # "refused"
    BY <1>7 DEF MoveBegins
  <2> HIDE DEF r
  <2> QED  BY <1>2, <2>1
<1>8. ASSUME NEW u \in Threads, NEW D, AllocCollects(u, D) PROVE FALSE
  <2>1. pc' = [pc EXCEPT ![u] = [pc[u] EXCEPT !.at = "again"]]
        /\ pc[u] \in Calls
    BY <1>1, <1>8 DEF AllocCollects
  <2> DEFINE r == [pc[u] EXCEPT !.at = "again"]
  <2>2. pc' = [pc EXCEPT ![u] = r] /\ r.at # "refused"
    BY <2>1 DEF Calls
  <2> HIDE DEF r
  <2> QED  BY <1>2, <2>2
<1>9. pc' # pc
  OBVIOUS
<1>10. CASE Allocs
  BY <1>3, <1>10 DEF Allocs, Alloc
<1>11. CASE AllocGoesOn
  <2>1. PICK u \in Threads : AllocAgain(u)
    BY <1>4, <1>6, <1>11 DEF AllocGoesOn
  <2>2. CallOK(obj, pc[u])
    BY OneCall
  <2>3. pc[u].n \in 1 .. MaxBlocks
    BY <2>1, <2>2 DEF AllocAgain, CallOK
  <2> QED  BY <1>3, <2>1, <2>3 DEF AllocAgain
<1>12. CASE MoveSteps
  <2>1. PICK u \in Threads : MoveAllocs(u)
    BY <1>5, <1>12 DEF MoveSteps
  <2>2. CallOK(obj, pc[u])
    BY OneCall
  <2>3. pc[u].n \in 1 .. MaxBlocks
    BY <2>1, <2>2 DEF MoveAllocs, CallOK
  <2> QED  BY <1>3, <2>1, <2>3 DEF MoveAllocs
<1>13. CASE Reallocs
  BY <1>7, <1>9, <1>13 DEF Reallocs, Shrink, Expand
<1>14. CASE Collects
  BY <1>8, <1>9, <1>14 DEF Collects, ProgramCollects
<1>15. CASE Frees
  BY <1>9, <1>15 DEF Frees, Free
<1> QED
  BY <1>9, <1>10, <1>11, <1>12, <1>13, <1>14, <1>15
     DEF GcNext, HeapSteps, Enable, Disable, gcVars

\* The heap under gc_alloc, gc_free and gc_realloc of any number of threads,
\* which let go of the mutex between their parts, and under collections at
\* any of those points (gc.c:756-1190): the table, the finaliser flags and
\* the two indexes are those of the objects that exist, and memory is
\* refused only when no run of free blocks is long enough.
THEOREM HeapStaysSound == GcSpec => HeapIsSound
<1>1. GcInit => HeapInv
  BY HeapStarts
<1>2. HeapInv /\ [GcNext]_gcVars => HeapInv'
  BY HeapStays
<1>3. HeapInv => TableIsObjects /\ FlagsAreObjects /\ NoFreeBelow
                   /\ LastUsedCovers
  <2> SUFFICES ASSUME HeapInv PROVE TableIsObjects
    BY DEF HeapInv, TableOK
  <2>1. atb = TableOf(obj)
    BY DEF HeapInv, TableOK
  <2> QED  BY <2>1 DEF TableIsObjects, TableOf, Kind
<1>4. HeapInv /\ [GcNext]_gcVars
        => [\A t \in Threads :
              pc[t].at # "refused" /\ pc'[t].at = "refused"
                => Runs(pc'[t].n, 0) = {}]_gcVars
  BY RefusedAfterSearch
<1> QED  BY <1>1, <1>2, <1>3, <1>4, PTL
            DEF GcSpec, HeapIsSound, RefusedOnlyWhenFull

(***************************************************************************)
(* Collection: the children of an object                                   *)
(***************************************************************************)

\* f lists T in ascending order.
Ascending(f, T) ==
    /\ f \in [1 .. Cardinality(T) -> T]
    /\ \A i, j \in DOMAIN f : i < j => f[i] < f[j]

\* A bounded set of natural numbers can be listed in ascending order: the
\* greatest of a smallest set for which this fails would come last.
LEMMA AscendingExists ==
    ASSUME NEW n \in Nat, NEW T \in SUBSET (0 .. n)
    PROVE  IsFiniteSet(T) /\ \E f : Ascending(f, T)
<1> DEFINE Bad(m) == \E S \in SUBSET (0 .. n) :
                       /\ Cardinality(S) = m
                       /\ ~\E f : Ascending(f, S)
           B == {m \in Nat : Bad(m)}
<1>0. \A S \in SUBSET (0 .. n) : IsFiniteSet(S)
  BY FS_BoundedSetOfNaturals
<1>1. SUFFICES ASSUME ~\E f : Ascending(f, T) PROVE FALSE
  BY <1>0
<1>2. Cardinality(T) \in B
  BY <1>0, <1>1, FS_CardinalityType
<1>3. B \in SUBSET Nat /\ B # {}
  BY <1>2
<1>4. PICK m \in B : \A k \in B : m <= k
  BY <1>3, LeastOf
<1>5. PICK S \in SUBSET (0 .. n) : /\ Cardinality(S) = m
                                   /\ ~\E f : Ascending(f, S)
  BY <1>4
<1>5a. IsFiniteSet(S) /\ S \in SUBSET Nat
  BY <1>0
<1>6. m \in Nat
  BY <1>4
<1>7. S # {}
  <2>1. SUFFICES ASSUME S = {} PROVE FALSE
    OBVIOUS
  <2>2. Cardinality(S) = 0
    BY <2>1, FS_EmptySet
  <2> DEFINE f == [i \in 1 .. 0 |-> 0]
  <2>3. f \in [1 .. Cardinality(S) -> S] /\ DOMAIN f = 1 .. 0
    BY <2>2
  <2>4. \A i, j \in DOMAIN f : i < j => f[i] < f[j]
    BY <2>3
  <2>5. Ascending(f, S)
    BY <2>3, <2>4 DEF Ascending
  <2> QED  BY <2>5, <1>5
<1>8. PICK x \in S : \A y \in S : y <= x
  <2>1. \A y \in S : y <= n
    OBVIOUS
  <2> QED  BY <2>1, <1>5a, <1>7, MaxIs
<1> DEFINE R == S \ {x}
<1>9. R \in SUBSET (0 .. n) /\ IsFiniteSet(R) /\ Cardinality(R) = m - 1
  BY <1>5, <1>5a, <1>8, FS_RemoveElement
<1>10. Cardinality(R) \in Nat
  BY <1>9, FS_CardinalityType
<1>11. ~(m - 1 \in B)
  BY <1>4, <1>6
<1>12. PICK g : Ascending(g, R)
  <2>1. m - 1 \in Nat
    BY <1>9, <1>10
  <2> QED  BY <2>1, <1>9, <1>11
<1> HIDE DEF B, Bad
<1>13. /\ g \in [1 .. m - 1 -> R] /\ m - 1 \in Nat
       /\ \A i, j \in 1 .. m - 1 : i < j => g[i] < g[j]
  BY <1>9, <1>10, <1>12 DEF Ascending
<1>14. \A i \in 1 .. m - 1 : g[i] \in S /\ g[i] \in Nat /\ g[i] < x
  <2>1. ASSUME NEW i \in 1 .. m - 1 PROVE g[i] \in R
    BY <1>13
  <2>2. ASSUME NEW z \in R PROVE z \in S /\ z \in Nat /\ z < x
    <3>1. z \in S /\ z # x /\ z <= x /\ z \in Nat /\ x \in Nat
      BY <1>5a, <1>8
    <3> QED  BY <3>1
  <2> QED  BY <2>1, <2>2
<1> HIDE DEF R
<1> DEFINE f == [i \in 1 .. m |-> IF i = m THEN x ELSE g[i]]
<1>15. f \in [1 .. m -> S] /\ DOMAIN f = 1 .. m
  <2>1. ASSUME NEW i \in 1 .. m, i # m PROVE i \in 1 .. m - 1
    BY <1>6, <2>1
  <2> QED  BY <1>8, <1>14, <2>1
<1>16. ASSUME NEW i \in 1 .. m, NEW j \in 1 .. m, i < j PROVE f[i] < f[j]
  <2>1. i \in 1 .. m - 1 /\ i # m
    BY <1>6, <1>16
  <2>2. CASE j = m
    BY <2>1, <2>2, <1>14, <1>6
  <2>3. CASE j # m
    <3>1. j \in 1 .. m - 1
      BY <2>3, <1>6
    <3> QED  BY <2>1, <2>3, <3>1, <1>13, <1>16
  <2> QED  BY <2>2, <2>3
<1>17. Ascending(f, S)
  BY <1>5, <1>15, <1>16 DEF Ascending
<1> QED  BY <1>17, <1>5

\* A list in ascending order has every member.
LEMMA AscendingIsAll ==
    ASSUME NEW T \in SUBSET Nat, IsFiniteSet(T), NEW f, Ascending(f, T)
    PROVE  \A x \in T : \E i \in 1 .. Cardinality(T) : f[i] = x
<1> DEFINE n == Cardinality(T)
<1>1. n \in Nat
  BY FS_CardinalityType
<1>2. f \in [1 .. n -> T] /\ \A i, j \in 1 .. n : i < j => f[i] < f[j]
  BY DEF Ascending
<1> HIDE DEF n
<1>3. ASSUME NEW i \in 1 .. n, NEW j \in 1 .. n, f[i] = f[j] PROVE i = j
  <2>1. f[i] \in Nat /\ f[j] \in Nat
    BY <1>2
  <2>2. ~(f[i] < f[j]) /\ ~(f[j] < f[i])
    BY <2>1, <1>3
  <2>3. ~(i < j) /\ ~(j < i)
    BY <2>2, <1>2
  <2> QED  BY <2>3, <1>1
<1>4. f \in Injection(1 .. n, T)
  <2>1. \A i, j \in DOMAIN f : f[i] = f[j] => i = j
    BY <1>2, <1>3
  <2> QED  BY <1>2, <2>1 DEF Injection, IsInjective
<1>5. Cardinality(1 .. n) = n
  BY <1>1, FS_Interval
<1>6. f \in Surjection(1 .. n, T)
  BY <1>4, <1>5, FS_Injection DEF n
<1> QED  BY <1>6 DEF Surjection, n

(***************************************************************************)
(* Collection: the heap before the collection                              *)
(***************************************************************************)

\* The heap, which a collection leaves alone until it sweeps.
HeapBefore ==
    /\ before \in Layouts
    /\ root \in Heads \cup {Nowhere}
    /\ word \in [Cells -> Heads \cup {Nowhere}]

\* The sets of objects that have the root's and what they point to.
Holding(S) == (root # Nowhere => root \in S) /\ Closed(S)

\* A block of an object that can be reached.
CanReach(b) == \E h \in Live : b \in Of(h)

\* The blocks and the value that is not one.
LEMMA CellsAre ==
    /\ HeapCells \in Nat /\ HeapCells > 0 /\ Nowhere = HeapCells
    /\ Cells = 0 .. HeapCells - 1 /\ Nowhere \notin Cells
    /\ StackSize \in Nat
<1>1. HeapCells \in Nat \ {0} /\ StackSize \in Nat
  BY GcMarkAssumption
<1> QED  BY <1>1 DEF Nowhere, Cells

\* An object is its head and the tails that follow; no block is in two.
LEMMA ObjectsAre ==
    ASSUME HeapBefore
    PROVE  /\ before \in [0 .. HeapCells -> {"FREE", "HEAD", "TAIL"}]
           /\ \A h \in Heads :
                h \in Cells /\ h \in Of(h) /\ Of(h) \subseteq Cells
           /\ \A h \in Heads : Of(h) \cap Heads = {h}
           /\ \A b \in Cells : before[b] = "FREE" =>
                \A h \in Heads : b \notin Of(h)
           /\ \A b \in Cells : b + 1 \in Cells /\ before[b + 1] = "TAIL" =>
                /\ before[b] # "FREE"
                /\ \A h \in Heads : b + 1 \in Of(h) <=> b \in Of(h)
           /\ before[0] # "TAIL"
<1>0. /\ HeapCells \in Nat /\ HeapCells > 0 /\ Cells = 0 .. HeapCells - 1
  BY CellsAre
<1>1. /\ before \in [0 .. HeapCells -> {"FREE", "HEAD", "TAIL"}]
      /\ before[0] # "TAIL" /\ before[HeapCells] = "FREE"
      /\ \A b \in Cells \ {0} : before[b] # "FREE" => before[b - 1] # "FREE"
  BY DEF HeapBefore, Layouts
<1>2. ASSUME NEW h \in Heads
      PROVE  /\ h \in Cells /\ h \in Of(h) /\ Of(h) \subseteq Cells
             /\ Of(h) \cap Heads = {h}
  <2>1. h \in Cells /\ h \in 0 .. HeapCells - 1 /\ before[h] = "HEAD"
    BY <1>0 DEF Heads
  <2>2. h \in Of(h)
    BY <2>1, <1>0 DEF Of
  <2>3. ASSUME NEW c \in Of(h) PROVE c \in Cells
    <3>1. c \in h .. HeapCells /\ \A d \in h + 1 .. c : before[d] = "TAIL"
      BY DEF Of
    <3>2. c # HeapCells
      BY <3>1, <2>1, <1>0, <1>1
    <3> QED  BY <3>1, <3>2, <2>1, <1>0
  <2>4. ASSUME NEW c \in Of(h), c \in Heads PROVE c = h
    <3>1. c \in h .. HeapCells /\ \A d \in h + 1 .. c : before[d] = "TAIL"
      BY DEF Of
    <3>2. before[c] = "HEAD"
      BY <2>4 DEF Heads
    <3> QED  BY <3>1, <3>2, <2>1, <1>0
  <2> QED  BY <2>1, <2>2, <2>3, <2>4
<1>3. ASSUME NEW b \in Cells, NEW h \in Heads, b \in Of(h), before[b] = "FREE"
      PROVE  FALSE
  <2>1. b \in h .. HeapCells /\ \A d \in h + 1 .. b : before[d] = "TAIL"
    BY <1>3 DEF Of
  <2>2. h \in 0 .. HeapCells - 1 /\ before[h] = "HEAD"
    BY <1>0 DEF Heads
  <2> QED  BY <2>1, <2>2, <1>0, <1>3
<1>4. ASSUME NEW b \in Cells, b + 1 \in Cells, before[b + 1] = "TAIL"
      PROVE  /\ before[b] # "FREE"
             /\ \A h \in Heads : b + 1 \in Of(h) <=> b \in Of(h)
  <2>1. b \in 0 .. HeapCells - 1 /\ b + 1 \in Cells \ {0} /\ b + 1 - 1 = b
    BY <1>0, <1>4
  <2>2. before[b] # "FREE"
    BY <2>1, <1>1, <1>4
  <2>3. ASSUME NEW h \in Heads, b + 1 \in Of(h) PROVE b \in Of(h)
    <3>1. /\ b + 1 \in h .. HeapCells
          /\ \A d \in h + 1 .. b + 1 : before[d] = "TAIL"
      BY <2>3 DEF Of
    <3>2. h \in 0 .. HeapCells - 1 /\ before[h] = "HEAD"
      BY <1>0 DEF Heads
    <3>3. h # b + 1
      BY <3>2, <1>4
    <3>4. b \in h .. HeapCells /\ \A d \in h + 1 .. b : before[d] = "TAIL"
      BY <2>1, <3>1, <3>2, <3>3, <1>0
    <3> QED  BY <3>4 DEF Of
  <2>4. ASSUME NEW h \in Heads, b \in Of(h) PROVE b + 1 \in Of(h)
    <3>1. b \in h .. HeapCells /\ \A d \in h + 1 .. b : before[d] = "TAIL"
      BY <2>4 DEF Of
    <3>2. h \in 0 .. HeapCells - 1
      BY <1>0 DEF Heads
    <3>3. /\ b + 1 \in h .. HeapCells
          /\ \A d \in h + 1 .. b + 1 : d \in h + 1 .. b \/ d = b + 1
      BY <2>1, <3>1, <3>2, <1>0
    <3>4. \A d \in h + 1 .. b + 1 : before[d] = "TAIL"
      BY <3>1, <3>3, <1>4
    <3> QED  BY <3>3, <3>4 DEF Of
  <2> QED  BY <2>2, <2>3, <2>4
<1>5. \A h \in Heads : h \in Cells /\ h \in Of(h) /\ Of(h) \subseteq Cells
  BY <1>2
<1>6. \A h \in Heads : Of(h) \cap Heads = {h}
  BY <1>2
<1> QED  BY <1>1, <1>3, <1>4, <1>5, <1>6

\* There is a least set that holds the root, the intersection of all: Live.
LEMMA LiveIs ==
    ASSUME HeapBefore
    PROVE  /\ Live \in SUBSET Heads /\ Holding(Live)
           /\ \A S \in SUBSET Heads : Holding(S) => Live \subseteq S
<1> DEFINE I == {h \in Heads : \A S \in SUBSET Heads : Holding(S) => h \in S}
           Least(S) == \A R \in SUBSET S : Holding(R) => R = S
<1>1. root \in Heads \cup {Nowhere} /\ Nowhere \notin Cells
  BY CellsAre DEF HeapBefore
<1>2. \A h \in Heads : \A c \in Of(h) :
        word[c] # Nowhere => word[c] \in Heads
  <2>1. \A h \in Heads : Of(h) \subseteq Cells
    BY ObjectsAre
  <2> QED  BY <2>1 DEF HeapBefore
<1>3. Holding(I)
  <2>1. root # Nowhere => root \in I
    BY <1>1 DEF Holding
  <2>2. ASSUME NEW h \in I, NEW c \in Of(h), word[c] # Nowhere
        PROVE  word[c] \in I
    <3>1. word[c] \in Heads
      BY <1>2, <2>2
    <3>2. ASSUME NEW S \in SUBSET Heads, Holding(S) PROVE word[c] \in S
      BY <2>2, <3>2 DEF Holding, Closed
    <3> QED  BY <3>1, <3>2
  <2>3. Closed(I)
    BY <2>2 DEF Closed
  <2> QED  BY <2>1, <2>3 DEF Holding
<1>4. I \in SUBSET Heads /\ \A S \in SUBSET Heads : Holding(S) => I \subseteq S
  OBVIOUS
<1>5. Least(I)
  <2>1. ASSUME NEW R \in SUBSET I, Holding(R) PROVE R = I
    <3>1. R \in SUBSET Heads
      BY <1>4
    <3> QED  BY <3>1, <2>1, <1>4
  <2> QED  BY <2>1
<1> HIDE DEF I
<1>6. Live = CHOOSE S \in SUBSET Heads : Holding(S) /\ Least(S)
  BY DEF Live, Holding
<1>7. Live \in SUBSET Heads /\ Holding(Live) /\ Least(Live)
  <2> HIDE DEF Least
  <2> QED  BY <1>3, <1>4, <1>5, <1>6
<1>8. I = Live
  <2>1. I \in SUBSET Live
    BY <1>4, <1>7
  <2> QED  BY <2>1, <1>3, <1>7
<1> QED  BY <1>4, <1>7, <1>8

\* What is said of the heap holds as long as it does not change.
LEMMA SameHeap ==
    ASSUME UNCHANGED heap
    PROVE  /\ Live' = Live /\ \A b : Of(b)' = Of(b)
           /\ HeapBefore' <=> HeapBefore
<1>1. before' = before /\ word' = word /\ root' = root
  BY DEF heap
<1>2. Heads' = Heads
  BY <1>1 DEF Heads, Cells
<1>3. \A b : Of(b)' = Of(b)
  BY <1>1 DEF Of
<1>4. Live' = Live
  BY <1>1 DEF Live, Closed, Of, Heads, Cells
<1>5. HeapBefore' <=> HeapBefore
  BY <1>1, <1>2 DEF HeapBefore, Layouts, Cells, Nowhere
<1> QED  BY <1>3, <1>4, <1>5

(***************************************************************************)
(* Collection: the invariant                                               *)
(***************************************************************************)

\* h is marked in the table t.
Marked(t, h) == t[h] = "MARK"

\* All that h points to is marked in the table t.
Dark(t, h) ==
    \A c \in Of(h) : word[c] # Nowhere => Marked(t, word[c])

\* The table is the one before, with some objects marked that are live.
OnlyLiveMarked(t) ==
    /\ DOMAIN t = 0 .. HeapCells
    /\ \A b \in 0 .. HeapCells :
         t[b] = before[b] \/ (Marked(t, b) /\ b \in Live)

\* h is yet to be looked at, in this subtree or in the rest of the rescan.
ToSee(a, s, c, k, h) ==
    \/ a = "mark" /\ (h = c \/ \E i \in DOMAIN s : s[i] = h)
    \/ (a = "scan" \/ (a = "mark" /\ k > 0)) /\ k <= h

\* While objects are marked: each marked one is dark, or will be looked at,
\* or the flag calls for a rescan.
MarkingOK(a, t, s, o, c, k) ==
    /\ OnlyLiveMarked(t)
    /\ s \in Seq(Cells) /\ \A i \in DOMAIN s : Marked(t, s[i])
    /\ a # "mark" => s = <<>>
    /\ a = "mark" => c \in Cells /\ Marked(t, c)
    /\ a # "root" /\ root # Nowhere => Marked(t, root)
    /\ \A h \in Cells :
         Marked(t, h) => Dark(t, h) \/ o \/ ToSee(a, s, c, k, h)

\* While the table is swept, with k as the next block.
SweepingOK(t, k, f, l) ==
    /\ k \in 0 .. HeapCells /\ DOMAIN t = 0 .. HeapCells
    /\ \A b \in Cells : b < k =>
         t[b] = IF CanReach(b) THEN before[b] ELSE "FREE"
    /\ \A b \in Cells : k <= b =>
         t[b] = IF b \in Live THEN "MARK" ELSE before[b]
    /\ k \in Cells /\ before[k] = "TAIL" => (f <=> ~CanReach(k))
    /\ \A b \in Cells : b < k /\ t[b] # "FREE" => b <= l

\* Where objects are marked.
MarkPlaces == {"root", "mark", "overflow", "scan"}

\* What holds at the place a of the collection.
MarkPhase(a, t, s, o, c, k, f, l) ==
    /\ a \in MarkPlaces \cup {"sweep", "done"}
    /\ k \in Nat /\ l \in Nat
    /\ a = "root" => t = before
    /\ a \in MarkPlaces => MarkingOK(a, t, s, o, c, k)
    /\ a \in {"sweep", "done"} => SweepingOK(t, k, f, l)
    /\ a = "done" => k = HeapCells

\* The inductive invariant.
MarkInv ==
    /\ HeapBefore
    /\ MarkPhase(at, table, stack, gc_stack_overflow, cur, block, free_tail,
                 last_used_block)

\* The invariant after a step that leaves the heap alone.
LEMMA MarkInvAfter ==
    ASSUME UNCHANGED heap, HeapBefore,
           MarkPhase(at', table', stack', gc_stack_overflow', cur', block',
                     free_tail', last_used_block')
    PROVE  MarkInv'
<1>1. /\ before' = before /\ word' = word /\ root' = root
      /\ Live' = Live /\ \A b : Of(b)' = Of(b)
      /\ HeapBefore'
  BY SameHeap DEF heap
<1>2. \A h : Dark(table, h)' <=> Dark(table', h)
  BY <1>1 DEF Dark, Marked, Nowhere
<1>3. OnlyLiveMarked(table)' <=> OnlyLiveMarked(table')
  BY <1>1 DEF OnlyLiveMarked, Marked
<1>4. MarkingOK(at, table, stack, gc_stack_overflow, cur, block)'
        <=> MarkingOK(at', table', stack', gc_stack_overflow', cur', block')
  BY <1>1, <1>2, <1>3 DEF MarkingOK, Marked, ToSee, Cells, Nowhere
<1>5. \A b : CanReach(b)' <=> CanReach(b)
  BY <1>1 DEF CanReach
<1>6. SweepingOK(table, block, free_tail, last_used_block)'
        <=> SweepingOK(table', block', free_tail', last_used_block')
  BY <1>1, <1>5 DEF SweepingOK, Cells
<1> QED  BY <1>1, <1>4, <1>6 DEF MarkInv, MarkPhase, MarkPlaces

\* With a marked object known to be live, the objects are what they were.
LEMMA ObjectsStay ==
    ASSUME HeapBefore, OnlyLiveMarked(table)
    PROVE  /\ \A h \in Cells : ObjectAt(h) = Of(h)
           /\ \A h \in Heads : Marked(table, h) \/ table[h] = "HEAD"
           /\ \A b \in 0 .. HeapCells :
                Marked(table, b) => b \in Live /\ b \in Heads
<1>1. /\ before \in [0 .. HeapCells -> {"FREE", "HEAD", "TAIL"}]
      /\ Live \in SUBSET Heads
  BY ObjectsAre, LiveIs
<1>2. \A b \in 0 .. HeapCells :
        Marked(table, b) => b \in Live /\ b \in Heads
  BY <1>1 DEF OnlyLiveMarked, Marked
<1>3. \A h \in Heads : before[h] = "HEAD" /\ h \in 0 .. HeapCells
  BY CellsAre DEF Heads
<1>4. \A h \in Heads : Marked(table, h) \/ table[h] = "HEAD"
  BY <1>3 DEF OnlyLiveMarked
<1>5. \A d \in 0 .. HeapCells : table[d] = "TAIL" <=> before[d] = "TAIL"
  <2>1. ASSUME NEW d \in 0 .. HeapCells, table[d] # before[d]
        PROVE  table[d] = "MARK" /\ before[d] = "HEAD"
    BY <2>1, <1>2, <1>3 DEF OnlyLiveMarked, Marked
  <2> QED  BY <2>1
<1>6. ASSUME NEW h \in Cells PROVE ObjectAt(h) = Of(h)
  <2>1. \A c \in h .. HeapCells : \A d \in h + 1 .. c : d \in 0 .. HeapCells
    BY CellsAre
  <2> QED  BY <2>1, <1>5 DEF ObjectAt, Of
<1> QED  BY <1>2, <1>4, <1>6

\* What cur points to and is not marked yet is listed by Children.
LEMMA ChildrenAre ==
    ASSUME HeapBefore, OnlyLiveMarked(table), cur \in Cells,
           Marked(table, cur)
    PROVE  /\ Children \in Seq(Cells)
           /\ \A i \in DOMAIN Children : Children[i] \in Live
           /\ \A c \in Of(cur) : word[c] # Nowhere =>
                \/ Marked(table, word[c])
                \/ \E i \in DOMAIN Children : Children[i] = word[c]
<1> DEFINE first == {c \in ObjectAt(cur) :
                       /\ word[c] # Nowhere /\ table[word[c]] = "HEAD"
                       /\ \A d \in ObjectAt(cur) : d < c => word[d] # word[c]}
           order == CHOOSE f \in [1 .. Cardinality(first) -> first] :
                      \A i, j \in DOMAIN f : i < j => f[i] < f[j]
           N == Cardinality(first)
<1>1. /\ ObjectAt(cur) = Of(cur) /\ cur \in Live /\ cur \in Heads
      /\ \A h \in Heads : Marked(table, h) \/ table[h] = "HEAD"
  <2>1. cur \in 0 .. HeapCells
    BY CellsAre
  <2> QED  BY <2>1, ObjectsStay
<1>2. /\ Of(cur) \subseteq Cells /\ Cells \subseteq 0 .. HeapCells
      /\ Heads \subseteq Cells /\ HeapCells \in Nat
  BY <1>1, ObjectsAre, CellsAre
<1>3. \A c \in Of(cur) : word[c] # Nowhere =>
        word[c] \in Heads /\ word[c] \in Live
  <2>1. word \in [Cells -> Heads \cup {Nowhere}]
    BY DEF HeapBefore
  <2>2. Closed(Live)
    BY LiveIs DEF Holding
  <2> QED  BY <2>1, <2>2, <1>1, <1>2 DEF Closed
<1>a. \A c \in Of(cur) : c \in Nat /\ c \in 0 .. HeapCells
  <2>1. \A c \in Cells : c \in Nat /\ c \in 0 .. HeapCells
    BY CellsAre
  <2> QED  BY <2>1, <1>2
<1>4. first \in SUBSET (0 .. HeapCells) /\ first \in SUBSET Nat
  <2>1. \A c \in first : c \in Of(cur)
    BY <1>1
  <2> HIDE DEF first
  <2> QED  BY <2>1, <1>a
<1>5. Children = [i \in DOMAIN order |-> word[order[i]]]
  BY DEF Children
<1>6. \A c \in first : c \in Of(cur) /\ word[c] # Nowhere
  BY <1>1
<1>7. ASSUME NEW c \in Of(cur), word[c] # Nowhere, ~Marked(table, word[c])
      PROVE  \E d \in first : word[d] = word[c]
  <2> DEFINE Same == {d \in Of(cur) : word[d] = word[c]}
  <2>1. Same \in SUBSET Nat /\ Same # {}
    BY <1>a
  <2>2. PICK d \in Same : \A e \in Same : d <= e
    BY <2>1, LeastOf
  <2>3. \A e \in Of(cur) : e < d => word[e] # word[d]
    <3>1. ASSUME NEW e \in Of(cur), e < d, word[e] = word[d] PROVE FALSE
      <4>1. e \in Same
        BY <2>2, <3>1
      <4>2. e \in Nat /\ d \in Nat /\ d <= e
        BY <4>1, <2>1, <2>2
      <4> QED  BY <4>2, <3>1
    <3> QED  BY <3>1
  <2>4. d \in Of(cur) /\ word[d] = word[c] /\ table[word[d]] = "HEAD"
    BY <2>2, <1>1, <1>3, <1>7
  <2>5. d \in first
    BY <2>3, <2>4, <1>1, <1>7
  <2> QED  BY <2>4, <2>5
<1> HIDE DEF first
<1>8. \E f : Ascending(f, first)
  BY <1>2, <1>4, AscendingExists
<1>9. IsFiniteSet(first)
  BY <1>2, <1>4, AscendingExists
<1>10. Ascending(order, first)
  BY <1>8 DEF Ascending
<1> HIDE DEF order
<1>11. \A x \in first : \E i \in 1 .. N : order[i] = x
  BY <1>4, <1>9, <1>10, AscendingIsAll
<1>12. N \in Nat
  BY <1>9, FS_CardinalityType
<1>13. order \in [1 .. N -> first]
  BY <1>10 DEF Ascending
<1> HIDE DEF N
<1>14. /\ DOMAIN Children = 1 .. N
       /\ \A i \in 1 .. N : Children[i] = word[order[i]]
  BY <1>5, <1>13
<1>15. \A i \in 1 .. N : Children[i] \in Cells /\ Children[i] \in Live
  BY <1>2, <1>3, <1>6, <1>13, <1>14
<1>16. Children \in [1 .. N -> Cells]
  <2>1. Children = [i \in 1 .. N |-> word[order[i]]]
    BY <1>5, <1>13
  <2> QED  BY <2>1, <1>14, <1>15
<1>17. Children \in Seq(Cells)
  BY <1>12, <1>16
<1>18. ASSUME NEW c \in Of(cur), word[c] # Nowhere, ~Marked(table, word[c])
       PROVE  \E i \in DOMAIN Children : Children[i] = word[c]
  <2>1. PICK d \in first : word[d] = word[c]
    BY <1>7, <1>18
  <2> QED  BY <2>1, <1>11, <1>14
<1> QED  BY <1>14, <1>15, <1>17, <1>18

(***************************************************************************)
(* Collection: the steps                                                   *)
(***************************************************************************)

\* The table t with the objects of D marked too.
WithMarks(t, D) == [b \in DOMAIN t |-> IF b \in D THEN "MARK" ELSE t[b]]

\* u has the marks of t and those of D.
MarkedMore(t, u, D) ==
    /\ OnlyLiveMarked(u)
    /\ \A b \in 0 .. HeapCells : Marked(u, b) <=> Marked(t, b) \/ b \in D
    /\ \A h \in Heads : Dark(t, h) => Dark(u, h)

\* Marks only grow, and so does what is dark.
LEMMA MarksGrow ==
    ASSUME HeapBefore, NEW t, OnlyLiveMarked(t), NEW D \in SUBSET Cells,
           \A b \in D : b \in Live
    PROVE  MarkedMore(t, WithMarks(t, D), D)
<1> DEFINE u == WithMarks(t, D)
<1>1. /\ DOMAIN u = 0 .. HeapCells
      /\ \A b \in 0 .. HeapCells : u[b] = IF b \in D THEN "MARK" ELSE t[b]
  BY DEF OnlyLiveMarked, WithMarks
<1> HIDE DEF u
<1>2. \A b \in 0 .. HeapCells : Marked(u, b) <=> Marked(t, b) \/ b \in D
  BY <1>1 DEF Marked
<1>3. OnlyLiveMarked(u)
  BY <1>1 DEF OnlyLiveMarked, Marked
<1>4. ASSUME NEW h \in Heads, Dark(t, h) PROVE Dark(u, h)
  <2>1. \A c \in Of(h) : word[c] # Nowhere => word[c] \in 0 .. HeapCells
    <3>1. Of(h) \subseteq Cells
      BY ObjectsAre
    <3>2. \A k \in Heads : k \in 0 .. HeapCells
      BY CellsAre DEF Heads
    <3> QED  BY <3>1, <3>2 DEF HeapBefore
  <2> QED  BY <2>1, <1>2, <1>4 DEF Dark
<1>5. MarkedMore(t, u, D)
  BY <1>2, <1>3, <1>4 DEF MarkedMore
<1> QED  BY <1>5 DEF u

\* The root's object is marked and looked at first.
LEMMA MarkRootKeeps ==
    ASSUME MarkInv, MarkRoot
    PROVE  MarkInv'
<1>0. /\ HeapBefore /\ UNCHANGED heap
      /\ MarkPhase(at, table, stack, gc_stack_overflow, cur, block, free_tail,
                   last_used_block)
  BY DEF MarkInv, MarkRoot
<1>1. /\ at = "root" /\ block \in Nat /\ last_used_block \in Nat
      /\ table = before /\ stack = <<>> /\ OnlyLiveMarked(table)
  BY <1>0 DEF MarkPhase, MarkRoot, MarkPlaces, MarkingOK
<1>2. \A h \in Cells : ~Marked(table, h)
  <2>1. before \in [0 .. HeapCells -> {"FREE", "HEAD", "TAIL"}]
    BY <1>0, ObjectsAre
  <2> QED  BY <1>1, <2>1, CellsAre DEF Marked
<1>3. stack' = <<>> /\ block' = block /\ last_used_block' = last_used_block
  BY <1>1 DEF MarkRoot, sweeping
<1>4. CASE root = Nowhere
  <2>1. at' = "overflow" /\ table' = table
    BY <1>4 DEF MarkRoot
  <2>2. MarkingOK(at', table', stack', gc_stack_overflow', cur', block')
    BY <1>1, <1>2, <1>3, <1>4, <2>1 DEF MarkingOK
  <2> QED  BY <1>0, <1>1, <1>3, <2>1, <2>2, MarkInvAfter
           DEF MarkPhase, MarkPlaces
<1>5. CASE root # Nowhere
  <2>1. /\ at' = "mark" /\ cur' = root
        /\ table' = [table EXCEPT ![root] = "MARK"]
    BY <1>5 DEF MarkRoot
  <2>2. root \in Heads /\ root \in Cells /\ root \in Live
    BY <1>0, <1>5, LiveIs DEF HeapBefore, Heads, Holding
  <2>3. table' = WithMarks(table, {root})
    BY <2>1 DEF WithMarks
  <2>4. MarkedMore(table, table', {root})
    <3>1. {root} \in SUBSET Cells /\ \A b \in {root} : b \in Live
      BY <2>2
    <3>2. MarkedMore(table, WithMarks(table, {root}), {root})
      BY <3>1, <1>0, <1>1, MarksGrow
    <3> QED  BY <3>2, <2>3
  <2>5. \A h \in Cells : Marked(table', h) <=> h = root
    BY <2>4, <1>2, CellsAre DEF MarkedMore
  <2>6. MarkingOK(at', table', stack', gc_stack_overflow', cur', block')
    <3>1. stack' \in Seq(Cells) /\ \A i \in DOMAIN stack' : FALSE
      BY <1>3
    <3>2. \A h \in Cells : Marked(table', h) =>
            ToSee(at', stack', cur', block', h)
      BY <2>1, <2>5 DEF ToSee
    <3>3. Marked(table', root) /\ OnlyLiveMarked(table')
      BY <2>2, <2>4, <2>5 DEF MarkedMore
    <3> QED  BY <2>1, <2>2, <3>1, <3>2, <3>3 DEF MarkingOK
  <2> QED  BY <1>0, <1>1, <1>3, <2>1, <2>6, MarkInvAfter
           DEF MarkPhase, MarkPlaces
<1> QED  BY <1>4, <1>5

\* Without an overflow the marked objects are closed: they are the live ones.
LEMMA CheckOverflowKeeps ==
    ASSUME MarkInv, CheckOverflow
    PROVE  MarkInv'
<1>0. /\ HeapBefore /\ UNCHANGED heap
      /\ MarkPhase(at, table, stack, gc_stack_overflow, cur, block, free_tail,
                   last_used_block)
  BY DEF MarkInv, CheckOverflow
<1>1. /\ at = "overflow" /\ last_used_block \in Nat
      /\ MarkingOK(at, table, stack, gc_stack_overflow, cur, block)
  BY <1>0 DEF MarkPhase, CheckOverflow, MarkPlaces
<1>2. /\ stack' = stack /\ table' = table /\ block' = 0
      /\ last_used_block' = last_used_block /\ gc_stack_overflow' = FALSE
      /\ at' = IF gc_stack_overflow THEN "scan" ELSE "sweep"
  BY DEF CheckOverflow, sweeping
<1>3. /\ OnlyLiveMarked(table) /\ stack = <<>> /\ stack \in Seq(Cells)
      /\ root # Nowhere => Marked(table, root)
      /\ \A h \in Cells :
           Marked(table, h) => Dark(table, h) \/ gc_stack_overflow
  BY <1>1 DEF MarkingOK, ToSee
<1>4. \A h \in Cells : h \in Nat /\ 0 <= h /\ ~(h < 0) /\ h \in 0 .. HeapCells
  BY CellsAre
<1>5. CASE gc_stack_overflow
  <2>1. MarkingOK(at', table', stack', gc_stack_overflow', cur', block')
    BY <1>2, <1>3, <1>4, <1>5 DEF MarkingOK, ToSee
  <2> QED  BY <1>0, <1>1, <1>2, <1>5, <2>1, MarkInvAfter
           DEF MarkPhase, MarkPlaces
<1>6. CASE ~gc_stack_overflow
  <2> DEFINE S == {h \in Heads : Marked(table, h)}
  <2>1. Holding(S)
    <3>1. \A k \in Heads : k \in Cells
      BY DEF Heads
    <3>2. root # Nowhere => root \in S
      BY <1>0, <1>3 DEF HeapBefore
    <3>3. ASSUME NEW h \in S, NEW c \in Of(h), word[c] # Nowhere
          PROVE  word[c] \in S
      <4>1. Of(h) \subseteq Cells
        BY <1>0, ObjectsAre
      <4>2. word[c] \in Heads
        BY <4>1, <3>3, <1>0 DEF HeapBefore
      <4>3. Marked(table, word[c])
        BY <3>1, <3>3, <1>3, <1>6 DEF Dark
      <4> QED  BY <4>2, <4>3
    <3> QED  BY <3>2, <3>3 DEF Holding, Closed
  <2>2. \A b \in Live : Marked(table, b)
    <3>1. Live \subseteq S
      BY <2>1, <1>0, LiveIs
    <3> QED  BY <3>1
  <2>3. \A b \in Cells : table[b] = IF b \in Live THEN "MARK" ELSE before[b]
    BY <2>2, <1>3, <1>4 DEF OnlyLiveMarked, Marked
  <2>4. before[0] # "TAIL"
    BY <1>0, ObjectsAre
  <2>5. SweepingOK(table', block', free_tail', last_used_block')
    <3>1. DOMAIN table' = 0 .. HeapCells /\ 0 \in 0 .. HeapCells
      BY <1>2, <1>3, CellsAre DEF OnlyLiveMarked
    <3> QED  BY <3>1, <1>2, <1>4, <2>3, <2>4 DEF SweepingOK
  <2> QED  BY <1>0, <1>1, <1>2, <1>6, <2>5, MarkInvAfter
           DEF MarkPhase, MarkPlaces
<1> QED  BY <1>5, <1>6

\* One object is looked at: it becomes dark, and its children are on the
\* stack unless the overflow is noted.
LEMMA MarkObjectKeeps ==
    ASSUME MarkInv, MarkObject
    PROVE  MarkInv'
<1> DEFINE kids == Children
           all == stack \o kids
           n == Min({StackSize, Len(all)})
           pushed == SubSeq(all, 1, n)
           D == {b \in Cells : \E i \in DOMAIN kids : kids[i] = b}
<1>0. /\ HeapBefore /\ UNCHANGED heap
      /\ MarkPhase(at, table, stack, gc_stack_overflow, cur, block, free_tail,
                   last_used_block)
  BY DEF MarkInv, MarkObject
<1>1. /\ at = "mark" /\ last_used_block \in Nat /\ block \in Nat
      /\ MarkingOK(at, table, stack, gc_stack_overflow, cur, block)
  BY <1>0 DEF MarkPhase, MarkObject, MarkPlaces
<1>2. /\ OnlyLiveMarked(table) /\ stack \in Seq(Cells)
      /\ \A i \in DOMAIN stack : Marked(table, stack[i])
      /\ cur \in Cells /\ Marked(table, cur)
      /\ root # Nowhere => Marked(table, root)
      /\ \A h \in Cells : Marked(table, h) =>
           \/ Dark(table, h) \/ gc_stack_overflow
           \/ h = cur \/ (\E i \in DOMAIN stack : stack[i] = h)
           \/ (block > 0 /\ block <= h)
  BY <1>1 DEF MarkingOK, ToSee
<1>3. /\ kids \in Seq(Cells)
      /\ \A i \in DOMAIN kids : kids[i] \in Live
      /\ \A c \in Of(cur) : word[c] # Nowhere =>
           \/ Marked(table, word[c])
           \/ \E i \in DOMAIN kids : kids[i] = word[c]
  BY <1>0, <1>2, ChildrenAre
<1>4. /\ table' = [b \in DOMAIN table |->
                   IF b \in Range(kids) THEN "MARK" ELSE table[b]]
      /\ gc_stack_overflow' =
           (gc_stack_overflow \/ Len(stack) + Len(kids) > StackSize)
      /\ \/ /\ pushed # <<>>
            /\ cur' = Last(pushed) /\ stack' = Front(pushed)
            /\ at' = at
         \/ /\ pushed = <<>>
            /\ at' = IF block = 0 THEN "overflow" ELSE "scan"
            /\ cur' = cur /\ stack' = stack
      /\ block' = block /\ last_used_block' = last_used_block
  BY DEF MarkObject, Overflows, sweeping
<1> HIDE DEF kids
<1>5. D \in SUBSET Cells /\ \A b \in D : b \in Live
  BY <1>3
<1>6. Range(kids) = D
  BY <1>3 DEF Range
<1>7. table' = WithMarks(table, D)
  BY <1>4, <1>6 DEF WithMarks
<1>8. MarkedMore(table, table', D)
  <2> HIDE DEF D
  <2>1. MarkedMore(table, WithMarks(table, D), D)
    BY <1>0, <1>2, <1>5, MarksGrow
  <2> QED  BY <2>1, <1>7
<1>9. \A h \in Cells : h \in 0 .. HeapCells /\ h \in Nat
  BY CellsAre
<1>10. OnlyLiveMarked(table') /\ \A h \in Cells :
         Marked(table', h) <=>
           Marked(table, h) \/ \E i \in DOMAIN kids : kids[i] = h
  <2>1. \A h \in Cells : h \in D <=> \E i \in DOMAIN kids : kids[i] = h
    OBVIOUS
  <2> HIDE DEF D
  <2> QED  BY <2>1, <1>8, <1>9 DEF MarkedMore
<1>11. \A h \in Cells : Marked(table, h) /\ Dark(table, h) => Dark(table', h)
  <2>1. \A h \in Cells : Marked(table, h) => h \in Heads
    BY <1>0, <1>2, <1>9, ObjectsStay
  <2> QED  BY <2>1, <1>8 DEF MarkedMore
<1>12. Dark(table', cur)
  <2>1. cur \in Heads
    BY <1>0, <1>2, <1>9, ObjectsStay
  <2>2. Of(cur) \subseteq Cells /\ \A k \in Heads : k \in Cells
    BY <2>1, <1>0, ObjectsAre
  <2>3. \A c \in Of(cur) : word[c] # Nowhere => word[c] \in Cells
    BY <2>2, <1>0 DEF HeapBefore
  <2> QED  BY <2>3, <1>3, <1>10 DEF Dark
<1> HIDE DEF D
\* What is on the stack.
<1>13. /\ all \in Seq(Cells) /\ Len(all) = Len(stack) + Len(kids)
       /\ Len(stack) \in Nat /\ Len(kids) \in Nat
       /\ DOMAIN stack = 1 .. Len(stack) /\ DOMAIN kids = 1 .. Len(kids)
       /\ \A i \in 1 .. Len(stack) : all[i] = stack[i]
       /\ \A i \in 1 .. Len(kids) : all[Len(stack) + i] = kids[i]
  BY <1>2, <1>3
<1>14. \A i \in 1 .. Len(all) : \/ i \in 1 .. Len(stack)
                                \/ \E j \in 1 .. Len(kids) : i = Len(stack) + j
  <2>1. ASSUME NEW i \in 1 .. Len(all), ~(i \in 1 .. Len(stack))
        PROVE  i - Len(stack) \in 1 .. Len(kids)
               /\ i = Len(stack) + (i - Len(stack))
    BY <2>1, <1>13
  <2> QED  BY <2>1
<1>15. \A i \in 1 .. Len(all) : all[i] \in Cells /\ Marked(table', all[i])
  <2>1. ASSUME NEW i \in 1 .. Len(stack)
        PROVE  stack[i] \in Cells /\ Marked(table', stack[i])
    BY <1>2, <1>10, <1>13
  <2>2. ASSUME NEW i \in 1 .. Len(kids)
        PROVE  kids[i] \in Cells /\ Marked(table', kids[i])
    BY <1>3, <1>10, <1>13
  <2> HIDE DEF all
  <2> QED  BY <2>1, <2>2, <1>13, <1>14
<1>16. /\ n \in Nat /\ n <= Len(all)
       /\ Len(all) <= StackSize => n = Len(all)
  <2> DEFINE L == Len(all)
  <2>1. L \in Nat /\ StackSize \in Nat
    BY <1>13, CellsAre
  <2> HIDE DEF L
  <2>2. {StackSize, L} \in SUBSET Nat /\ {StackSize, L} # {}
    BY <2>1
  <2>3. /\ Min({StackSize, L}) \in {StackSize, L}
        /\ \A y \in {StackSize, L} : Min({StackSize, L}) <= y
    BY <2>2, MinIs
  <2>4. /\ Min({StackSize, L}) \in Nat /\ Min({StackSize, L}) <= L
        /\ L <= StackSize => Min({StackSize, L}) = L
    BY <2>1, <2>3
  <2> QED  BY <2>4 DEF L
<1> HIDE DEF all, n
<1>17. /\ pushed \in Seq(Cells) /\ Len(pushed) = n /\ DOMAIN pushed = 1 .. n
       /\ \A i \in 1 .. n : pushed[i] = all[i] /\ i \in 1 .. Len(all)
  BY <1>13, <1>16
<1> HIDE DEF pushed
<1>18. \A i \in 1 .. n : pushed[i] \in Cells /\ Marked(table', pushed[i])
  BY <1>15, <1>17
\* With room for all, each marked object is dark or on the stack.
<1>19. ASSUME ~gc_stack_overflow', NEW h \in Cells, Marked(table', h)
       PROVE  \/ Dark(table', h) \/ (\E i \in 1 .. n : pushed[i] = h)
              \/ (block > 0 /\ block <= h)
  <2>1. ~gc_stack_overflow /\ ~(Len(stack) + Len(kids) > StackSize)
    BY <1>4, <1>19, Zenon
  <2>2. n = Len(all)
    BY <2>1, <1>13, <1>16, CellsAre
  <2>3. ASSUME NEW i \in 1 .. Len(all)
        PROVE  \E j \in 1 .. n : pushed[j] = all[i]
    BY <2>2, <1>17
  <2>4. CASE \E i \in DOMAIN kids : kids[i] = h
    <3>1. PICK i \in 1 .. Len(kids) : kids[i] = h
      BY <2>4, <1>13
    <3>2. Len(stack) + i \in 1 .. Len(all) /\ all[Len(stack) + i] = h
      BY <3>1, <1>13
    <3> QED  BY <3>2, <2>3
  <2>5. CASE \E i \in DOMAIN stack : stack[i] = h
    <3>1. PICK i \in 1 .. Len(stack) : stack[i] = h
      BY <2>5, <1>13
    <3>2. i \in 1 .. Len(all) /\ all[i] = h
      BY <3>1, <1>13
    <3> QED  BY <3>2, <2>3
  <2> QED  BY <2>1, <2>4, <2>5, <1>2, <1>10, <1>11, <1>12, <1>19
<1>20. root # Nowhere => Marked(table', root)
  <2>1. root # Nowhere => root \in Cells
    BY <1>0 DEF HeapBefore, Heads
  <2> QED  BY <2>1, <1>2, <1>10
<1>21. CASE pushed # <<>>
  <2>1. n \in Nat /\ n # 0
    BY <1>16, <1>17, <1>21
  <2>2. at' = "mark" /\ cur' = pushed[n] /\ stack' = SubSeq(pushed, 1, n - 1)
    BY <1>1, <1>4, <1>17, <1>21 DEF Last, Front
  <2>3. /\ stack' \in Seq(Cells) /\ DOMAIN stack' = 1 .. n - 1
        /\ \A i \in 1 .. n - 1 : stack'[i] = pushed[i] /\ i \in 1 .. n
    BY <2>1, <2>2, <1>17
  <2>4. cur' \in Cells /\ Marked(table', cur')
    BY <2>1, <2>2, <1>18
  <2>5. \A i \in DOMAIN stack' : Marked(table', stack'[i])
    BY <2>3, <1>18
  <2>6. ASSUME NEW i \in 1 .. n
        PROVE  pushed[i] = cur' \/ \E j \in DOMAIN stack' :
                                     stack'[j] = pushed[i]
    <3>1. CASE i = n
      BY <3>1, <2>2
    <3>2. CASE i # n
      <4>1. i \in 1 .. n - 1
        BY <3>2, <2>1
      <4> QED  BY <4>1, <2>3
    <3> QED  BY <3>1, <3>2
  <2>7. ASSUME NEW h \in Cells, Marked(table', h)
        PROVE  \/ Dark(table', h) \/ gc_stack_overflow'
               \/ ToSee(at', stack', cur', block', h)
    <3>1. CASE \E i \in 1 .. n : pushed[i] = h
      BY <3>1, <2>2, <2>6 DEF ToSee
    <3>2. CASE block > 0 /\ block <= h
      BY <3>2, <2>2, <1>4 DEF ToSee
    <3> QED  BY <3>1, <3>2, <1>19, <2>7
  <2>8. MarkingOK(at', table', stack', gc_stack_overflow', cur', block')
    BY <2>2, <2>3, <2>4, <2>5, <2>7, <1>10, <1>20 DEF MarkingOK
  <2> QED  BY <1>0, <1>1, <1>4, <2>2, <2>8, MarkInvAfter
           DEF MarkPhase, MarkPlaces
<1>22. CASE pushed = <<>>
  <2>1. n = 0
    BY <1>17, <1>22
  <2>2. /\ at' = IF block = 0 THEN "overflow" ELSE "scan"
        /\ stack' = stack /\ block' = block
    BY <1>4, <1>22
  <2>3. stack = <<>>
    <3>1. StackSize > 0 /\ StackSize \in Nat
      BY GcMarkAssumption
    <3>2. Len(all) = 0
      <4> DEFINE L == Len(all)
      <4>1. L \in Nat
        BY <1>13
      <4> HIDE DEF L
      <4>2. {StackSize, L} \in SUBSET Nat /\ {StackSize, L} # {}
        BY <3>1, <4>1
      <4>3. Min({StackSize, L}) \in {StackSize, L}
        BY <4>2, MinIs
      <4>4. Min({StackSize, L}) = 0
        BY <2>1 DEF n, L
      <4>5. L = 0
        BY <3>1, <4>1, <4>3, <4>4
      <4> QED  BY <4>5 DEF L
    <3>3. Len(stack) = 0
      BY <3>2, <1>13
    <3> QED  BY <3>3, <1>2
  <2>4. ASSUME NEW h \in Cells, Marked(table', h)
        PROVE  \/ Dark(table', h) \/ gc_stack_overflow'
               \/ ToSee(at', stack', cur', block', h)
    <3>1. CASE \E i \in 1 .. n : pushed[i] = h
      BY <3>1, <2>1
    <3>2. CASE block > 0 /\ block <= h
      BY <3>2, <2>2, <1>1 DEF ToSee
    <3> QED  BY <3>1, <3>2, <1>19, <2>4
  <2>5. MarkingOK(at', table', stack', gc_stack_overflow', cur', block')
    <3>1. at' # "mark" /\ at' # "root"
      BY <2>2
    <3>2. stack' = <<>> /\ stack' \in Seq(Cells)
            /\ \A i \in DOMAIN stack' : FALSE
      BY <2>2, <2>3
    <3> QED  BY <3>1, <3>2, <2>4, <1>10, <1>20 DEF MarkingOK
  <2> QED  BY <1>0, <1>1, <1>4, <2>2, <2>5, MarkInvAfter
           DEF MarkPhase, MarkPlaces
<1> QED  BY <1>21, <1>22

\* A rescan passes only over blocks that are not marked.
LEMMA RescanKeeps ==
    ASSUME MarkInv, Rescan
    PROVE  MarkInv'
<1> DEFINE marked == {b \in Cells : b >= block /\ table[b] = "MARK"}
<1>0. /\ HeapBefore /\ UNCHANGED heap
      /\ MarkPhase(at, table, stack, gc_stack_overflow, cur, block, free_tail,
                   last_used_block)
  BY DEF MarkInv, Rescan
<1>1. /\ at = "scan" /\ last_used_block \in Nat /\ block \in Nat
      /\ MarkingOK(at, table, stack, gc_stack_overflow, cur, block)
  BY <1>0 DEF MarkPhase, Rescan, MarkPlaces
<1>2. /\ OnlyLiveMarked(table) /\ stack = <<>> /\ stack \in Seq(Cells)
      /\ root # Nowhere => Marked(table, root)
      /\ \A h \in Cells : Marked(table, h) =>
           Dark(table, h) \/ gc_stack_overflow \/ block <= h
  BY <1>1 DEF MarkingOK, ToSee
<1>3. /\ table' = table /\ stack' = stack
      /\ gc_stack_overflow' = gc_stack_overflow
      /\ last_used_block' = last_used_block
      /\ \/ /\ marked # {}
            /\ cur' = Min(marked) /\ block' = Min(marked) + 1
            /\ at' = "mark"
         \/ /\ marked = {} /\ block' = 0 /\ at' = "overflow"
  BY DEF Rescan, sweeping
<1>4. \A h \in Cells : h \in Nat
  BY CellsAre
<1>5. \A h \in Cells : Marked(table, h) /\ block <= h => h \in marked
  BY <1>1, <1>4 DEF Marked
<1>6. \A h \in marked : h \in Cells /\ Marked(table, h)
  BY DEF Marked
<1> HIDE DEF marked
<1>7. CASE marked # {}
  <2> DEFINE m == Min(marked)
  <2>1. m \in marked /\ \A y \in marked : m <= y
    <3>1. marked \in SUBSET Nat
      BY <1>4, <1>6
    <3> QED  BY <3>1, <1>7, MinIs
  <2>2. cur' = m /\ block' = m + 1 /\ at' = "mark"
    BY <1>3, <1>7
  <2> HIDE DEF m
  <2>3. m \in Nat /\ m \in Cells /\ Marked(table, m)
    BY <2>1, <1>4, <1>6
  <2>4. ASSUME NEW h \in Cells, Marked(table, h), block <= h
        PROVE  ToSee(at', stack', cur', block', h)
    <3>1. m <= h /\ h \in Nat
      BY <2>1, <2>4, <1>4, <1>5
    <3>2. h = m \/ (m + 1 > 0 /\ m + 1 <= h)
      BY <3>1, <2>3
    <3> QED  BY <3>2, <2>2 DEF ToSee
  <2>5. MarkingOK(at', table', stack', gc_stack_overflow', cur', block')
    <3>1. \A i \in DOMAIN stack' : FALSE
      BY <1>2, <1>3
    <3> QED  BY <3>1, <1>2, <1>3, <2>2, <2>3, <2>4 DEF MarkingOK
  <2>6. block' \in Nat
    BY <2>2, <2>3
  <2> QED  BY <1>0, <1>1, <1>3, <2>2, <2>5, <2>6, MarkInvAfter
           DEF MarkPhase, MarkPlaces
<1>8. CASE marked = {}
  <2>1. block' = 0 /\ at' = "overflow"
    BY <1>3, <1>8
  <2>2. MarkingOK(at', table', stack', gc_stack_overflow', cur', block')
    <3>1. \A i \in DOMAIN stack' : FALSE
      BY <1>2, <1>3
    <3>2. \A h \in Cells : Marked(table, h) =>
            Dark(table, h) \/ gc_stack_overflow
      BY <1>2, <1>5, <1>8
    <3> QED  BY <3>1, <3>2, <1>2, <1>3, <2>1 DEF MarkingOK
  <2> QED  BY <1>0, <1>1, <1>3, <2>1, <2>2, MarkInvAfter
           DEF MarkPhase, MarkPlaces
<1> QED  BY <1>7, <1>8

\* A block's table entry becomes what it should be, and free_tail goes with
\* the object.
LEMMA SweepBlockKeeps ==
    ASSUME MarkInv, SweepBlock
    PROVE  MarkInv'
<1>0. /\ HeapBefore /\ UNCHANGED heap
      /\ MarkPhase(at, table, stack, gc_stack_overflow, cur, block, free_tail,
                   last_used_block)
  BY DEF MarkInv, SweepBlock
<1> DEFINE k == block
           frees == \/ table[block] = "HEAD"
                    \/ table[block] = "TAIL" /\ free_tail
           Right(b) == IF CanReach(b) THEN before[b] ELSE "FREE"
<1>1. /\ at = "sweep" /\ last_used_block \in Nat /\ k \in Nat /\ k < HeapCells
      /\ SweepingOK(table, k, free_tail, last_used_block)
  BY <1>0 DEF MarkPhase, SweepBlock, MarkPlaces
<1>2. /\ k \in 0 .. HeapCells /\ DOMAIN table = 0 .. HeapCells
      /\ \A b \in Cells : b < k => table[b] = Right(b)
      /\ \A b \in Cells : k <= b =>
           table[b] = IF b \in Live THEN "MARK" ELSE before[b]
      /\ k \in Cells /\ before[k] = "TAIL" => (free_tail <=> ~CanReach(k))
      /\ \A b \in Cells : b < k /\ table[b] # "FREE" => b <= last_used_block
  BY <1>1 DEF SweepingOK
<1>3. /\ free_tail' = CASE table[k] = "HEAD" -> TRUE
                        [] table[k] = "MARK" -> FALSE
                        [] OTHER -> free_tail
      /\ table' = [table EXCEPT ![k] = IF frees THEN "FREE"
                                       ELSE IF @ = "MARK" THEN "HEAD"
                                       ELSE @]
      /\ last_used_block' = IF table'[k] # "FREE" THEN k
                            ELSE last_used_block
      /\ block' = k + 1 /\ at' = "sweep"
  BY <1>1 DEF SweepBlock
<1>4. /\ k \in Cells /\ HeapCells \in Nat /\ k + 1 \in 0 .. HeapCells
      /\ \A b \in Cells : b \in Nat /\ b \in 0 .. HeapCells
  BY <1>1, CellsAre
<1>5. table[k] = IF k \in Live THEN "MARK" ELSE before[k]
  BY <1>1, <1>2, <1>4
<1>6. /\ before[k] \in {"FREE", "HEAD", "TAIL"}
      /\ before[k] = "HEAD" => (CanReach(k) <=> k \in Live)
      /\ before[k] = "FREE" => ~CanReach(k)
      /\ before[k] # "HEAD" => k \notin Live
      /\ k + 1 \in Cells /\ before[k + 1] = "TAIL" =>
           before[k] # "FREE" /\ (CanReach(k + 1) <=> CanReach(k))
  <2>1. Live \in SUBSET Heads
    BY <1>0, LiveIs
  <2>2. before[k] \in {"FREE", "HEAD", "TAIL"}
    BY <1>0, <1>4, ObjectsAre
  <2>3. ASSUME before[k] = "HEAD" PROVE CanReach(k) <=> k \in Live
    <3>1. k \in Heads /\ \A h \in Heads : h \in Of(h) /\ Of(h) \cap Heads = {h}
      BY <1>0, <1>4, <2>3, ObjectsAre DEF Heads
    <3> QED  BY <3>1, <2>1 DEF CanReach
  <2>4. before[k] = "FREE" => ~CanReach(k)
    <3>1. before[k] = "FREE" => \A h \in Heads : k \notin Of(h)
      BY <1>0, <1>4, ObjectsAre
    <3> QED  BY <3>1, <2>1 DEF CanReach
  <2>5. before[k] # "HEAD" => k \notin Live
    BY <2>1 DEF Heads
  <2>6. ASSUME k + 1 \in Cells, before[k + 1] = "TAIL"
        PROVE  before[k] # "FREE" /\ (CanReach(k + 1) <=> CanReach(k))
    <3>1. /\ before[k] # "FREE"
          /\ \A h \in Heads : k + 1 \in Of(h) <=> k \in Of(h)
      BY <1>0, <1>4, <2>6, ObjectsAre
    <3> QED  BY <3>1, <2>1 DEF CanReach
  <2> QED  BY <2>2, <2>3, <2>4, <2>5, <2>6
<1>7. before[k] = "TAIL" => (free_tail <=> ~CanReach(k))
  BY <1>2, <1>4
<1>8. /\ DOMAIN table' = 0 .. HeapCells
      /\ \A b \in Cells : b # k => table'[b] = table[b]
      /\ table'[k] = IF frees THEN "FREE"
                     ELSE IF table[k] = "MARK" THEN "HEAD" ELSE table[k]
  BY <1>2, <1>3, <1>4
<1>9. table'[k] = Right(k)
  <2>1. CASE before[k] = "FREE"
    BY <2>1, <1>5, <1>6, <1>8
  <2>2. CASE before[k] = "HEAD"
    BY <2>2, <1>5, <1>6, <1>8
  <2>3. CASE before[k] = "TAIL"
    BY <2>3, <1>5, <1>6, <1>7, <1>8
  <2> QED  BY <2>1, <2>2, <2>3, <1>6
<1>10. ASSUME k + 1 \in Cells, before[k + 1] = "TAIL"
       PROVE  free_tail' <=> ~CanReach(k + 1)
  <2>1. before[k] # "FREE" /\ (CanReach(k + 1) <=> CanReach(k))
    BY <1>6, <1>10
  <2>2. CASE before[k] = "HEAD"
    <3>1. CASE k \in Live
      <4>1. table[k] = "MARK" /\ CanReach(k + 1)
        BY <2>1, <2>2, <3>1, <1>5, <1>6
      <4>2. free_tail' = FALSE
        BY <4>1, <1>3
      <4> QED  BY <4>1, <4>2
    <3>2. CASE k \notin Live
      <4>1. table[k] = "HEAD" /\ ~CanReach(k + 1)
        BY <2>1, <2>2, <3>2, <1>5, <1>6
      <4>2. free_tail' = TRUE
        BY <4>1, <1>3
      <4> QED  BY <4>1, <4>2
    <3> QED  BY <3>1, <3>2
  <2>3. CASE before[k] = "TAIL"
    <3>1. table[k] = "TAIL"
      BY <2>3, <1>5, <1>6
    <3>2. free_tail' = free_tail
      BY <3>1, <1>3
    <3> QED  BY <3>2, <2>1, <2>3, <1>7
  <2> QED  BY <2>1, <2>2, <2>3, <1>6
<1>11. \A b \in Cells : b < k + 1 => b < k \/ b = k
  BY <1>1, <1>4
<1>12. last_used_block' \in Nat
  BY <1>1, <1>3
<1>13. \A b \in Cells :
         b < k + 1 /\ table'[b] # "FREE" => b <= last_used_block'
  <2>1. CASE table'[k] # "FREE"
    <3>1. last_used_block' = k
      BY <2>1, <1>3
    <3> QED  BY <3>1, <1>1, <1>4, <1>11
  <2>2. CASE table'[k] = "FREE"
    <3>1. last_used_block' = last_used_block
      BY <2>2, <1>3
    <3>2. ASSUME NEW b \in Cells, b < k + 1, table'[b] # "FREE"
          PROVE  b <= last_used_block
      <4>1. b # k /\ b < k /\ table[b] # "FREE"
        BY <2>2, <3>2, <1>8, <1>11
      <4> QED  BY <4>1, <1>2
    <3> QED  BY <3>1, <3>2
  <2> QED  BY <2>1, <2>2
<1>14. \A b \in Cells : b < k + 1 => table'[b] = Right(b)
  <2>1. ASSUME NEW b \in Cells, b < k + 1 PROVE table'[b] = Right(b)
    <3> HIDE DEF Right
    <3>1. CASE b = k
      BY <3>1, <1>9
    <3>2. CASE b # k
      BY <3>2, <2>1, <1>2, <1>8, <1>11
    <3> QED  BY <3>1, <3>2
  <2> QED  BY <2>1
<1>15. \A b \in Cells : k + 1 <= b =>
         table'[b] = IF b \in Live THEN "MARK" ELSE before[b]
  <2>1. \A b \in Cells : k + 1 <= b => b # k /\ k <= b
    BY <1>1, <1>4
  <2> QED  BY <2>1, <1>2, <1>8
<1>16. SweepingOK(table', block', free_tail', last_used_block')
  <2>1. SweepingOK(table', k + 1, free_tail', last_used_block')
    BY <1>4, <1>8, <1>10, <1>13, <1>14, <1>15 DEF SweepingOK
  <2> QED  BY <2>1, <1>3
<1>17. block' \in Nat
  BY <1>1, <1>3
<1> QED  BY <1>0, <1>3, <1>12, <1>16, <1>17, MarkInvAfter
         DEF MarkPhase, MarkPlaces

\* The invariant holds before the collection
LEMMA MarkInitInv == MarkInit => MarkInv
<1> SUFFICES ASSUME MarkInit PROVE MarkInv
  OBVIOUS
<1>1. HeapBefore
  BY DEF MarkInit, HeapBefore
<1>2. /\ table = before /\ at = "root" /\ stack = <<>> /\ block = 0
      /\ last_used_block = 0
  BY DEF MarkInit
<1>3. before \in [0 .. HeapCells -> {"FREE", "HEAD", "TAIL"}]
  BY <1>1, ObjectsAre
<1>4. OnlyLiveMarked(table)
  BY <1>2, <1>3 DEF OnlyLiveMarked
<1>5. \A h \in Cells : ~Marked(table, h)
  BY <1>2, <1>3, CellsAre DEF Marked
<1>6. MarkingOK(at, table, stack, gc_stack_overflow, cur, block)
  <2>1. stack \in Seq(Cells) /\ \A i \in DOMAIN stack : FALSE
    BY <1>2
  <2> QED  BY <2>1, <1>2, <1>4, <1>5 DEF MarkingOK
<1> QED  BY <1>1, <1>2, <1>6 DEF MarkInv, MarkPhase, MarkPlaces

\* and every step keeps it.
LEMMA MarkNextInv == MarkInv /\ [MarkNext]_markVars => MarkInv'
<1> SUFFICES ASSUME MarkInv, [MarkNext]_markVars PROVE MarkInv'
  OBVIOUS
<1>1. CASE End
  <2>0. HeapBefore /\ UNCHANGED heap
    BY <1>1 DEF MarkInv, End
  <2>1. /\ at = "sweep" /\ block = HeapCells /\ at' = "done"
        /\ table' = table /\ block' = block /\ free_tail' = free_tail
        /\ last_used_block' = last_used_block
    BY <1>1 DEF End, sweeping
  <2>2. /\ SweepingOK(table, block, free_tail, last_used_block)
        /\ block \in Nat /\ last_used_block \in Nat
    BY <2>1 DEF MarkInv, MarkPhase
  <2> QED  BY <2>0, <2>1, <2>2, MarkInvAfter DEF MarkPhase, MarkPlaces
<1>2. CASE UNCHANGED markVars
  <2>1. /\ UNCHANGED heap /\ at' = at /\ table' = table /\ stack' = stack
        /\ gc_stack_overflow' = gc_stack_overflow /\ cur' = cur
        /\ block' = block /\ free_tail' = free_tail
        /\ last_used_block' = last_used_block
    BY <1>2 DEF markVars, marking, sweeping
  <2> QED  BY <2>1, MarkInvAfter DEF MarkInv
<1> QED  BY <1>1, <1>2, MarkRootKeeps, MarkObjectKeeps, CheckOverflowKeeps,
            RescanKeeps, SweepBlockKeeps DEF MarkNext, Done

\* A collection keeps exactly the objects that can be reached from the root
\* and notes how far the next one must sweep, for a heap of any size with any
\* pointers in it and any size of the stack (gc.c:394-670): the safety half
\* of CollectionIsExact.
THEOREM CollectionKeepsTheLive ==
    MarkSpec => [](KeepsExactlyTheLive /\ SweptToTheEnd)
<1>1. MarkInv => KeepsExactlyTheLive /\ SweptToTheEnd
  <2> SUFFICES ASSUME MarkInv, at = "done"
               PROVE  \A b \in Cells :
                        /\ table[b] = IF \E h \in Live : b \in Of(h)
                                      THEN before[b] ELSE "FREE"
                        /\ table[b] # "FREE" => b <= last_used_block
    BY DEF KeepsExactlyTheLive, SweptToTheEnd
  <2>1. /\ block = HeapCells
        /\ SweepingOK(table, block, free_tail, last_used_block)
    BY DEF MarkInv, MarkPhase
  <2>2. \A b \in Cells : b < block
    BY <2>1, CellsAre
  <2> QED  BY <2>1, <2>2 DEF SweepingOK, CanReach
<1> QED  BY <1>1, MarkInitInv, MarkNextInv, PTL DEF MarkSpec

(***************************************************************************)
(* Closure                                                                 *)
(***************************************************************************)

\* One round of Closure, and a set that a round adds nothing to.
Grown(step, S) == S \cup ((UNION {step[d] : d \in S}) \ {Null})
Still(step, S) == \A d \in S : \A x \in step[d] : x # Null => x \in S

Steps == [Dirs -> SUBSET (Dirs \cup {Null})]

\* The least set with `from' that step does not lead out of.
IsClosure(from, step, C) ==
    /\ C \in SUBSET Dirs /\ from \in C /\ Still(step, C)
    /\ \A S \in SUBSET Dirs : from \in S /\ Still(step, S) => C \subseteq S

\* The function of rounds that Closure defines.
Rounds(from, step, k, f) ==
    f = [i \in 0 .. k |-> IF i = 0 THEN {from} ELSE Grown(step, f[i - 1])]

\* What it is, round by round.
RoundByRound(from, step, k, f) ==
    /\ f[0] = {from}
    /\ \A i \in Nat : i < k => f[i + 1] = Grown(step, f[i])

\* The function is that.
LEMMA RoundsIs ==
    ASSUME NEW from, NEW step, NEW k \in Nat, NEW f,
           Rounds(from, step, k, f)
    PROVE  RoundByRound(from, step, k, f)
<1>1. f = [i \in 0 .. k |-> IF i = 0 THEN {from} ELSE Grown(step, f[i - 1])]
  BY DEF Rounds
<1>3. \A i \in 0 .. k : f[i] = IF i = 0 THEN {from} ELSE Grown(step, f[i - 1])
  BY <1>1
<1>5. f[0] = {from}
  BY <1>3
<1>6. ASSUME NEW i \in Nat, i < k PROVE f[i + 1] = Grown(step, f[i])
  <2>1. i + 1 \in 0 .. k /\ i + 1 # 0 /\ (i + 1) - 1 = i
    BY <1>6
  <2>2. f[i + 1] = Grown(step, f[(i + 1) - 1])
    BY <1>3, <2>1
  <2> QED  BY <2>1, <2>2
<1> QED  BY <1>5, <1>6 DEF RoundByRound

\* There is such a function, for any number of rounds.
LEMMA RoundsExist ==
    ASSUME NEW from, NEW step, NEW n \in Nat
    PROVE  \E f : Rounds(from, step, n, f)
<1> DEFINE T == {k \in Nat : ~ \E f : Rounds(from, step, k, f)}
<1>1. SUFFICES ASSUME T # {} PROVE FALSE
  OBVIOUS
<1>2. PICK k \in T : \A y \in T : k <= y
  BY <1>1, LeastOf
<1>3. k # 0
  <2>1. ASSUME k = 0 PROVE FALSE
    <3> DEFINE f == [i \in 0 .. 0 |-> {from}]
    <3>1. f = [i \in 0 .. 0 |-> IF i = 0 THEN {from}
                                ELSE Grown(step, f[i - 1])]
      OBVIOUS
    <3>2. Rounds(from, step, 0, f)
      BY <3>1 DEF Rounds
    <3> HIDE DEF f
    <3> QED  BY <2>1, <3>2
  <2> QED  BY <2>1
<1>4. k \in Nat /\ k - 1 \in Nat /\ ~(k <= k - 1)
  BY <1>3
<1>5. k - 1 \notin T
  BY <1>2, <1>4
<1>6. PICK g : Rounds(from, step, k - 1, g)
  BY <1>4, <1>5
<1>7. /\ g[0] = {from}
      /\ \A i \in Nat : i < k - 1 => g[i + 1] = Grown(step, g[i])
  <2> HIDE DEF T
  <2> DEFINE m == k - 1
  <2>1. m \in Nat /\ Rounds(from, step, m, g)
    BY <1>4, <1>6
  <2> HIDE DEF m
  <2>2. RoundByRound(from, step, m, g)
    BY <2>1, RoundsIs
  <2> QED  BY <2>2 DEF RoundByRound, m
<1> DEFINE f == [i \in 0 .. k |-> IF i = k THEN Grown(step, g[k - 1])
                                  ELSE g[i]]
<1>8. ASSUME NEW i \in 0 .. k
      PROVE  f[i] = IF i = 0 THEN {from} ELSE Grown(step, f[i - 1])
  <2>1. f[i] = IF i = k THEN Grown(step, g[k - 1]) ELSE g[i]
    OBVIOUS
  <2>2. CASE i = 0
    BY <1>3, <1>7, <2>1, <2>2
  <2>3. CASE i # 0
    <3>1. i - 1 \in 0 .. k /\ i - 1 # k /\ i - 1 \in Nat /\ (i - 1) + 1 = i
      BY <1>4, <2>3
    <3>2. f[i - 1] = g[i - 1]
      BY <3>1
    <3>3. CASE i = k
      BY <1>3, <2>1, <3>2, <3>3
    <3>4. CASE i # k
      <4>1. i - 1 < k - 1
        BY <1>4, <3>4
      <4>2. g[(i - 1) + 1] = Grown(step, g[i - 1])
        BY <1>7, <3>1, <4>1
      <4>3. g[i] = Grown(step, g[i - 1])
        BY <3>1, <4>2
      <4> QED  BY <2>1, <2>3, <3>2, <3>4, <4>3
    <3> QED  BY <3>3, <3>4
  <2> QED  BY <2>2, <2>3
<1>9. Rounds(from, step, k, f)
  <2>1. f = [i \in 0 .. k |-> f[i]]
    OBVIOUS
  <2> HIDE DEF f
  <2> QED  BY <1>8, <2>1 DEF Rounds
<1> HIDE DEF f
<1> QED  BY <1>2, <1>9

\* Closure is what the rounds have come to after one for each directory.
LEMMA ClosureRounds ==
    ASSUME NEW from, NEW step
    PROVE  \E f : /\ Rounds(from, step, Cardinality(Dirs), f)
                  /\ Closure(from, step) = f[Cardinality(Dirs)]
<1> DEFINE n == Cardinality(Dirs)
           c == CHOOSE f : Rounds(from, step, n, f)
<1>1. n \in Nat
  BY LfsTreeAssumption, FS_CardinalityType
<1>2. Rounds(from, step, n, c)
  BY <1>1, RoundsExist
<1>3. c = CHOOSE f : f = [i \in 0 .. n |-> IF i = 0 THEN {from}
                                          ELSE Grown(step, f[i - 1])]
  BY DEF Rounds
<1>4. Closure(from, step) = c[n]
  BY <1>3 DEF Closure, Grown
<1> HIDE DEF c
<1> QED  BY <1>2, <1>4

\* What a round adds.
LEMMA GrownIs ==
    ASSUME NEW step, NEW S
    PROVE  /\ \A x : x \in Grown(step, S)
                   <=> x \in S \/ (x # Null /\ \E d \in S : x \in step[d])
           /\ S \subseteq Grown(step, S)
           /\ Still(step, S) <=> Grown(step, S) = S
<1>1. ASSUME NEW x
      PROVE  x \in Grown(step, S)
               <=> x \in S \/ (x # Null /\ \E d \in S : x \in step[d])
  <2> DEFINE U == UNION {step[d] : d \in S}
  <2>1. x \in U <=> \E d \in S : x \in step[d]
    OBVIOUS
  <2>2. Grown(step, S) = S \cup (U \ {Null})
    BY DEF Grown
  <2> HIDE DEF U
  <2> QED  BY <2>1, <2>2
<1> DEFINE G == Grown(step, S)
<1> HIDE DEF G
<1>2. \A x : x \in G
              <=> x \in S \/ (x # Null /\ \E d \in S : x \in step[d])
  BY <1>1 DEF G
<1>3. S \subseteq G /\ (Still(step, S) <=> G \subseteq S)
  BY <1>2 DEF Still
<1> QED  BY <1>1, <1>3 DEF G

\* That many rounds are enough: each one before the last adds a directory.
LEMMA ClosureIs ==
    ASSUME NEW from \in Dirs, NEW step \in Steps
    PROVE  IsClosure(from, step, Closure(from, step))
<1> DEFINE n == Cardinality(Dirs)
<1>1. n \in Nat /\ IsFiniteSet(Dirs) /\ Null \notin Dirs
  BY LfsTreeAssumption, FS_CardinalityType
<1>2. PICK f : Rounds(from, step, n, f) /\ Closure(from, step) = f[n]
  BY ClosureRounds
<1> HIDE DEF n
<1>3. f[0] = {from} /\ \A i \in Nat : i < n => f[i + 1] = Grown(step, f[i])
  <2>1. RoundByRound(from, step, n, f)
    BY <1>1, <1>2, RoundsIs
  <2> QED  BY <2>1 DEF RoundByRound
<1>4. ASSUME NEW S \in SUBSET Dirs, from \in S, Still(step, S),
             NEW j \in 0 .. n
      PROVE  f[j] \subseteq S
  <2> DEFINE T == {i \in Nat : i <= n /\ ~(f[i] \subseteq S)}
  <2>1. SUFFICES ASSUME T # {} PROVE FALSE
    BY <1>1
  <2>2. PICK i \in T : \A y \in T : i <= y
    BY <2>1, LeastOf
  <2>3. i # 0
    BY <1>3, <1>4, <2>2
  <2>4. i - 1 \in Nat /\ i - 1 < n /\ i - 1 <= n /\ (i - 1) + 1 = i
        /\ ~(i <= i - 1)
    BY <1>1, <2>3
  <2>5. i - 1 \notin T
    BY <2>2, <2>4
  <2>6. f[i - 1] \subseteq S
    BY <2>4, <2>5
  <2>7. f[(i - 1) + 1] = Grown(step, f[i - 1])
    BY <1>3, <2>4
  <2>8. f[i] = Grown(step, f[i - 1])
    BY <2>4, <2>7
  <2>9. Grown(step, f[i - 1]) \subseteq S
    BY <1>4, <2>6, GrownIs DEF Still
  <2> QED  BY <2>2, <2>8, <2>9
<1>5. Dirs \in SUBSET Dirs /\ from \in Dirs /\ Still(step, Dirs)
  BY <1>1 DEF Steps, Still
<1>6. \A j \in 0 .. n : f[j] \in SUBSET Dirs
  BY <1>4, <1>5
<1>7. n \in 0 .. n
  BY <1>1
<1>8. from \in f[n]
  <2> DEFINE T == {i \in Nat : i <= n /\ from \notin f[i]}
  <2>1. SUFFICES ASSUME T # {} PROVE FALSE
    BY <1>1
  <2>2. PICK i \in T : \A y \in T : i <= y
    BY <2>1, LeastOf
  <2>3. i # 0
    BY <1>3, <2>2
  <2>4. i - 1 \in Nat /\ i - 1 < n /\ i - 1 <= n /\ (i - 1) + 1 = i
        /\ ~(i <= i - 1)
    BY <1>1, <2>3
  <2>5. i - 1 \notin T
    BY <2>2, <2>4
  <2>6. from \in f[i - 1]
    BY <2>4, <2>5
  <2>7. f[(i - 1) + 1] = Grown(step, f[i - 1])
    BY <1>3, <2>4
  <2>8. f[i] = Grown(step, f[i - 1])
    BY <2>4, <2>7
  <2> QED  BY <2>2, <2>6, <2>8 DEF Grown
<1>9. ASSUME NEW S, Still(step, S) PROVE Grown(step, S) = S
  BY <1>9, GrownIs
<1>10. ASSUME NEW j \in 0 .. n, Still(step, f[j]) PROVE Still(step, f[n])
  <2> DEFINE T == {i \in Nat : i <= n /\ j <= i /\ f[i] # f[j]}
  <2>1. CASE T = {}
    BY <1>1, <1>10, <2>1
  <2>2. CASE T # {}
    <3>1. PICK i \in T : \A y \in T : i <= y
      BY <2>2, LeastOf
    <3>2. i # j /\ j < i
      BY <3>1
    <3>3. i - 1 \in Nat /\ i - 1 < n /\ i - 1 <= n /\ (i - 1) + 1 = i
          /\ ~(i <= i - 1) /\ j <= i - 1
      BY <1>1, <3>2
    <3>4. i - 1 \notin T
      BY <3>1, <3>3
    <3>5. f[i - 1] = f[j]
      BY <3>3, <3>4
    <3>6. f[(i - 1) + 1] = Grown(step, f[i - 1])
      BY <1>3, <3>3
    <3>7. f[i] = Grown(step, f[j])
      BY <3>3, <3>5, <3>6
    <3> QED  BY <1>9, <1>10, <3>1, <3>7
  <2> QED  BY <2>1, <2>2
<1>11. Still(step, f[n])
  <2>1. SUFFICES ASSUME ~Still(step, f[n]) PROVE FALSE
    OBVIOUS
  <2>2. \A j \in 0 .. n : ~Still(step, f[j])
    BY <1>10, <2>1
  <2>3. ASSUME NEW j \in 0 .. n
        PROVE  IsFiniteSet(f[j]) /\ Cardinality(f[j]) \in Nat
    BY <1>1, <1>6, FS_Subset, FS_CardinalityType
  <2> DEFINE T == {i \in Nat : i <= n /\ ~(Cardinality(f[i]) >= i + 1)}
  <2>4. T = {}
    <3>1. SUFFICES ASSUME T # {} PROVE FALSE
      OBVIOUS
    <3>2. PICK i \in T : \A y \in T : i <= y
      BY <3>1, LeastOf
    <3>3. i # 0
      <4>1. Cardinality(f[0]) = 1
        BY <1>3, FS_Singleton
      <4> QED  BY <3>2, <4>1
    <3>4. i - 1 \in Nat /\ i - 1 < n /\ i - 1 <= n /\ (i - 1) + 1 = i
          /\ ~(i <= i - 1) /\ i - 1 \in 0 .. n /\ i \in 0 .. n
      BY <1>1, <3>3
    <3>5. i - 1 \notin T
      BY <3>2, <3>4
    <3>6. Cardinality(f[i - 1]) >= (i - 1) + 1
      BY <3>4, <3>5
    <3>7. f[(i - 1) + 1] = Grown(step, f[i - 1])
      BY <1>3, <3>4
    <3> DEFINE A == f[i - 1]
               B == f[i]
    <3>8. B = Grown(step, A) /\ ~Still(step, A)
      BY <2>2, <3>4, <3>7
    <3>9. A \subseteq B /\ A # B
      BY <3>8, GrownIs
    <3>10. IsFiniteSet(B) /\ IsFiniteSet(A) /\ Cardinality(A) \in Nat
           /\ Cardinality(B) \in Nat
      BY <2>3, <3>4
    <3>11. Cardinality(A) >= i /\ ~(Cardinality(B) >= i + 1)
      BY <3>2, <3>4, <3>6
    <3> HIDE DEF A, B
    <3>12. Cardinality(A) <= Cardinality(B)
           /\ (Cardinality(B) = Cardinality(A) => B = A)
      BY <3>9, <3>10, FS_Subset
    <3> QED  BY <3>9, <3>10, <3>11, <3>12
  <2>5. Cardinality(f[n]) >= n + 1
    BY <1>1, <2>4
  <2>6. Cardinality(f[n]) <= n
    BY <1>1, <1>6, <1>7, FS_Subset DEF n
  <2> QED  BY <1>1, <1>7, <2>3, <2>5, <2>6
<1> QED  BY <1>2, <1>4, <1>6, <1>7, <1>8, <1>11 DEF IsClosure

\* There is one such set.
LEMMA OneClosure ==
    ASSUME NEW a, NEW s, NEW C, NEW D, IsClosure(a, s, C), IsClosure(a, s, D)
    PROVE  C = D
BY DEF IsClosure

\* What is reached is reached from another one.
LEMMA HasParent ==
    ASSUME NEW a, NEW s, NEW C, IsClosure(a, s, C), NEW x \in C, x # a
    PROVE  \E p \in C \ {x} : x \in s[p]
<1>1. SUFFICES ASSUME ~ \E p \in C \ {x} : x \in s[p] PROVE FALSE
  OBVIOUS
<1>2. Still(s, C \ {x}) /\ C \ {x} \in SUBSET Dirs /\ a \in C \ {x}
  BY <1>1 DEF IsClosure, Still
<1> QED  BY <1>2 DEF IsClosure

\* Steps that agree on what is reached reach the same.
LEMMA SameClosure ==
    ASSUME NEW a, NEW s, NEW t, NEW C, IsClosure(a, s, C),
           \A d \in C : \A y \in Dirs : y \in s[d] <=> y \in t[d],
           \A d \in C : \A y \in t[d] : y \in Dirs \cup {Null},
           \A d \in C : \A y \in s[d] : y \in Dirs \cup {Null}
    PROVE  IsClosure(a, t, C)
<1>1. Still(t, C)
  BY DEF IsClosure, Still
<1>2. ASSUME NEW S \in SUBSET Dirs, a \in S, Still(t, S) PROVE C \subseteq S
  <2>1. Still(s, S \cap C) /\ a \in S \cap C /\ S \cap C \in SUBSET Dirs
    BY <1>2 DEF IsClosure, Still
  <2>2. C \subseteq S \cap C
    BY <2>1 DEF IsClosure
  <2> QED  BY <2>2
<1> QED  BY <1>1, <1>2 DEF IsClosure

\* The directories that a step function leads to.
LEMMA StepIs ==
    ASSUME NEW s \in Steps, NEW d \in Dirs, NEW y \in s[d], y # Null
    PROVE  y \in Dirs
BY DEF Steps

\* One that leads nowhere is cut off.
LEMMA DropLeaf ==
    ASSUME NEW a, NEW s \in Steps, NEW t \in Steps, NEW C, IsClosure(a, s, C),
           NEW x \in C, x # a, \A y \in s[x] : y = Null,
           \A d \in C \ {x} : \A y \in Dirs :
              y \in t[d] <=> y \in s[d] /\ y # x
    PROVE  IsClosure(a, t, C \ {x})
<1>1. C \in SUBSET Dirs /\ a \in C /\ Still(s, C)
  BY DEF IsClosure
<1>2. ASSUME NEW d \in C \ {x}, NEW y \in t[d], y # Null
      PROVE  y \in C \ {x}
  <2>1. y \in Dirs
    BY <1>1, <1>2, StepIs
  <2>2. y \in s[d] /\ y # x
    BY <1>2, <2>1
  <2> QED  BY <1>1, <1>2, <2>2 DEF Still
<1>3. ASSUME NEW S \in SUBSET Dirs, a \in S, Still(t, S)
      PROVE  C \ {x} \subseteq S
  <2> DEFINE U == (S \cap C) \cup {x}
  <2>1. ASSUME NEW d \in U, NEW y \in s[d], y # Null PROVE y \in U
    <3>1. d # x
      BY <2>1
    <3>2. d \in S /\ d \in C \ {x} /\ d \in Dirs
      BY <1>1, <3>1
    <3>3. y \in C /\ y \in Dirs
      BY <1>1, <2>1, <3>2 DEF Still
    <3>4. CASE y = x
      BY <3>4
    <3>5. CASE y # x
      BY <1>3, <2>1, <3>2, <3>3, <3>5 DEF Still
    <3> QED  BY <3>4, <3>5
  <2>2. Still(s, U) /\ U \in SUBSET Dirs /\ a \in U
    BY <1>1, <1>3, <2>1 DEF Still
  <2>3. C \subseteq U
    BY <2>2 DEF IsClosure
  <2> QED  BY <2>3
<1>4. Still(t, C \ {x})
  BY <1>2 DEF Still
<1> QED  BY <1>1, <1>3, <1>4 DEF IsClosure

\* p leads where x has led.
LEMMA Bypass ==
    ASSUME NEW a, NEW s \in Steps, NEW t \in Steps, NEW C, IsClosure(a, s, C),
           NEW x \in C, x # a, NEW p \in C \ {x},
           \A y \in s[p] : y \in {x, Null}, x \notin s[x],
           \A d \in C \ {x, p} : x \notin s[d] /\ t[d] = s[d],
           t[p] = s[x]
    PROVE  IsClosure(a, t, C \ {x})
<1>1. C \in SUBSET Dirs /\ a \in C /\ Still(s, C)
  BY DEF IsClosure
<1>2. ASSUME NEW d \in C \ {x}, NEW y \in t[d], y # Null
      PROVE  y \in C \ {x}
  <2>1. CASE d = p
    BY <1>1, <1>2, <2>1 DEF Still
  <2>2. CASE d # p
    BY <1>1, <1>2, <2>2 DEF Still
  <2> QED  BY <2>1, <2>2
<1>3. ASSUME NEW S \in SUBSET Dirs, a \in S, Still(t, S)
      PROVE  C \ {x} \subseteq S
  <2>1. CASE p \in S
    <3> DEFINE U == (S \cap C) \cup {x}
    <3>1. ASSUME NEW d \in U, NEW y \in s[d], y # Null PROVE y \in U
      <4>1. CASE d = p
        BY <3>1, <4>1
      <4>2. CASE d = x
        <5>1. y \in t[p] /\ y \in C
          BY <1>1, <3>1, <4>2 DEF Still
        <5> QED  BY <1>3, <2>1, <3>1, <5>1 DEF Still
      <4>3. CASE d # p /\ d # x
        <5>1. y \in t[d] /\ y \in C /\ d \in S
          BY <1>1, <3>1, <4>3 DEF Still
        <5> QED  BY <1>3, <3>1, <5>1 DEF Still
      <4> QED  BY <4>1, <4>2, <4>3
    <3>2. Still(s, U) /\ U \in SUBSET Dirs /\ a \in U
      BY <1>1, <1>3, <3>1 DEF Still
    <3>3. C \subseteq U
      BY <3>2 DEF IsClosure
    <3> QED  BY <3>3
  <2>2. CASE p \notin S
    <3> DEFINE U == (S \cap C) \ {x}
    <3>1. ASSUME NEW d \in U, NEW y \in s[d], y # Null PROVE y \in U
      <4>1. d \in C \ {x, p} /\ d \in S
        BY <2>2
      <4>2. y \in t[d] /\ y # x /\ y \in C
        BY <1>1, <3>1, <4>1 DEF Still
      <4> QED  BY <1>3, <3>1, <4>1, <4>2 DEF Still
    <3>2. Still(s, U) /\ U \in SUBSET Dirs /\ a \in U
      BY <1>1, <1>3, <3>1 DEF Still
    <3>3. C \subseteq U
      BY <3>2 DEF IsClosure
    <3> QED  BY <3>3
  <2> QED  BY <2>1, <2>2
<1>4. Still(t, C \ {x})
  BY <1>2 DEF Still
<1> QED  BY <1>1, <1>3, <1>4 DEF IsClosure

\* A new one, that leads nowhere, under p.
LEMMA AddLeaf ==
    ASSUME NEW a, NEW s \in Steps, NEW t \in Steps, NEW C, IsClosure(a, s, C),
           NEW x \in Dirs \ C, NEW p \in C, \A y \in t[x] : y = Null,
           \A d \in C : \A y \in Dirs :
              y \in t[d] <=> y \in s[d] \/ (d = p /\ y = x)
    PROVE  IsClosure(a, t, C \cup {x})
<1>1. C \in SUBSET Dirs /\ a \in C /\ Still(s, C)
  BY DEF IsClosure
<1>2. ASSUME NEW d \in C \cup {x}, NEW y \in t[d], y # Null
      PROVE  y \in C \cup {x}
  <2>1. d \in C /\ d \in Dirs
    BY <1>1, <1>2
  <2>2. y \in Dirs
    BY <1>2, <2>1, StepIs
  <2>3. y \in s[d] \/ y = x
    BY <2>1, <2>2
  <2> QED  BY <1>1, <1>2, <2>1, <2>3 DEF Still
<1>3. ASSUME NEW S \in SUBSET Dirs, a \in S, Still(t, S)
      PROVE  C \cup {x} \subseteq S
  <2> DEFINE U == S \cap C
  <2>1. ASSUME NEW d \in U, NEW y \in s[d], y # Null PROVE y \in U
    <3>1. y \in C /\ y \in Dirs
      BY <1>1, <2>1 DEF Still
    <3>2. y \in t[d]
      BY <2>1, <3>1
    <3> QED  BY <1>3, <2>1, <3>1, <3>2 DEF Still
  <2>2. Still(s, U) /\ U \in SUBSET Dirs /\ a \in U
    BY <1>1, <1>3, <2>1 DEF Still
  <2>3. C \subseteq S
    BY <2>2 DEF IsClosure
  <2>4. x \in t[p] /\ x # Null
    BY LfsTreeAssumption
  <2> QED  BY <1>3, <2>3, <2>4 DEF Still
<1>4. Still(t, C \cup {x})
  BY <1>2 DEF Still
<1> QED  BY <1>1, <1>3, <1>4 DEF IsClosure

\* A new one between p and where p has led.
LEMMA AddBetween ==
    ASSUME NEW a, NEW s \in Steps, NEW t \in Steps, NEW C, IsClosure(a, s, C),
           NEW x \in Dirs \ C, NEW p \in C, t[p] = {x}, t[x] = s[p],
           \A d \in C \ {p} : t[d] = s[d]
    PROVE  IsClosure(a, t, C \cup {x})
<1>1. C \in SUBSET Dirs /\ a \in C /\ Still(s, C)
  BY DEF IsClosure
<1>2. ASSUME NEW d \in C \cup {x}, NEW y \in t[d], y # Null
      PROVE  y \in C \cup {x}
  <2>1. CASE d = p
    BY <1>2, <2>1
  <2>2. CASE d = x
    BY <1>1, <1>2, <2>2 DEF Still
  <2>3. CASE d # p /\ d # x
    BY <1>1, <1>2, <2>3 DEF Still
  <2> QED  BY <2>1, <2>2, <2>3
<1>3. ASSUME NEW S \in SUBSET Dirs, a \in S, Still(t, S)
      PROVE  C \cup {x} \subseteq S
  <2> DEFINE U == S \cap C
  <2>1. x # Null
    BY LfsTreeAssumption
  <2>2. p \in S => x \in S
    BY <1>3, <2>1 DEF Still
  <2>3. ASSUME NEW d \in U, NEW y \in s[d], y # Null PROVE y \in U
    <3>1. y \in C
      BY <1>1, <2>3 DEF Still
    <3>2. CASE d = p
      <4>1. y \in t[x] /\ x \in S
        BY <2>2, <2>3, <3>2
      <4> QED  BY <1>3, <2>3, <3>1, <4>1 DEF Still
    <3>3. CASE d # p
      <4>1. y \in t[d]
        BY <2>3, <3>3
      <4> QED  BY <1>3, <2>3, <3>1, <4>1 DEF Still
    <3> QED  BY <3>2, <3>3
  <2>4. Still(s, U) /\ U \in SUBSET Dirs /\ a \in U
    BY <1>1, <1>3, <2>3 DEF Still
  <2>5. C \subseteq S
    BY <2>4 DEF IsClosure
  <2> QED  BY <2>2, <2>5
<1>4. Still(t, C \cup {x})
  BY <1>2 DEF Still
<1> QED  BY <1>1, <1>3, <1>4 DEF IsClosure

\* One comes under e, which is not below it, from wherever it was.
LEMMA MoveEdge ==
    ASSUME NEW a, NEW s \in Steps, NEW t \in Steps, NEW C, IsClosure(a, s, C),
           NEW x \in C, NEW e \in C, NEW B \in SUBSET Dirs, x \in B,
           Still(s, B), e \notin B,
           \A d \in C : \A y \in Dirs :
              y \in t[d] <=> (y \in s[d] /\ y # x) \/ (d = e /\ y = x)
    PROVE  IsClosure(a, t, C)
<1>1. C \in SUBSET Dirs /\ a \in C /\ Still(s, C) /\ x # Null
  BY LfsTreeAssumption DEF IsClosure
<1>2. ASSUME NEW d \in C, NEW y \in t[d], y # Null PROVE y \in C
  <2>1. y \in Dirs
    BY <1>1, <1>2, StepIs
  <2>2. y \in s[d] \/ y = x
    BY <2>1
  <2> QED  BY <1>1, <1>2, <2>2 DEF Still
<1>3. ASSUME NEW S \in SUBSET Dirs, a \in S, Still(t, S) PROVE C \subseteq S
  <2>1. ASSUME NEW d \in S \cap C, NEW y \in s[d], y # Null, y # x
        PROVE  y \in S \cap C
    <3>1. y \in C /\ y \in Dirs
      BY <1>1, <2>1 DEF Still
    <3>2. y \in t[d]
      BY <2>1, <3>1
    <3> QED  BY <1>3, <2>1, <3>1, <3>2 DEF Still
  <2> DEFINE U == (S \cap C) \cup (B \cap C)
  <2>2. ASSUME NEW d \in U, NEW y \in s[d], y # Null PROVE y \in U
    <3>1. y \in C
      BY <1>1, <2>2 DEF Still
    <3>2. CASE d \in B
      BY <2>2, <3>1, <3>2 DEF Still
    <3>3. CASE d \in S \cap C
      BY <2>1, <2>2, <3>1, <3>3
    <3> QED  BY <3>2, <3>3
  <2>3. Still(s, U) /\ U \in SUBSET Dirs /\ a \in U
    BY <1>1, <1>3, <2>2 DEF Still
  <2>4. e \in S
    BY <2>3 DEF IsClosure
  <2>5. x \in t[e]
    BY <1>1
  <2>6. x \in S
    BY <1>1, <1>3, <2>4, <2>5 DEF Still
  <2> DEFINE V == S \cap C
  <2>7. Still(s, V) /\ V \in SUBSET Dirs /\ a \in V
    BY <1>1, <1>3, <2>1, <2>6 DEF Still
  <2> QED  BY <2>7 DEF IsClosure
<1>4. Still(t, C)
  BY <1>2 DEF Still
<1> QED  BY <1>1, <1>3, <1>4 DEF IsClosure

(***************************************************************************)
(* Shares of the global state                                              *)
(***************************************************************************)

Odd(T) == Cardinality(T) % 2 = 1

\* The directories of L whose share has a, and the state the shares make.
Holders(L, dk, a) == {d \in L : a \in dk[d].g}
Shares(L, dk, G) == \A a : a \in G <=> Odd(Holders(L, dk, a))

\* One element more or less.
LEMMA OddToggle ==
    ASSUME NEW T \in SUBSET Dirs, NEW x, x \notin T
    PROVE  Odd(T \cup {x}) <=> ~Odd(T)
<1>1. IsFiniteSet(T)
  BY LfsTreeAssumption, FS_Subset
<1>2. Cardinality(T) \in Nat /\ Cardinality(T \cup {x}) = Cardinality(T) + 1
  BY <1>1, FS_CardinalityType, FS_AddElement
<1> DEFINE n == Cardinality(T)
<1> HIDE DEF n
<1>3. (n + 1) % 2 = 1 <=> ~(n % 2 = 1)
  BY <1>2 DEF n
<1> QED  BY <1>2, <1>3 DEF Odd, n

\* The same from a set to one that differs in x.
LEMMA OddToggled ==
    ASSUME NEW T \in SUBSET Dirs, NEW U \in SUBSET Dirs, NEW x,
           x \in T <=> x \notin U, \A y : y # x => (y \in T <=> y \in U)
    PROVE  Odd(T) <=> ~Odd(U)
<1>1. CASE x \in T
  <2>1. T = U \cup {x} /\ x \notin U
    BY <1>1
  <2> QED  BY <2>1, OddToggle
<1>2. CASE x \notin T
  <2>1. U = T \cup {x}
    BY <1>2
  <2> QED  BY <1>2, <2>1, OddToggle
<1> QED  BY <1>1, <1>2

\* What xor does with one element.
LEMMA XorIs ==
    ASSUME NEW A, NEW B, NEW x
    PROVE  x \in Xor(A, B) <=> ~(x \in A <=> x \in B)
BY DEF Xor

\* A commit that adds D to the share of d.
LEMMA SharesCommit ==
    ASSUME NEW L \in SUBSET Dirs, NEW dk, NEW dl, NEW G, Shares(L, dk, G),
           NEW d \in L, NEW D, dl[d].g = Xor(dk[d].g, D),
           \A x \in L \ {d} : dl[x].g = dk[x].g
    PROVE  Shares(L, dl, Xor(G, D))
<1> SUFFICES ASSUME NEW a
             PROVE  a \in Xor(G, D) <=> Odd(Holders(L, dl, a))
  BY DEF Shares
<1> DEFINE T == Holders(L, dk, a)
           U == Holders(L, dl, a)
<1>1. T \in SUBSET Dirs /\ U \in SUBSET Dirs /\ (a \in G <=> Odd(T))
  BY DEF Holders, Shares
<1>2. a \in dl[d].g <=> ~(a \in dk[d].g <=> a \in D)
  BY XorIs
<1>3. d \in U <=> ~(d \in T <=> a \in D)
  BY <1>2 DEF Holders
<1>4. \A x : x # d => (x \in T <=> x \in U)
  BY DEF Holders
<1> HIDE DEF T, U
<1>5. CASE a \in D
  <2>1. Odd(T) <=> ~Odd(U)
    BY <1>1, <1>3, <1>4, <1>5, OddToggled
  <2> QED  BY <1>1, <1>5, <2>1, XorIs DEF U
<1>6. CASE a \notin D
  <2>1. T = U
    BY <1>3, <1>4, <1>6
  <2> QED  BY <1>1, <1>6, <2>1, XorIs DEF U
<1> QED  BY <1>5, <1>6

\* The directory c joins those of the list L, whose shares stay.
Joins(L, dk, dl, G, c) ==
    /\ L \in SUBSET Dirs /\ c \in Dirs \ L
    /\ Shares(L, dk, G)
    /\ \A x \in L : dl[x].g = dk[x].g

\* One more directory on the list.
LEMMA SharesInsert ==
    ASSUME NEW L, NEW dk, NEW dl, NEW G, NEW c, Joins(L, dk, dl, G, c)
    PROVE  Shares(L \cup {c}, dl, Xor(G, dl[c].g))
<1> DEFINE h == dl[c].g
<1> SUFFICES ASSUME NEW a
             PROVE  a \in Xor(G, h) <=> Odd(Holders(L \cup {c}, dl, a))
  BY DEF Shares
<1>0. /\ L \in SUBSET Dirs /\ c \in Dirs \ L /\ Shares(L, dk, G)
      /\ \A x \in L : dl[x].g = dk[x].g
  BY DEF Joins
<1> DEFINE T == Holders(L, dk, a)
           U == Holders(L \cup {c}, dl, a)
<1>1. T \in SUBSET Dirs /\ U \in SUBSET Dirs /\ (a \in G <=> Odd(T))
  BY <1>0 DEF Holders, Shares
<1>2. c \notin T /\ (c \in U <=> a \in h)
  BY <1>0 DEF Holders
<1>3. \A x : x # c => (x \in T <=> x \in U)
  BY <1>0 DEF Holders
<1> HIDE DEF T, U
<1>4. CASE a \in h
  <2>1. Odd(T) <=> ~Odd(U)
    BY <1>1, <1>2, <1>3, <1>4, OddToggled
  <2> QED  BY <1>1, <1>4, <2>1, XorIs DEF U
<1>5. CASE a \notin h
  <2>1. \A x : x \in T <=> x \in U
    <3>1. c \notin T /\ c \notin U
      BY <1>2, <1>5
    <3> QED  BY <1>3, <3>1
  <2>2. T = U
    BY <2>1
  <2> QED  BY <1>1, <1>5, <2>2, XorIs DEF U
<1> QED  BY <1>4, <1>5

\* One less, whose share another takes over.
LEMMA SharesDrop ==
    ASSUME NEW L \in SUBSET Dirs, NEW dk, NEW dl, NEW G, Shares(L, dk, G),
           NEW c \in L, NEW p \in L \ {c}, NEW D,
           dl[p].g = Xor(dk[p].g, Xor(D, dk[c].g)),
           \A x \in L \ {p, c} : dl[x].g = dk[x].g
    PROVE  Shares(L \ {c}, dl, Xor(G, D))
<1> DEFINE M == L \ {c}
           H == Xor(G, dk[c].g)
<1>1. M \in SUBSET Dirs /\ p \in M
  OBVIOUS
<1>2. Shares(M, dk, H)
  <2> SUFFICES ASSUME NEW a PROVE a \in H <=> Odd(Holders(M, dk, a))
    BY DEF Shares
  <2> DEFINE T == Holders(L, dk, a)
             U == Holders(M, dk, a)
  <2>1. T \in SUBSET Dirs /\ U \in SUBSET Dirs /\ (a \in G <=> Odd(T))
    BY DEF Holders, Shares
  <2>2. c \notin U /\ (c \in T <=> a \in dk[c].g)
    BY DEF Holders
  <2>3. \A x : x # c => (x \in T <=> x \in U)
    BY DEF Holders
  <2>4. a \in H <=> ~(a \in G <=> a \in dk[c].g)
    BY XorIs
  <2> HIDE DEF T, U, H
  <2>5. CASE a \in dk[c].g
    <3>1. Odd(T) <=> ~Odd(U)
      BY <2>1, <2>2, <2>3, <2>5, OddToggled
    <3> QED  BY <2>1, <2>4, <2>5, <3>1 DEF U
  <2>6. CASE a \notin dk[c].g
    <3>1. T = U
      BY <2>2, <2>3, <2>6
    <3> QED  BY <2>1, <2>4, <2>6, <3>1 DEF U
  <2> QED  BY <2>5, <2>6
<1>3. \A x \in M \ {p} : dl[x].g = dk[x].g
  OBVIOUS
<1> DEFINE E == Xor(D, dk[c].g)
<1>4. Xor(H, E) = Xor(G, D)
  <2>1. ASSUME NEW a PROVE a \in Xor(H, E) <=> a \in Xor(G, D)
    <3>1. a \in H <=> ~(a \in G <=> a \in dk[c].g)
      BY XorIs
    <3>2. a \in E <=> ~(a \in D <=> a \in dk[c].g)
      BY XorIs
    <3>3. a \in Xor(G, D) <=> ~(a \in G <=> a \in D)
      BY XorIs
    <3> HIDE DEF H, E
    <3>4. a \in Xor(H, E) <=> ~(a \in H <=> a \in E)
      BY XorIs
    <3> QED  BY <3>1, <3>2, <3>3, <3>4
  <2> HIDE DEF H, E
  <2> QED  BY <2>1
<1> HIDE DEF M, H, E
<1>5. dl[p].g = Xor(dk[p].g, E)
  BY DEF E
<1>6. Shares(M, dl, Xor(H, E))
  BY <1>1, <1>2, <1>3, <1>5, SharesCommit
<1> QED  BY <1>4, <1>6 DEF M

(***************************************************************************)
(* What is on the disk                                                     *)
(***************************************************************************)

Entries == {Absent, File} \cup {Dir(d) : d \in Dirs}
Atoms == Orphans \cup {<<"move", d, n>> : d \in Dirs, n \in Names}
Rows == [Names -> Entries]
Pairs == [kids : Rows, tail : Dirs \cup {Null}, g : SUBSET Atoms]
Disks == [Dirs -> Pairs]

\* The operators of LfsTree for a disk dk: the tails, what a reader sees
\* under global state g, where that leads, and the tree over R.
Tails(dk) == [d \in Dirs |-> {dk[d].tail}]
See(dk, g, d) == [n \in Names |-> IF <<"move", d, n>> \in g THEN Absent
                                  ELSE dk[d].kids[n]]
Subs(dk, g) == [d \in Dirs |-> {See(dk, g, d)[n].pair : n \in Names}]
TreeOf(dk, g, R) == [d \in R |-> See(dk, g, d)]

\* An entry is one of three kinds.
LEMMA EntryIs ==
    ASSUME NEW e \in Entries
    PROVE  /\ e.pair \in Dirs \cup {Null}
           /\ e.type \in {"absent", "file", "dir"}
           /\ e.pair # Null <=> e.type = "dir"
           /\ e = Absent <=> e.type = "absent"
           /\ e = File <=> e.type = "file"
<1>1. Null \notin Dirs
  BY LfsTreeAssumption
<1>2. CASE e = Absent
  BY <1>2 DEF Absent, File
<1>3. CASE e = File
  BY <1>3 DEF Absent, File
<1>4. CASE \E d \in Dirs : e = Dir(d)
  BY <1>1, <1>4 DEF Absent, File, Dir
<1> QED  BY <1>2, <1>3, <1>4 DEF Entries

\* The three kinds, with the directory each leads to.
LEMMA PlainEntries ==
    /\ Absent \in Entries /\ File \in Entries
    /\ Absent.pair = Null /\ File.pair = Null /\ Absent # File
    /\ \A d \in Dirs : Dir(d) \in Entries /\ Dir(d).pair = d
BY DEF Entries, Absent, File, Dir

\* What a global state records.
LEMMA AtomIs ==
    ASSUME NEW d, NEW n
    PROVE  /\ <<"move", d, n>> # <<"orphans">>
           /\ \A e, m : <<"move", d, n>> = <<"move", e, m>> => d = e /\ n = m
           /\ \A g : g \subseteq Orphans => <<"move", d, n>> \notin g
<1>1. <<"move", d, n>> # <<"orphans">>
  OBVIOUS
<1>2. \A e, m : <<"move", d, n>> = <<"move", e, m>> => d = e /\ n = m
  OBVIOUS
<1> QED  BY <1>1, <1>2 DEF Orphans

\* A state without a pending move.
LEMMA NoMoveIs ==
    ASSUME NEW g, PendingMove(g) = {}
    PROVE  g \subseteq Orphans /\ g \ Orphans = {}
BY DEF PendingMove

\* What a reader sees is a row of entries: those on the disk, if no move is
\* pending.
LEMMA SeeIs ==
    ASSUME NEW dk \in Disks, NEW g, NEW d \in Dirs
    PROVE  /\ See(dk, g, d) \in Rows
           /\ \A n \in Names :
                See(dk, g, d)[n] = IF <<"move", d, n>> \in g THEN Absent
                                   ELSE dk[d].kids[n]
           /\ g \subseteq Orphans => See(dk, g, d) = dk[d].kids
<1>1. dk[d].kids \in Rows
  BY DEF Disks, Pairs
<1>2. \A n \in Names :
        See(dk, g, d)[n] = IF <<"move", d, n>> \in g THEN Absent
                           ELSE dk[d].kids[n]
  BY DEF See
<1>3. See(dk, g, d) \in Rows
  BY <1>1, PlainEntries DEF See, Rows
<1>4. ASSUME g \subseteq Orphans PROVE See(dk, g, d) = dk[d].kids
  <2>1. \A n \in Names : See(dk, g, d)[n] = dk[d].kids[n]
    BY <1>2, <1>4, AtomIs
  <2> QED  BY <1>1, <1>3, <2>1 DEF Rows
<1> QED  BY <1>2, <1>3, <1>4

\* Where the tails and the entries lead.
LEMMA StepsAre ==
    ASSUME NEW dk \in Disks, NEW g
    PROVE  /\ Tails(dk) \in Steps
           /\ \A d \in Dirs : Tails(dk)[d] = {dk[d].tail}
           /\ Subs(dk, g) \in Steps
           /\ \A d \in Dirs : \A y :
                y \in Subs(dk, g)[d]
                  <=> \E n \in Names : See(dk, g, d)[n].pair = y
<1>1. \A d \in Dirs : dk[d].tail \in Dirs \cup {Null}
  BY DEF Disks, Pairs
<1>2. Tails(dk) \in Steps /\ \A d \in Dirs : Tails(dk)[d] = {dk[d].tail}
  BY <1>1 DEF Tails, Steps
<1>3. ASSUME NEW d \in Dirs, NEW n \in Names
      PROVE  See(dk, g, d)[n].pair \in Dirs \cup {Null}
  BY SeeIs, EntryIs DEF Rows
<1>4. \A d \in Dirs :
        Subs(dk, g)[d] = {See(dk, g, d)[n].pair : n \in Names}
  BY DEF Subs
<1>5. ASSUME NEW d \in Dirs
      PROVE  {See(dk, g, d)[n].pair : n \in Names}
               \in SUBSET (Dirs \cup {Null})
  BY <1>3
<1>6. Subs(dk, g) \in Steps
  BY <1>5 DEF Subs, Steps
<1>7. ASSUME NEW d \in Dirs, NEW y
      PROVE  y \in Subs(dk, g)[d]
               <=> \E n \in Names : See(dk, g, d)[n].pair = y
  BY <1>4
<1> QED  BY <1>2, <1>6, <1>7

(***************************************************************************)
(* The invariant                                                           *)
(***************************************************************************)

\* The list is a line: no two tails are the same, and none is the root.
ListLine(dk, L) ==
    /\ \A d, e \in L : dk[d].tail = dk[e].tail /\ dk[d].tail # Null => d = e
    /\ \A d \in L : dk[d].tail # Root

\* What is reached is a tree: no two entries are of the same directory, and
\* none is the root's.
Parents(dk, g, R) ==
    \A d, e \in R : \A n, m \in Names :
      See(dk, g, d)[n].pair # Null
        => /\ See(dk, g, d)[n].pair # Root
           /\ See(dk, g, d)[n].pair = See(dk, g, e)[m].pair => d = e /\ n = m

\* A move that is pending is from a directory on the list.
MoveIs(G, L) ==
    \/ PendingMove(G) = {}
    \/ \E d \in L, n \in Names : PendingMove(G) = Move(d, n)

\* The disk dk has the list L, the global state G and the tree over R; what
\* is on the list only is empty.
DiskInv(dk, L, R, G) ==
    /\ dk \in Disks /\ G \in SUBSET Atoms
    /\ IsClosure(Root, Tails(dk), L) /\ ListLine(dk, L) /\ Shares(L, dk, G)
    /\ IsClosure(Root, Subs(dk, G), R) /\ Parents(dk, G, R) /\ R \subseteq L
    /\ \A c \in L \ R : dk[c].kids = Empty
    /\ MoveIs(G, L)

\* Between operations nothing is on the list only, unless the flag says so.
IdlePhase(dk, L, R, G, gs, gd, o, tr) ==
    /\ o.at = "idle" /\ gd = G /\ gs \in {G, G \ Orphans}
    /\ gs \cap Orphans = {} => L = R
    /\ tr.old = tr.new /\ tr.new = TreeOf(dk, G, R)

\* The new directory is written but on no list: a mount sees the old tree.
InsertPhase(dk, L, R, G, gs, gd, o, tr) ==
    /\ o.at = "insert" /\ gs = {} /\ gd = {} /\ G \subseteq Orphans /\ L = R
    /\ o.c \in Dirs \ L /\ o.d \in R /\ o.n \in Names
    /\ dk[o.c].g = G /\ dk[o.c].kids = Empty /\ dk[o.c].tail = dk[o.d].tail
    /\ dk[o.d].kids[o.n] = Absent
    /\ tr.old = TreeOf(dk, G, R)
    /\ tr.new = [x \in R \cup {o.c} |->
                   IF x = o.c THEN Empty
                   ELSE Set(TreeOf(dk, G, R), o.d, o.n, Dir(o.c))[x]]

\* The removed directory alone is on the list and not in the tree.
DropPhase(dk, L, R, G, gs, gd, o, tr) ==
    /\ o.at = "drop" /\ G = Orphans /\ gs = G /\ gd = G
    /\ o.c \in L /\ o.c \notin R /\ L = R \cup {o.c}
    /\ tr.new = TreeOf(dk, G, R)

\* The old entry is hidden by the record of the move.
UnlinkPhase(dk, L, R, G, gs, gd, o, tr) ==
    /\ o.at = "unlink" /\ gs = G /\ gd = G
    /\ o.d \in L /\ o.n \in Names /\ PendingMove(G) = Move(o.d, o.n)
    /\ o.c = Null => L = R /\ G \cap Orphans = {}
    /\ o.c # Null => /\ o.c \in L /\ o.c \notin R /\ L = R \cup {o.c}
                     /\ Orphans \subseteq G
    /\ tr.new = TreeOf(dk, G, R)

Ops == [at : {"idle", "insert", "drop", "unlink"}, d : Dirs,
        n : Names \cup {Null}, c : Dirs \cup {Null}]

Phase(dk, L, R, G, gs, gd, o, tr) ==
    /\ o \in Ops
    /\ \/ IdlePhase(dk, L, R, G, gs, gd, o, tr)
       \/ InsertPhase(dk, L, R, G, gs, gd, o, tr)
       \/ DropPhase(dk, L, R, G, gs, gd, o, tr)
       \/ UnlinkPhase(dk, L, R, G, gs, gd, o, tr)

TreeInv == \E L, R, G : /\ DiskInv(disk, L, R, G)
                        /\ Phase(disk, L, R, G, gstate, gdisk, op, tree)

\* What the operators of LfsTree are then.
LEMMA NamesAre ==
    ASSUME NEW L, NEW R, NEW G, DiskInv(disk, L, R, G)
    PROVE  /\ List = L /\ OnDisk = G /\ Reached(G) = R
           /\ Tree(G) = TreeOf(disk, G, R)
           /\ \A g, d : Seen(g, d) = See(disk, g, d)
           /\ \A g : \A d \in Dirs : Subdirs(g, d) = Subs(disk, g)[d]
<1>1. disk \in Disks /\ Root \in Dirs
  BY LfsTreeAssumption DEF DiskInv
<1>2. List = Closure(Root, Tails(disk))
  BY DEF List, Tails
<1>3. IsClosure(Root, Tails(disk), List)
  BY <1>1, <1>2, StepsAre, ClosureIs
<1>4. List = L
  BY <1>3, OneClosure DEF DiskInv
<1>5. \A g, d : Seen(g, d) = See(disk, g, d)
  BY DEF Seen, See
<1>6. ASSUME NEW g, NEW d \in Dirs PROVE Subdirs(g, d) = Subs(disk, g)[d]
  <2>1. Subdirs(g, d) = {See(disk, g, d)[n].pair : n \in Names}
    BY <1>5 DEF Subdirs
  <2> QED  BY <2>1 DEF Subs
<1>7. Reached(G) = Closure(Root, Subs(disk, G))
  <2>1. [d \in Dirs |-> Subdirs(G, d)] = Subs(disk, G)
    <3>1. Subs(disk, G) = [d \in Dirs |-> Subs(disk, G)[d]]
      BY DEF Subs
    <3> QED  BY <1>6, <3>1
  <2> QED  BY <2>1 DEF Reached
<1>8. IsClosure(Root, Subs(disk, G), Reached(G))
  BY <1>1, <1>7, StepsAre, ClosureIs
<1>9. Reached(G) = R
  BY <1>8, OneClosure DEF DiskInv
<1>10. Tree(G) = TreeOf(disk, G, R)
  BY <1>5, <1>9 DEF Tree, TreeOf
<1>11. OnDisk = G
  <2> DEFINE U == UNION {disk[d].g : d \in L}
  <2>1. OnDisk = {a \in U : Cardinality({d \in L : a \in disk[d].g}) % 2 = 1}
    BY <1>4 DEF OnDisk
  <2>2. \A a : a \in U <=> \E d \in L : a \in disk[d].g
    OBVIOUS
  <2> HIDE DEF U
  <2>3. ASSUME NEW a PROVE a \in OnDisk <=> a \in G
    <3> DEFINE T == {d \in L : a \in disk[d].g}
    <3>1. a \in G <=> Cardinality(T) % 2 = 1
      BY DEF DiskInv, Shares, Holders, Odd
    <3>2. a \in OnDisk <=> a \in U /\ Cardinality(T) % 2 = 1
      BY <2>1
    <3>3. a \notin U => T = {}
      BY <2>2
    <3>4. T = {} => Cardinality(T) = 0
      BY FS_EmptySet
    <3>5. T = {} => ~(Cardinality(T) % 2 = 1)
      BY <3>4
    <3> HIDE DEF T
    <3> QED  BY <3>1, <3>2, <3>3, <3>5
  <2> QED  BY <2>3
<1> QED  BY <1>4, <1>5, <1>6, <1>9, <1>10, <1>11

(***************************************************************************)
(* Commits                                                                 *)
(***************************************************************************)

\* The disk after lfs2_dir_commit, as Commit has it.
Committed(dk, d, kids, tail, g, gd, stolen) ==
    [dk EXCEPT ![d] = [kids |-> kids, tail |-> tail,
                       g |-> Xor(@.g, Xor(Xor(g, gd), stolen))]]

\* Global states stay global states.
LEMMA XorAtoms ==
    ASSUME NEW A \in SUBSET Atoms, NEW B \in SUBSET Atoms
    PROVE  Xor(A, B) \in SUBSET Atoms
BY DEF Xor

\* The difference brings the state from G to g.
LEMMA XorBack ==
    ASSUME NEW G, NEW g
    PROVE  Xor(G, Xor(g, G)) = g /\ Xor(G, Xor(Xor(g, G), {})) = g
BY DEF Xor

\* What is on the disk after a commit.
AfterCommit(dk, dl, d, kids, tail, g) ==
    /\ dl \in Disks /\ dl[d].kids = kids /\ dl[d].tail = tail
    /\ dl[d].g = g
    /\ \A x \in Dirs \ {d} : dl[x] = dk[x]

\* The share that is written has the change of the state in it.
LEMMA CommittedIs ==
    ASSUME NEW dk \in Disks, NEW d \in Dirs, NEW kids \in Rows,
           NEW tail \in Dirs \cup {Null}, NEW g \in SUBSET Atoms,
           NEW gd \in SUBSET Atoms, NEW stolen \in SUBSET Atoms,
           NEW dl, dl = Committed(dk, d, kids, tail, g, gd, stolen)
    PROVE  AfterCommit(dk, dl, d, kids, tail,
                       Xor(dk[d].g, Xor(Xor(g, gd), stolen)))
<1> DEFINE h == Xor(dk[d].g, Xor(Xor(g, gd), stolen))
           r == [kids |-> kids, tail |-> tail, g |-> h]
<1>1. dk[d].g \in SUBSET Atoms
  BY DEF Disks, Pairs
<1>2. h \in SUBSET Atoms
  BY <1>1, XorAtoms
<1>3. dl = [dk EXCEPT ![d] = r]
  BY DEF Committed
<1> HIDE DEF h
<1>4. r \in Pairs /\ r.kids = kids /\ r.tail = tail /\ r.g = h
  BY <1>2 DEF Pairs
<1> HIDE DEF r
<1>5. dl \in Disks /\ dl[d] = r /\ \A x \in Dirs \ {d} : dl[x] = dk[x]
  BY <1>3, <1>4 DEF Disks
<1>6. AfterCommit(dk, dl, d, kids, tail, h)
  BY <1>4, <1>5 DEF AfterCommit
<1> QED  BY <1>6 DEF h

\* A commit that leaves the tail leaves the list, and writes the state.
Edited(dk, dl, L, d, kids, g) ==
    /\ dl \in Disks /\ dl[d].kids = kids
    /\ \A x \in Dirs \ {d} : dl[x] = dk[x]
    /\ IsClosure(Root, Tails(dl), L) /\ ListLine(dl, L) /\ Shares(L, dl, g)

\* Any commit of entries to a directory on the list is one of these.
LEMMA EditKeeps ==
    ASSUME NEW dk, NEW L, NEW R, NEW G, DiskInv(dk, L, R, G),
           NEW d \in L, NEW kids \in Rows, NEW g \in SUBSET Atoms,
           NEW dl, dl = Committed(dk, d, kids, dk[d].tail, g, G, {})
    PROVE  Edited(dk, dl, L, d, kids, g)
<1>1. dk \in Disks /\ G \in SUBSET Atoms /\ L \in SUBSET Dirs /\ d \in Dirs
      /\ IsClosure(Root, Tails(dk), L) /\ ListLine(dk, L) /\ Shares(L, dk, G)
  BY DEF DiskInv, IsClosure
<1>2. dk[d].tail \in Dirs \cup {Null}
  BY <1>1 DEF Disks, Pairs
<1> DEFINE D == Xor(Xor(g, G), {})
<1>3. /\ dl \in Disks /\ dl[d].kids = kids /\ dl[d].tail = dk[d].tail
      /\ dl[d].g = Xor(dk[d].g, D)
      /\ \A x \in Dirs \ {d} : dl[x] = dk[x]
  <2> DEFINE l == dk[d].tail
  <2>1. dl = Committed(dk, d, kids, l, g, G, {}) /\ l \in Dirs \cup {Null}
        /\ {} \in SUBSET Atoms
    BY <1>2
  <2> HIDE DEF l
  <2>2. AfterCommit(dk, dl, d, kids, l, Xor(dk[d].g, Xor(Xor(g, G), {})))
    BY <1>1, <2>1, CommittedIs
  <2> QED  BY <2>2 DEF AfterCommit, l
<1>4. \A x \in Dirs : dl[x].tail = dk[x].tail
  BY <1>3
<1>5. Tails(dl) = Tails(dk)
  BY <1>4 DEF Tails
<1>6. ListLine(dl, L)
  BY <1>1, <1>4 DEF ListLine
<1>7. Xor(G, D) = g
  BY XorBack
<1> HIDE DEF D
<1>8. Shares(L, dl, Xor(G, D))
  BY <1>1, <1>3, SharesCommit
<1> QED  BY <1>1, <1>3, <1>5, <1>6, <1>7, <1>8 DEF Edited

\* The entries seen lead where they did.
PairsAsBefore(dk, G, dl, g, R) ==
    \A x \in R : \A n \in Names :
      See(dl, g, x)[n].pair = See(dk, G, x)[n].pair

\* Entries that lead to the same directories make the same tree of them.
LEMMA SamePairs ==
    ASSUME NEW dk \in Disks, NEW dl \in Disks, NEW G, NEW g, NEW R,
           IsClosure(Root, Subs(dk, G), R), Parents(dk, G, R),
           PairsAsBefore(dk, G, dl, g, R)
    PROVE  IsClosure(Root, Subs(dl, g), R) /\ Parents(dl, g, R)
<1>1. R \in SUBSET Dirs
  BY DEF IsClosure
<1>2. Subs(dk, G) \in Steps /\ Subs(dl, g) \in Steps
  BY StepsAre
<1>3. ASSUME NEW x \in R, NEW y
      PROVE  y \in Subs(dk, G)[x] <=> y \in Subs(dl, g)[x]
  <2>1. x \in Dirs
    BY <1>1
  <2>2. y \in Subs(dk, G)[x] <=> \E n \in Names : See(dk, G, x)[n].pair = y
    BY <2>1, StepsAre
  <2>3. y \in Subs(dl, g)[x] <=> \E n \in Names : See(dl, g, x)[n].pair = y
    BY <2>1, StepsAre
  <2> QED  BY <2>2, <2>3 DEF PairsAsBefore
<1>4. ASSUME NEW x \in R
      PROVE  /\ \A y \in Subs(dl, g)[x] : y \in Dirs \cup {Null}
             /\ \A y \in Subs(dk, G)[x] : y \in Dirs \cup {Null}
  BY <1>1, <1>2 DEF Steps
<1>5. IsClosure(Root, Subs(dl, g), R)
  <2> DEFINE s == Subs(dk, G)
             t == Subs(dl, g)
  <2>1. \A d \in R : \A y \in Dirs : y \in s[d] <=> y \in t[d]
    BY <1>3
  <2>2. IsClosure(Root, s, R)
        /\ (\A d \in R : \A y \in t[d] : y \in Dirs \cup {Null})
        /\ (\A d \in R : \A y \in s[d] : y \in Dirs \cup {Null})
    BY <1>4
  <2> HIDE DEF s, t
  <2>3. IsClosure(Root, t, R)
    BY <2>1, <2>2, SameClosure
  <2> QED  BY <2>3 DEF t
<1>6. Parents(dl, g, R)
  BY DEF Parents, PairsAsBefore
<1> QED  BY <1>5, <1>6

\* What is seen the same is the same tree.
LEMMA SameTree ==
    ASSUME NEW dk \in Disks, NEW dl \in Disks, NEW G, NEW g, NEW R,
           IsClosure(Root, Subs(dk, G), R), Parents(dk, G, R),
           \A x \in R : See(dl, g, x) = See(dk, G, x)
    PROVE  /\ IsClosure(Root, Subs(dl, g), R) /\ Parents(dl, g, R)
           /\ TreeOf(dl, g, R) = TreeOf(dk, G, R)
<1>1. PairsAsBefore(dk, G, dl, g, R)
  BY DEF PairsAsBefore
<1>2. IsClosure(Root, Subs(dl, g), R) /\ Parents(dl, g, R)
  BY <1>1, SamePairs
<1> QED  BY <1>2 DEF TreeOf

\* On the list there is one directory before each, and not itself.
LEMMA OnePred ==
    ASSUME NEW dk \in Disks, NEW L, IsClosure(Root, Tails(dk), L),
           ListLine(dk, L), NEW c \in L, c # Root
    PROVE  /\ \E p \in L \ {c} : dk[p].tail = c
           /\ \A p \in L : dk[p].tail = c => p # c
           /\ \A p, q \in L : dk[p].tail = c /\ dk[q].tail = c => p = q
<1>1. L \in SUBSET Dirs /\ c # Null
  BY LfsTreeAssumption DEF IsClosure
<1>2. PICK p \in L \ {c} : c \in Tails(dk)[p]
  BY HasParent
<1>3. dk[p].tail = c
  BY <1>1, <1>2, StepsAre
<1>4. \A e, q \in L : dk[e].tail = c /\ dk[q].tail = c => e = q
  BY <1>1 DEF ListLine
<1> QED  BY <1>3, <1>4

\* A directory that is on the list only leaves it.
LEMMA DropKeeps ==
    ASSUME NEW dk, NEW L, NEW R, NEW G, DiskInv(dk, L, R, G),
           G \subseteq Orphans, NEW g \in SUBSET Atoms, g \subseteq Orphans,
           NEW c \in L \ R, NEW p \in L, dk[p].tail = c,
           NEW dl, dl = Committed(dk, p, dk[p].kids, dk[c].tail, g, G, dk[c].g)
    PROVE  /\ DiskInv(dl, L \ {c}, R, g)
           /\ TreeOf(dl, g, R) = TreeOf(dk, G, R)
<1> DEFINE M == L \ {c}
           s == Tails(dk)
           t == Tails(dl)
<1>1. /\ dk \in Disks /\ G \in SUBSET Atoms /\ L \in SUBSET Dirs
      /\ IsClosure(Root, s, L) /\ ListLine(dk, L) /\ Shares(L, dk, G)
      /\ IsClosure(Root, Subs(dk, G), R) /\ Parents(dk, G, R) /\ R \subseteq L
      /\ \A x \in L \ R : dk[x].kids = Empty
  BY DEF DiskInv, IsClosure
<1>2. Root \in R /\ c # Root /\ p \in Dirs /\ c \in Dirs
  BY <1>1 DEF IsClosure
<1>3. p # c /\ \A q \in L : dk[q].tail = c => q = p
  BY <1>1, <1>2, OnePred
<1>4. dk[p].kids \in Rows /\ dk[c].tail \in Dirs \cup {Null}
      /\ dk[c].g \in SUBSET Atoms
  BY <1>1, <1>2 DEF Disks, Pairs
<1>5. /\ dl \in Disks /\ dl[p].kids = dk[p].kids /\ dl[p].tail = dk[c].tail
      /\ dl[p].g = Xor(dk[p].g, Xor(Xor(g, G), dk[c].g))
      /\ \A x \in Dirs \ {p} : dl[x] = dk[x]
  <2> DEFINE k == dk[p].kids
             l == dk[c].tail
             h == dk[c].g
  <2>1. dl = Committed(dk, p, k, l, g, G, h) /\ k \in Rows
        /\ l \in Dirs \cup {Null} /\ h \in SUBSET Atoms
    BY <1>4
  <2> HIDE DEF k, l, h
  <2>2. AfterCommit(dk, dl, p, k, l, Xor(dk[p].g, Xor(Xor(g, G), h)))
    BY <1>1, <1>2, <2>1, CommittedIs
  <2> QED  BY <2>2 DEF AfterCommit, k, l, h
<1>6. Shares(M, dl, g)
  <2> DEFINE D == Xor(g, G)
  <2>1. dl[p].g = Xor(dk[p].g, Xor(D, dk[c].g))
        /\ \A x \in L \ {p, c} : dl[x].g = dk[x].g
    BY <1>1, <1>5
  <2>2. Xor(G, D) = g
    BY XorBack
  <2> HIDE DEF D
  <2>3. Shares(M, dl, Xor(G, D))
    BY <1>1, <1>3, <2>1, SharesDrop
  <2> QED  BY <2>2, <2>3
<1>7. \A x \in Dirs : s[x] = {dk[x].tail} /\ t[x] = {dl[x].tail}
  BY <1>1, <1>5, StepsAre
<1>8. s \in Steps /\ t \in Steps
  BY <1>1, <1>5, StepsAre
<1> HIDE DEF s, t
<1>9. (\A y \in s[p] : y \in {c, Null}) /\ c \notin s[c] /\ t[p] = s[c]
  <2>1. s[p] = {c} /\ s[c] = {dk[c].tail} /\ t[p] = {dk[c].tail}
    BY <1>2, <1>5, <1>7
  <2>2. dk[c].tail # c
    BY <1>3
  <2> QED  BY <2>1, <2>2
<1>10. ASSUME NEW x \in L \ {c, p} PROVE c \notin s[x] /\ t[x] = s[x]
  <2>1. x \in Dirs /\ x \in L /\ x # p /\ x # c
    BY <1>1
  <2>2. dk[x].tail # c /\ dl[x].tail = dk[x].tail
    BY <1>3, <1>5, <2>1
  <2>3. s[x] = {dk[x].tail} /\ t[x] = {dl[x].tail}
    BY <1>7, <2>1
  <2> QED  BY <2>2, <2>3
<1>11. IsClosure(Root, t, M)
  BY <1>1, <1>2, <1>3, <1>8, <1>9, <1>10, Bypass
<1>12. ListLine(dl, M)
  <2>1. ASSUME NEW d \in M, NEW e \in M, dl[d].tail = dl[e].tail,
               dl[d].tail # Null
        PROVE  d = e
    <3>1. CASE d = p /\ e # p
      <4>1. dk[c].tail = dk[e].tail /\ dk[c].tail # Null
        BY <1>1, <1>5, <2>1, <3>1
      <4> QED  BY <1>1, <4>1 DEF ListLine
    <3>2. CASE d # p /\ e = p
      <4>1. dk[d].tail = dk[c].tail /\ dk[d].tail # Null
        BY <1>1, <1>5, <2>1, <3>2
      <4> QED  BY <1>1, <4>1 DEF ListLine
    <3>3. CASE d # p /\ e # p
      <4>1. dk[d].tail = dk[e].tail /\ dk[d].tail # Null
        BY <1>1, <1>5, <2>1, <3>3
      <4> QED  BY <1>1, <4>1 DEF ListLine
    <3> QED  BY <3>1, <3>2, <3>3
  <2>2. ASSUME NEW d \in M PROVE dl[d].tail # Root
    BY <1>1, <1>5 DEF ListLine
  <2> QED  BY <2>1, <2>2 DEF ListLine
<1>13. \A x \in Dirs : dl[x].kids = dk[x].kids
  BY <1>5
<1>14. ASSUME NEW x \in R PROVE See(dl, g, x) = See(dk, G, x)
  <2>1. x \in Dirs
    BY <1>1
  <2>2. See(dl, g, x) = dl[x].kids /\ See(dk, G, x) = dk[x].kids
    BY <1>1, <1>5, <2>1, SeeIs
  <2> QED  BY <1>13, <2>1, <2>2
<1>15. IsClosure(Root, Subs(dl, g), R) /\ Parents(dl, g, R)
       /\ TreeOf(dl, g, R) = TreeOf(dk, G, R)
  BY <1>1, <1>5, <1>14, SameTree
<1>16. R \subseteq M /\ \A x \in M \ R : dl[x].kids = Empty
  BY <1>1, <1>13
<1>17. MoveIs(g, M)
  BY DEF MoveIs, PendingMove
<1> QED
  BY <1>5, <1>6, <1>11, <1>12, <1>15, <1>16, <1>17 DEF DiskInv, t
\* Trees are equal entry by entry.
LEMMA TreesEqual ==
    ASSUME NEW R, NEW A \in [R -> Rows], NEW B \in [R -> Rows],
           \A x \in R : \A k \in Names : A[x][k] = B[x][k]
    PROVE  A = B
<1>1. ASSUME NEW x \in R PROVE A[x] = B[x]
  <2>1. A[x] \in Rows /\ B[x] \in Rows
    OBVIOUS
  <2> DEFINE a == A[x]
             b == B[x]
  <2>2. a \in [Names -> Entries] /\ b \in [Names -> Entries]
        /\ \A k \in Names : a[k] = b[k]
    BY <2>1 DEF Rows
  <2> HIDE DEF a, b
  <2>3. a = b
    BY <2>2
  <2> QED  BY <2>3 DEF a, b
<1> QED  BY <1>1

\* A tree has a row for each directory.
LEMMA TreeIs ==
    ASSUME NEW dk \in Disks, NEW g, NEW R \in SUBSET Dirs
    PROVE  /\ TreeOf(dk, g, R) \in [R -> Rows]
           /\ \A x \in R : TreeOf(dk, g, R)[x] = See(dk, g, x)
BY SeeIs DEF TreeOf

\* One entry changed.
LEMMA SetIs ==
    ASSUME NEW R, NEW t \in [R -> Rows], NEW d \in R, NEW n \in Names,
           NEW e \in Entries
    PROVE  /\ Set(t, d, n, e) \in [R -> Rows]
           /\ \A x \in R : \A k \in Names :
                Set(t, d, n, e)[x][k] = IF x = d /\ k = n THEN e ELSE t[x][k]
<1> DEFINE r == [t[d] EXCEPT ![n] = e]
<1>1. t[d] \in Rows
  OBVIOUS
<1>2. r \in Rows /\ \A k \in Names : r[k] = IF k = n THEN e ELSE t[d][k]
  BY <1>1 DEF Rows
<1>3. Set(t, d, n, e) = [t EXCEPT ![d] = r]
  BY DEF Set
<1> HIDE DEF r
<1> QED  BY <1>2, <1>3

\* The entries of a directory with one changed.
LEMMA RowIs ==
    ASSUME NEW r \in Rows, NEW n \in Names, NEW e \in Entries
    PROVE  /\ [r EXCEPT ![n] = e] \in Rows
           /\ \A k \in Names : [r EXCEPT ![n] = e][k] =
                                 IF k = n THEN e ELSE r[k]
BY DEF Rows

\* The entries of an empty directory.
LEMMA EmptyIs == Empty \in Rows /\ \A k \in Names : Empty[k] = Absent
BY PlainEntries DEF Empty, Rows

\* The pending move is carried out: what was hidden is gone.
LEMMA HideKeeps ==
    ASSUME NEW dk, NEW L, NEW R, NEW G, DiskInv(dk, L, R, G),
           NEW d \in L, NEW n \in Names, PendingMove(G) = Move(d, n),
           NEW g \in SUBSET Atoms, g \subseteq Orphans, NEW dl,
           dl = Committed(dk, d, [dk[d].kids EXCEPT ![n] = Absent],
                          dk[d].tail, g, G, {})
    PROVE  DiskInv(dl, L, R, g) /\ TreeOf(dl, g, R) = TreeOf(dk, G, R)
<1> DEFINE kids == [dk[d].kids EXCEPT ![n] = Absent]
<1>1. /\ dk \in Disks /\ L \in SUBSET Dirs /\ d \in Dirs
      /\ IsClosure(Root, Subs(dk, G), R) /\ Parents(dk, G, R) /\ R \subseteq L
      /\ \A x \in L \ R : dk[x].kids = Empty
  BY DEF DiskInv, IsClosure
<1>2. dk[d].kids \in Rows
  BY <1>1 DEF Disks, Pairs
<1>3. kids \in Rows /\ \A k \in Names : kids[k] = IF k = n THEN Absent
                                                  ELSE dk[d].kids[k]
  BY <1>2, PlainEntries, RowIs
<1> HIDE DEF kids
<1>4. dl = Committed(dk, d, kids, dk[d].tail, g, G, {})
  BY DEF kids
<1>5. /\ dl \in Disks /\ dl[d].kids = kids
      /\ \A x \in Dirs \ {d} : dl[x] = dk[x]
      /\ IsClosure(Root, Tails(dl), L) /\ ListLine(dl, L)
      /\ Shares(L, dl, g)
  <2>1. Edited(dk, dl, L, d, kids, g)
    BY <1>3, <1>4, EditKeeps
  <2> QED  BY <2>1 DEF Edited
<1>6. ASSUME NEW x, NEW k PROVE <<"move", x, k>> \in G <=> x = d /\ k = n
  <2>1. <<"move", x, k>> \notin Orphans
    BY AtomIs DEF Orphans
  <2>2. <<"move", x, k>> \in G <=> <<"move", x, k>> \in Move(d, n)
    BY <2>1 DEF PendingMove
  <2>3. <<"move", x, k>> \in Move(d, n)
          <=> <<"move", x, k>> = <<"move", d, n>>
    BY DEF Move
  <2> QED  BY <2>2, <2>3, AtomIs
<1>7. ASSUME NEW x \in R PROVE See(dl, g, x) = See(dk, G, x)
  <2>1. x \in Dirs
    BY <1>1
  <2>2. See(dl, g, x) = dl[x].kids /\ See(dk, G, x) \in Rows
        /\ See(dl, g, x) \in Rows
    BY <1>1, <1>5, <2>1, SeeIs
  <2>3. ASSUME NEW k \in Names PROVE dl[x].kids[k] = See(dk, G, x)[k]
    <3>1. See(dk, G, x)[k] = IF x = d /\ k = n THEN Absent
                             ELSE dk[x].kids[k]
      <4>1. See(dk, G, x)[k] = IF <<"move", x, k>> \in G THEN Absent
                               ELSE dk[x].kids[k]
        BY <1>1, <2>1, SeeIs
      <4>2. <<"move", x, k>> \in G <=> x = d /\ k = n
        BY <1>6
      <4> QED  BY <4>1, <4>2
    <3>2. CASE x = d
      BY <1>3, <1>5, <3>1, <3>2
    <3>3. CASE x # d
      BY <1>5, <2>1, <3>1, <3>3
    <3> QED  BY <3>2, <3>3
  <2> QED  BY <2>2, <2>3 DEF Rows
<1>8. IsClosure(Root, Subs(dl, g), R) /\ Parents(dl, g, R)
      /\ TreeOf(dl, g, R) = TreeOf(dk, G, R)
  BY <1>1, <1>5, <1>7, SameTree
<1>9. ASSUME NEW x \in L \ R PROVE dl[x].kids = Empty
  <2>1. CASE x = d
    <3>1. \A k \in Names : kids[k] = Absent
      BY <1>1, <1>3, <2>1, EmptyIs
    <3>2. kids = Empty
      BY <1>3, <3>1, EmptyIs DEF Rows
    <3> QED  BY <1>5, <2>1, <3>2
  <2>2. CASE x # d
    BY <1>1, <1>5, <2>2
  <2> QED  BY <2>1, <2>2
<1>10. MoveIs(g, L)
  BY DEF MoveIs, PendingMove
<1> QED  BY <1>1, <1>5, <1>8, <1>9, <1>10 DEF DiskInv

\* A file comes or goes.
LEMMA FileKeeps ==
    ASSUME NEW dk, NEW L, NEW R, NEW G, DiskInv(dk, L, R, G),
           G \subseteq Orphans, L = R, NEW d \in R, NEW n \in Names,
           dk[d].kids[n].pair = Null, NEW e \in Entries, e.pair = Null,
           NEW dl, dl = Committed(dk, d, [dk[d].kids EXCEPT ![n] = e],
                                  dk[d].tail, {}, G, {})
    PROVE  /\ DiskInv(dl, L, R, {})
           /\ TreeOf(dl, {}, R) = Set(TreeOf(dk, G, R), d, n, e)
<1> DEFINE kids == [dk[d].kids EXCEPT ![n] = e]
<1>1. /\ dk \in Disks /\ L \in SUBSET Dirs /\ d \in Dirs /\ R \in SUBSET Dirs
      /\ IsClosure(Root, Subs(dk, G), R) /\ Parents(dk, G, R)
      /\ {} \in SUBSET Atoms /\ {} \subseteq Orphans
  BY DEF DiskInv, IsClosure
<1>2. dk[d].kids \in Rows
  BY <1>1 DEF Disks, Pairs
<1>3. kids \in Rows /\ \A k \in Names : kids[k] = IF k = n THEN e
                                                  ELSE dk[d].kids[k]
  BY <1>2, RowIs
<1> HIDE DEF kids
<1>4. dl = Committed(dk, d, kids, dk[d].tail, {}, G, {})
  BY DEF kids
<1>5. /\ dl \in Disks /\ dl[d].kids = kids
      /\ \A x \in Dirs \ {d} : dl[x] = dk[x]
      /\ IsClosure(Root, Tails(dl), L) /\ ListLine(dl, L)
      /\ Shares(L, dl, {})
  <2>1. Edited(dk, dl, L, d, kids, {})
    BY <1>1, <1>3, <1>4, EditKeeps
  <2> QED  BY <2>1 DEF Edited
<1>6. ASSUME NEW x \in R, NEW k \in Names
      PROVE  /\ See(dl, {}, x)[k] = IF x = d /\ k = n THEN e
                                    ELSE See(dk, G, x)[k]
             /\ See(dl, {}, x)[k].pair = See(dk, G, x)[k].pair
  <2>1. x \in Dirs
    BY <1>1
  <2>2. See(dl, {}, x) = dl[x].kids /\ See(dk, G, x) = dk[x].kids
    BY <1>1, <1>5, <2>1, SeeIs
  <2>3. dl[x].kids[k] = IF x = d /\ k = n THEN e ELSE dk[x].kids[k]
    BY <1>3, <1>5, <2>1
  <2> QED  BY <2>2, <2>3
<1>7. IsClosure(Root, Subs(dl, {}), R) /\ Parents(dl, {}, R)
  <2>1. PairsAsBefore(dk, G, dl, {}, R)
    BY <1>6 DEF PairsAsBefore
  <2> QED  BY <1>1, <1>5, <2>1, SamePairs
<1>8. MoveIs({}, L)
  BY DEF MoveIs, PendingMove
<1> DEFINE A == TreeOf(dl, {}, R)
           t == TreeOf(dk, G, R)
           B == Set(t, d, n, e)
<1>9. /\ A \in [R -> Rows] /\ t \in [R -> Rows]
      /\ \A x \in R : A[x] = See(dl, {}, x) /\ t[x] = See(dk, G, x)
  BY <1>1, <1>5, TreeIs
<1> HIDE DEF A, t
<1>10. B \in [R -> Rows] /\ \A x \in R : \A k \in Names :
         B[x][k] = IF x = d /\ k = n THEN e ELSE t[x][k]
  BY <1>9, SetIs
<1> HIDE DEF B
<1>11. \A x \in R : \A k \in Names : A[x][k] = B[x][k]
  BY <1>6, <1>9, <1>10
<1>12. A = B
  BY <1>9, <1>10, <1>11, TreesEqual
<1> QED  BY <1>1, <1>5, <1>7, <1>8, <1>12 DEF DiskInv, A, B, t

\* The directory of an entry that is seen is in the tree, is not the root,
\* and no other entry is of it.
LEMMA EntryOfTree ==
    ASSUME NEW dk \in Disks, NEW G, NEW R, IsClosure(Root, Subs(dk, G), R),
           Parents(dk, G, R), NEW d \in R, NEW n \in Names, NEW c,
           c = See(dk, G, d)[n].pair, c # Null
    PROVE  /\ c \in R /\ c \in Dirs /\ c # Root
           /\ \A x \in R : \A k \in Names :
                See(dk, G, x)[k].pair = c => x = d /\ k = n
<1>1. R \in SUBSET Dirs /\ Still(Subs(dk, G), R)
  BY DEF IsClosure
<1>2. c \in Subs(dk, G)[d]
  BY <1>1, StepsAre
<1>3. c \in R
  BY <1>1, <1>2 DEF Still
<1> QED  BY <1>1, <1>3 DEF Parents

\* An empty directory leaves the tree, not the list.
LEMMA RemoveKeeps ==
    ASSUME NEW dk, NEW L, NEW R, NEW G, DiskInv(dk, L, R, G),
           G \subseteq Orphans, L = R, NEW d \in R, NEW n \in Names,
           NEW c, c = dk[d].kids[n].pair, c # Null, dk[c].kids = Empty,
           NEW dl, dl = Committed(dk, d, [dk[d].kids EXCEPT ![n] = Absent],
                                  dk[d].tail, Orphans, G, {})
    PROVE  /\ DiskInv(dl, L, R \ {c}, Orphans) /\ c \in R
           /\ TreeOf(dl, Orphans, R \ {c}) =
                Less(Set(TreeOf(dk, G, R), d, n, Absent), c)
<1> DEFINE kids == [dk[d].kids EXCEPT ![n] = Absent]
           g == Orphans
           Q == R \ {c}
<1>1. /\ dk \in Disks /\ L \in SUBSET Dirs /\ d \in Dirs /\ R \in SUBSET Dirs
      /\ IsClosure(Root, Subs(dk, G), R) /\ Parents(dk, G, R)
      /\ g \in SUBSET Atoms /\ g \subseteq Orphans
  BY DEF DiskInv, IsClosure, Atoms
<1>2. dk[d].kids \in Rows
  BY <1>1 DEF Disks, Pairs
<1>3. kids \in Rows /\ \A k \in Names : kids[k] = IF k = n THEN Absent
                                                  ELSE dk[d].kids[k]
  BY <1>2, RowIs, PlainEntries
<1> HIDE DEF kids, g
<1>4. dl = Committed(dk, d, kids, dk[d].tail, g, G, {})
  BY DEF kids, g
<1>5. /\ dl \in Disks /\ dl[d].kids = kids
      /\ \A x \in Dirs \ {d} : dl[x] = dk[x]
      /\ IsClosure(Root, Tails(dl), L) /\ ListLine(dl, L)
      /\ Shares(L, dl, g)
  <2>1. Edited(dk, dl, L, d, kids, g)
    BY <1>1, <1>3, <1>4, EditKeeps
  <2> QED  BY <2>1 DEF Edited
<1>6. ASSUME NEW x \in Dirs
      PROVE  /\ See(dk, G, x) = dk[x].kids /\ See(dl, g, x) = dl[x].kids
             /\ \A k \in Names :
                  See(dl, g, x)[k] = IF x = d /\ k = n THEN Absent
                                     ELSE See(dk, G, x)[k]
  <2>1. See(dl, g, x) = dl[x].kids /\ See(dk, G, x) = dk[x].kids
    BY <1>1, <1>5, SeeIs
  <2>2. ASSUME NEW k \in Names
        PROVE  dl[x].kids[k] = IF x = d /\ k = n THEN Absent
                               ELSE dk[x].kids[k]
    BY <1>3, <1>5
  <2> QED  BY <2>1, <2>2
<1>7. c = See(dk, G, d)[n].pair
  BY <1>1, <1>6
<1>8. /\ c \in R /\ c \in Dirs /\ c # Root
      /\ \A x \in R : \A k \in Names :
           See(dk, G, x)[k].pair = c => x = d /\ k = n
  BY <1>1, <1>7, EntryOfTree
<1>9. c # d
  <2>1. ASSUME c = d PROVE FALSE
    <3>1. dk[d].kids[n] = Absent
      BY <2>1, EmptyIs
    <3> QED  BY <3>1, PlainEntries
  <2> QED  BY <2>1
<1> DEFINE s == Subs(dk, G)
           t == Subs(dl, g)
<1>10. /\ s \in Steps /\ t \in Steps
       /\ \A x \in Dirs : \A y :
            /\ y \in s[x] <=> \E k \in Names : See(dk, G, x)[k].pair = y
            /\ y \in t[x] <=> \E k \in Names : See(dl, g, x)[k].pair = y
  <2>1. s \in Steps /\ \A x \in Dirs : \A y :
          y \in s[x] <=> \E k \in Names : See(dk, G, x)[k].pair = y
    BY <1>1, StepsAre
  <2>2. t \in Steps /\ \A x \in Dirs : \A y :
          y \in t[x] <=> \E k \in Names : See(dl, g, x)[k].pair = y
    BY <1>5, StepsAre
  <2> QED  BY <2>1, <2>2
<1>11. IsClosure(Root, s, R)
  BY <1>1
<1> HIDE DEF s, t
<1>12. \A y \in s[c] : y = Null
  <2>1. ASSUME NEW k \in Names PROVE See(dk, G, c)[k].pair = Null
    BY <1>6, <1>8, EmptyIs, PlainEntries
  <2> QED  BY <1>8, <1>10, <2>1
<1>13. ASSUME NEW x \in Q, NEW y \in Dirs
       PROVE  y \in t[x] <=> y \in s[x] /\ y # c
  <2>1. x \in Dirs /\ x \in R /\ y # Null
    BY <1>1, LfsTreeAssumption
  <2>2. ASSUME NEW k \in Names, See(dl, g, x)[k].pair = y
        PROVE  See(dk, G, x)[k].pair = y /\ y # c
    <3>1. ~(x = d /\ k = n)
      BY <1>6, <2>1, <2>2, PlainEntries
    <3>2. See(dk, G, x)[k].pair = y
      BY <1>6, <2>1, <2>2, <3>1
    <3> QED  BY <1>8, <2>1, <3>1, <3>2
  <2>3. ASSUME NEW k \in Names, See(dk, G, x)[k].pair = y, y # c
        PROVE  See(dl, g, x)[k].pair = y
    BY <1>6, <1>7, <2>1, <2>3
  <2> QED  BY <1>10, <2>1, <2>2, <2>3
<1>14. IsClosure(Root, t, Q)
  BY <1>8, <1>10, <1>11, <1>12, <1>13, DropLeaf
<1>15. Parents(dl, g, Q)
  <2>1. ASSUME NEW x \in Q, NEW k \in Names, See(dl, g, x)[k].pair # Null
        PROVE  See(dl, g, x)[k].pair = See(dk, G, x)[k].pair
    BY <1>1, <1>6, <2>1, PlainEntries
  <2>2. ASSUME NEW x \in Q, NEW z \in Q, NEW k \in Names, NEW m \in Names,
               See(dl, g, x)[k].pair # Null
        PROVE  /\ See(dl, g, x)[k].pair # Root
               /\ See(dl, g, x)[k].pair = See(dl, g, z)[m].pair
                    => x = z /\ k = m
    BY <1>1, <2>1, <2>2 DEF Parents
  <2> QED  BY <2>2 DEF Parents
<1>16. ASSUME NEW x \in L \ Q PROVE dl[x].kids = Empty
  <2>1. x = c
    OBVIOUS
  <2> QED  BY <1>5, <1>8, <1>9, <2>1
<1>17. MoveIs(g, L) /\ Q \subseteq L
  BY <1>1 DEF MoveIs, PendingMove
<1>18. DiskInv(dl, L, Q, g)
  BY <1>1, <1>5, <1>14, <1>15, <1>16, <1>17 DEF DiskInv, t
<1> DEFINE A == TreeOf(dl, g, Q)
           u == TreeOf(dk, G, R)
           v == Set(u, d, n, Absent)
           B == Less(v, c)
<1>19. /\ A \in [Q -> Rows] /\ u \in [R -> Rows]
       /\ (\A x \in Q : A[x] = See(dl, g, x))
       /\ \A x \in R : u[x] = See(dk, G, x)
  <2>1. Q \in SUBSET Dirs
    BY <1>1
  <2> QED  BY <1>1, <1>5, <2>1, TreeIs
<1> HIDE DEF A, u
<1>20. v \in [R -> Rows] /\ \A x \in R : \A k \in Names :
         v[x][k] = IF x = d /\ k = n THEN Absent ELSE u[x][k]
  <2> DEFINE e == Absent
  <2>1. e \in Entries /\ u \in [R -> Rows] /\ d \in R
    BY <1>19, PlainEntries
  <2> HIDE DEF e, Q
  <2>2. /\ Set(u, d, n, e) \in [R -> Rows]
        /\ \A x \in R : \A k \in Names :
             Set(u, d, n, e)[x][k] = IF x = d /\ k = n THEN e ELSE u[x][k]
    BY <2>1, SetIs
  <2> QED  BY <2>2 DEF e
<1> HIDE DEF v
<1>21. B \in [Q -> Rows] /\ \A x \in Q : B[x] = v[x]
  BY <1>20 DEF Less
<1> HIDE DEF B
<1>22. ASSUME NEW x \in Q, NEW k \in Names PROVE A[x][k] = B[x][k]
  <2>1. x \in R /\ x \in Dirs
    BY <1>1
  <2> QED  BY <1>6, <1>19, <1>20, <1>21, <2>1
<1>23. A = B
  BY <1>19, <1>21, <1>22, TreesEqual
<1> QED  BY <1>8, <1>18, <1>23 DEF A, B, u, v, g

\* A directory that is written and on no list changes nothing.
LEMMA MakeKeeps ==
    ASSUME NEW dk, NEW L, NEW R, NEW G, DiskInv(dk, L, R, G),
           NEW c \in Dirs \ L, NEW dl \in Disks,
           \A x \in Dirs \ {c} : dl[x] = dk[x]
    PROVE  DiskInv(dl, L, R, G) /\ TreeOf(dl, G, R) = TreeOf(dk, G, R)
<1>1. /\ dk \in Disks /\ G \in SUBSET Atoms /\ L \in SUBSET Dirs
      /\ IsClosure(Root, Tails(dk), L) /\ ListLine(dk, L) /\ Shares(L, dk, G)
      /\ IsClosure(Root, Subs(dk, G), R) /\ Parents(dk, G, R) /\ R \subseteq L
      /\ (\A x \in L \ R : dk[x].kids = Empty) /\ MoveIs(G, L)
  BY DEF DiskInv, IsClosure
<1>3. \A x \in L : dl[x] = dk[x] /\ x \in Dirs
  BY <1>1
<1>4. IsClosure(Root, Tails(dl), L)
  <2> DEFINE s == Tails(dk)
             t == Tails(dl)
  <2>1. \A x \in Dirs : s[x] = {dk[x].tail} /\ t[x] = {dl[x].tail}
    BY <1>1, StepsAre
  <2>2. IsClosure(Root, s, L) /\ s \in Steps /\ t \in Steps
    BY <1>1, StepsAre
  <2> HIDE DEF s, t
  <2>5. \A x \in L : s[x] = t[x]
    BY <1>3, <2>1
  <2>3. (\A x \in L : \A y \in t[x] : y \in Dirs \cup {Null})
        /\ (\A x \in L : \A y \in s[x] : y \in Dirs \cup {Null})
        /\ (\A x \in L : \A y \in Dirs : y \in s[x] <=> y \in t[x])
    BY <1>1, <2>2, <2>5 DEF Steps
  <2>4. IsClosure(Root, t, L)
    BY <2>2, <2>3, SameClosure
  <2> QED  BY <2>4 DEF t
<1>5. ListLine(dl, L)
  BY <1>1, <1>3 DEF ListLine
<1>6. Shares(L, dl, G)
  <2>1. \A a : Holders(L, dl, a) = Holders(L, dk, a)
    BY <1>3 DEF Holders
  <2> QED  BY <1>1, <2>1 DEF Shares
<1>7. \A x \in R : See(dl, G, x) = See(dk, G, x)
  BY <1>1, <1>3 DEF See
<1>8. IsClosure(Root, Subs(dl, G), R) /\ Parents(dl, G, R)
      /\ TreeOf(dl, G, R) = TreeOf(dk, G, R)
  BY <1>1, <1>7, SameTree
<1>9. \A x \in L \ R : dl[x].kids = Empty
  BY <1>1, <1>3
<1> QED  BY <1>1, <1>4, <1>5, <1>6, <1>8, <1>9 DEF DiskInv

\* It goes on the list behind its parent, with an entry there.
LEMMA InsertKeeps ==
    ASSUME NEW dk, NEW L, NEW R, NEW G, DiskInv(dk, L, R, G),
           G \subseteq Orphans, L = R, NEW d \in R, NEW n \in Names,
           NEW c \in Dirs \ L, dk[c].g = G, dk[c].kids = Empty,
           dk[c].tail = dk[d].tail, dk[d].kids[n] = Absent,
           NEW dl, dl = Committed(dk, d, [dk[d].kids EXCEPT ![n] = Dir(c)],
                                  c, {}, {}, {})
    PROVE  /\ DiskInv(dl, L \cup {c}, R \cup {c}, {})
           /\ TreeOf(dl, {}, R \cup {c}) =
                [x \in R \cup {c} |->
                   IF x = c THEN Empty
                   ELSE Set(TreeOf(dk, G, R), d, n, Dir(c))[x]]
<1> DEFINE e == Dir(c)
           kids == [dk[d].kids EXCEPT ![n] = e]
           Q == R \cup {c}
<1>1. /\ dk \in Disks /\ L \in SUBSET Dirs /\ d \in Dirs /\ R \in SUBSET Dirs
      /\ IsClosure(Root, Tails(dk), L) /\ ListLine(dk, L) /\ Shares(L, dk, G)
      /\ IsClosure(Root, Subs(dk, G), R) /\ Parents(dk, G, R)
      /\ {} \in SUBSET Atoms /\ {} \subseteq Orphans /\ Root \in L
      /\ c \in Dirs \cup {Null} /\ c # Null /\ c # d /\ c # Root
  BY LfsTreeAssumption DEF DiskInv, IsClosure
<1>2. dk[d].kids \in Rows
  BY <1>1 DEF Disks, Pairs
<1>3. e \in Entries /\ e.pair = c
  BY PlainEntries
<1> HIDE DEF e
<1>4. kids \in Rows /\ \A k \in Names : kids[k] = IF k = n THEN e
                                                  ELSE dk[d].kids[k]
  BY <1>2, <1>3, RowIs
<1> HIDE DEF kids
<1>5. dl = Committed(dk, d, kids, c, {}, {}, {})
  BY DEF kids, e
<1>6. /\ dl \in Disks /\ dl[d].kids = kids /\ dl[d].tail = c
      /\ dl[d].g = Xor(dk[d].g, Xor(Xor({}, {}), {}))
      /\ \A x \in Dirs \ {d} : dl[x] = dk[x]
  <2>1. AfterCommit(dk, dl, d, kids, c, Xor(dk[d].g, Xor(Xor({}, {}), {})))
    BY <1>1, <1>4, <1>5, CommittedIs
  <2> QED  BY <2>1 DEF AfterCommit
<1>7. dl[d].g = dk[d].g
  BY <1>6 DEF Xor
<1>8. \A x \in L : dl[x].g = dk[x].g
  BY <1>1, <1>6, <1>7
<1>9. dl[c] = dk[c]
  BY <1>1, <1>6
<1>10. Shares(Q, dl, {})
  <2>1. L \in SUBSET Dirs /\ Shares(L, dk, G) /\ dl[c].g = G
    BY <1>1, <1>9
  <2>2. c \in Dirs \ L /\ Q = L \cup {c}
    BY <1>1
  <2>3. Xor(G, G) = {}
    BY DEF Xor
  <2> HIDE DEF Q
  <2>4. Shares(Q, dl, Xor(G, dl[c].g))
    <3>1. Joins(L, dk, dl, G, c)
      BY <1>8, <2>1, <2>2 DEF Joins
    <3>2. Shares(L \cup {c}, dl, Xor(G, dl[c].g))
      BY <3>1, SharesInsert
    <3> QED  BY <2>2, <3>2
  <2>5. Xor(G, dl[c].g) = {}
    BY <2>1, <2>3
  <2> QED  BY <2>4, <2>5
<1>11. IsClosure(Root, Tails(dl), Q)
  <2> DEFINE s == Tails(dk)
             t == Tails(dl)
  <2>1. \A x \in Dirs : s[x] = {dk[x].tail} /\ t[x] = {dl[x].tail}
    BY <1>1, <1>6, StepsAre
  <2>2. IsClosure(Root, s, L) /\ s \in Steps /\ t \in Steps
    BY <1>1, <1>6, StepsAre
  <2> HIDE DEF s, t
  <2>3. t[d] = {c} /\ t[c] = s[d] /\ \A x \in L \ {d} : t[x] = s[x]
    <3>1. t[d] = {c} /\ t[c] = {dk[c].tail} /\ s[d] = {dk[d].tail}
      BY <1>1, <1>6, <1>9, <2>1
    <3>2. ASSUME NEW x \in L \ {d} PROVE t[x] = s[x]
      <4>1. x \in Dirs /\ dl[x] = dk[x]
        BY <1>1, <1>6
      <4> QED  BY <2>1, <4>1
    <3> QED  BY <3>1, <3>2
  <2>4. IsClosure(Root, t, L \cup {c})
    BY <1>1, <2>2, <2>3, AddBetween
  <2> QED  BY <2>4 DEF t
<1>12. ListLine(dl, Q)
  <2>1. ASSUME NEW x \in L PROVE dk[x].tail # c
    <3>1. dk[x].tail \in Tails(dk)[x]
      BY <1>1, StepsAre
    <3> QED  BY <1>1, <3>1 DEF IsClosure, Still
  <2>2. ASSUME NEW x \in Q
        PROVE  /\ x = d => dl[x].tail = c
               /\ x = c => dl[x].tail = dk[d].tail
               /\ x # d /\ x # c => dl[x].tail = dk[x].tail /\ x \in L
    BY <1>1, <1>6, <1>9
  <2>3. ASSUME NEW x \in Q, NEW z \in Q, dl[x].tail = dl[z].tail,
               dl[x].tail # Null
        PROVE  x = z
    <3>1. CASE x = d \/ z = d
      BY <1>1, <2>1, <2>2, <2>3, <3>1
    <3>2. CASE x = c /\ z = c
      BY <3>2
    <3>3. CASE x = c /\ z # c /\ z # d
      <4>1. dk[d].tail = dk[z].tail /\ dk[d].tail # Null /\ z \in L
        BY <2>2, <2>3, <3>3
      <4> QED  BY <1>1, <3>3, <4>1 DEF ListLine
    <3>4. CASE z = c /\ x # c /\ x # d
      <4>1. dk[d].tail = dk[x].tail /\ dk[d].tail # Null /\ x \in L
        BY <2>2, <2>3, <3>4
      <4> QED  BY <1>1, <3>4, <4>1 DEF ListLine
    <3>5. CASE x # d /\ x # c /\ z # d /\ z # c
      <4>1. dk[x].tail = dk[z].tail /\ dk[x].tail # Null /\ x \in L /\ z \in L
        BY <2>2, <2>3, <3>5
      <4> QED  BY <1>1, <4>1 DEF ListLine
    <3> QED  BY <3>1, <3>2, <3>3, <3>4, <3>5
  <2>4. \A x \in L : dk[x].tail # Root
    BY <1>1 DEF ListLine
  <2>5. ASSUME NEW x \in Q PROVE dl[x].tail # Root
    BY <1>1, <2>2, <2>4
  <2> QED  BY <2>3, <2>5 DEF ListLine
<1>13. ASSUME NEW x \in R, NEW k \in Names
       PROVE  See(dl, {}, x)[k] = IF x = d /\ k = n THEN e
                                  ELSE See(dk, G, x)[k]
  <2>1. x \in Dirs /\ x # c
    BY <1>1
  <2>2. See(dl, {}, x) = dl[x].kids /\ See(dk, G, x) = dk[x].kids
    BY <1>1, <1>6, <2>1, SeeIs
  <2>3. dl[x].kids[k] = IF x = d /\ k = n THEN e ELSE dk[x].kids[k]
    BY <1>4, <1>6, <2>1
  <2> QED  BY <2>2, <2>3
<1>14. See(dl, {}, c) = Empty
  <2>1. See(dl, {}, c) = dl[c].kids
    BY <1>1, <1>6, SeeIs
  <2> QED  BY <1>9, <2>1
<1>15. See(dk, G, d)[n].pair = Null
  BY <1>1, SeeIs, PlainEntries
<1>16. ASSUME NEW k \in Names PROVE See(dl, {}, c)[k].pair = Null
  BY <1>14, EmptyIs, PlainEntries
<1>17. IsClosure(Root, Subs(dl, {}), Q)
  <2> DEFINE s == Subs(dk, G)
             t == Subs(dl, {})
  <2>1. s \in Steps /\ \A x \in Dirs : \A y :
          y \in s[x] <=> \E k \in Names : See(dk, G, x)[k].pair = y
    BY <1>1, StepsAre
  <2>2. t \in Steps /\ \A x \in Dirs : \A y :
          y \in t[x] <=> \E k \in Names : See(dl, {}, x)[k].pair = y
    BY <1>6, StepsAre
  <2>3. IsClosure(Root, s, R)
    BY <1>1
  <2> HIDE DEF s, t
  <2>4. \A y \in t[c] : y = Null
    BY <1>16, <2>2
  <2>5. ASSUME NEW x \in R, NEW y \in Dirs
        PROVE  y \in t[x] <=> y \in s[x] \/ (x = d /\ y = c)
    <3>1. x \in Dirs /\ y # Null
      BY <1>1, LfsTreeAssumption
    <3>2. ASSUME NEW k \in Names, See(dl, {}, x)[k].pair = y
          PROVE  See(dk, G, x)[k].pair = y \/ (x = d /\ y = c)
      BY <1>3, <1>13, <3>2
    <3>3. ASSUME NEW k \in Names, See(dk, G, x)[k].pair = y
          PROVE  See(dl, {}, x)[k].pair = y
      <4>1. ~(x = d /\ k = n)
        BY <1>15, <3>1, <3>3
      <4> QED  BY <1>13, <3>3, <4>1
    <3>4. x = d /\ y = c => See(dl, {}, x)[n].pair = y
      BY <1>3, <1>13
    <3> QED  BY <2>1, <2>2, <3>1, <3>2, <3>3, <3>4
  <2>6. c \in Dirs \ R
    OBVIOUS
  <2>7. IsClosure(Root, t, Q)
    BY <2>1, <2>2, <2>3, <2>4, <2>5, <2>6, AddLeaf
  <2> QED  BY <2>7 DEF t
<1>18. ASSUME NEW x \in R, NEW k \in Names
       PROVE  See(dk, G, x)[k].pair # c
  <2>1. See(dk, G, x)[k].pair \in Subs(dk, G)[x]
    BY <1>1, StepsAre
  <2> QED  BY <1>1, <2>1 DEF IsClosure, Still
<1>19. Parents(dl, {}, Q)
  <2>1. ASSUME NEW x \in Q, NEW z \in Q, NEW k \in Names, NEW m \in Names,
               See(dl, {}, x)[k].pair # Null
        PROVE  /\ See(dl, {}, x)[k].pair # Root
               /\ See(dl, {}, x)[k].pair = See(dl, {}, z)[m].pair
                    => x = z /\ k = m
    <3>1. x \in R
      BY <1>16, <2>1
    <3>2. CASE x = d /\ k = n
      <4>1. See(dl, {}, x)[k].pair = c
        BY <1>3, <1>13, <3>1, <3>2
      <4>2. ASSUME See(dl, {}, z)[m].pair = c PROVE z = d /\ m = n
        <5>1. z \in R
          BY <1>1, <1>16, <4>2
        <5> QED  BY <1>13, <1>18, <4>2, <5>1
      <4> QED  BY <1>1, <3>2, <4>1, <4>2
    <3>3. CASE ~(x = d /\ k = n)
      <4>1. See(dl, {}, x)[k].pair = See(dk, G, x)[k].pair
        BY <1>13, <3>1, <3>3
      <4>2. See(dl, {}, x)[k].pair # Root
        BY <1>1, <2>1, <3>1, <4>1 DEF Parents
      <4>3. ASSUME See(dl, {}, x)[k].pair = See(dl, {}, z)[m].pair
            PROVE  x = z /\ k = m
        <5>1. z \in R
          BY <1>16, <2>1, <4>3
        <5>2. ~(z = d /\ m = n)
          BY <1>3, <1>13, <1>18, <3>1, <4>1, <4>3, <5>1
        <5>3. See(dl, {}, z)[m].pair = See(dk, G, z)[m].pair
          BY <1>13, <5>1, <5>2
        <5> QED  BY <1>1, <2>1, <3>1, <4>1, <4>3, <5>1, <5>3 DEF Parents
      <4> QED  BY <4>2, <4>3
    <3> QED  BY <3>2, <3>3
  <2> QED  BY <2>1 DEF Parents
<1>20. MoveIs({}, Q) /\ Q \ Q = {} /\ Q = L \cup {c}
  BY DEF MoveIs, PendingMove
<1>21. DiskInv(dl, Q, Q, {})
  BY <1>1, <1>6, <1>10, <1>11, <1>12, <1>17, <1>19, <1>20 DEF DiskInv
<1> DEFINE A == TreeOf(dl, {}, Q)
           t == TreeOf(dk, G, R)
           v == Set(t, d, n, e)
           B == [x \in Q |-> IF x = c THEN Empty ELSE v[x]]
<1>22. /\ A \in [Q -> Rows] /\ (\A x \in Q : A[x] = See(dl, {}, x))
       /\ t \in [R -> Rows] /\ \A x \in R : t[x] = See(dk, G, x)
  <2>1. Q \in SUBSET Dirs
    BY <1>1
  <2>2. A \in [Q -> Rows] /\ \A x \in Q : A[x] = See(dl, {}, x)
    <3> HIDE DEF Q
    <3> QED  BY <1>6, <2>1, TreeIs
  <2>3. t \in [R -> Rows] /\ \A x \in R : t[x] = See(dk, G, x)
    BY <1>1, TreeIs
  <2> QED  BY <2>2, <2>3
<1> HIDE DEF A, t
<1>23. v \in [R -> Rows] /\ \A x \in R : \A k \in Names :
         v[x][k] = IF x = d /\ k = n THEN e ELSE t[x][k]
  BY <1>3, <1>22, SetIs
<1> HIDE DEF v
<1>24. B \in [Q -> Rows] /\ \A x \in Q : B[x] = IF x = c THEN Empty ELSE v[x]
  BY <1>23, EmptyIs
<1> HIDE DEF B
<1>25. ASSUME NEW x \in Q, NEW k \in Names PROVE A[x][k] = B[x][k]
  <2>1. CASE x = c
    BY <1>14, <1>22, <1>24, <2>1
  <2>2. CASE x # c
    <3>1. x \in R
      BY <2>2
    <3> QED  BY <1>13, <1>22, <1>23, <1>24, <2>2, <3>1
  <2> QED  BY <2>1, <2>2
<1>26. A = B
  BY <1>22, <1>24, <1>25, TreesEqual
<1> QED  BY <1>20, <1>21, <1>26 DEF A, B, t, v, e

\* Entry n of d is seen as m of e and no longer where it was, in place of
\* what led to q.
Renamed(dk, G, dl, g, R, d, n, e, m) ==
    \A x \in R : \A k \in Names :
      See(dl, g, x)[k] = IF x = d /\ k = n THEN Absent
                         ELSE IF x = e /\ k = m THEN See(dk, G, d)[n]
                         ELSE See(dk, G, x)[k]

\* What led to q was empty, and x is not moved below itself.
MayMove(dk, G, d, n, e, m, x, q, B) ==
    /\ ~(d = e /\ n = m) /\ See(dk, G, d)[n] # Absent
    /\ x = See(dk, G, d)[n].pair /\ q = See(dk, G, e)[m].pair
    /\ q # Null => See(dk, G, q) = Empty
    /\ x = Null => q = Null
    /\ x # Null => x \in B /\ Still(Subs(dk, G), B) /\ e \notin B

\* What was in the place is neither of the two directories.
LEMMA ReplacedIs ==
    ASSUME NEW dk \in Disks, NEW G, NEW R, IsClosure(Root, Subs(dk, G), R),
           Parents(dk, G, R), NEW d \in R, NEW n \in Names, NEW e \in R,
           NEW m \in Names, NEW x, NEW q, NEW B,
           MayMove(dk, G, d, n, e, m, x, q, B)
    PROVE  /\ q # d /\ q # e /\ q # Root /\ (q # Null => q \in R /\ q # x)
           /\ (x # Null => x \in R /\ x # Root)
           /\ \A z \in R : \A k \in Names :
                /\ x # Null /\ See(dk, G, z)[k].pair = x => z = d /\ k = n
                /\ q # Null /\ See(dk, G, z)[k].pair = q => z = e /\ k = m
<1>1. R \in SUBSET Dirs /\ Root \in R /\ Null \notin Dirs
  BY LfsTreeAssumption DEF IsClosure
<1>2. /\ ~(d = e /\ n = m) /\ See(dk, G, d)[n] # Absent
      /\ x = See(dk, G, d)[n].pair /\ q = See(dk, G, e)[m].pair
      /\ q # Null => See(dk, G, q) = Empty
  BY DEF MayMove
<1>3. ASSUME x # Null
      PROVE  x \in R /\ x # Root
             /\ \A z \in R : \A k \in Names :
                  See(dk, G, z)[k].pair = x => z = d /\ k = n
  BY <1>2, <1>3, EntryOfTree
<1>4. ASSUME q # Null
      PROVE  q \in R /\ q # Root
             /\ \A z \in R : \A k \in Names :
                  See(dk, G, z)[k].pair = q => z = e /\ k = m
  BY <1>2, <1>4, EntryOfTree
<1>5. ASSUME q # Null PROVE q # d /\ q # e /\ q # x
  <2>1. q # d
    BY <1>2, <1>5, EmptyIs
  <2>2. q # e
    BY <1>2, <1>5, EmptyIs, PlainEntries
  <2>3. q # x
    BY <1>2, <1>4, <1>5
  <2> QED  BY <2>1, <2>2, <2>3
<1>6. q = Null => q # d /\ q # e /\ q # Root
  BY <1>1
<1> QED  BY <1>3, <1>4, <1>5, <1>6

\* A directory that is moved is reached where it has come.
LEMMA MovedClosure ==
    ASSUME NEW dk \in Disks, NEW dl \in Disks, NEW G, NEW g, NEW R,
           IsClosure(Root, Subs(dk, G), R), Parents(dk, G, R),
           NEW d \in R, NEW n \in Names, NEW e \in R, NEW m \in Names,
           NEW x, x # Null, NEW q, NEW B \in SUBSET Dirs,
           MayMove(dk, G, d, n, e, m, x, q, B),
           Renamed(dk, G, dl, g, R, d, n, e, m)
    PROVE  IsClosure(Root, Subs(dl, g), R \ {q})
<1> DEFINE s == Subs(dk, G)
           t == Subs(dl, g)
           u == [z \in Dirs |-> s[z] \ {q}]
           Q == R \ {q}
<1>1. R \in SUBSET Dirs /\ Null \notin Dirs
  BY LfsTreeAssumption DEF IsClosure
<1>2. /\ q # d /\ q # e /\ q # Root /\ (q # Null => q \in R /\ q # x)
      /\ x \in R /\ x # Root
  BY ReplacedIs
<1>3. ASSUME NEW z \in R, NEW k \in Names
      PROVE  /\ See(dk, G, z)[k].pair = x => z = d /\ k = n
             /\ q # Null /\ See(dk, G, z)[k].pair = q => z = e /\ k = m
  BY ReplacedIs
<1>4. /\ x = See(dk, G, d)[n].pair /\ q = See(dk, G, e)[m].pair
      /\ q # Null => See(dk, G, q) = Empty
      /\ x \in B /\ Still(s, B) /\ e \notin B /\ ~(d = e /\ n = m)
  BY DEF MayMove
<1>5. s \in Steps /\ \A z \in Dirs : \A y :
        y \in s[z] <=> \E k \in Names : See(dk, G, z)[k].pair = y
  BY StepsAre
<1>6. t \in Steps /\ \A z \in Dirs : \A y :
        y \in t[z] <=> \E k \in Names : See(dl, g, z)[k].pair = y
  BY StepsAre
<1>7. IsClosure(Root, s, R)
  OBVIOUS
<1> HIDE DEF s, t
<1>8. u \in Steps /\ \A z \in Dirs : \A y : y \in u[z] <=> y \in s[z] /\ y # q
  BY <1>5 DEF Steps
<1> HIDE DEF u
<1>9. IsClosure(Root, u, Q)
  <2>1. CASE q = Null
    <3>1. Q = R
      BY <1>1, <2>1
    <3>2. (\A z \in R : \A y \in Dirs : y \in s[z] <=> y \in u[z])
          /\ (\A z \in R : \A y \in u[z] : y \in Dirs \cup {Null})
          /\ (\A z \in R : \A y \in s[z] : y \in Dirs \cup {Null})
      BY <1>1, <1>5, <1>8, <2>1 DEF Steps
    <3> QED  BY <1>7, <3>1, <3>2, SameClosure
  <2>2. CASE q # Null
    <3>1. q \in R /\ q # Root /\ q \in Dirs
      BY <1>1, <1>2, <2>2
    <3>2. ASSUME NEW y \in s[q] PROVE y = Null
      BY <1>4, <1>5, <2>2, <3>1, EmptyIs, PlainEntries
    <3>3. \A z \in R \ {q} : \A y \in Dirs : y \in u[z] <=> y \in s[z] /\ y # q
      BY <1>1, <1>8
    <3> QED  BY <1>5, <1>7, <1>8, <3>1, <3>2, <3>3, DropLeaf
  <2> QED  BY <2>1, <2>2
<1>10. Still(u, B)
  BY <1>4, <1>8 DEF Still
<1>11. x \in Q /\ e \in Q
  BY <1>1, <1>2
<1>12. ASSUME NEW z \in Q, NEW y \in Dirs
       PROVE  y \in t[z] <=> (y \in u[z] /\ y # x) \/ (z = e /\ y = x)
  <2>1. z \in R /\ z \in Dirs /\ y # Null
    BY <1>1
  <2>2. ASSUME NEW k \in Names
        PROVE  See(dl, g, z)[k] = IF z = d /\ k = n THEN Absent
                                  ELSE IF z = e /\ k = m THEN See(dk, G, d)[n]
                                  ELSE See(dk, G, z)[k]
    BY <2>1 DEF Renamed
  <2>3. ASSUME NEW k \in Names, See(dl, g, z)[k].pair = y
        PROVE  (y \in u[z] /\ y # x) \/ (z = e /\ y = x)
    <3>1. ~(z = d /\ k = n)
      BY <2>1, <2>2, <2>3, PlainEntries
    <3>2. CASE z = e /\ k = m
      BY <1>4, <2>2, <2>3, <3>1, <3>2
    <3>3. CASE ~(z = e /\ k = m)
      <4>1. See(dk, G, z)[k].pair = y
        BY <2>2, <2>3, <3>1, <3>3
      <4>2. y # x /\ y # q
        BY <1>3, <2>1, <3>1, <3>3, <4>1
      <4> QED  BY <1>5, <1>8, <2>1, <4>1, <4>2
    <3> QED  BY <3>2, <3>3
  <2>4. ASSUME z = e, y = x PROVE See(dl, g, z)[m].pair = y
    BY <1>4, <2>2, <2>4
  <2>5. ASSUME NEW k \in Names, See(dk, G, z)[k].pair = y, y # q, y # x
        PROVE  See(dl, g, z)[k].pair = y
    BY <1>4, <2>2, <2>5
  <2>6. y \in t[z] => (y \in u[z] /\ y # x) \/ (z = e /\ y = x)
    BY <1>6, <2>1, <2>3
  <2>7. z = e /\ y = x => y \in t[z]
    BY <1>6, <2>1, <2>4
  <2>8. y \in u[z] /\ y # x => y \in t[z]
    BY <1>5, <1>6, <1>8, <2>1, <2>5
  <2> QED  BY <2>6, <2>7, <2>8
<1> HIDE DEF Q
<1>13. IsClosure(Root, t, Q)
  BY <1>4, <1>6, <1>8, <1>9, <1>10, <1>11, <1>12, MoveEdge
<1> QED  BY <1>13 DEF t, Q

\* Entries stay unique.
LEMMA MovedParents ==
    ASSUME NEW dk \in Disks, NEW dl \in Disks, NEW G, NEW g, NEW R,
           IsClosure(Root, Subs(dk, G), R), Parents(dk, G, R),
           NEW d \in R, NEW n \in Names, NEW e \in R, NEW m \in Names,
           NEW x, NEW q, NEW B, MayMove(dk, G, d, n, e, m, x, q, B),
           Renamed(dk, G, dl, g, R, d, n, e, m)
    PROVE  Parents(dl, g, R \ {q})
<1>1. ASSUME NEW z \in R, NEW k \in Names, See(dl, g, z)[k].pair # Null
      PROVE  /\ ~(z = d /\ k = n)
             /\ z = e /\ k = m => See(dl, g, z)[k].pair = x
             /\ ~(z = e /\ k = m)
                  => See(dl, g, z)[k].pair = See(dk, G, z)[k].pair
  <2>1. See(dl, g, z)[k] = IF z = d /\ k = n THEN Absent
                           ELSE IF z = e /\ k = m THEN See(dk, G, d)[n]
                           ELSE See(dk, G, z)[k]
    BY DEF Renamed
  <2>2. ~(z = d /\ k = n)
    BY <1>1, <2>1, PlainEntries
  <2>3. x = See(dk, G, d)[n].pair
    BY DEF MayMove
  <2> QED  BY <2>1, <2>2, <2>3
<1>2. ASSUME NEW z \in R, NEW k \in Names
      PROVE  x # Null /\ See(dk, G, z)[k].pair = x => z = d /\ k = n
  BY ReplacedIs
<1>3. x # Null => x # Root
  BY ReplacedIs
<1>4. ASSUME NEW y \in R, NEW z \in R, NEW k \in Names, NEW l \in Names,
             See(dl, g, y)[k].pair # Null
      PROVE  /\ See(dl, g, y)[k].pair # Root
             /\ See(dl, g, y)[k].pair = See(dl, g, z)[l].pair => y = z /\ k = l
  <2>1. See(dl, g, y)[k].pair # Root
    <3>1. CASE y = e /\ k = m
      BY <1>1, <1>3, <1>4, <3>1
    <3>2. CASE ~(y = e /\ k = m)
      <4>1. See(dk, G, y)[k].pair = See(dl, g, y)[k].pair
        BY <1>1, <1>4, <3>2
      <4> QED  BY <1>4, <4>1 DEF Parents
    <3> QED  BY <3>1, <3>2
  <2>2. ASSUME See(dl, g, y)[k].pair = See(dl, g, z)[l].pair
        PROVE  y = z /\ k = l
    <3>1. CASE y = e /\ k = m /\ ~(z = e /\ l = m)
      <4>1. See(dk, G, z)[l].pair = x /\ x # Null /\ ~(z = d /\ l = n)
        BY <1>1, <1>4, <2>2, <3>1
      <4> QED  BY <1>2, <4>1
    <3>2. CASE z = e /\ l = m /\ ~(y = e /\ k = m)
      <4>1. See(dk, G, y)[k].pair = x /\ x # Null /\ ~(y = d /\ k = n)
        BY <1>1, <1>4, <2>2, <3>2
      <4> QED  BY <1>2, <4>1
    <3>3. CASE ~(y = e /\ k = m) /\ ~(z = e /\ l = m)
      <4>1. See(dk, G, y)[k].pair = See(dl, g, y)[k].pair
            /\ See(dk, G, z)[l].pair = See(dl, g, z)[l].pair
        BY <1>1, <1>4, <2>2, <3>3
      <4> QED  BY <1>4, <2>2, <4>1 DEF Parents
    <3> QED  BY <3>1, <3>2, <3>3
  <2> QED  BY <2>1, <2>2
<1> QED  BY <1>4 DEF Parents

\* The tree after a rename.
RenamedTree(t, d, n, e, m, v, q) ==
    Less(Set(Set(t, d, n, Absent), e, m, v), q)
TreeIsRenamed(dk, G, dl, g, R, d, n, e, m, v, q) ==
    TreeOf(dl, g, R \ {q}) = RenamedTree(TreeOf(dk, G, R), d, n, e, m, v, q)

\* It is the one that Rename announces.
LEMMA MovedTree ==
    ASSUME NEW dk \in Disks, NEW dl \in Disks, NEW G, NEW g,
           NEW R \in SUBSET Dirs,
           NEW d \in R, NEW n \in Names, NEW e \in R, NEW m \in Names,
           NEW q, ~(d = e /\ n = m), NEW v, v = See(dk, G, d)[n],
           Renamed(dk, G, dl, g, R, d, n, e, m)
    PROVE  TreeIsRenamed(dk, G, dl, g, R, d, n, e, m, v, q)
<1> DEFINE Q == R \ {q}
           o == Absent
           A == TreeOf(dl, g, Q)
           T == TreeOf(dk, G, R)
           U == Set(T, d, n, o)
           W == Set(U, e, m, v)
           B == Less(W, q)
<1>1. v \in Entries /\ o \in Entries
  BY SeeIs, PlainEntries DEF Rows
<1>2. A \in [Q -> Rows] /\ \A x \in Q : A[x] = See(dl, g, x)
  <2>1. Q \in SUBSET Dirs
    OBVIOUS
  <2> HIDE DEF Q
  <2> QED  BY <2>1, TreeIs
<1>3. T \in [R -> Rows] /\ \A x \in R : T[x] = See(dk, G, x)
  BY TreeIs
<1> HIDE DEF A, T, o
<1>4. U \in [R -> Rows] /\ \A x \in R : \A k \in Names :
        U[x][k] = IF x = d /\ k = n THEN o ELSE T[x][k]
  BY <1>1, <1>3, SetIs
<1> HIDE DEF U
<1>5. W \in [R -> Rows] /\ \A x \in R : \A k \in Names :
        W[x][k] = IF x = e /\ k = m THEN v ELSE U[x][k]
  BY <1>1, <1>4, SetIs
<1> HIDE DEF W
<1>6. B \in [Q -> Rows] /\ \A x \in Q : B[x] = W[x]
  BY <1>5 DEF Less
<1> HIDE DEF B
<1>7. ASSUME NEW x \in Q, NEW k \in Names PROVE A[x][k] = B[x][k]
  <2>1. x \in R
    OBVIOUS
  <2>2. See(dl, g, x)[k] = IF x = d /\ k = n THEN Absent
                           ELSE IF x = e /\ k = m THEN v
                           ELSE See(dk, G, x)[k]
    BY <2>1 DEF Renamed
  <2>3. B[x][k] = IF x = e /\ k = m THEN v
                  ELSE IF x = d /\ k = n THEN o ELSE See(dk, G, x)[k]
    BY <1>3, <1>4, <1>5, <1>6, <2>1
  <2> QED  BY <1>2, <2>2, <2>3 DEF o
<1>8. A = B
  BY <1>2, <1>6, <1>7, TreesEqual
<1> QED  BY <1>8 DEF RenamedTree, TreeIsRenamed, A, B, W, U, T, o

\* The entries that a rename commits to e, and the state it records.
RenamedRow(dk, d, n, e, m) ==
    [[dk[e].kids EXCEPT ![m] = dk[d].kids[n]] EXCEPT
       ![n] = IF d = e THEN Absent ELSE @]
RenameState(d, n, e, q) ==
    (IF q # Null THEN Orphans ELSE {}) \cup (IF d # e THEN Move(d, n) ELSE {})

\* The row, entry by entry.
LEMMA RenamedRowIs ==
    ASSUME NEW dk \in Disks, NEW d \in Dirs, NEW n \in Names, NEW e \in Dirs,
           NEW m \in Names, ~(d = e /\ n = m)
    PROVE  /\ RenamedRow(dk, d, n, e, m) \in Rows
           /\ \A k \in Names :
                RenamedRow(dk, d, n, e, m)[k] =
                  IF d = e /\ k = n THEN Absent
                  ELSE IF k = m THEN dk[d].kids[n] ELSE dk[e].kids[k]
<1> DEFINE r == dk[e].kids
           v == dk[d].kids[n]
           r1 == [r EXCEPT ![m] = v]
           w == IF d = e THEN Absent ELSE r1[n]
           r2 == [r1 EXCEPT ![n] = w]
<1>1. r \in Rows /\ v \in Entries
  BY DEF Disks, Pairs, Rows
<1> HIDE DEF r, v
<1>2. r1 \in Rows /\ \A k \in Names : r1[k] = IF k = m THEN v ELSE r[k]
  BY <1>1, RowIs
<1>3. RenamedRow(dk, d, n, e, m) = r2
  BY DEF RenamedRow, r, v
<1> HIDE DEF r1
<1>4. w \in Entries
  BY <1>2, PlainEntries DEF Rows
<1>5. w = IF d = e THEN Absent ELSE IF n = m THEN v ELSE r[n]
  BY <1>2
<1> HIDE DEF w
<1>6. r2 \in Rows /\ \A k \in Names : r2[k] = IF k = n THEN w ELSE r1[k]
  BY <1>2, <1>4, RowIs
<1> HIDE DEF r2
<1>7. ASSUME NEW k \in Names
      PROVE  r2[k] = IF d = e /\ k = n THEN Absent
                     ELSE IF k = m THEN v ELSE r[k]
  BY <1>2, <1>5, <1>6
<1> QED  BY <1>3, <1>6, <1>7 DEF r, v

\* What it hides.
LEMMA RenameStateIs ==
    ASSUME NEW d \in Dirs, NEW n \in Names, NEW e, NEW q
    PROVE  /\ RenameState(d, n, e, q) \in SUBSET Atoms
           /\ \A x, k : <<"move", x, k>> \in RenameState(d, n, e, q)
                          <=> d # e /\ x = d /\ k = n
           /\ PendingMove(RenameState(d, n, e, q)) =
                IF d # e THEN Move(d, n) ELSE {}
           /\ q = Null => RenameState(d, n, e, q) \cap Orphans = {}
           /\ q # Null => Orphans \subseteq RenameState(d, n, e, q)
<1> DEFINE a == <<"move", d, n>>
           b == <<"orphans">>
<1>1. a # b /\ a \in Atoms /\ b \in Atoms
  BY AtomIs DEF Atoms, Orphans
<1>2. \A x, k : <<"move", x, k>> # b /\
                (<<"move", x, k>> = a <=> x = d /\ k = n)
  BY AtomIs
<1>3. Move(d, n) = {a} /\ Orphans = {b}
  BY DEF Move, Orphans
<1> HIDE DEF a, b
<1> DEFINE g == RenameState(d, n, e, q)
<1>4. \A y : y \in g <=> (y = b /\ q # Null) \/ (y = a /\ d # e)
  BY <1>3 DEF RenameState
<1> HIDE DEF g
<1>5. \A x, k : <<"move", x, k>> \in g <=> d # e /\ x = d /\ k = n
  BY <1>2, <1>4
<1>6. PendingMove(g) = IF d # e THEN Move(d, n) ELSE {}
  BY <1>1, <1>3, <1>4 DEF PendingMove
<1> QED  BY <1>1, <1>3, <1>4, <1>5, <1>6 DEF g

\* The commit of a rename, with what its guard has looked at.
RenameCommit(dk, G, d, n, e, m, v, q, B, g, dl) ==
    /\ ~(d = e /\ n = m) /\ v = dk[d].kids[n] /\ v # Absent
    /\ dk[e].kids[m].type \in {"absent", v.type}
    /\ q = dk[e].kids[m].pair /\ (q # Null => dk[q].kids = Empty)
    /\ v.pair # Null => /\ v.pair \in B /\ Still(Subs(dk, G), B)
                        /\ e \notin B
    /\ g = RenameState(d, n, e, q)
    /\ dl = Committed(dk, e, RenamedRow(dk, d, n, e, m), dk[e].tail,
                      g, G, {})

\* Entry n of d becomes m of e.
LEMMA RenameKeeps ==
    ASSUME NEW dk, NEW L, NEW R, NEW G, DiskInv(dk, L, R, G),
           G \subseteq Orphans, L = R, NEW d \in R, NEW n \in Names,
           NEW e \in R, NEW m \in Names, NEW v, NEW q,
           NEW B \in SUBSET Dirs, NEW g, NEW dl,
           RenameCommit(dk, G, d, n, e, m, v, q, B, g, dl)
    PROVE  /\ DiskInv(dl, L, R \ {q}, g)
           /\ q # Null => q \in R
           /\ TreeOf(dl, g, R \ {q}) =
                RenamedTree(TreeOf(dk, G, R), d, n, e, m, v, q)
<1> DEFINE kids == RenamedRow(dk, d, n, e, m)
           x == v.pair
           Q == R \ {q}
<1>1. /\ dk \in Disks /\ L \in SUBSET Dirs /\ d \in Dirs /\ e \in Dirs
      /\ R \in SUBSET Dirs /\ Null \notin Dirs
      /\ IsClosure(Root, Subs(dk, G), R) /\ Parents(dk, G, R)
  BY LfsTreeAssumption DEF DiskInv, IsClosure
<1>0. /\ ~(d = e /\ n = m) /\ v = dk[d].kids[n] /\ v # Absent
      /\ dk[e].kids[m].type \in {"absent", v.type}
      /\ q = dk[e].kids[m].pair /\ (q # Null => dk[q].kids = Empty)
      /\ v.pair # Null => /\ v.pair \in B /\ Still(Subs(dk, G), B)
                          /\ e \notin B
  BY DEF RenameCommit
<1>2. kids \in Rows /\ \A k \in Names :
        kids[k] = IF d = e /\ k = n THEN Absent
                  ELSE IF k = m THEN v ELSE dk[e].kids[k]
  BY <1>0, <1>1, RenamedRowIs
<1>3. /\ g \in SUBSET Atoms
      /\ \A z, k : <<"move", z, k>> \in g <=> d # e /\ z = d /\ k = n
      /\ PendingMove(g) = IF d # e THEN Move(d, n) ELSE {}
  <2> DEFINE h == RenameState(d, n, e, q)
  <2>1. /\ h \in SUBSET Atoms
        /\ \A z, k : <<"move", z, k>> \in h <=> d # e /\ z = d /\ k = n
        /\ PendingMove(h) = IF d # e THEN Move(d, n) ELSE {}
    BY <1>1, RenameStateIs
  <2> HIDE DEF h
  <2>2. g = h
    BY DEF RenameCommit, h
  <2> QED  BY <2>1, <2>2
<1> HIDE DEF kids
<1>4. dl = Committed(dk, e, kids, dk[e].tail, g, G, {})
  BY DEF RenameCommit, kids
<1>5. /\ dl \in Disks /\ dl[e].kids = kids
      /\ \A z \in Dirs \ {e} : dl[z] = dk[z]
      /\ IsClosure(Root, Tails(dl), L) /\ ListLine(dl, L)
      /\ Shares(L, dl, g)
  <2>1. e \in L /\ kids \in Rows /\ g \in SUBSET Atoms
    BY <1>2, <1>3
  <2>2. Edited(dk, dl, L, e, kids, g)
    BY <1>4, <2>1, EditKeeps
  <2> QED  BY <2>2 DEF Edited
<1>6. \A z \in Dirs : See(dk, G, z) = dk[z].kids
  BY <1>1, SeeIs
<1>7. Renamed(dk, G, dl, g, R, d, n, e, m)
  <2>1. ASSUME NEW z \in R, NEW k \in Names
        PROVE  See(dl, g, z)[k] = IF z = d /\ k = n THEN Absent
                                  ELSE IF z = e /\ k = m THEN v
                                  ELSE dk[z].kids[k]
    <3>1. z \in Dirs
      BY <1>1
    <3>2. See(dl, g, z)[k] = IF <<"move", z, k>> \in g THEN Absent
                             ELSE dl[z].kids[k]
      BY <1>5, <3>1, SeeIs
    <3>3. See(dl, g, z)[k] = IF d # e /\ z = d /\ k = n THEN Absent
                             ELSE dl[z].kids[k]
      <4>1. <<"move", z, k>> \in g <=> d # e /\ z = d /\ k = n
        BY <1>3
      <4> QED  BY <3>2, <4>1
    <3>4. CASE z = e
      BY <1>2, <1>5, <3>3, <3>4
    <3>5. CASE z # e
      BY <1>5, <3>1, <3>3, <3>5
    <3> QED  BY <3>4, <3>5
  <2> QED  BY <1>0, <1>1, <1>6, <2>1 DEF Renamed
<1>8. dk[e].kids[m] \in Entries /\ v \in Entries
  BY <1>0, <1>1 DEF Disks, Pairs, Rows
<1>9. x = Null => q = Null
  <2>1. q # Null => dk[e].kids[m].type = "dir"
    BY <1>0, <1>8, EntryIs
  <2>2. v.type = "dir" => x # Null
    BY <1>0, <1>8, EntryIs
  <2> QED  BY <1>0, <2>1, <2>2
<1>10. q # Null => q \in Dirs
  BY <1>0, <1>8, EntryIs
<1>11. MayMove(dk, G, d, n, e, m, x, q, B)
  BY <1>0, <1>1, <1>6, <1>9, <1>10 DEF MayMove
<1> HIDE DEF x
<1>12. q # d /\ q # e /\ q # Root /\ (q # Null => q \in R /\ q # x)
  BY <1>1, <1>11, ReplacedIs
<1>13. Parents(dl, g, Q)
  BY <1>1, <1>5, <1>7, <1>11, MovedParents
<1>14. IsClosure(Root, Subs(dl, g), Q)
  <2>1. CASE x # Null
    BY <1>1, <1>5, <1>7, <1>11, <2>1, MovedClosure
  <2>2. CASE x = Null
    <3>1. Q = R /\ q = Null
      BY <1>1, <1>9, <2>2
    <3>2. ASSUME NEW z \in R, NEW k \in Names
          PROVE  See(dl, g, z)[k].pair = See(dk, G, z)[k].pair
      <4>1. See(dl, g, z)[k] = IF z = d /\ k = n THEN Absent
                               ELSE IF z = e /\ k = m THEN See(dk, G, d)[n]
                               ELSE See(dk, G, z)[k]
        BY <1>7 DEF Renamed
      <4>2. See(dk, G, d)[n].pair = Null /\ See(dk, G, e)[m].pair = Null
        BY <1>0, <1>1, <1>6, <2>2, <3>1 DEF x
      <4> QED  BY <4>1, <4>2, PlainEntries
    <3>3. IsClosure(Root, Subs(dl, g), R)
      <4>1. PairsAsBefore(dk, G, dl, g, R)
        BY <3>2 DEF PairsAsBefore
      <4> QED  BY <1>1, <1>5, <4>1, SamePairs
    <3> QED  BY <3>1, <3>3
  <2> QED  BY <2>1, <2>2
<1>15. ASSUME NEW z \in L \ Q PROVE dl[z].kids = Empty
  <2>1. z = q /\ z \in Dirs /\ z # Null /\ z # e
    BY <1>1, <1>12
  <2> QED  BY <1>0, <1>5, <2>1
<1>16. MoveIs(g, L)
  BY <1>3 DEF MoveIs
<1>17. DiskInv(dl, L, Q, g)
  BY <1>1, <1>3, <1>5, <1>13, <1>14, <1>15, <1>16 DEF DiskInv
<1>18. v = See(dk, G, d)[n] /\ ~(d = e /\ n = m)
  BY <1>0, <1>1, <1>6
<1>19. TreeOf(dl, g, Q) =
         RenamedTree(TreeOf(dk, G, R), d, n, e, m, v, q)
  <2>1. dk \in Disks /\ dl \in Disks /\ R \in SUBSET Dirs
    BY <1>1, <1>5
  <2>2. TreeIsRenamed(dk, G, dl, g, R, d, n, e, m, v, q)
    BY <1>7, <1>18, <2>1, MovedTree
  <2> QED  BY <2>2 DEF TreeIsRenamed
<1> QED  BY <1>12, <1>17, <1>19

(***************************************************************************)
(* The steps                                                               *)
(***************************************************************************)

\* Enough for the invariant after a step.
LEMMA InvNext ==
    ASSUME NEW L, NEW R, NEW G, DiskInv(disk', L, R, G),
           Phase(disk', L, R, G, gstate', gdisk', op', tree')
    PROVE  TreeInv'
BY DEF TreeInv

\* What a commit assigns.
LEMMA CommitIs ==
    ASSUME NEW d, NEW kids, NEW tail, NEW g, NEW stolen,
           Commit(d, kids, tail, g, stolen)
    PROVE  /\ disk' = Committed(disk, d, kids, tail, g, gdisk, stolen)
           /\ gstate' = g /\ gdisk' = g
BY DEF Commit, Committed

\* No operation is in progress.
LEMMA NoOpIs == NoOp \in Ops /\ NoOp.at = "idle"
BY LfsTreeAssumption DEF NoOp, Ops

\* Between operations.
LEMMA IdleIs ==
    ASSUME NEW L, NEW R, NEW G, op.at = "idle",
           Phase(disk, L, R, G, gstate, gdisk, op, tree)
    PROVE  /\ op \in Ops /\ gdisk = G /\ gstate \in {G, G \ Orphans}
           /\ gstate \cap Orphans = {} => L = R
           /\ tree.old = tree.new /\ tree.new = TreeOf(disk, G, R)
BY DEF Phase, IdlePhase, InsertPhase, DropPhase, UnlinkPhase

\* When an operation that writes may begin, all is repaired.
LEMMA BegunIs ==
    ASSUME NEW L, NEW R, NEW G, Begins,
           Phase(disk, L, R, G, gstate, gdisk, op, tree)
    PROVE  /\ op \in Ops /\ op.at = "idle" /\ gdisk = G /\ gstate = {}
           /\ G \subseteq Orphans /\ L = R
           /\ tree.new = TreeOf(disk, G, R)
<1>1. op.at = "idle" /\ PendingMove(gdisk) = {} /\ gstate \cap Orphans = {}
  BY DEF Begins
<1>2. /\ op \in Ops /\ gdisk = G /\ gstate \in {G, G \ Orphans}
      /\ gstate \cap Orphans = {} => L = R
      /\ tree.new = TreeOf(disk, G, R)
  BY <1>1, IdleIs
<1>3. G \subseteq Orphans
  BY <1>1, <1>2, NoMoveIs
<1>4. gstate = {}
  BY <1>1, <1>2, <1>3
<1> QED  BY <1>1, <1>2, <1>3, <1>4

\* A step that leaves no operation in progress, the state G and the tree.
LEMMA IdleNext ==
    ASSUME NEW L, NEW R, NEW G, DiskInv(disk', L, R, G), op' \in Ops,
           op'.at = "idle", gdisk' = G, gstate' \in {G, G \ Orphans},
           gstate' \cap Orphans = {} => L = R, tree'.old = tree'.new,
           tree'.new = TreeOf(disk', G, R)
    PROVE  TreeInv'
<1>1. IdlePhase(disk', L, R, G, gstate', gdisk', op', tree')
  BY DEF IdlePhase
<1>2. Phase(disk', L, R, G, gstate', gdisk', op', tree')
  BY <1>1 DEF Phase
<1> QED  BY <1>2, InvNext

\* A new file system.
LEMMA InitStep == TreeInit => TreeInv
<1> SUFFICES ASSUME TreeInit PROVE TreeInv
  OBVIOUS
<1> DEFINE C == {Root}
           E == {}
           r == [kids |-> Empty, tail |-> Null, g |-> {}]
<1>1. /\ disk = [d \in Dirs |-> r] /\ gstate = E /\ gdisk = E
      /\ op = NoOp /\ tree = [old |-> Tree(E), new |-> Tree(E)]
  BY DEF TreeInit
<1>2. Root \in Dirs /\ Null \notin Dirs
  BY LfsTreeAssumption
<1>3. r \in Pairs /\ r.kids = Empty /\ r.tail = Null /\ r.g = {}
  BY EmptyIs DEF Pairs
<1> HIDE DEF r, E
<1>4. disk \in Disks /\ \A d \in Dirs : disk[d] = r
  BY <1>1, <1>3 DEF Disks
<1>5. \A d \in Dirs : See(disk, E, d) = Empty
  BY <1>3, <1>4, SeeIs DEF E
<1>6. \A d \in Dirs : \A k \in Names : See(disk, E, d)[k].pair = Null
  BY <1>5, EmptyIs, PlainEntries
<1>7. ASSUME NEW s, \A d \in Dirs : \A y \in s[d] : y = Null
      PROVE  IsClosure(Root, s, C)
  BY <1>2, <1>7 DEF IsClosure, Still
<1>8. \A d \in Dirs : \A y \in Tails(disk)[d] : y = Null
  BY <1>3, <1>4, StepsAre
<1>9. \A d \in Dirs : \A y \in Subs(disk, E)[d] : y = Null
  BY <1>4, <1>6, StepsAre
<1>10. IsClosure(Root, Tails(disk), C) /\ IsClosure(Root, Subs(disk, E), C)
  BY <1>7, <1>8, <1>9
<1>11. ListLine(disk, C)
  BY <1>2, <1>3, <1>4 DEF ListLine
<1>12. Shares(C, disk, E)
  <2>1. ASSUME NEW a PROVE ~Odd(Holders(C, disk, a))
    <3>1. Holders(C, disk, a) = {}
      BY <1>2, <1>3, <1>4 DEF Holders
    <3>2. Cardinality(Holders(C, disk, a)) = 0
      BY <3>1, FS_EmptySet
    <3> QED  BY <3>2 DEF Odd
  <2> QED  BY <2>1 DEF Shares, E
<1>13. Parents(disk, E, C)
  BY <1>2, <1>6 DEF Parents
<1>14. MoveIs(E, C) /\ E \in SUBSET Atoms /\ E \cap Orphans = {}
  BY DEF MoveIs, PendingMove, E
<1>15. DiskInv(disk, C, C, E)
  BY <1>4, <1>10, <1>11, <1>12, <1>13, <1>14 DEF DiskInv
<1>16. Tree(E) = TreeOf(disk, E, C)
  BY <1>15, NamesAre
<1>17. IdlePhase(disk, C, C, E, gstate, gdisk, op, tree)
  BY <1>1, <1>16, NoOpIs DEF IdlePhase
<1>18. Phase(disk, C, C, E, gstate, gdisk, op, tree)
  BY <1>1, <1>17, NoOpIs DEF Phase
<1> QED  BY <1>15, <1>18 DEF TreeInv

\* Without the flag on the disk nothing is on the list only.
LEMMA FlaggedIs ==
    ASSUME NEW L, NEW R, NEW G, G \cap Orphans = {},
           Phase(disk, L, R, G, gstate, gdisk, op, tree)
    PROVE  L = R
<1>1. Orphans # {}
  BY DEF Orphans
<1>2. CASE IdlePhase(disk, L, R, G, gstate, gdisk, op, tree)
  <2>1. gstate \in {G, G \ Orphans} /\ (gstate \cap Orphans = {} => L = R)
    BY <1>2 DEF IdlePhase
  <2> QED  BY <2>1
<1>3. CASE InsertPhase(disk, L, R, G, gstate, gdisk, op, tree)
  BY <1>3 DEF InsertPhase
<1>4. CASE DropPhase(disk, L, R, G, gstate, gdisk, op, tree)
  <2>1. G = Orphans
    BY <1>4 DEF DropPhase
  <2> QED  BY <1>1, <2>1
<1>5. CASE UnlinkPhase(disk, L, R, G, gstate, gdisk, op, tree)
  <2>1. (op.c = Null => L = R) /\ (op.c # Null => Orphans \subseteq G)
    BY <1>5 DEF UnlinkPhase
  <2> QED  BY <1>1, <2>1
<1> QED  BY <1>2, <1>3, <1>4, <1>5 DEF Phase

\* The power goes: whatever the phase, the mount finds the tree of the disk.
LEMMA PowerLossStep == TreeInv /\ PowerLoss => TreeInv'
<1> SUFFICES ASSUME TreeInv, PowerLoss PROVE TreeInv'
  OBVIOUS
<1>1. PICK L, R, G : /\ DiskInv(disk, L, R, G)
                     /\ Phase(disk, L, R, G, gstate, gdisk, op, tree)
  BY DEF TreeInv
<1>2. OnDisk = G /\ Tree(G) = TreeOf(disk, G, R)
  BY <1>1, NamesAre
<1>3. /\ gstate' = G /\ gdisk' = G /\ op' = NoOp /\ disk' = disk
      /\ tree' = [old |-> Tree(G), new |-> Tree(G)]
  BY <1>2 DEF PowerLoss
<1>4. DiskInv(disk', L, R, G)
  BY <1>1, <1>3
<1>5. G \cap Orphans = {} => L = R
  BY <1>1, FlaggedIs
<1> QED  BY <1>2, <1>3, <1>4, <1>5, NoOpIs, IdleNext

\* A file is created.
LEMMA CreateFileStep ==
    ASSUME TreeInv, NEW d \in Reached(gdisk), NEW n \in Names,
           CreateFile(d, n)
    PROVE  TreeInv'
<1>1. PICK L, R, G : /\ DiskInv(disk, L, R, G)
                     /\ Phase(disk, L, R, G, gstate, gdisk, op, tree)
  BY DEF TreeInv
<1>2. /\ op \in Ops /\ op.at = "idle" /\ gdisk = G /\ gstate = {}
      /\ G \subseteq Orphans /\ L = R /\ tree.new = TreeOf(disk, G, R)
  BY <1>1, BegunIs DEF CreateFile
<1>3. d \in R
  BY <1>1, <1>2, NamesAre
<1> DEFINE e == File
<1>4. e \in Entries /\ e.pair = Null /\ disk[d].kids[n].pair = Null
  BY PlainEntries DEF CreateFile
<1>5. /\ Commit(d, [disk[d].kids EXCEPT ![n] = e], disk[d].tail, {}, {})
      /\ op' = op /\ Makes(Set(tree.new, d, n, e))
  BY <1>2 DEF CreateFile, Entered
<1> HIDE DEF e
<1>6. /\ disk' = Committed(disk, d, [disk[d].kids EXCEPT ![n] = e],
                           disk[d].tail, {}, G, {})
      /\ gstate' = {} /\ gdisk' = {}
  BY <1>2, <1>5, CommitIs
<1>7. /\ DiskInv(disk', L, R, {})
      /\ TreeOf(disk', {}, R) = Set(TreeOf(disk, G, R), d, n, e)
  BY <1>1, <1>2, <1>3, <1>4, <1>6, FileKeeps
<1>8. op' \in Ops /\ op'.at = "idle"
  BY <1>2, <1>5
<1>9. tree'.old = tree'.new /\ tree'.new = TreeOf(disk', {}, R)
  BY <1>2, <1>5, <1>7, <1>8 DEF Makes
<1> QED  BY <1>2, <1>6, <1>7, <1>8, <1>9, IdleNext

\* A file is removed.
LEMMA RemoveFileStep ==
    ASSUME TreeInv, NEW d \in Reached(gdisk), NEW n \in Names,
           RemoveFile(d, n)
    PROVE  TreeInv'
<1>1. PICK L, R, G : /\ DiskInv(disk, L, R, G)
                     /\ Phase(disk, L, R, G, gstate, gdisk, op, tree)
  BY DEF TreeInv
<1>2. /\ op \in Ops /\ op.at = "idle" /\ gdisk = G /\ gstate = {}
      /\ G \subseteq Orphans /\ L = R /\ tree.new = TreeOf(disk, G, R)
  BY <1>1, BegunIs DEF RemoveFile
<1>3. d \in R
  BY <1>1, <1>2, NamesAre
<1> DEFINE e == Absent
<1>4. e \in Entries /\ e.pair = Null /\ disk[d].kids[n].pair = Null
  BY PlainEntries DEF RemoveFile
<1>5. /\ Commit(d, [disk[d].kids EXCEPT ![n] = e], disk[d].tail, {}, {})
      /\ op' = op /\ Makes(Set(tree.new, d, n, e))
  BY <1>2 DEF RemoveFile, Entered
<1> HIDE DEF e
<1>6. /\ disk' = Committed(disk, d, [disk[d].kids EXCEPT ![n] = e],
                           disk[d].tail, {}, G, {})
      /\ gstate' = {} /\ gdisk' = {}
  BY <1>2, <1>5, CommitIs
<1>7. /\ DiskInv(disk', L, R, {})
      /\ TreeOf(disk', {}, R) = Set(TreeOf(disk, G, R), d, n, e)
  BY <1>1, <1>2, <1>3, <1>4, <1>6, FileKeeps
<1>8. op' \in Ops /\ op'.at = "idle"
  BY <1>2, <1>5
<1>9. tree'.old = tree'.new /\ tree'.new = TreeOf(disk', {}, R)
  BY <1>2, <1>5, <1>7, <1>8 DEF Makes
<1> QED  BY <1>2, <1>6, <1>7, <1>8, <1>9, IdleNext

\* The entry of an empty directory is removed; it stays on the list.
LEMMA RemoveDirStep ==
    ASSUME TreeInv, NEW d \in Reached(gdisk), NEW n \in Names,
           RemoveDir(d, n)
    PROVE  TreeInv'
<1>1. PICK L, R, G : /\ DiskInv(disk, L, R, G)
                     /\ Phase(disk, L, R, G, gstate, gdisk, op, tree)
  BY DEF TreeInv
<1>2. /\ gdisk = G /\ gstate = {} /\ G \subseteq Orphans /\ L = R
      /\ tree.new = TreeOf(disk, G, R)
  BY <1>1, BegunIs DEF RemoveDir
<1>3. d \in R
  BY <1>1, <1>2, NamesAre
<1> DEFINE c == disk[d].kids[n].pair
           kids == [disk[d].kids EXCEPT ![n] = Absent]
           Q == R \ {c}
<1>4. /\ c # Null /\ disk[c].kids = Empty
      /\ Commit(d, kids, disk[d].tail, gstate \cup Orphans, {})
      /\ op' = [NoOp EXCEPT !.at = "drop", !.c = c]
      /\ Makes(Less(Set(tree.new, d, n, Absent), c))
  BY DEF RemoveDir, Entered
<1>5. gstate \cup Orphans = Orphans
  BY <1>2
<1>6. /\ disk' = Committed(disk, d, kids, disk[d].tail, Orphans, G, {})
      /\ gstate' = Orphans /\ gdisk' = Orphans
  BY <1>2, <1>4, <1>5, CommitIs
<1>7. \E y : y = c
  OBVIOUS
<1>8. PICK q : q = c
  BY <1>7
<1>9. q = disk[d].kids[n].pair /\ q # Null /\ disk[q].kids = Empty
  BY <1>4, <1>8
<1>10. /\ DiskInv(disk', L, R \ {q}, Orphans) /\ q \in R
       /\ TreeOf(disk', Orphans, R \ {q}) =
            Less(Set(TreeOf(disk, G, R), d, n, Absent), q)
  BY <1>1, <1>2, <1>3, <1>6, <1>9, RemoveKeeps
<1> HIDE DEF c
<1>11. op' = [at |-> "drop", d |-> Root, n |-> Null, c |-> q]
  BY <1>4, <1>8 DEF NoOp
<1>12. tree'.new = TreeOf(disk', Orphans, R \ {q})
  BY <1>2, <1>4, <1>8, <1>10 DEF Makes
<1>13. R \in SUBSET Dirs
  BY <1>1 DEF DiskInv, IsClosure
<1>14. op' \in Ops /\ op'.at = "drop" /\ op'.c = q
  BY <1>10, <1>11, <1>13, LfsTreeAssumption DEF Ops
<1> DEFINE P == R \ {q}
<1>15. q \in L /\ q \notin P /\ L = P \cup {q}
  BY <1>2, <1>10
<1>16. DropPhase(disk', L, P, Orphans, gstate', gdisk', op', tree')
  BY <1>6, <1>12, <1>14, <1>15 DEF DropPhase
<1>17. Phase(disk', L, P, Orphans, gstate', gdisk', op', tree')
  BY <1>14, <1>16 DEF Phase
<1> QED  BY <1>10, <1>17, InvNext

\* A new directory is written.
LEMMA MakeDirStep ==
    ASSUME TreeInv, NEW d \in Reached(gdisk), NEW n \in Names,
           NEW c \in Dirs, MakeDir(d, n, c)
    PROVE  TreeInv'
<1>1. PICK L, R, G : /\ DiskInv(disk, L, R, G)
                     /\ Phase(disk, L, R, G, gstate, gdisk, op, tree)
  BY DEF TreeInv
<1>2. /\ gdisk = G /\ gstate = {} /\ G \subseteq Orphans /\ L = R
      /\ tree.new = TreeOf(disk, G, R)
  BY <1>1, BegunIs DEF MakeDir
<1>3. d \in R /\ c \notin L
  BY <1>1, <1>2, NamesAre DEF MakeDir
<1>4. disk \in Disks /\ R \in SUBSET Dirs /\ G \in SUBSET Atoms
  BY <1>1 DEF DiskInv, IsClosure
<1> DEFINE r == [kids |-> Empty, tail |-> disk[d].tail, g |-> G]
           A == TreeOf(disk, G, R)
           t == [x \in R \cup {c} |->
                   IF x = c THEN Empty ELSE Set(A, d, n, Dir(c))[x]]
<1>5. Xor(gstate, gdisk) = G
  BY <1>2 DEF Xor
<1>6. /\ disk[d].kids[n] = Absent /\ disk' = [disk EXCEPT ![c] = r]
      /\ gdisk' = {} /\ gstate' = {}
      /\ op' = [at |-> "insert", d |-> d, n |-> n, c |-> c]
  BY <1>2, <1>5 DEF MakeDir
<1>7. DOMAIN tree.new = R
  BY <1>2 DEF TreeOf
<1>8. Makes(t)
  BY <1>2, <1>7 DEF MakeDir
<1>9. r \in Pairs /\ r.kids = Empty /\ r.tail = disk[d].tail /\ r.g = G
  <2>1. disk[d].tail \in Dirs \cup {Null}
    BY <1>3, <1>4 DEF Disks, Pairs
  <2> QED  BY <1>4, <2>1, EmptyIs DEF Pairs
<1> HIDE DEF r, t
<1>10. /\ disk' \in Disks /\ disk'[c] = r
       /\ \A x \in Dirs \ {c} : disk'[x] = disk[x]
  BY <1>4, <1>6, <1>9 DEF Disks
<1>11. DiskInv(disk', L, R, G) /\ TreeOf(disk', G, R) = A
  <2>1. c \in Dirs \ L
    BY <1>3
  <2> QED  BY <1>1, <1>10, <2>1, MakeKeeps
<1>12. op' \in Ops /\ op'.at = "insert" /\ op'.d = d /\ op'.n = n /\ op'.c = c
  BY <1>3, <1>4, <1>6 DEF Ops
<1>13. disk'[d] = disk[d]
  BY <1>2, <1>3, <1>4, <1>10
<1>14. tree'.old = A /\ tree'.new = t
  BY <1>2, <1>8, <1>12 DEF Makes
<1>15. InsertPhase(disk', L, R, G, gstate', gdisk', op', tree')
  <2>1. /\ op'.at = "insert" /\ gstate' = {} /\ gdisk' = {}
        /\ G \subseteq Orphans /\ L = R
        /\ op'.c \in Dirs \ L /\ op'.d \in R /\ op'.n \in Names
    BY <1>2, <1>3, <1>6, <1>12
  <2>2. /\ disk'[op'.c].g = G /\ disk'[op'.c].kids = Empty
        /\ disk'[op'.c].tail = disk'[op'.d].tail
        /\ disk'[op'.d].kids[op'.n] = Absent
    BY <1>6, <1>9, <1>10, <1>12, <1>13
  <2>3. tree'.old = TreeOf(disk', G, R)
    BY <1>11, <1>14
  <2>4. tree'.new = [x \in R \cup {op'.c} |->
                       IF x = op'.c THEN Empty
                       ELSE Set(TreeOf(disk', G, R), op'.d, op'.n,
                                Dir(op'.c))[x]]
    BY <1>11, <1>12, <1>14 DEF t
  <2> QED  BY <2>1, <2>2, <2>3, <2>4 DEF InsertPhase
<1>16. Phase(disk', L, R, G, gstate', gdisk', op', tree')
  BY <1>12, <1>15 DEF Phase
<1> QED  BY <1>11, <1>16, InvNext

\* It is entered and put on the list.
LEMMA InsertStep == TreeInv /\ Insert => TreeInv'
<1> SUFFICES ASSUME TreeInv, Insert PROVE TreeInv'
  OBVIOUS
<1>1. PICK L, R, G : /\ DiskInv(disk, L, R, G)
                     /\ Phase(disk, L, R, G, gstate, gdisk, op, tree)
  BY DEF TreeInv
<1> DEFINE d == op.d
           n == op.n
           c == op.c
           T == TreeOf(disk, G, R)
           t == [x \in R \cup {c} |->
                   IF x = c THEN Empty ELSE Set(T, d, n, Dir(c))[x]]
<1>2. InsertPhase(disk, L, R, G, gstate, gdisk, op, tree)
  BY <1>1 DEF Insert, Phase, IdlePhase, DropPhase, UnlinkPhase
<1>3. /\ gstate = {} /\ gdisk = {} /\ G \subseteq Orphans /\ L = R
      /\ c \in Dirs \ L /\ d \in R /\ n \in Names
      /\ disk[c].g = G /\ disk[c].kids = Empty
      /\ disk[c].tail = disk[d].tail /\ disk[d].kids[n] = Absent
      /\ tree.new = t
  BY <1>2 DEF InsertPhase
<1>4. /\ Commit(d, [disk[d].kids EXCEPT ![n] = Dir(c)], c, {}, {})
      /\ op' = NoOp /\ Makes(tree.new)
  BY <1>3 DEF Insert, Entered, GoesOn
<1> HIDE DEF d, n, c, T
<1>5. /\ disk' = Committed(disk, d, [disk[d].kids EXCEPT ![n] = Dir(c)],
                           c, {}, {}, {})
      /\ gstate' = {} /\ gdisk' = {}
  BY <1>3, <1>4, CommitIs
<1>6. DiskInv(disk', L \cup {c}, R \cup {c}, {})
      /\ TreeOf(disk', {}, R \cup {c}) = t
  BY <1>1, <1>3, <1>5, InsertKeeps DEF T
<1> HIDE DEF t
<1>7. op' \in Ops /\ op'.at = "idle"
  BY <1>4, NoOpIs
<1>8. tree'.old = tree'.new /\ tree'.new = t
  BY <1>3, <1>4, <1>7 DEF Makes
<1> DEFINE Q == R \cup {c}
<1>9. L \cup {c} = Q
  BY <1>3
<1> QED  BY <1>5, <1>6, <1>7, <1>8, <1>9, IdleNext

\* A directory is taken off the list by a commit to the one before it.
LEMMA DropAfterIs ==
    ASSUME NEW L, NEW R, NEW G, DiskInv(disk, L, R, G), NEW c \in L \ R,
           NEW g, DropAfter(c, g), gdisk = G
    PROVE  \E p \in L :
             /\ disk[p].tail = c
             /\ disk' = Committed(disk, p, disk[p].kids, disk[c].tail,
                                  g, G, disk[c].g)
             /\ gstate' = g /\ gdisk' = g
<1> DEFINE p == Pred(c)
<1>1. /\ disk \in Disks /\ IsClosure(Root, Tails(disk), L)
      /\ ListLine(disk, L) /\ c # Root
  BY DEF DiskInv, IsClosure
<1>2. \E y \in L : disk[y].tail = c
  BY <1>1, OnePred
<1>3. List = L
  BY NamesAre
<1>4. p = CHOOSE y \in L : disk[y].tail = c
  BY <1>3 DEF Pred
<1>5. p \in L /\ disk[p].tail = c
  BY <1>2, <1>4
<1>6. Commit(p, disk[p].kids, disk[c].tail, g, disk[c].g)
  BY DEF DropAfter
<1> HIDE DEF p
<1>7. /\ disk' = Committed(disk, p, disk[p].kids, disk[c].tail, g, G,
                           disk[c].g)
      /\ gstate' = g /\ gdisk' = g
  BY <1>6, CommitIs
<1> QED  BY <1>5, <1>7

\* The directory that was removed or replaced leaves the list.
LEMMA DropStep == TreeInv /\ Drop => TreeInv'
<1> SUFFICES ASSUME TreeInv, Drop PROVE TreeInv'
  OBVIOUS
<1>1. PICK L, R, G : /\ DiskInv(disk, L, R, G)
                     /\ Phase(disk, L, R, G, gstate, gdisk, op, tree)
  BY DEF TreeInv
<1> DEFINE c == op.c
<1>2. DropPhase(disk, L, R, G, gstate, gdisk, op, tree)
  BY <1>1 DEF Drop, Phase, IdlePhase, InsertPhase, UnlinkPhase
<1>3. /\ G = Orphans /\ gstate = G /\ gdisk = G
      /\ c \in L \ R /\ L = R \cup {c} /\ tree.new = TreeOf(disk, G, R)
  BY <1>2 DEF DropPhase
<1>4. gstate \ Orphans = {}
  BY <1>3
<1>5. DropAfter(c, {}) /\ op' = NoOp /\ Makes(tree.new)
  BY <1>4 DEF Drop, GoesOn
<1> HIDE DEF c
<1>6. PICK p \in L :
        /\ disk[p].tail = c
        /\ disk' = Committed(disk, p, disk[p].kids, disk[c].tail,
                             {}, G, disk[c].g)
        /\ gstate' = {} /\ gdisk' = {}
  BY <1>1, <1>3, <1>5, DropAfterIs
<1>7. {} \in SUBSET Atoms /\ {} \subseteq Orphans /\ G \subseteq Orphans
  BY <1>3
<1>8. DiskInv(disk', L \ {c}, R, {})
      /\ TreeOf(disk', {}, R) = TreeOf(disk, G, R)
  BY <1>1, <1>3, <1>6, <1>7, DropKeeps
<1>9. L \ {c} = R
  BY <1>3
<1>10. op' \in Ops /\ op'.at = "idle"
  BY <1>5, NoOpIs
<1>11. tree'.old = tree'.new /\ tree'.new = TreeOf(disk', {}, R)
  BY <1>3, <1>5, <1>8, <1>10 DEF Makes
<1>12. DiskInv(disk', R, R, {})
  BY <1>8, <1>9
<1> QED  BY <1>6, <1>10, <1>11, <1>12, IdleNext

\* The second commit of a rename.
LEMMA UnlinkStep == TreeInv /\ Unlink => TreeInv'
<1> SUFFICES ASSUME TreeInv, Unlink PROVE TreeInv'
  OBVIOUS
<1>1. PICK L, R, G : /\ DiskInv(disk, L, R, G)
                     /\ Phase(disk, L, R, G, gstate, gdisk, op, tree)
  BY DEF TreeInv
<1> DEFINE d == op.d
           n == op.n
           c == op.c
           g == G \cap Orphans
<1>2. UnlinkPhase(disk, L, R, G, gstate, gdisk, op, tree)
  BY <1>1 DEF Unlink, Phase, IdlePhase, InsertPhase, DropPhase
<1>3. /\ gstate = G /\ gdisk = G /\ d \in L /\ n \in Names
      /\ PendingMove(G) = Move(d, n)
      /\ c = Null => L = R /\ g = {}
      /\ c # Null => c \in L /\ c \notin R /\ L = R \cup {c} /\ g = Orphans
      /\ tree.new = TreeOf(disk, G, R)
  BY <1>2 DEF UnlinkPhase
<1>4. /\ Commit(d, [disk[d].kids EXCEPT ![n] = Absent], disk[d].tail, g, {})
      /\ op' = [op EXCEPT !.at = IF c # Null THEN "drop" ELSE "idle"]
      /\ Makes(tree.new)
  BY <1>3 DEF Unlink, Entered, GoesOn
<1>5. op \in Ops
  BY <1>1 DEF Phase
<1>6. /\ op' \in Ops /\ op'.c = c
      /\ op'.at = IF c # Null THEN "drop" ELSE "idle"
  BY <1>4, <1>5 DEF Ops
<1>7. g \in SUBSET Atoms /\ g \subseteq Orphans
  BY DEF Atoms
<1> HIDE DEF d, n, c, g
<1>8. /\ disk' = Committed(disk, d, [disk[d].kids EXCEPT ![n] = Absent],
                           disk[d].tail, g, G, {})
      /\ gstate' = g /\ gdisk' = g
  BY <1>3, <1>4, CommitIs
<1>9. DiskInv(disk', L, R, g) /\ TreeOf(disk', g, R) = TreeOf(disk, G, R)
  BY <1>1, <1>3, <1>7, <1>8, HideKeeps
<1>10. tree'.new = TreeOf(disk', g, R)
       /\ (op'.at = "idle" => tree'.old = tree'.new)
  BY <1>3, <1>4, <1>9 DEF Makes
<1>11. CASE c = Null
  BY <1>3, <1>6, <1>8, <1>9, <1>10, <1>11, IdleNext
<1>12. CASE c # Null
  <2>1. DropPhase(disk', L, R, g, gstate', gdisk', op', tree')
    BY <1>3, <1>6, <1>8, <1>10, <1>12 DEF DropPhase
  <2>2. Phase(disk', L, R, g, gstate', gdisk', op', tree')
    BY <1>6, <2>1 DEF Phase
  <2> QED  BY <1>9, <2>2, InvNext
<1> QED  BY <1>11, <1>12

\* A pending move is finished after a mount.
LEMMA DemoveStep == TreeInv /\ Demove => TreeInv'
<1> SUFFICES ASSUME TreeInv, Demove PROVE TreeInv'
  OBVIOUS
<1>1. PICK L, R, G : /\ DiskInv(disk, L, R, G)
                     /\ Phase(disk, L, R, G, gstate, gdisk, op, tree)
  BY DEF TreeInv
<1>2. op.at = "idle"
  BY DEF Demove
<1>3. /\ op \in Ops /\ gdisk = G /\ gstate \in {G, G \ Orphans}
      /\ gstate \cap Orphans = {} => L = R
      /\ tree.old = tree.new /\ tree.new = TreeOf(disk, G, R)
  BY <1>1, <1>2, IdleIs
<1> DEFINE g == gstate \cap Orphans
<1>4. PICK d \in Dirs, n \in Names :
        /\ PendingMove(G) = Move(d, n)
        /\ Commit(d, [disk[d].kids EXCEPT ![n] = Absent], disk[d].tail, g,
                  {})
  BY <1>3 DEF Demove, Entered
<1>5. PendingMove(G) # {} /\ op' = op /\ tree' = tree
  BY <1>3 DEF Demove
<1>6. d \in L
  <2>1. PICK e \in L, m \in Names : PendingMove(G) = Move(e, m)
    BY <1>1, <1>5 DEF DiskInv, MoveIs
  <2>2. <<"move", d, n>> = <<"move", e, m>>
    BY <1>4, <2>1 DEF Move
  <2>3. d = e
    BY <2>2, AtomIs
  <2> QED  BY <2>3
<1>7. g \in SUBSET Atoms /\ g \subseteq Orphans
      /\ (g \cap Orphans = {} => L = R)
  BY <1>3 DEF Atoms
<1> HIDE DEF g
<1>8. /\ disk' = Committed(disk, d, [disk[d].kids EXCEPT ![n] = Absent],
                           disk[d].tail, g, G, {})
      /\ gstate' = g /\ gdisk' = g
  BY <1>3, <1>4, CommitIs
<1>9. DiskInv(disk', L, R, g) /\ TreeOf(disk', g, R) = TreeOf(disk, G, R)
  BY <1>1, <1>4, <1>6, <1>7, <1>8, HideKeeps
<1>10. op' \in Ops /\ op'.at = "idle" /\ tree'.old = tree'.new
       /\ tree'.new = TreeOf(disk', g, R)
  BY <1>2, <1>3, <1>5, <1>9
<1> QED  BY <1>7, <1>8, <1>9, <1>10, IdleNext

\* The orphans: what is on the list and in no entry is not in the tree.
LEMMA ParentlessIs ==
    ASSUME NEW L, NEW R, NEW G, DiskInv(disk, L, R, G), gdisk = G,
           G \subseteq Orphans
    PROVE  Parentless \subseteq L \ R /\ (Parentless = {} => L = R)
<1>1. /\ disk \in Disks /\ L \in SUBSET Dirs /\ R \subseteq L /\ Root \in R
      /\ IsClosure(Root, Subs(disk, G), R) /\ Null \notin Dirs
      /\ \A c \in L \ R : disk[c].kids = Empty
  BY LfsTreeAssumption DEF DiskInv, IsClosure
<1>2. List = L /\ \A d \in Dirs : Subdirs(G, d) = Subs(disk, G)[d]
  BY NamesAre
<1> DEFINE U == UNION {Subdirs(G, d) : d \in L}
<1>3. \A y : y \in U <=> \E d \in L : y \in Subdirs(G, d)
  OBVIOUS
<1>4. Parentless = L \ ({Root} \cup U)
  BY <1>2 DEF Parentless
<1> HIDE DEF U
<1>5. \A y : y \in U <=> \E d \in L : y \in Subs(disk, G)[d]
  BY <1>1, <1>2, <1>3
<1>6. ASSUME NEW c \in Parentless PROVE c \notin R
  <2>1. SUFFICES ASSUME c \in R PROVE FALSE
    OBVIOUS
  <2>2. c # Root /\ c \notin U
    BY <1>4
  <2>3. PICK p \in R \ {c} : c \in Subs(disk, G)[p]
    BY <1>1, <2>1, <2>2, HasParent
  <2> QED  BY <1>1, <1>5, <2>2, <2>3
<1>7. ASSUME NEW c \in L \ R, Parentless = {} PROVE FALSE
  <2>1. c \in U
    BY <1>1, <1>4, <1>7
  <2>2. PICK d \in L : c \in Subs(disk, G)[d]
    BY <1>5, <2>1
  <2>3. c # Null /\ d \in Dirs
    BY <1>1
  <2>4. CASE d \in R
    BY <1>1, <2>2, <2>3, <2>4 DEF IsClosure, Still
  <2>5. CASE d \notin R
    <3>1. See(disk, G, d) = Empty
      BY <1>1, <2>3, <2>5, SeeIs
    <3>2. \A k \in Names : See(disk, G, d)[k].pair = Null
      BY <3>1, EmptyIs, PlainEntries
    <3> QED  BY <1>1, <2>2, <2>3, <3>2, StepsAre
  <2> QED  BY <2>4, <2>5
<1> QED  BY <1>1, <1>4, <1>6, <1>7

\* The state that orphans are looked for in.
LEMMA OrphanedIs ==
    ASSUME NEW L, NEW R, NEW G, op.at = "idle", PendingMove(gdisk) = {},
           Orphans \subseteq gstate,
           Phase(disk, L, R, G, gstate, gdisk, op, tree)
    PROVE  /\ gdisk = G /\ gstate = G /\ G = Orphans /\ op \in Ops
           /\ tree.old = tree.new /\ tree.new = TreeOf(disk, G, R)
<1>1. /\ op \in Ops /\ gdisk = G /\ gstate \in {G, G \ Orphans}
      /\ tree.old = tree.new /\ tree.new = TreeOf(disk, G, R)
  BY IdleIs
<1>2. G \subseteq Orphans /\ Orphans # {}
  BY <1>1, NoMoveIs DEF Orphans
<1>3. gstate = G /\ G = Orphans
  BY <1>1, <1>2
<1> QED  BY <1>1, <1>3

\* An orphan is taken off the list.
LEMMA DeorphanStep == TreeInv /\ Deorphan => TreeInv'
<1> SUFFICES ASSUME TreeInv, Deorphan PROVE TreeInv'
  OBVIOUS
<1>1. PICK L, R, G : /\ DiskInv(disk, L, R, G)
                     /\ Phase(disk, L, R, G, gstate, gdisk, op, tree)
  BY DEF TreeInv
<1>2. /\ gdisk = G /\ gstate = G /\ G = Orphans /\ op \in Ops
      /\ tree.old = tree.new /\ tree.new = TreeOf(disk, G, R)
  BY <1>1, OrphanedIs DEF Deorphan
<1>3. PICK c \in Parentless : DropAfter(c, G)
  BY <1>2 DEF Deorphan
<1>4. G \subseteq Orphans
  BY <1>2
<1>5. c \in L \ R
  BY <1>1, <1>2, <1>4, ParentlessIs
<1>6. PICK p \in L :
        /\ disk[p].tail = c
        /\ disk' = Committed(disk, p, disk[p].kids, disk[c].tail,
                             G, G, disk[c].g)
        /\ gstate' = G /\ gdisk' = G
  BY <1>1, <1>2, <1>3, <1>5, DropAfterIs
<1>7. G \in SUBSET Atoms
  BY <1>1 DEF DiskInv
<1>8. DiskInv(disk', L \ {c}, R, G)
      /\ TreeOf(disk', G, R) = TreeOf(disk, G, R)
  BY <1>1, <1>4, <1>5, <1>6, <1>7, DropKeeps
<1>9. op' = op /\ tree' = tree /\ op.at = "idle" /\ Orphans # {}
  BY DEF Deorphan, Orphans
<1> DEFINE M == L \ {c}
<1>10. gstate' \cap Orphans = {} => M = R
  BY <1>2, <1>6, <1>9
<1>11. op' \in Ops /\ op'.at = "idle" /\ tree'.old = tree'.new
       /\ tree'.new = TreeOf(disk', G, R)
  BY <1>2, <1>8, <1>9
<1> HIDE DEF M
<1> QED  BY <1>6, <1>8, <1>10, <1>11, IdleNext DEF M

\* There are no more orphans.
LEMMA DeorphanedStep == TreeInv /\ Deorphaned => TreeInv'
<1> SUFFICES ASSUME TreeInv, Deorphaned PROVE TreeInv'
  OBVIOUS
<1>1. PICK L, R, G : /\ DiskInv(disk, L, R, G)
                     /\ Phase(disk, L, R, G, gstate, gdisk, op, tree)
  BY DEF TreeInv
<1>2. /\ gdisk = G /\ gstate = G /\ G = Orphans /\ op \in Ops
      /\ tree.old = tree.new /\ tree.new = TreeOf(disk, G, R)
  BY <1>1, OrphanedIs DEF Deorphaned
<1>3. L = R
  <2>1. Parentless = {} /\ G \subseteq Orphans
    BY <1>2 DEF Deorphaned
  <2> QED  BY <1>1, <1>2, <2>1, ParentlessIs
<1>4. /\ gstate' = G \ Orphans /\ gdisk' = G /\ disk' = disk /\ op' = op
      /\ tree' = tree /\ op.at = "idle"
  BY <1>2 DEF Deorphaned
<1>5. DiskInv(disk', L, R, G) /\ tree'.old = tree'.new
      /\ tree'.new = TreeOf(disk', G, R) /\ op' \in Ops /\ op'.at = "idle"
  BY <1>1, <1>2, <1>4
<1> QED  BY <1>3, <1>4, <1>5, IdleNext

\* The directories below one, which a rename looks at.
LEMMA BelowIs ==
    ASSUME disk \in Disks, NEW G, G \subseteq Orphans, NEW x \in Dirs
    PROVE  IsClosure(x, Subs(disk, G), Below(x))
<1>1. ASSUME NEW d \in Dirs
      PROVE  Subs(disk, G)[d] = {disk[d].kids[k].pair : k \in Names}
  <2>1. Subs(disk, G)[d] = {See(disk, G, d)[k].pair : k \in Names}
    BY DEF Subs
  <2>2. See(disk, G, d) = disk[d].kids
    BY SeeIs
  <2> QED  BY <2>1, <2>2
<1>2. Subs(disk, G) = [d \in Dirs |-> Subs(disk, G)[d]]
  BY DEF Subs
<1>3. Subs(disk, G) = [d \in Dirs |-> {disk[d].kids[k].pair : k \in Names}]
  BY <1>1, <1>2
<1>4. Below(x) = Closure(x, Subs(disk, G))
  BY <1>3 DEF Below
<1>5. Subs(disk, G) \in Steps
  BY StepsAre
<1> QED  BY <1>4, <1>5, ClosureIs

\* A rename, within a directory or into another one, in place of a file, an
\* empty directory or nothing.
LEMMA RenameStep ==
    ASSUME TreeInv, NEW d \in Reached(gdisk), NEW e \in Reached(gdisk),
           NEW n \in Names, NEW m \in Names, Rename(d, n, e, m)
    PROVE  TreeInv'
<1>1. PICK L, R, G : /\ DiskInv(disk, L, R, G)
                     /\ Phase(disk, L, R, G, gstate, gdisk, op, tree)
  BY DEF TreeInv
<1>2. /\ gdisk = G /\ gstate = {} /\ G \subseteq Orphans /\ L = R
      /\ tree.new = TreeOf(disk, G, R)
  BY <1>1, BegunIs DEF Rename
<1>3. d \in R /\ e \in R
  BY <1>1, <1>2, NamesAre
<1>4. disk \in Disks /\ R \in SUBSET Dirs /\ Null \notin Dirs
  BY <1>1, LfsTreeAssumption DEF DiskInv, IsClosure
<1> DEFINE v == disk[d].kids[n]
           q == disk[e].kids[m].pair
           g == RenameState(d, n, e, q)
           B == IF v.pair # Null THEN Below(v.pair) ELSE {}
           row == RenamedRow(disk, d, n, e, m)
           here == IF d # e THEN "unlink" ELSE IF q # Null THEN "drop"
                 ELSE "idle"
           Q == R \ {q}
<1>5. v \in Entries /\ disk[e].kids[m] \in Entries
  BY <1>3, <1>4 DEF Disks, Pairs, Rows
<1>6. q \in Dirs \cup {Null} /\ v.pair \in Dirs \cup {Null}
  BY <1>5, EntryIs
<1>7. ~(d = e /\ n = m)
  BY DEF Rename
<1>8. gstate \cup (IF q # Null THEN Orphans ELSE {})
             \cup (IF d # e THEN Move(d, n) ELSE {}) = g
  BY <1>2 DEF RenameState
<1>9. /\ v # Absent /\ disk[e].kids[m].type \in {"absent", v.type}
      /\ q # Null => disk[q].kids = Empty
      /\ v.pair # Null => e \notin Below(v.pair)
      /\ Commit(e, row, disk[e].tail, g, {})
      /\ op' = [at |-> here, d |-> d, n |-> n, c |-> q]
      /\ Makes(RenamedTree(tree.new, d, n, e, m, v, q))
  <2>1. [Entered(e, m, v) EXCEPT ![n] = IF d = e THEN Absent ELSE @] = row
    BY DEF Entered, RenamedRow
  <2>2. RenamedTree(tree.new, d, n, e, m, v, q) =
          Less(Set(Set(tree.new, d, n, Absent), e, m, v), q)
    BY DEF RenamedTree
  <2> HIDE DEF row, g
  <2> QED  BY <1>8, <2>1, <2>2 DEF Rename
<1>10. B \in SUBSET Dirs
       /\ (v.pair # Null => v.pair \in B /\ Still(Subs(disk, G), B)
                            /\ e \notin B)
  <2>1. CASE v.pair = Null
    BY <2>1
  <2>2. CASE v.pair # Null
    <3>1. v.pair \in Dirs
      BY <1>6, <2>2
    <3>2. IsClosure(v.pair, Subs(disk, G), Below(v.pair))
      BY <1>2, <1>4, <3>1, BelowIs
    <3> QED  BY <1>9, <2>2, <3>2 DEF IsClosure
  <2> QED  BY <2>1, <2>2
<1> HIDE DEF B
<1>11. /\ disk' = Committed(disk, e, row, disk[e].tail, g, G, {})
       /\ gstate' = g /\ gdisk' = g
  <2> HIDE DEF row, g
  <2> QED  BY <1>2, <1>9, CommitIs
<1>12. RenameCommit(disk, G, d, n, e, m, v, q, B, g, disk')
  BY <1>7, <1>9, <1>10, <1>11 DEF RenameCommit
<1>13. /\ PendingMove(g) = IF d # e THEN Move(d, n) ELSE {}
       /\ q = Null => g \cap Orphans = {}
       /\ q # Null => Orphans \subseteq g
  <2> HIDE DEF q
  <2>1. d \in Dirs
    BY <1>3, <1>4
  <2> QED  BY <2>1, RenameStateIs
<1>14. /\ d = e /\ q # Null => g = Orphans
       /\ d = e /\ q = Null => g = {}
  BY DEF RenameState
<1>15. op' \in Ops /\ op'.at = here /\ op'.d = d /\ op'.n = n /\ op'.c = q
  BY <1>3, <1>4, <1>6, <1>9 DEF Ops
<1> HIDE DEF v, q, g, row
<1>16. /\ DiskInv(disk', L, R \ {q}, g) /\ (q # Null => q \in R)
       /\ TreeOf(disk', g, R \ {q}) =
            RenamedTree(TreeOf(disk, G, R), d, n, e, m, v, q)
  BY <1>1, <1>2, <1>3, <1>10, <1>12, RenameKeeps
<1>17. tree'.new = TreeOf(disk', g, Q)
       /\ (op'.at = "idle" => tree'.old = tree'.new)
  BY <1>2, <1>9, <1>16 DEF Makes
<1>18. /\ q = Null => L = Q
       /\ q # Null => q \in L /\ q \notin Q /\ L = Q \cup {q}
  BY <1>2, <1>4, <1>16
<1>19. DiskInv(disk', L, Q, g)
  BY <1>16
<1> HIDE DEF Q
<1>20. CASE d # e
  <2>1. UnlinkPhase(disk', L, Q, g, gstate', gdisk', op', tree')
    BY <1>2, <1>3, <1>11, <1>13, <1>15, <1>17, <1>18, <1>20
       DEF UnlinkPhase
  <2>2. Phase(disk', L, Q, g, gstate', gdisk', op', tree')
    BY <1>15, <2>1 DEF Phase
  <2> QED  BY <1>19, <2>2, InvNext
<1>21. CASE d = e /\ q # Null
  <2>1. DropPhase(disk', L, Q, g, gstate', gdisk', op', tree')
    BY <1>11, <1>14, <1>15, <1>17, <1>18, <1>21 DEF DropPhase
  <2>2. Phase(disk', L, Q, g, gstate', gdisk', op', tree')
    BY <1>15, <2>1 DEF Phase
  <2> QED  BY <1>19, <2>2, InvNext
<1>22. CASE d = e /\ q = Null
  <2>1. op'.at = "idle" /\ L = Q /\ tree'.old = tree'.new
    BY <1>15, <1>17, <1>18, <1>22
  <2> QED  BY <1>11, <1>15, <1>17, <1>19, <2>1, IdleNext
<1> QED  BY <1>20, <1>21, <1>22

\* Every step keeps the invariant.
LEMMA TreeStep == TreeInv /\ [TreeNext]_treeVars => TreeInv'
<1> SUFFICES ASSUME TreeInv, [TreeNext]_treeVars PROVE TreeInv'
  OBVIOUS
<1>1. CASE Repairs
  BY <1>1, DemoveStep, DeorphanStep, DeorphanedStep DEF Repairs
<1>2. CASE FileOps
  BY <1>2, CreateFileStep, RemoveFileStep DEF FileOps
<1>3. CASE DirOps
  BY <1>3, RemoveDirStep, MakeDirStep DEF DirOps
<1>4. CASE Renames
  BY <1>4, RenameStep DEF Renames
<1>5. CASE Drop \/ Insert \/ Unlink \/ PowerLoss
  BY <1>5, DropStep, InsertStep, UnlinkStep, PowerLossStep
<1>6. CASE UNCHANGED treeVars
  BY <1>6 DEF TreeInv, treeVars
<1> QED  BY <1>1, <1>2, <1>3, <1>4, <1>5, <1>6 DEF TreeNext

\* What a mount would find.
LEMMA TreeInvSurvives == TreeInv => TreeSurvives
<1> SUFFICES ASSUME TreeInv PROVE TreeSurvives
  OBVIOUS
<1>1. PICK L, R, G : /\ DiskInv(disk, L, R, G)
                     /\ Phase(disk, L, R, G, gstate, gdisk, op, tree)
  BY DEF TreeInv
<1>2. /\ List = L /\ OnDisk = G /\ Reached(G) = R
      /\ Tree(G) = TreeOf(disk, G, R)
  BY <1>1, NamesAre
<1>3. TreeOnList
  BY <1>1, <1>2 DEF TreeOnList, DiskInv
<1>4. OrphansAreFlagged
  BY <1>1, <1>2, FlaggedIs DEF OrphansAreFlagged
<1>5. TreeIsOldOrNew
  <2>1. TreeOf(disk, G, R) \in {tree.old, tree.new}
    BY <1>1 DEF Phase, IdlePhase, InsertPhase, DropPhase, UnlinkPhase
  <2> QED  BY <1>2, <2>1 DEF TreeIsOldOrNew
<1> QED  BY <1>3, <1>4, <1>5 DEF TreeSurvives

\* Whatever commit of a create, remove, mkdir or rename the power goes after,
\* for any number of directories, names and operations: a mount shows the
\* tree before or after the operation, every directory of it is on the
\* threaded list, and one that is on the list only is flagged
\* (lfs2.c:2567-2660, 3819-4030, 4850-4998).
THEOREM TreeStaysWhole == TreeSpec => []TreeSurvives
<1>1. TreeInit => TreeInv
  BY InitStep
<1>2. TreeInv /\ [TreeNext]_treeVars => TreeInv'
  BY TreeStep
<1>3. TreeInv => TreeSurvives
  BY TreeInvSurvives
<1> QED  BY <1>1, <1>2, <1>3, PTL DEF TreeSpec
=============================================================================
