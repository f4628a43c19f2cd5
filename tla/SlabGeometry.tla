---------------------------- MODULE SlabGeometry ----------------------------
(* The arithmetic of slots, pointers and runs, and the lists of slabs.     *)
EXTENDS Slab, WellFoundedInduction, SequenceTheorems, FiniteSetTheorems, TLAPS

(* A set of naturals that is not empty has a minimum.                      *)
LEMMA MinExists ==
  ASSUME NEW S \in SUBSET Nat, S # {}
  PROVE  Min(S) \in S /\ \A y \in S : Min(S) <= y
<1> PICK b \in S : TRUE
  BY Zenon
<1> DEFINE F == 0..b
           R == StrictSubsetOrdering(F)
           T == {0..n : n \in S \cap F}
<1>1. IsWellFoundedOn(R, FiniteSubsetsOf(F))
  BY FS_StrictSubsetOrderingWellFounded
<1>2. \A n \in S \cap F : IsFiniteSet(0..n) /\ 0..n \subseteq F
  BY FS_Interval
<1>3. T \subseteq FiniteSubsetsOf(F) /\ T # {}
  BY <1>2 DEF FiniteSubsetsOf
<1>4. PICK X \in T : \A Y \in T : ~(<<Y, X>> \in R)
  <2> HIDE DEF R, T
  <2> QED BY <1>1, <1>3, WFMin
<1>5. PICK x \in S \cap F : X = 0..x
  OBVIOUS
<1>6. ASSUME NEW y \in S, y < x PROVE FALSE
  <2>1. 0..y \subseteq 0..x /\ 0..y # 0..x /\ y \in F
    BY <1>6
  <2>2. <<0..y, X>> \in R
    BY <2>1, <1>5, <1>3 DEF StrictSubsetOrdering
  <2> QED BY <2>1, <2>2, <1>4, Zenon
<1>7. x \in S /\ \A y \in S : x <= y
  BY <1>6
<1> HIDE DEF F, R, T
<1> QED BY <1>7, Zenon DEF Min

(* A page number and an offset below the size of a page come back from the *)
(* address they make.                                                      *)
LEMMA DivMod ==
  ASSUME NEW a \in Nat, NEW r \in Nat, NEW p \in Nat, r < p
  PROVE  (a * p + r) \div p = a /\ (a * p + r) % p = r
OBVIOUS

(* usize::next_multiple_of.                                                *)
LEMMA NextMul ==
  ASSUME NEW n \in Nat, NEW k \in Nat \ {0}
  PROVE  /\ NextMultiple(n, k) \in Nat
         /\ n <= NextMultiple(n, k)
         /\ (n + k - 1) \div k \in Nat
         /\ n > 0 => k <= NextMultiple(n, k)
         /\ \A q \in Nat : n <= q * k => NextMultiple(n, k) <= q * k
<1> DEFINE d == (n + k - 1) \div k
           e == (n + k - 1) % k
<1>1. d \in Int /\ e \in 0..(k - 1) /\ n + k - 1 = d * k + e
  BY SMTT(30)
<1> HIDE DEF d, e
<1>2. d \in Nat
  BY <1>1
<1>3. d * k \in Nat /\ n <= d * k
  BY <1>1, <1>2
<1>4. ASSUME NEW q \in Nat, n <= q * k PROVE d * k <= q * k
  <2>1. CASE d <= q
    BY <2>1, <1>2
  <2>2. CASE d >= q + 1
    <3>1. (q + 1) * k <= d * k
      BY <2>2, <1>2
    <3>2. (q + 1) * k = q * k + k /\ q * k \in Nat
      OBVIOUS
    <3> QED BY <3>1, <3>2, <1>1, <1>3, <1>4
  <2> QED BY <2>1, <2>2, <1>2
<1>5. n > 0 => k <= d * k
  <2>1. n > 0 => d # 0
    BY <1>3
  <2> QED BY <1>2, <2>1
<1> QED BY <1>2, <1>3, <1>4, <1>5 DEF NextMultiple, d

(* The slots of a slab are in its buffer.                                  *)
LEMMA Slots ==
  ASSUME NEW o \in Orders
  PROVE  /\ SLOT_SIZE(o) \in Nat \ {0}
         /\ SLOTS_START(o) \in Nat
         /\ SLOTS_LEN(o) \in Nat /\ SLOTS_LEN(o) >= 2
         /\ SLOTS_START(o) + SLOTS_LEN(o) * SLOT_SIZE(o) <= SLAB_BUF_SIZE
         /\ PAGE_SIZE \in Nat \ {0}
<1>1. SLOT_SIZE(o) \in Nat \ {0}
  BY PowerAssumption DEF SLOT_SIZE
<1>2. SLOTS_START(o) \in Nat
  <2>1. NextMultiple(BUF_START, SLOT_SIZE(o)) \in Nat
        /\ BUF_START <= NextMultiple(BUF_START, SLOT_SIZE(o)) /\ BUF_START \in Nat
    BY <1>1, NextMul, SlotsAssumption, Zenon
  <2> QED BY <2>1 DEF SLOTS_START
<1> DEFINE k == SLOT_SIZE(o)
           n == SLAB_BUF_SIZE - SLOTS_START(o)
           d == n \div k
           e == n % k
<1>3. n \in Int /\ k \in Nat \ {0}
  BY <1>1, <1>2, SlotsAssumption
<1>4. d >= 2 /\ SLOTS_LEN(o) = d
  BY SlotsAssumption DEF SLOTS_LEN
<1> HIDE DEF k, n
<1>5. d \in Int /\ e \in 0..(k - 1) /\ n = d * k + e
  BY <1>3, SMTT(30)
<1> HIDE DEF d, e
<1>6. d \in Nat /\ d * k \in Nat /\ d * k <= n
  BY <1>3, <1>4, <1>5
<1>7. SLOTS_START(o) + d * k <= SLAB_BUF_SIZE
  BY <1>6, <1>2, <1>3, SlotsAssumption DEF n
<1>8. d * k >= 1
  BY <1>3, <1>4, <1>6
<1>9. PAGE_SIZE \in Nat \ {0}
  BY <1>2, <1>6, <1>7, <1>8, SlotsAssumption, SMTT(30)
<1> QED BY <1>1, <1>2, <1>4, <1>6, <1>7, <1>9, SMTT(30) DEF k

(* A pointer to a slot leads back to its slab and its index, and into buf. *)
LEMMA PointerBack ==
  ASSUME NEW o \in Orders, NEW s \in Nat, NEW i \in 0..(SLOTS_LEN(o) - 1)
  PROVE  /\ PtrTo(s, i, o) \in Nat
         /\ SlabOf(PtrTo(s, i, o)) = s
         /\ IdxOf(PtrTo(s, i, o), o) = i
         /\ PtrTo(s, i, o) % PAGE_SIZE \in BUF_START..(BUF_START + SLAB_BUF_SIZE - 1)
<1> DEFINE k == SLOT_SIZE(o)
           len == SLOTS_LEN(o)
           start == SLOTS_START(o)
           r == BUF_START + start + i * k
<1>1. /\ k \in Nat \ {0} /\ start \in Nat /\ len \in Nat /\ i \in Nat
      /\ start + len * k <= SLAB_BUF_SIZE /\ i + 1 <= len
  BY Slots
<1>2. BUF_START \in Nat /\ SLAB_BUF_SIZE \in Nat /\ PAGE_SIZE \in Nat
      /\ BUF_START + SLAB_BUF_SIZE <= PAGE_SIZE
  BY SlotsAssumption
<1>3. PtrTo(s, i, o) = s * PAGE_SIZE + r
  BY <1>1, <1>2 DEF PtrTo
<1>4. IdxOf(PtrTo(s, i, o), o) = ((PtrTo(s, i, o) % PAGE_SIZE) - BUF_START - start) \div k
  BY DEF IdxOf
<1> HIDE DEF k, len, start
<1>5. i * k + k <= len * k /\ i * k \in Nat /\ len * k \in Nat
  <2>1. (i + 1) * k <= len * k /\ (i + 1) * k = i * k + k
    BY <1>1
  <2> QED BY <2>1, <1>1
<1>6. r \in Nat /\ r < PAGE_SIZE /\ r \in BUF_START..(BUF_START + SLAB_BUF_SIZE - 1)
  BY <1>1, <1>2, <1>5
<1>7. r - BUF_START - start = i * k
  BY <1>1, <1>2, <1>5
<1>8. (i * k) \div k = i
  BY <1>1
<1> HIDE DEF r
<1>9. (s * PAGE_SIZE + r) \div PAGE_SIZE = s /\ (s * PAGE_SIZE + r) % PAGE_SIZE = r
  BY <1>2, <1>6, DivMod
<1>10. s * PAGE_SIZE + r \in Nat
  BY <1>2, <1>6
<1> QED BY <1>3, <1>4, <1>6, <1>7, <1>8, <1>9, <1>10, SMTT(30) DEF SlabOf

(* A layout that goes to the slab allocator has a cache.                   *)
LEMMA SlotOrderIs ==
  ASSUME NEW l \in Layouts, Padded(l) <= MAX_SIZE
  PROVE  SlotOrder(l) \in Orders /\ Padded(l) <= 2^SlotOrder(l)
<1> DEFINE m == 2^MIN_ORDER
           M == 2^MAX_ORDER
           K == {k \in Orders : 2^k >= NextMultiple(Padded(l), m)}
<1>1. MAX_ORDER \in Orders /\ MIN_ORDER \in Orders /\ Orders \subseteq Nat
  BY SlotsAssumption DEF Orders
<1>2. m \in Nat \ {0} /\ M \in Nat \ {0} /\ M % m = 0
  BY <1>1, PowerAssumption
<1>3. Padded(l) \in Nat /\ Padded(l) <= M
  BY LayoutAssumption, NextMul, Zenon DEF Padded, MAX_SIZE
<1>4. NextMultiple(Padded(l), m) <= M
  <2> HIDE DEF m, M
  <2> DEFINE q == M \div m
  <2>1. M = q * m /\ q \in Int
    BY <1>2
  <2> HIDE DEF q
  <2>2. q \in Nat
    BY <2>1, <1>2
  <2> QED BY <2>1, <2>2, <1>2, <1>3, NextMul, Zenon
<1>5. K \in SUBSET Nat /\ MAX_ORDER \in K
  BY <1>1, <1>4, Zenon
<1>6. Min(K) \in K
  <2> HIDE DEF K
  <2> QED BY <1>5, MinExists
<1>7. Padded(l) <= NextMultiple(Padded(l), m) /\ NextMultiple(Padded(l), m) \in Nat
  BY <1>2, <1>3, NextMul, Zenon
<1>8. SlotOrder(l) = Min(K)
  BY DEF SlotOrder
<1> HIDE DEF m
<1>9. \A k \in K : k \in Orders /\ Padded(l) <= 2^k
  BY <1>3, <1>7, PowerAssumption
<1> QED BY <1>6, <1>8, <1>9

(* A run is long enough for what it was asked for.                         *)
LEMMA Runs ==
  ASSUME NEW l \in Layouts
  PROVE  RunLength(l) \in Nat \ {0} /\ l.size <= RunLength(l) * PAGE_SIZE
<1> DEFINE c == PageCount(l)
           S == {n \in {2^k : k \in 0..c} : n >= c}
<1>1. MIN_ORDER \in Orders
  BY SlotsAssumption DEF Orders
<1>2. PAGE_SIZE \in Nat \ {0} /\ l.size \in Nat \ {0}
  BY <1>1, Slots, LayoutAssumption
<1>3. c \in Nat \ {0} /\ l.size <= c * PAGE_SIZE
  <2> DEFINE d == (l.size + PAGE_SIZE - 1) \div PAGE_SIZE
  <2>1. d \in Nat /\ l.size <= d * PAGE_SIZE
    BY <1>2, NextMul, Zenon DEF NextMultiple
  <2>2. c = (d * PAGE_SIZE) \div PAGE_SIZE
    BY DEF PageCount, NextMultiple
  <2> HIDE DEF d, c
  <2>3. c = d
    BY <1>2, <2>1, <2>2
  <2>4. d # 0
    BY <1>2, <2>1
  <2> QED BY <2>1, <2>3, <2>4
<1>4. \A k \in 0..c : 2^k \in Nat /\ 2^k > k
  BY PowerAssumption
<1>5. c \in 0..c
  BY <1>3
<1> HIDE DEF c
<1>6. S \in SUBSET Nat /\ 2^c \in S
  BY <1>3, <1>4, <1>5
<1>7. Min(S) \in S
  <2> HIDE DEF S
  <2> QED BY <1>6, MinExists
<1>8. Min(S) \in Nat /\ Min(S) >= c
  BY <1>6, <1>7
<1>9. RunLength(l) = Min(S)
  BY DEF RunLength, c
<1> HIDE DEF S
<1>10. c * PAGE_SIZE <= Min(S) * PAGE_SIZE
  BY <1>2, <1>3, <1>8
<1>11. c * PAGE_SIZE \in Nat /\ Min(S) * PAGE_SIZE \in Nat
  BY <1>2, <1>3, <1>8
<1> QED BY <1>2, <1>3, <1>8, <1>9, <1>10, <1>11, SMTT(30)

(* cursor.remove() at a slab.                                              *)
LEMMA Removed ==
  ASSUME NEW P, NEW q \in Seq(P), IsInjective(q), NEW k \in DOMAIN q
  PROVE  /\ RemoveFirst(q, q[k]) \in Seq(P)
         /\ IsInjective(RemoveFirst(q, q[k]))
         /\ Range(RemoveFirst(q, q[k])) = Range(q) \ {q[k]}
<1> DEFINE r == RemoveAt(q, k)
<1>0. k \in 1..Len(q) /\ Len(q) \in Nat /\ DOMAIN q = 1..Len(q)
  OBVIOUS
<1>1. RemoveFirst(q, q[k]) = r
  <2>1. {i \in 1..Len(q) : q[i] = q[k]} = {k}
    BY <1>0 DEF IsInjective
  <2>2. Min({k}) = k
    BY <1>0 DEF Min
  <2> QED BY <1>0, <2>1, <2>2, Zenon DEF RemoveFirst, SelectInSeq
<1>2. r \in Seq(P) /\ Len(r) = Len(q) - 1
      /\ \A i \in 1..Len(r) : r[i] = IF i < k THEN q[i] ELSE q[i + 1]
  <2> DEFINE a == SubSeq(q, 1, k - 1)
             b == SubSeq(q, k + 1, Len(q))
  <2>1. a \in Seq(P) /\ Len(a) = k - 1 /\ \A i \in 1..(k - 1) : a[i] = q[i]
    BY <1>0
  <2>2. b \in Seq(P) /\ Len(b) = Len(q) - k
        /\ \A i \in 1..(Len(q) - k) : b[i] = q[i + k]
    BY <1>0
  <2>3. r = a \o b
    BY DEF RemoveAt
  <2> HIDE DEF a, b, r
  <2> DEFINE c == Len(a)
             d == Len(b)
  <2>0. c \in Nat /\ d \in Nat /\ c = k - 1 /\ d = Len(q) - k /\ c + d = Len(q) - 1
    BY <1>0, <2>1, <2>2
  <2>3a. /\ r \in Seq(P) /\ Len(r) = c + d
        /\ \A i \in 1..(c + d) : r[i] = IF i <= c THEN a[i] ELSE b[i - c]
    BY <2>1, <2>2, <2>3, ConcatProperties, SMTT(30)
  <2> HIDE DEF c, d
  <2>4. r \in Seq(P) /\ Len(r) = Len(q) - 1
    BY <2>0, <2>3a
  <2>5. ASSUME NEW i \in 1..Len(r) PROVE r[i] = IF i < k THEN q[i] ELSE q[i + 1]
    <3>1. CASE i < k
      <4>1. i \in 1..(c + d) /\ i <= c /\ i \in 1..(k - 1)
        BY <1>0, <2>0, <2>3a, <3>1
      <4>2. r[i] = a[i] /\ a[i] = q[i]
        BY <4>1, <2>1, <2>3a, Zenon
      <4> QED BY <4>2, <3>1
    <3>2. CASE i >= k
      <4>0. i \in 1..(c + d) /\ ~(i <= c) /\ i - c \in 1..(Len(q) - k) /\ c = k - 1
        <5>1. k \in Nat /\ Len(q) \in Nat /\ k <= Len(q)
          BY <1>0
        <5>2. i \in Nat /\ i >= 1 /\ i <= c + d
          BY <2>0, <2>3a
        <5>3. i \in 1..(c + d)
          BY <5>2, <2>0
        <5>4. ~(i <= c)
          BY <5>1, <5>2, <2>0, <3>2, SMTT(30)
        <5>5. i - c >= 1
          BY <5>1, <5>2, <2>0, <3>2, SMTT(30)
        <5>6. i - c <= Len(q) - k
          BY <5>1, <5>2, <2>0, <3>2, SMTT(30)
        <5>7. i - c \in 1..(Len(q) - k)
          BY <5>1, <5>2, <5>5, <5>6, <2>0, SMTT(30)
        <5> QED BY <5>3, <5>4, <5>7, <2>0
      <4>1. i - (k - 1) \in 1..(Len(q) - k) /\ r[i] = b[i - (k - 1)]
        BY <4>0, <2>3a
      <4>2. (i - (k - 1)) + k = i + 1
        BY <1>0, <2>4
      <4>3. r[i] = q[i + 1]
        BY <4>1, <4>2, <2>2
      <4>4. ~(i < k)
        BY <1>0, <2>4, <3>2
      <4> QED BY <4>3, <4>4
    <3> QED BY <1>0, <2>4, <3>1, <3>2, SMTT(30)
  <2> QED BY <2>4, <2>5
<1> HIDE DEF r
<1>3. DOMAIN r = 1..(Len(q) - 1)
  BY <1>2
<1>4. IsInjective(r)
  <2> SUFFICES ASSUME NEW i \in DOMAIN r, NEW j \in DOMAIN r, r[i] = r[j] PROVE i = j
    BY DEF IsInjective
  <2> DEFINE f(n) == IF n < k THEN n ELSE n + 1
  <2>1. /\ i \in Nat /\ j \in Nat /\ k \in Nat
        /\ f(i) \in DOMAIN q /\ f(j) \in DOMAIN q /\ q[f(i)] = q[f(j)]
    BY <1>0, <1>2, <1>3
  <2>2. f(i) = f(j)
    <3> HIDE DEF f
    <3> QED BY <2>1 DEF IsInjective
  <2> QED BY <2>1, <2>2
<1>5. ASSUME NEW i \in DOMAIN r PROVE r[i] \in Range(q) \ {q[k]}
  BY <1>0, <1>2, <1>3, <1>5, SMTT(30) DEF IsInjective, Range
<1>6. ASSUME NEW i \in DOMAIN q, i # k PROVE q[i] \in Range(r)
  <2>1. CASE i < k
    BY <1>0, <1>2, <1>3, <2>1, SMTT(30) DEF Range
  <2>2. CASE i > k
    <3>1. i - 1 \in DOMAIN r /\ r[i - 1] = q[i]
      BY <1>0, <1>2, <1>3, <2>2, SMTT(30)
    <3> QED BY <3>1 DEF Range
  <2> QED BY <1>0, <1>6, <2>1, <2>2, SMTT(30)
<1> QED BY <1>1, <1>2, <1>4, <1>5, <1>6, SMTT(30) DEF Range

(* list.push_front(slab).                                                  *)
LEMMA Pushed ==
  ASSUME NEW P, NEW q \in Seq(P), IsInjective(q), NEW s \in P, s \notin Range(q)
  PROVE  /\ <<s>> \o q \in Seq(P)
         /\ IsInjective(<<s>> \o q)
         /\ Range(<<s>> \o q) = Range(q) \cup {s}
<1> DEFINE r == <<s>> \o q
<1>1. r \in Seq(P) /\ Len(r) = Len(q) + 1 /\ r[1] = s
      /\ \A i \in 1..Len(q) : r[i + 1] = q[i]
  OBVIOUS
<1>2. \A i \in 2..Len(r) : r[i] = q[i - 1] /\ i - 1 \in 1..Len(q)
  BY <1>1
<1> HIDE DEF r
<1>3. IsInjective(r)
  <2> SUFFICES ASSUME NEW i \in DOMAIN r, NEW j \in DOMAIN r, r[i] = r[j] PROVE i = j
    BY DEF IsInjective
  <2>1. i \in 1..Len(r) /\ j \in 1..Len(r) /\ Len(q) \in Nat
    BY <1>1
  <2>2. CASE i = 1 \/ j = 1
    BY <1>1, <1>2, <2>1, <2>2 DEF Range
  <2>3. CASE i # 1 /\ j # 1
    <3>1. i \in 2..Len(r) /\ j \in 2..Len(r)
      BY <1>1, <2>1, <2>3
    <3>2. i - 1 \in DOMAIN q /\ j - 1 \in DOMAIN q /\ q[i - 1] = q[j - 1]
      BY <1>2, <3>1
    <3>3. i - 1 = j - 1
      BY <3>2 DEF IsInjective
    <3> QED BY <2>1, <3>3
  <2> QED BY <2>2, <2>3
<1>4. ASSUME NEW i \in DOMAIN r PROVE r[i] \in Range(q) \cup {s}
  BY <1>1, <1>2 DEF Range
<1>5. ASSUME NEW i \in DOMAIN q PROVE q[i] \in Range(r)
  <2>1. i + 1 \in DOMAIN r /\ r[i + 1] = q[i]
    BY <1>1
  <2> QED BY <2>1 DEF Range
<1>6. s \in Range(r)
  BY <1>1 DEF Range
<1> QED BY <1>1, <1>3, <1>4, <1>5, <1>6, ZenonT(30) DEF Range, r

ListsType == [Orders -> [Lists -> Seq(Page)]]

(* The lists of the caches hold each of a set of slabs once.               *)
Linked(ls, D) ==
  /\ ls \in ListsType
  /\ \A o \in Orders, name \in Lists : IsInjective(ls[o][name])
  /\ \A o \in Orders, name \in Lists : Range(ls[o][name]) \subseteq D
  /\ \A s \in D : \E o \in Orders, name \in Lists : s \in Range(ls[o][name])
  /\ \A o, p \in Orders, name, other \in Lists : \A s \in Range(ls[o][name]) :
       s \in Range(ls[p][other]) => o = p /\ name = other

(* The lists m are the lists ls, but that s went from one to another.      *)
Moved(ls, m, o, from, to, s) ==
  \A p \in Orders, name \in Lists :
    Range(m[p][name]) = IF p = o /\ name = from THEN Range(ls[p][name]) \ {s}
                        ELSE IF p = o /\ name = to THEN Range(ls[p][name]) \cup {s}
                        ELSE Range(ls[p][name])

LEMMA MoveLinked ==
  ASSUME NEW ls, NEW D, Linked(ls, D), NEW o \in Orders, NEW from \in Lists,
         NEW to \in Lists, from # to, NEW s \in Range(ls[o][from]),
         NEW m, m = Move(ls, o, from, to, s)
  PROVE  Linked(m, D) /\ Moved(ls, m, o, from, to, s)
<1> DEFINE r == RemoveFirst(ls[o][from], s)
           t == <<s>> \o ls[o][to]
<1>1. ls \in ListsType /\ ls[o][from] \in Seq(Page) /\ ls[o][to] \in Seq(Page)
      /\ IsInjective(ls[o][from]) /\ IsInjective(ls[o][to])
  BY DEF Linked, ListsType
<1>2. r \in Seq(Page) /\ IsInjective(r) /\ Range(r) = Range(ls[o][from]) \ {s}
  <2>1. PICK k \in DOMAIN ls[o][from] : s = ls[o][from][k]
    BY DEF Range
  <2> QED BY <1>1, <2>1, Removed, SMTT(30)
<1>3. s \in Page /\ s \notin Range(ls[o][to])
  <2>1. s \in Page
    BY <1>1 DEF Range
  <2>2. s \notin Range(ls[o][to])
    BY Zenon DEF Linked
  <2> QED BY <2>1, <2>2
<1>4. t \in Seq(Page) /\ IsInjective(t) /\ Range(t) = Range(ls[o][to]) \cup {s}
  BY <1>1, <1>3, Pushed
<1>5. m = [[ls EXCEPT ![o][from] = r] EXCEPT ![o][to] = t]
  BY DEF Move
<1>6. m \in ListsType /\ \A p \in Orders, name \in Lists :
        m[p][name] = IF p = o /\ name = from THEN r
                     ELSE IF p = o /\ name = to THEN t ELSE ls[p][name]
  <2> DEFINE l1 == [ls EXCEPT ![o][from] = r]
  <2> HIDE DEF r, t
  <2>1. l1 \in ListsType /\ \A p \in Orders, name \in Lists :
          l1[p][name] = IF p = o /\ name = from THEN r ELSE ls[p][name]
    BY <1>1, <1>2 DEF ListsType
  <2> HIDE DEF l1
  <2>2. m = [l1 EXCEPT ![o][to] = t]
    BY <1>5 DEF l1
  <2>3. m \in ListsType /\ \A p \in Orders, name \in Lists :
          m[p][name] = IF p = o /\ name = to THEN t ELSE l1[p][name]
    BY <2>1, <2>2, <1>4, SMTT(30) DEF ListsType
  <2> QED BY <2>1, <2>3
<1> HIDE DEF r, t
<1>7. \A p \in Orders, name \in Lists :
        /\ IsInjective(m[p][name])
        /\ Range(m[p][name]) = IF p = o /\ name = from THEN Range(ls[p][name]) \ {s}
                               ELSE IF p = o /\ name = to THEN Range(ls[p][name]) \cup {s}
                               ELSE Range(ls[p][name])
  <2> TAKE p \in Orders, name \in Lists
  <2>0. IsInjective(ls[p][name])
    BY DEF Linked
  <2>1. CASE p = o /\ name = from
    BY <1>2, <1>6, <2>1
  <2>2. CASE p = o /\ name = to
    BY <1>4, <1>6, <2>2, Zenon
  <2>3. CASE ~(p = o /\ name = from) /\ ~(p = o /\ name = to)
    BY <1>6, <2>0, <2>3
  <2> QED BY <2>1, <2>2, <2>3, SMTT(30)
<1>8. Linked(m, D)
  <2>0. \A p1, p2 \in Orders, n1, n2 \in Lists : \A x \in Range(ls[p1][n1]) :
          x \in Range(ls[p2][n2]) => p1 = p2 /\ n1 = n2
    BY Zenon DEF Linked
  <2>1. ASSUME NEW x, NEW p \in Orders, NEW name \in Lists, x \in Range(m[p][name])
        PROVE  /\ x = s => p = o /\ name = to
               /\ x # s => x \in Range(ls[p][name])
               /\ x \in D
    <3>1. x = s => p = o /\ name = to
      <4> SUFFICES ASSUME x = s, ~(p = o /\ name = to) PROVE FALSE
        OBVIOUS
      <4>1. ~(p = o /\ name = from)
        BY <2>1, <1>7, Zenon
      <4>2. s \in Range(ls[p][name])
        BY <2>1, <1>7, <4>1, Zenon
      <4> QED BY <4>1, <4>2, <2>0
    <3>2. x # s => x \in Range(ls[p][name])
      BY <2>1, <1>7, Zenon
    <3>3. x \in D
      <4>1. CASE x = s
        BY Zenon, <4>1 DEF Linked
      <4>2. CASE x # s
        BY Zenon, <3>2, <4>2 DEF Linked
      <4> QED BY <4>1, <4>2
    <3> QED BY <3>1, <3>2, <3>3
  <2>2. ASSUME NEW x \in D
        PROVE  \E p \in Orders, name \in Lists : x \in Range(m[p][name])
    <3>1. CASE x = s
      BY <1>7, <3>1, Zenon
    <3>2. CASE x # s
      <4>1. PICK p \in Orders, name \in Lists : x \in Range(ls[p][name])
        BY Zenon DEF Linked
      <4>2. x \in Range(m[p][name])
        BY <1>7, <4>1, <3>2, Zenon
      <4> QED BY <4>2
    <3> QED BY <3>1, <3>2
  <2>3. \A p \in Orders, name \in Lists : Range(m[p][name]) \subseteq D
    BY <2>1
  <2>4. \A p1, p2 \in Orders, n1, n2 \in Lists : \A x \in Range(m[p1][n1]) :
          x \in Range(m[p2][n2]) => p1 = p2 /\ n1 = n2
    <3> SUFFICES ASSUME NEW p1 \in Orders, NEW p2 \in Orders, NEW n1 \in Lists,
                        NEW n2 \in Lists, NEW x, x \in Range(m[p1][n1]),
                        x \in Range(m[p2][n2])
                 PROVE  p1 = p2 /\ n1 = n2
      OBVIOUS
    <3>1. CASE x = s
      BY <2>1, <3>1
    <3>2. CASE x # s
      <4>1. x \in Range(ls[p1][n1]) /\ x \in Range(ls[p2][n2])
        BY <2>1, <3>2
      <4> QED BY <4>1, <2>0
    <3> QED BY <3>1, <3>2
  <2> QED BY <1>6, <1>7, <2>2, <2>3, <2>4, Zenon DEF Linked
<1> QED BY <1>7, <1>8 DEF Moved
(* The lists m are the lists ls with a new slab in that of the empty ones. *)
Inserted(ls, m, o, s) ==
  \A p \in Orders, name \in Lists :
    Range(m[p][name]) = IF p = o /\ name = "empty" THEN {s} ELSE Range(ls[p][name])

LEMMA InsertLinked ==
  ASSUME NEW ls, NEW D, Linked(ls, D), NEW o \in Orders, ls[o]["empty"] = << >>,
         NEW p \in Page, p \notin D, NEW m, m = [ls EXCEPT ![o].empty = <<p>>]
  PROVE  Linked(m, D \cup {p}) /\ Inserted(ls, m, o, p)
<1>1. ls \in ListsType /\ "empty" \in Lists /\ <<p>> \in Seq(Page)
  BY DEF Linked, Lists
<1>2. m \in ListsType /\ \A q \in Orders, name \in Lists :
        m[q][name] = IF q = o /\ name = "empty" THEN <<p>> ELSE ls[q][name]
  <2>1. [ls[o] EXCEPT !["empty"] = <<p>>] \in [Lists -> Seq(Page)]
    BY <1>1 DEF ListsType
  <2>2. [ls EXCEPT ![o] = [ls[o] EXCEPT !["empty"] = <<p>>]] \in ListsType
    BY <1>1, <2>1 DEF ListsType
  <2> QED BY <1>1, <2>2, Zenon DEF ListsType
<1>3. IsInjective(<<p>>) /\ Range(<<p>>) = {p}
  BY DEF IsInjective, Range
<1>4. \A q \in Orders, name \in Lists :
        /\ IsInjective(m[q][name])
        /\ Range(m[q][name]) =
             IF q = o /\ name = "empty" THEN {p} ELSE Range(ls[q][name])
  <2> TAKE q \in Orders, name \in Lists
  <2>0. IsInjective(ls[q][name])
    BY DEF Linked
  <2>1. CASE q = o /\ name = "empty"
    BY Zenon, <1>2, <1>3, <2>1
  <2>2. CASE ~(q = o /\ name = "empty")
    <3>1. m[q][name] = ls[q][name]
      BY <1>2, <2>2
    <3>2. IsInjective(m[q][name]) /\ Range(m[q][name]) = Range(ls[q][name])
      BY Zenon, <2>0, <3>1
    <3> QED BY Zenon, <2>2, <3>2
  <2> QED BY <2>1, <2>2
<1>5. Range(ls[o]["empty"]) = {}
  BY DEF Range
<1>6. Linked(m, D \cup {p})
  <2>1. \A q \in Orders, name \in Lists : Range(m[q][name]) \subseteq D \cup {p}
    BY <1>4 DEF Linked
  <2>2. ASSUME NEW x \in D \cup {p}
        PROVE  \E q \in Orders, name \in Lists : x \in Range(m[q][name])
    <3>1. CASE x = p
      BY <1>1, <1>4, <3>1
    <3>2. CASE x \in D
      <4>1. PICK q \in Orders, name \in Lists : x \in Range(ls[q][name])
        BY Zenon, <3>2 DEF Linked
      <4>2. x \in Range(m[q][name])
        BY <1>4, <1>5, <4>1
      <4> QED BY <4>2
    <3> QED BY <3>1, <3>2
  <2>3. ASSUME NEW p1 \in Orders, NEW p2 \in Orders, NEW n1 \in Lists, NEW n2 \in Lists,
               NEW x, x \in Range(m[p1][n1]), x \in Range(m[p2][n2])
        PROVE  p1 = p2 /\ n1 = n2
    <3>0. \A q \in Orders, name \in Lists : p \notin Range(ls[q][name])
      BY DEF Linked
    <3>1. CASE x = p
      BY <1>4, <2>3, <3>0, <3>1
    <3>2. CASE x # p
      <4>1. x \in Range(ls[p1][n1]) /\ x \in Range(ls[p2][n2])
        BY <1>4, <2>3, <3>2
      <4> QED BY Zenon, <4>1 DEF Linked
    <3> QED BY <3>1, <3>2
  <2>4. \A p1, p2 \in Orders, n1, n2 \in Lists : \A x \in Range(m[p1][n1]) :
          x \in Range(m[p2][n2]) => p1 = p2 /\ n1 = n2
    BY <2>3
  <2> QED BY <1>2, <1>4, <2>1, <2>2, <2>4, Zenon DEF Linked
<1> QED BY <1>4, <1>6, Zenon DEF Inserted
=============================================================================
