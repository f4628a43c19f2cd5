--------------------------- MODULE SlabTheorems ---------------------------
(* What the inductive invariant of SlabProofs says of lists, pages, slots  *)
(* and objects.                                                            *)
EXTENDS SlabProofs

(* What the safety comment of Cache::free relies on holds: every slab is   *)
(* in one place of one list, and an object's slab is where free looks.     *)
THEOREM SlabsInTheirLists == Spec => []InItsList
<1>1. ASSUME SInv PROVE InItsList
  <2>1. ASSUME NEW s \in DOMAIN slab
        PROVE  \E o \in Orders, name \in Lists : \E i \in DOMAIN lists[o][name] :
                 /\ lists[o][name][i] = s
                 /\ \A p \in Orders, other \in Lists : \A j \in DOMAIN lists[p][other] :
                      lists[p][other][j] = s => <<p, other, j>> = <<o, name, i>>
    <3>1. PICK o \in Orders, name \in Lists : s \in Range(lists[o][name])
      BY <1>1 DEF SInv, Linked
    <3>2. PICK i \in DOMAIN lists[o][name] : lists[o][name][i] = s
      BY <3>1 DEF Range
    <3>3. ASSUME NEW p \in Orders, NEW other \in Lists, NEW j \in DOMAIN lists[p][other],
                 lists[p][other][j] = s
          PROVE  <<p, other, j>> = <<o, name, i>>
      <4>1. s \in Range(lists[p][other])
        BY <3>3 DEF Range
      <4>2. p = o /\ other = name
        BY Zenon, <1>1, <3>1, <4>1 DEF SInv, Linked
      <4>3. IsInjective(lists[o][name])
        BY <1>1 DEF SInv, Linked
      <4>4. j = i
        BY <3>2, <3>3, <4>2, <4>3, SMTT(30) DEF IsInjective
      <4> QED BY <4>2, <4>4
    <3> QED BY <3>2, <3>3
  <2>2. ASSUME NEW x \in live, Padded(x.layout) <= MAX_SIZE
        PROVE  LET o == SlotOrder(x.layout)
                   s == SlabOf(x.ptr)
               IN  s \in SlabsIn(o, IF FillLevel(slab[s].free_cnt, o) = "Full"
                                    THEN "full" ELSE "partial")
    <3> DEFINE o == SlotOrder(x.layout)
               s == SlabOf(x.ptr)
    <3>1. o \in Orders /\ s \in SlabsIn(o, "full") /\ slab[s] = OneTaken(o)
      BY <1>1, <2>2, SmallObject DEF Small
    <3>2. SLOTS_LEN(o) - 1 # 0
      BY <3>1, Slots
    <3>3. FillLevel(slab[s].free_cnt, o) = "Full"
      BY <3>1, <3>2, SMTT(30) DEF OneTaken, FillLevel
    <3> QED BY <3>1, <3>3
  <2> QED BY <2>1, <2>2 DEF InItsList
<1> QED BY <1>1, OneObjectPerSlab, PTL

(* Every page is in the pool, a slab or part of one large object: none is  *)
(* lost and none is used twice.                                            *)
THEOREM PagesConserved == Spec => []PagesAccounted
<1>1. ASSUME SInv PROVE PagesAccounted
  <2> DEFINE large == UNION {PagesOf(x) : x \in {y \in live : Padded(y.layout) > MAX_SIZE}}
  <2>0. \A x \in live : Padded(x.layout) > MAX_SIZE <=> ~Small(x)
    <3> TAKE x \in live
    <3>1. x.layout \in Layouts
      BY <1>1 DEF SInv, BaseInv
    <3>2. Padded(x.layout) \in Nat /\ MAX_SIZE \in Nat
      BY <3>1, Sizes
    <3> QED BY <3>2 DEF Small
  <2>1. \A p : p \in large <=> \E x \in live : ~Small(x) /\ p \in PagesOf(x)
    BY <2>0
  <2> HIDE DEF large
  <2>2. \A x \in live : ~Small(x) =>
          /\ PagesOf(x) \subseteq Page /\ PagesOf(x) \cap pool = {}
          /\ PagesOf(x) \cap DOMAIN slab = {}
    BY <1>1 DEF SInv, ObjectInv, PageInv, Held
  <2>3. Page = pool \cup DOMAIN slab \cup large
    BY <1>1, <2>1, <2>2 DEF SInv, BaseInv, PageInv
  <2>4. pool \cap DOMAIN slab = {} /\ pool \cap large = {} /\ large \cap DOMAIN slab = {}
    BY <1>1, <2>1, <2>2, SMTT(30) DEF SInv, PageInv
  <2> QED BY <2>3, <2>4 DEF PagesAccounted, large
<1> QED BY <1>1, OneObjectPerSlab, PTL

(* The bytes of an object are in the pages it holds, and behind the header *)
(* of its slab when it is in one.                                          *)
LEMMA BytesHeld ==
  ASSUME SInv, NEW x \in live, NEW b \in Bytes(x)
  PROVE  /\ b \in Nat /\ b \div PAGE_SIZE \in Held(x)
         /\ Small(x) => (b % PAGE_SIZE) >= BUF_START
<1> DEFINE l == x.layout
           s == SlabOf(x.ptr)
           d == b - x.ptr
<1>1. l \in Layouts /\ x.ptr \in Nat /\ l.size \in Nat \ {0} /\ l.align \in Nat \ {0}
  BY LayoutAssumption DEF SInv, BaseInv
<1>2. b \in Nat /\ d \in Nat /\ d < l.size /\ b = x.ptr + d
  BY <1>1 DEF Bytes
<1>3. BUF_START \in Nat /\ SLAB_BUF_SIZE \in Nat /\ PAGE_SIZE \in Nat \ {0}
      /\ BUF_START + SLAB_BUF_SIZE <= PAGE_SIZE
  <2>1. MIN_ORDER \in Orders
    BY SlotsAssumption DEF Orders
  <2> QED BY <2>1, Slots, SlotsAssumption
<1>4. CASE Small(x)
  <2> DEFINE o == SlotOrder(l)
             k == SLOT_SIZE(o)
             r == BUF_START + SLOTS_START(o)
  <2>1. o \in Orders /\ s \in Nat /\ x.ptr = PtrTo(s, 0, o)
    BY <1>4, SmallObject
  <2>2. Padded(l) <= k /\ l.size <= Padded(l) /\ Padded(l) \in Nat
    BY <1>1, <1>4, SlotOrderIs, NextMul, Zenon DEF Small, SLOT_SIZE, Padded
  <2>3. k \in Nat \ {0} /\ SLOTS_START(o) \in Nat /\ SLOTS_START(o) + k <= SLAB_BUF_SIZE
    <3> DEFINE len == SLOTS_LEN(o)
               start == SLOTS_START(o)
    <3>1. k \in Nat \ {0} /\ start \in Nat /\ len \in Nat /\ len >= 2
          /\ start + len * k <= SLAB_BUF_SIZE
      BY <2>1, Slots
    <3> HIDE DEF k, len, start
    <3>2. k <= len * k /\ len * k \in Nat
      BY <3>1
    <3> QED BY <1>3, <3>1, <3>2 DEF start
  <2>4. x.ptr = s * PAGE_SIZE + r
    <3>1. 0 * SLOT_SIZE(o) = 0
      BY <2>3
    <3>2. s * PAGE_SIZE \in Nat
      BY <1>3, <2>1
    <3> QED BY <1>3, <2>1, <2>3, <3>1, <3>2, SMTT(30) DEF PtrTo
  <2>5. d < k
    BY <1>1, <1>2, <2>2, <2>3, SMTT(30)
  <2>6. r + d \in Nat /\ r + d < PAGE_SIZE /\ r + d >= BUF_START
    BY <1>2, <1>3, <2>3, <2>5, SMTT(30)
  <2>7. b = s * PAGE_SIZE + (r + d)
    <3>1. s * PAGE_SIZE \in Nat
      BY <1>3, <2>1
    <3> QED BY <1>2, <1>3, <2>3, <2>4, <3>1, SMTT(30)
  <2> HIDE DEF r, d, s, o
  <2>8. b \div PAGE_SIZE = s /\ b % PAGE_SIZE = r + d
    BY <1>3, <2>1, <2>6, <2>7, DivMod, ZenonT(30)
  <2> QED BY <1>2, <1>4, <2>6, <2>8, SMTT(30) DEF Held, s
<1>5. CASE ~Small(x)
  <2> DEFINE n == RunLength(l)
             e == d \div PAGE_SIZE
             m == d % PAGE_SIZE
  <2>1. n \in Nat \ {0} /\ l.size <= n * PAGE_SIZE
    BY <1>1, Runs
  <2>2. x.ptr = s * PAGE_SIZE /\ Held(x) = s..(s + n - 1)
    BY <1>5 DEF SInv, ObjectInv, Held, PagesOf, Run
  <2>3. s \in Nat
    BY <1>1, <1>3 DEF SlabOf
  <2> HIDE DEF d, n, s
  <2>4. e \in Nat /\ m \in Nat /\ m < PAGE_SIZE /\ d = e * PAGE_SIZE + m
    BY <1>2, <1>3
  <2> HIDE DEF e, m
  <2>5. e < n
    <3>1. e * PAGE_SIZE < n * PAGE_SIZE
      <4>1. e * PAGE_SIZE \in Nat /\ n * PAGE_SIZE \in Nat
        BY <1>3, <2>1, <2>4
      <4> QED BY <1>1, <1>2, <2>1, <2>4, <4>1, SMTT(30)
    <3> QED BY <1>3, <2>1, <2>4, <3>1, SMTT(30)
  <2>6. b = (s + e) * PAGE_SIZE + m
    <3>1. (s + e) * PAGE_SIZE = s * PAGE_SIZE + e * PAGE_SIZE
      BY <1>3, <2>3, <2>4
    <3>2. s * PAGE_SIZE \in Nat /\ e * PAGE_SIZE \in Nat
      BY <1>3, <2>3, <2>4
    <3> QED BY <1>2, <2>2, <2>4, <3>1, <3>2, SMTT(30)
  <2>7. s + e \in Nat
    BY <2>3, <2>4
  <2>8. b \div PAGE_SIZE = s + e
    BY <1>3, <2>4, <2>6, <2>7, DivMod, SMTT(30)
  <2>9. s + e \in s..(s + n - 1)
    BY <2>1, <2>3, <2>4, <2>5, SMTT(30)
  <2> QED BY <1>2, <1>5, <2>2, <2>8, <2>9, SMTT(30)
<1> QED BY <1>4, <1>5

(* The bytes before buf in a page are its first BUF_START.                 *)
LEMMA HeaderBytes ==
  ASSUME NEW s \in Nat, NEW b \in (s * PAGE_SIZE)..(s * PAGE_SIZE + BUF_START - 1)
  PROVE  b \div PAGE_SIZE = s /\ (b % PAGE_SIZE) < BUF_START
<1>1. BUF_START \in Nat /\ PAGE_SIZE \in Nat /\ BUF_START <= PAGE_SIZE
  BY SlotsAssumption
<1> DEFINE a == s * PAGE_SIZE
           r == b - a
<1>2. a \in Nat
  BY <1>1
<1>3. b \in Int /\ a <= b /\ b <= a + BUF_START - 1
  BY <1>1, <1>2
<1> HIDE DEF a
<1>4. r \in Nat /\ r < BUF_START /\ r < PAGE_SIZE /\ b = a + r
  BY <1>1, <1>2, <1>3, SMTT(30)
<1> HIDE DEF r
<1>5. b = s * PAGE_SIZE + r
  BY <1>4 DEF a
<1>6. (s * PAGE_SIZE + r) \div PAGE_SIZE = s /\ (s * PAGE_SIZE + r) % PAGE_SIZE = r
  BY <1>1, <1>4, DivMod, Zenon
<1> QED BY <1>4, <1>5, <1>6

(* A multiple of a multiple is one, and so is a sum of two.                *)
LEMMA TimesMultiple ==
  ASSUME NEW a \in Nat, NEW b \in Nat, NEW n \in Nat \ {0}, b % n = 0
  PROVE  (a * b) % n = 0 /\ a * b \in Nat
<1> DEFINE q == b \div n
<1>1. q \in Nat /\ b = q * n
  BY SMTT(30)
<1> HIDE DEF q
<1>2. a * b = (a * q) * n /\ a * q \in Nat
  BY <1>1
<1> DEFINE m == a * q
<1> HIDE DEF m
<1>3. m \in Nat => (m * n) % n = 0
  OBVIOUS
<1> QED BY <1>2, <1>3 DEF m

LEMMA SumOfMultiples ==
  ASSUME NEW u \in Nat, NEW v \in Nat, NEW n \in Nat \ {0}, u % n = 0, v % n = 0
  PROVE  (u + v) % n = 0
<1> DEFINE p == u \div n
           q == v \div n
<1>1. p \in Nat /\ q \in Nat /\ u = p * n /\ v = q * n
  BY SMTT(30)
<1> HIDE DEF p, q
<1>2. u + v = (p + q) * n
  BY <1>1
<1> DEFINE m == p + q
<1>3. m \in Nat
  BY <1>1
<1> HIDE DEF m
<1>4. (m * n) % n = 0
  BY <1>3
<1> QED BY <1>2, <1>4 DEF m

(* Objects never overlap each other or the header of a slab, and are       *)
(* aligned, for every page size, slot size and mix of layouts.             *)
THEOREM ObjectsApart == Spec => []Apart
<1>1. ASSUME SInv, NEW x \in live PROVE x.ptr % x.layout.align = 0
  <2> DEFINE l == x.layout
             s == SlabOf(x.ptr)
             n == l.align
  <2>1. l \in Layouts /\ x.ptr \in Nat /\ n \in Nat \ {0} /\ PAGE_SIZE % n = 0
    BY <1>1, LayoutAssumption DEF SInv, BaseInv
  <2>2. PAGE_SIZE \in Nat /\ BUF_START \in Nat
    BY SlotsAssumption
  <2>3. CASE Small(x)
    <3> DEFINE o == SlotOrder(l)
               k == SLOT_SIZE(o)
               c == (BUF_START + k - 1) \div k
    <3>1. o \in Orders /\ s \in Nat /\ x.ptr = PtrTo(s, 0, o)
      BY <1>1, <2>3, SmallObject, SMTT(30)
    <3>2. k \in Nat \ {0} /\ k % n = 0
      <4>1. Padded(l) <= 2^o /\ Padded(l) \in Nat /\ n <= Padded(l)
        BY <2>1, <2>3, SlotOrderIs, Sizes, SMTT(30) DEF Small
      <4>2. 2^o \in Nat \ {0}
        BY <3>1, PowerAssumption
      <4>3. n <= 2^o
        BY <2>1, <4>1, <4>2, SMTT(30)
      <4> QED BY <2>1, <3>1, <4>2, <4>3, PowerAssumption, SMTT(30) DEF SLOT_SIZE
    <3>3. c \in Nat /\ NextMultiple(BUF_START, k) = c * k
      BY <2>2, <3>2, NextMul DEF NextMultiple
    <3>4. x.ptr = s * PAGE_SIZE + c * k
      <4>1. SLOTS_START(o) = c * k - BUF_START
        BY <3>3 DEF SLOTS_START
      <4>2. x.ptr = s * PAGE_SIZE + BUF_START + SLOTS_START(o) + 0 * k
        BY <3>1 DEF PtrTo
      <4> HIDE DEF c, k, s
      <4>3. s * PAGE_SIZE \in Nat /\ c * k \in Nat /\ 0 * k = 0
        BY <2>2, <3>1, <3>2, <3>3, SMTT(30)
      <4> QED BY <2>2, <4>1, <4>2, <4>3, SMTT(30)
    <3> HIDE DEF c, k, s, n
    <3>5. k \in Nat
      BY <3>2
    <3> DEFINE u == s * PAGE_SIZE
               v == c * k
    <3>6. u \in Nat /\ u % n = 0 /\ v \in Nat /\ v % n = 0
      BY <2>1, <2>2, <3>1, <3>2, <3>3, <3>5, TimesMultiple, ZenonT(30)
    <3> HIDE DEF u, v
    <3>7. (u + v) % n = 0
      BY <2>1, <3>6, SumOfMultiples, Zenon
    <3>8. x.ptr % n = 0
      BY <3>4, <3>7 DEF u, v
    <3> QED BY <3>8 DEF n
  <2>4. CASE ~Small(x)
    <3>1. x.ptr = s * PAGE_SIZE
      BY <1>1, <2>4 DEF SInv, ObjectInv
    <3>2. s \in Nat
      <4>1. PAGE_SIZE \in Nat \ {0}
        BY SlotsAssumption, Slots DEF Orders
      <4> QED BY <2>1, <4>1 DEF SlabOf
    <3> HIDE DEF s, n
    <3>3. (s * PAGE_SIZE) % n = 0
      BY <2>1, <2>2, <3>2, TimesMultiple, ZenonT(30)
    <3>4. x.ptr % n = 0
      BY Zenon, <3>1, <3>3
    <3> QED BY <3>4 DEF n
  <2> QED BY <2>3, <2>4
<1>2. ASSUME SInv, NEW x \in live, NEW y \in live, x # y PROVE Bytes(x) \cap Bytes(y) = {}
  <2> SUFFICES ASSUME NEW b \in Bytes(x), b \in Bytes(y) PROVE FALSE
    OBVIOUS
  <2>1. b \div PAGE_SIZE \in Held(x) /\ b \div PAGE_SIZE \in Held(y)
    BY <1>2, BytesHeld
  <2> QED BY <1>2, <2>1 DEF SInv, PageInv
<1>3. ASSUME SInv, NEW x \in live, NEW s \in DOMAIN slab
      PROVE  Bytes(x) \cap (s * PAGE_SIZE)..(s * PAGE_SIZE + BUF_START - 1) = {}
  <2> SUFFICES ASSUME NEW b \in Bytes(x),
                      b \in (s * PAGE_SIZE)..(s * PAGE_SIZE + BUF_START - 1)
               PROVE  FALSE
    OBVIOUS
  <2>1. s \in Nat
    BY <1>3, SlotsAssumption, Zenon DEF SInv, BaseInv
  <2>2. b \div PAGE_SIZE = s /\ (b % PAGE_SIZE) < BUF_START
    BY <2>1, HeaderBytes
  <2>3. s \in Held(x) /\ b \in Nat /\ (Small(x) => (b % PAGE_SIZE) >= BUF_START)
    BY <1>3, <2>2, BytesHeld
  <2>4. ~Small(x)
    <3>1. BUF_START \in Nat /\ b % PAGE_SIZE \in Int
      <4>1. PAGE_SIZE \in Nat \ {0}
        BY SlotsAssumption, Slots DEF Orders
      <4> QED BY <2>3, <4>1, SlotsAssumption
    <3> QED BY <2>2, <2>3, <3>1
  <2> QED BY <1>3, <2>3, <2>4 DEF Held, SInv, ObjectInv
<1>4. SInv => Apart
  BY <1>1, <1>2, <1>3, SMTT(30) DEF Apart
<1> QED BY <1>4, OneObjectPerSlab, PTL

(* The bitmap and the count of every slab agree with each other and with   *)
(* what callers hold.                                                      *)
THEOREM SlabsAccounted == Spec => []Accounted
<1>1. ASSUME SInv, NEW s \in DOMAIN slab
      PROVE  \E o \in Orders :
               \/ s \in SlabsIn(o, "partial") /\ slab[s] = NewSlab(o)
               \/ s \in SlabsIn(o, "full") /\ slab[s] = OneTaken(o)
  <2>1. PICK o \in Orders, name \in Lists : s \in SlabsIn(o, name)
    BY <1>1 DEF SInv, Linked, SlabsIn
  <2> QED BY <1>1, <2>1 DEF SInv, HeaderInv, Lists
<1>2. ASSUME SInv PROVE TypeOK
  <2>1. ASSUME NEW o \in Orders, NEW name \in Lists
        PROVE  lists[o][name] \in Seq(DOMAIN slab)
    <3>1. lists[o][name] \in Seq(Page) /\ Range(lists[o][name]) \subseteq DOMAIN slab
      BY <1>2 DEF SInv, Linked, ListsType
    <3>2. \A i \in 1..Len(lists[o][name]) : lists[o][name][i] \in DOMAIN slab
      BY <3>1 DEF Range
    <3> QED BY <3>1, <3>2
  <2>2. ASSUME NEW s \in DOMAIN slab
        PROVE  slab[s].bitmap \subseteq Nat /\ slab[s].free_cnt \in Nat
    <3>1. PICK o \in Orders : slab[s] = NewSlab(o) \/ slab[s] = OneTaken(o)
      BY <1>1, <1>2
    <3>2. SLOTS_LEN(o) \in Nat /\ SLOTS_LEN(o) >= 2
      BY Slots
    <3> QED BY <3>1, <3>2 DEF NewSlab, OneTaken
  <2> QED BY <1>2, <2>1, <2>2, Zenon DEF TypeOK, SInv, BaseInv
<1>3. ASSUME SInv, NEW o \in Orders, NEW s \in SlabsOf(o)
      PROVE  /\ slab[s].free_cnt = Cardinality(slab[s].bitmap)
             /\ slab[s].bitmap =
                  {i \in 0..(SLOTS_LEN(o) - 1) : \A x \in live : x.ptr # PtrTo(s, i, o)}
  <2> DEFINE len == SLOTS_LEN(o)
  <2>1. len \in Nat /\ len >= 2
    BY Slots
  <2>2. /\ s \in DOMAIN slab /\ s \in Nat
        /\ \/ s \in SlabsIn(o, "partial") /\ slab[s] = NewSlab(o)
           \/ s \in SlabsIn(o, "full") /\ slab[s] = OneTaken(o)
    <3>1. PICK name \in Lists : s \in SlabsIn(o, name)
      BY DEF SlabsOf
    <3>2. s \in DOMAIN slab /\ s \in Nat
      BY <1>3, <3>1, SlotsAssumption, ZenonT(30) DEF SInv, BaseInv, Linked, SlabsIn
    <3> QED BY <1>3, <3>1, <3>2 DEF SInv, HeaderInv, Lists
  <2>3. ASSUME NEW x \in live, SlabOf(x.ptr) = s
        PROVE  s \in SlabsIn(o, "full") /\ x.ptr = PtrTo(s, 0, o)
    <3>1. Small(x)
      <4> SUFFICES ASSUME ~Small(x) PROVE FALSE
        OBVIOUS
      <4>1. x.layout \in Layouts
        BY <1>3 DEF SInv, BaseInv
      <4>2. RunLength(x.layout) \in Nat \ {0}
        BY <4>1, Runs
      <4>3. s \in PagesOf(x)
        BY <2>2, <2>3, <4>2 DEF PagesOf, Run
      <4> QED BY <1>3, <2>2, <4>3 DEF SInv, ObjectInv
    <3>2. SlotOrder(x.layout) \in Orders /\ s \in SlabsIn(SlotOrder(x.layout), "full")
          /\ x.ptr = PtrTo(s, 0, SlotOrder(x.layout))
      BY <1>3, <2>3, <3>1, SmallObject, SMTT(30)
    <3>3. PICK name \in Lists : s \in SlabsIn(o, name)
      BY DEF SlabsOf
    <3>4. SlotOrder(x.layout) = o
      <4>1. "full" \in Lists
        BY DEF Lists
      <4> QED BY Zenon, <1>3, <3>2, <3>3, <4>1 DEF SInv, Linked, SlabsIn
    <3> QED BY <3>2, <3>4
  <2>4. \A i \in 0..(len - 1) : PtrTo(s, i, o) \in Nat /\ SlabOf(PtrTo(s, i, o)) = s
                               /\ IdxOf(PtrTo(s, i, o), o) = i
    BY <2>2, PointerBack
  <2>5. \A a, b \in Int : /\ Cardinality(a..b) = IF a > b THEN 0 ELSE b - a + 1
    BY FS_Interval
  <2>6. CASE s \in SlabsIn(o, "partial") /\ slab[s] = NewSlab(o)
    <3>1. s \notin SlabsIn(o, "full")
      <4>1. "full" \in Lists /\ "partial" \in Lists /\ "full" # "partial"
        BY DEF Lists
      <4> QED BY Zenon, <1>3, <2>6, <4>1 DEF SInv, Linked, SlabsIn
    <3>2. slab[s].bitmap = 0..(len - 1) /\ slab[s].free_cnt = len
      BY <2>6 DEF NewSlab
    <3>3. \A i \in 0..(len - 1) : \A x \in live : x.ptr # PtrTo(s, i, o)
      BY <2>3, <2>4, <3>1, SMTT(30)
    <3>4. Cardinality(0..(len - 1)) = len
      BY <2>1, <2>5, SMTT(30)
    <3> QED BY <3>2, <3>3, <3>4
  <2>7. CASE s \in SlabsIn(o, "full") /\ slab[s] = OneTaken(o)
    <3>1. slab[s].bitmap = 1..(len - 1) /\ slab[s].free_cnt = len - 1
      BY <2>7 DEF OneTaken
    <3>2. PICK x \in live : InSlab(x, s, o)
      BY <1>3, <2>7 DEF SInv, HeaderInv
    <3>3. x.ptr = PtrTo(s, 0, o)
      BY <2>3, <3>2, SMTT(30) DEF InSlab
    <3>4. \A i \in 1..(len - 1) : \A y \in live : y.ptr # PtrTo(s, i, o)
      <4> SUFFICES ASSUME NEW i \in 1..(len - 1), NEW y \in live, y.ptr = PtrTo(s, i, o)
                   PROVE  FALSE
        OBVIOUS
      <4>1. i \in 0..(len - 1) /\ 0 \in 0..(len - 1) /\ i # 0
        BY <2>1
      <4>2. SlabOf(y.ptr) = s
        BY <2>4, <4>1
      <4>3. PtrTo(s, i, o) = PtrTo(s, 0, o)
        BY <2>3, <4>2
      <4> QED BY <2>4, <4>1, <4>3, SMTT(30)
    <3>5. Cardinality(1..(len - 1)) = len - 1
      BY <2>1, <2>5
    <3>6. \A i \in 0..(len - 1) : i \in 1..(len - 1) <=> \A y \in live : y.ptr # PtrTo(s, i, o)
      <4> TAKE i \in 0..(len - 1)
      <4>1. i = 0 \/ i \in 1..(len - 1)
        BY <2>1
      <4>2. 0 \notin 1..(len - 1)
        BY <2>1
      <4> QED BY <3>3, <3>4, <4>1, <4>2, SMTT(30)
    <3>7. 1..(len - 1) \subseteq 0..(len - 1)
      BY <2>1
    <3> HIDE DEF len
    <3>8. 1..(len - 1) = {i \in 0..(len - 1) : \A y \in live : y.ptr # PtrTo(s, i, o)}
      BY <3>6, <3>7
    <3> QED BY <3>1, <3>5, <3>8, SMTT(30) DEF len
  <2> QED BY <2>2, <2>6, <2>7
<1>4. SInv => Accounted
  BY <1>2, <1>3 DEF Accounted
<1> QED BY <1>4, OneObjectPerSlab, PTL
=============================================================================
