----------------------------- MODULE SlabProofs -----------------------------
(* Proofs about the global allocator, for every set of pages and layouts.  *)
EXTENDS SlabGeometry

-----------------------------------------------------------------------------
(***************************************************************************)
(* The inductive invariant.  Because fill_level calls every count but 0    *)
(* full, a slab goes to full_slabs with its first object and comes back    *)
(* with it: a slab in partial_slabs is as good as new, one in full_slabs   *)
(* holds one object, in its first slot, and empty_slabs is empty.  So an   *)
(* object never shares a page with another.                                *)
(***************************************************************************)
OneTaken(o) == [bitmap |-> 1..(SLOTS_LEN(o) - 1), free_cnt |-> SLOTS_LEN(o) - 1]

Small(x) == Padded(x.layout) <= MAX_SIZE
Held(x)  == IF Small(x) THEN {SlabOf(x.ptr)} ELSE PagesOf(x)

InSlab(x, s, o) == Small(x) /\ SlotOrder(x.layout) = o /\ SlabOf(x.ptr) = s

BaseInv ==
  /\ halted = FALSE
  /\ live \subseteq [layout : Layouts, ptr : Nat]
  /\ pool \subseteq Page /\ DOMAIN slab \subseteq Page

HeaderInv ==
  \A o \in Orders :
    /\ SlabsIn(o, "empty") = {}
    /\ \A s \in SlabsIn(o, "partial") : slab[s] = NewSlab(o)
    /\ \A s \in SlabsIn(o, "full") : slab[s] = OneTaken(o) /\ \E x \in live : InSlab(x, s, o)

ObjectInv ==
  \A x \in live :
    LET o == SlotOrder(x.layout)
        s == SlabOf(x.ptr)
    IN  /\ Small(x)  => s \in SlabsIn(o, "full") /\ x.ptr = PtrTo(s, 0, o)
        /\ ~Small(x) => x.ptr = s * PAGE_SIZE /\ PagesOf(x) \cap DOMAIN slab = {}

PageInv ==
  /\ pool \cap DOMAIN slab = {}
  /\ \A x \in live : Held(x) \subseteq Page /\ Held(x) \cap pool = {}
  /\ \A x, y \in live : x # y => Held(x) \cap Held(y) = {}
  /\ \A p \in Page : \/ p \in pool \/ p \in DOMAIN slab
                     \/ \E x \in live : ~Small(x) /\ p \in PagesOf(x)

SInv == BaseInv /\ Linked(lists, DOMAIN slab) /\ HeaderInv /\ ObjectInv /\ PageInv

LEMMA InitSInv == Init => SInv
<1> SUFFICES ASSUME Init PROVE SInv
  OBVIOUS
<1>1. /\ lists = [o \in Orders |-> [name \in Lists |-> << >>]]
      /\ slab = << >> /\ live = {} /\ pool = Page /\ halted = FALSE /\ DOMAIN slab = {}
  BY DEF Init
<1>2. lists \in ListsType /\ \A o \in Orders, name \in Lists : lists[o][name] = << >>
  BY <1>1 DEF ListsType
<1>3. IsInjective(<< >>) /\ Range(<< >>) = {}
  BY DEF IsInjective, Range
<1>4. Linked(lists, DOMAIN slab)
  BY <1>1, <1>2, <1>3 DEF Linked
<1>5. \A o \in Orders, name \in Lists : SlabsIn(o, name) = {}
  BY <1>2, <1>3 DEF SlabsIn
<1>6. HeaderInv
  BY <1>5 DEF HeaderInv, Lists
<1> QED BY <1>1, <1>4, <1>6 DEF SInv, BaseInv, ObjectInv, PageInv

(* An object that the slab allocator gave out is in a slab of its order.   *)
LEMMA SmallObject ==
  ASSUME SInv, NEW x \in live, Small(x)
  PROVE  /\ x.layout \in Layouts /\ SlotOrder(x.layout) \in Orders
         /\ SlabOf(x.ptr) \in SlabsIn(SlotOrder(x.layout), "full")
         /\ x.ptr = PtrTo(SlabOf(x.ptr), 0, SlotOrder(x.layout))
         /\ SlabOf(x.ptr) \in DOMAIN slab /\ SlabOf(x.ptr) \in Nat
         /\ slab[SlabOf(x.ptr)] = OneTaken(SlotOrder(x.layout))
<1>1. x.layout \in Layouts
  BY DEF SInv, BaseInv
<1>2. SlotOrder(x.layout) \in Orders
  BY <1>1, SlotOrderIs DEF Small
<1>3. SlabOf(x.ptr) \in SlabsIn(SlotOrder(x.layout), "full")
      /\ x.ptr = PtrTo(SlabOf(x.ptr), 0, SlotOrder(x.layout))
  BY DEF SInv, ObjectInv
<1>4. SlabOf(x.ptr) \in DOMAIN slab /\ SlabOf(x.ptr) \in Nat
  BY <1>2, <1>3, SlotsAssumption, Zenon DEF SInv, BaseInv, Linked, SlabsIn, Lists
<1>5. slab[SlabOf(x.ptr)] = OneTaken(SlotOrder(x.layout))
  BY <1>2, <1>3 DEF SInv, HeaderInv
<1> QED BY <1>1, <1>2, <1>3, <1>4, <1>5, SMTT(30)

(* What Cache::reserve does to a slab that is as good as new.              *)
LEMMA ReserveEffect ==
  ASSUME NEW l, NEW o \in Orders, NEW ls, NEW from, NEW s,
         ReserveAt(l, o, ls, from, s, NewSlab(o))
  PROVE  /\ lists' = Move(ls, o, from, "full", s)
         /\ slab' = Written(s, OneTaken(o))
         /\ halted' = FALSE
         /\ live' = live \cup {Object(l, PtrTo(s, 0, o))}
<1> DEFINE h == NewSlab(o)
           len == SLOTS_LEN(o)
<1>1. len \in Nat /\ len >= 2 /\ SLOT_SIZE(o) \in Nat \ {0}
  BY Slots
<1>2. h.bitmap = 0..(len - 1) /\ h.free_cnt = len
  BY DEF NewSlab
<1>3. Min(h.bitmap) = 0
  <2>1. 0..(len - 1) \in SUBSET Nat /\ 0 \in 0..(len - 1)
    BY <1>1
  <2>2. Min(0..(len - 1)) \in 0..(len - 1) /\ Min(0..(len - 1)) <= 0
    BY <2>1, MinExists, Zenon
  <2> QED BY <1>1, <1>2, <2>2
<1>4. h.bitmap \ {0} = 1..(len - 1)
  BY <1>1, <1>2
<1>5. h.free_cnt # 0 /\ h.free_cnt - 1 = len - 1 /\ len - 1 # 0
  BY <1>1, <1>2
<1>6. FillLevel(h.free_cnt, o) # "Empty" /\ FillLevel(len - 1, o) = "Full"
  BY <1>5 DEF FillLevel
<1>7. (0 >= SLOT_SIZE(o)) = FALSE
  BY <1>1
<1>8. OneTaken(o) = [bitmap |-> 1..(len - 1), free_cnt |-> len - 1]
  BY DEF OneTaken
<1>9. ReserveAt(l, o, ls, from, s, h)
  OBVIOUS
<1> HIDE DEF h, len
<1>10. lists' = Move(ls, o, from, "full", s)
  BY <1>5, <1>6, <1>9 DEF ReserveAt
<1>11. slab' = Written(s, OneTaken(o))
  BY <1>3, <1>4, <1>5, <1>8, <1>9, Zenon DEF ReserveAt
<1>12. halted' = (0 >= SLOT_SIZE(o))
  BY Zenon, <1>3, <1>5, <1>9 DEF ReserveAt
<1>13. halted' = FALSE
  BY <1>7, <1>12, ZenonT(30)
<1>14. live' = live \cup {Object(l, PtrTo(s, 0, o))}
  BY Zenon, <1>3, <1>5, <1>9, <1>13 DEF ReserveAt
<1> QED BY <1>10, <1>11, <1>13, <1>14, SMTT(30)

(* A slab is moved to full_slabs, and is one that no object is in.         *)
ToFull(o, s) ==
  \A p \in Orders :
    /\ SlabsIn(p, "empty")' = {}
    /\ SlabsIn(p, "partial")' \subseteq SlabsIn(p, "partial") \ {s}
    /\ SlabsIn(p, "full")' = SlabsIn(p, "full") \cup (IF p = o THEN {s} ELSE {})

Unheld(s) == \A x \in live : s \notin Held(x)

(* A slab gets its first object and is moved to full_slabs.                *)
LEMMA ReserveSInv ==
  ASSUME SInv, NEW l \in Layouts, Padded(l) <= MAX_SIZE, NEW o \in Orders, o = SlotOrder(l),
         NEW s \in Page, Unheld(s),
         Linked(lists', DOMAIN slab \cup {s}),
         ToFull(o, s),
         slab' = Written(s, OneTaken(o)), halted' = FALSE,
         live' = live \cup {Object(l, PtrTo(s, 0, o))}, pool' = pool \ {s}
  PROVE  SInv'
<1> USE DEF ToFull, Unheld
<1> DEFINE z == Object(l, PtrTo(s, 0, o))
<1>1. s \in Nat /\ 0 \in 0..(SLOTS_LEN(o) - 1)
  BY Slots, SlotsAssumption
<1>2. PtrTo(s, 0, o) \in Nat /\ SlabOf(PtrTo(s, 0, o)) = s
  BY <1>1, PointerBack
<1>3. /\ z \in [layout : Layouts, ptr : Nat] /\ z.layout = l /\ z.ptr = PtrTo(s, 0, o)
      /\ Small(z) /\ Held(z) = {s} /\ InSlab(z, s, o)
  BY <1>2 DEF Object, Small, Held, InSlab
<1> HIDE DEF z
<1>4. live' = live \cup {z}
  BY DEF z
<1>5. /\ DOMAIN slab' = DOMAIN slab \cup {s} /\ slab'[s] = OneTaken(o)
      /\ \A t \in DOMAIN slab : t # s => slab'[t] = slab[t]
  BY DEF Written
<1>6. \A p \in Orders, name \in Lists : SlabsIn(p, name) \subseteq DOMAIN slab
  BY DEF SInv, Linked, SlabsIn
<1>7. BaseInv'
  BY <1>3, <1>4, <1>5, SMTT(30) DEF SInv, BaseInv
<1>8. Linked(lists, DOMAIN slab)'
  BY <1>5 DEF Linked
<1>9. HeaderInv'
  <2> SUFFICES ASSUME NEW p \in Orders
               PROVE  /\ SlabsIn(p, "empty")' = {}
                      /\ \A t \in SlabsIn(p, "partial")' : slab'[t] = NewSlab(p)
                      /\ \A t \in SlabsIn(p, "full")' :
                           slab'[t] = OneTaken(p) /\ \E x \in live' : InSlab(x, t, p)
    BY DEF HeaderInv
  <2>1. ASSUME NEW t \in SlabsIn(p, "partial")' PROVE slab'[t] = NewSlab(p)
    <3>1. t \in SlabsIn(p, "partial") /\ t # s
      BY <2>1
    <3>2. t \in DOMAIN slab /\ slab[t] = NewSlab(p)
      BY <1>6, <3>1, SMTT(30) DEF SInv, HeaderInv, Lists
    <3> QED BY <1>5, <3>1, <3>2
  <2>2. ASSUME NEW t \in SlabsIn(p, "full")'
        PROVE  slab'[t] = OneTaken(p) /\ \E x \in live' : InSlab(x, t, p)
    <3>1. CASE t \in SlabsIn(p, "full")
      <4>1. t \in DOMAIN slab /\ slab[t] = OneTaken(p)
        BY <1>6, <3>1 DEF SInv, HeaderInv, Lists
      <4>2. PICK x \in live : InSlab(x, t, p)
        BY <3>1 DEF SInv, HeaderInv
      <4>3. t # s
        BY <4>2 DEF InSlab, Held
      <4> QED BY <1>4, <1>5, <4>1, <4>2, <4>3, SMTT(30)
    <3>2. CASE t \notin SlabsIn(p, "full")
      <4>1. p = o /\ t = s
        BY <2>2, <3>2
      <4> QED BY <1>3, <1>4, <1>5, <4>1, SMTT(30)
    <3> QED BY <3>1, <3>2
  <2> QED BY <2>1, <2>2
<1>10. ObjectInv'
  <2> SUFFICES ASSUME NEW x \in live'
               PROVE  LET q == SlotOrder(x.layout)
                          t == SlabOf(x.ptr)
                      IN  /\ Small(x)  => t \in SlabsIn(q, "full")' /\ x.ptr = PtrTo(t, 0, q)
                          /\ ~Small(x) => x.ptr = t * PAGE_SIZE
                                          /\ PagesOf(x) \cap DOMAIN slab' = {}
    BY DEF ObjectInv
  <2>1. CASE x = z
    BY <1>2, <1>3, <2>1, SMTT(30)
  <2>2. CASE x \in live /\ Small(x)
    BY <2>2, SmallObject
  <2>3. CASE x \in live /\ ~Small(x)
    <3>1. x.ptr = SlabOf(x.ptr) * PAGE_SIZE /\ PagesOf(x) \cap DOMAIN slab = {}
      BY <2>3 DEF SInv, ObjectInv
    <3>2. s \notin PagesOf(x)
      BY <2>3 DEF Held
    <3> QED BY <2>3, <3>1, <3>2, <1>5, SMTT(30)
  <2> QED BY <1>4, <2>1, <2>2, <2>3, SMTT(30)
<1>11. PageInv'
  <2>1. (pool \cap DOMAIN slab)' = {}
    BY <1>5 DEF SInv, PageInv
  <2>2. \A x \in live' : Held(x) \subseteq Page /\ Held(x) \cap pool' = {}
    BY <1>3, <1>4 DEF SInv, PageInv
  <2>3. \A x, y \in live' : x # y => Held(x) \cap Held(y) = {}
    BY <1>3, <1>4, SMTT(30) DEF SInv, PageInv
  <2>4. \A p \in Page : \/ p \in pool' \/ p \in DOMAIN slab'
                         \/ \E x \in live' : ~Small(x) /\ p \in PagesOf(x)
    BY <1>4, <1>5 DEF SInv, PageInv
  <2> QED BY <2>1, <2>2, <2>3, <2>4, SMTT(30) DEF PageInv
<1> QED BY <1>7, <1>8, <1>9, <1>10, <1>11, SMTT(30) DEF SInv

(* The front of a list, and the list that has none.                        *)
LEMMA HeadInRange ==
  ASSUME NEW P, NEW q \in Seq(P)
  PROVE  /\ q # << >> => Head(q) \in Range(q)
         /\ Range(q) = {} => q = << >>
<1>1. q # << >> => 1 \in DOMAIN q /\ Head(q) = q[1]
  OBVIOUS
<1> QED BY <1>1 DEF Range

LEMMA AllocateSmallSInv ==
  ASSUME SInv, NEW l \in Layouts, AllocateSmall(l)
  PROVE  SInv'
<1> DEFINE o == SlotOrder(l)
<1>1. Padded(l) <= MAX_SIZE /\ Reserve(l)
  BY DEF AllocateSmall
<1>2. o \in Orders
  BY <1>1, SlotOrderIs
<1>3. /\ lists \in ListsType /\ lists[o]["empty"] \in Seq(Page)
      /\ lists[o]["partial"] \in Seq(Page)
  BY <1>2 DEF SInv, Linked, ListsType, Lists
<1>4. lists[o]["empty"] = << >>
  BY <1>2, <1>3, HeadInRange, Zenon DEF SInv, HeaderInv, SlabsIn
<1>5. /\ lists[o]["partial"] # << >> =>
           /\ ReserveAt(l, o, lists, "partial", Head(lists[o]["partial"]),
                        slab[Head(lists[o]["partial"])])
           /\ pool' = pool
      /\ lists[o]["partial"] = << >> =>
           \E p \in pool :
             /\ pool' = pool \ {p}
             /\ ReserveAt(l, o, [lists EXCEPT ![o].empty = <<p>>], "empty", p, NewSlab(o))
  BY <1>1, <1>4, Zenon DEF Reserve
<1>6. "full" \in Lists /\ "partial" \in Lists /\ "empty" \in Lists
      /\ Linked(lists, DOMAIN slab)
  BY DEF Lists, SInv
<1> HIDE DEF o
<1>7. CASE lists[o]["partial"] # << >>
  <2> DEFINE s == Head(lists[o]["partial"])
  <2>1. s \in Range(lists[o]["partial"]) /\ s \in SlabsIn(o, "partial")
    BY <1>3, <1>7, HeadInRange, SMTT(30) DEF SlabsIn
  <2> HIDE DEF s
  <2>2. slab[s] = NewSlab(o) /\ s \in DOMAIN slab /\ s \in Page
    BY <1>2, <1>6, <2>1 DEF SInv, BaseInv, HeaderInv, Linked, SlabsIn
  <2>3. /\ lists' = Move(lists, o, "partial", "full", s)
        /\ slab' = Written(s, OneTaken(o)) /\ halted' = FALSE
        /\ live' = live \cup {Object(l, PtrTo(s, 0, o))} /\ pool' = pool
    <3>1. ReserveAt(l, o, lists, "partial", s, NewSlab(o)) /\ pool' = pool
      BY <1>5, <1>7, <2>2, SMTT(30) DEF s
    <3> QED BY <1>2, <3>1, ReserveEffect, ZenonT(30)
  <2>4. /\ Linked(lists', DOMAIN slab)
        /\ Moved(lists, lists', o, "partial", "full", s)
    BY <1>2, <1>6, <2>1, <2>3, MoveLinked, SMTT(30)
  <2>5. \A p \in Orders, name \in Lists : s \in SlabsIn(p, name) => p = o /\ name = "partial"
    BY Zenon, <1>2, <1>6, <2>1 DEF Linked, SlabsIn
  <2>6. ToFull(o, s)
    BY <1>6, <2>4, <2>5, ZenonT(30) DEF SlabsIn, SInv, HeaderInv, ToFull, Moved
  <2>7. Unheld(s)
    <3> SUFFICES ASSUME NEW x \in live, s \in Held(x) PROVE FALSE
      BY DEF Unheld
    <3>1. CASE Small(x)
      <4>1. s = SlabOf(x.ptr)
        BY <3>1 DEF Held
      <4>2. s \in SlabsIn(SlotOrder(x.layout), "full") /\ SlotOrder(x.layout) \in Orders
        BY <3>1, <4>1, SmallObject, SMTT(30)
      <4> QED BY <1>6, <2>5, <4>2
    <3>2. CASE ~Small(x)
      BY <2>2, <3>2 DEF Held, SInv, ObjectInv
    <3> QED BY <3>1, <3>2
  <2>8. DOMAIN slab \cup {s} = DOMAIN slab /\ pool' = pool \ {s}
    BY <2>2, <2>3, Zenon DEF SInv, PageInv
  <2>9. o = SlotOrder(l)
    BY DEF o
  <2> QED BY <1>1, <1>2, <2>2, <2>3, <2>4, <2>6, <2>7, <2>8, <2>9, ReserveSInv, ZenonT(30)
<1>8. CASE lists[o]["partial"] = << >>
  <2>1. PICK s \in pool :
          /\ pool' = pool \ {s}
          /\ ReserveAt(l, o, [lists EXCEPT ![o].empty = <<s>>], "empty", s, NewSlab(o))
    BY <1>5, <1>8, Zenon
  <2>2. s \in Page /\ s \notin DOMAIN slab /\ Unheld(s)
    BY DEF Unheld, SInv, BaseInv, PageInv
  <2> DEFINE ls == [lists EXCEPT ![o].empty = <<s>>]
  <2>3. /\ Linked(ls, DOMAIN slab \cup {s})
        /\ Inserted(lists, ls, o, s)
    BY <1>2, <1>4, <1>6, <2>2, InsertLinked, SMTT(30)
  <2>4. ReserveAt(l, o, ls, "empty", s, NewSlab(o))
    BY <2>1
  <2> HIDE DEF ls
  <2>5. /\ lists' = Move(ls, o, "empty", "full", s)
        /\ slab' = Written(s, OneTaken(o)) /\ halted' = FALSE
        /\ live' = live \cup {Object(l, PtrTo(s, 0, o))}
    BY <1>2, <2>4, ReserveEffect, ZenonT(30)
  <2>6. s \in Range(ls[o]["empty"])
    BY <1>2, <1>6, <2>3, SMTT(30) DEF Inserted
  <2>7. /\ Linked(lists', DOMAIN slab \cup {s})
        /\ Moved(ls, lists', o, "empty", "full", s)
    BY <1>2, <1>6, <2>3, <2>5, <2>6, MoveLinked, SMTT(30)
  <2>8. \A p \in Orders, name \in Lists : s \notin SlabsIn(p, name)
    BY <1>6, <2>2, SMTT(30) DEF Linked, SlabsIn
  <2>9. ToFull(o, s)
    <3> SUFFICES ASSUME NEW p \in Orders
                 PROVE  /\ SlabsIn(p, "empty")' = {}
                        /\ SlabsIn(p, "partial")' \subseteq SlabsIn(p, "partial") \ {s}
                        /\ SlabsIn(p, "full")' =
                             SlabsIn(p, "full") \cup (IF p = o THEN {s} ELSE {})
      BY DEF ToFull
    <3>1. SlabsIn(p, "empty")' = {}
      BY <1>6, <2>3, <2>7, ZenonT(30) DEF SlabsIn, SInv, HeaderInv, Moved, Inserted
    <3>2. SlabsIn(p, "partial")' = SlabsIn(p, "partial")
      BY <1>6, <2>3, <2>7, Zenon DEF SlabsIn, Moved, Inserted
    <3>3. SlabsIn(p, "full")' = SlabsIn(p, "full") \cup (IF p = o THEN {s} ELSE {})
      BY <1>6, <2>3, <2>7, ZenonT(30) DEF SlabsIn, Moved, Inserted
    <3> QED BY <1>6, <2>8, <3>1, <3>2, <3>3, SMTT(30)
  <2>10. o = SlotOrder(l)
    BY DEF o
  <2> QED BY <1>1, <1>2, <2>1, <2>2, <2>5, <2>7, <2>9, <2>10, ReserveSInv, Zenon
<1> QED BY <1>7, <1>8

(* What Cache::free does to the slab of an object.                         *)
LEMMA FreeEffect ==
  ASSUME SInv, NEW x \in live, Small(x), Free(x),
         NEW o, o = SlotOrder(x.layout), NEW s, s = SlabOf(x.ptr)
  PROVE  /\ lists' = Move(lists, o, "full", "partial", s)
         /\ slab' = [slab EXCEPT ![s] = NewSlab(o)]
         /\ halted' = FALSE /\ live' = live \ {x} /\ pool' = pool
<1> DEFINE h == slab[s]
           len == SLOTS_LEN(o)
           idx == IdxOf(x.ptr, o)
<1>1. o \in Orders /\ s \in Nat /\ h = OneTaken(o) /\ x.ptr = PtrTo(s, 0, o)
      /\ s \in Range(lists[o]["full"]) /\ lists[o]["full"] \in Seq(Page)
  <2>1. o \in Orders /\ s \in Nat /\ h = OneTaken(o) /\ x.ptr = PtrTo(s, 0, o)
        /\ s \in SlabsIn(o, "full")
    BY SmallObject
  <2>2. lists[o]["full"] \in Seq(Page)
    BY <2>1 DEF SInv, Linked, ListsType, Lists
  <2> QED BY <2>1, <2>2 DEF SlabsIn
<1>2. len \in Nat /\ len >= 2 /\ 0 \in 0..(len - 1)
  BY <1>1, Slots
<1>3. idx = 0 /\ x.ptr % PAGE_SIZE \in BUF_START..(BUF_START + SLAB_BUF_SIZE - 1)
  BY <1>1, <1>2, PointerBack
<1>4. h.bitmap = 1..(len - 1) /\ h.free_cnt = len - 1
  BY <1>1 DEF OneTaken
<1>5. h.bitmap \cup {0} = 0..(len - 1) /\ h.free_cnt + 1 = len
      /\ h.free_cnt # 0 /\ h.free_cnt + 1 # 0 /\ 0 \notin h.bitmap
  BY <1>2, <1>4
<1>6. FillLevel(h.free_cnt, o) = "Full" /\ FillLevel(h.free_cnt + 1, o) # "Empty"
  BY <1>5 DEF FillLevel
<1>7. Contains(lists[o]["full"], s)
  BY <1>1 DEF Contains, Range
<1>8. NewSlab(o) = [bitmap |-> h.bitmap \cup {idx}, free_cnt |-> h.free_cnt + 1]
  BY <1>3, <1>5, ZenonT(30) DEF NewSlab
<1> HIDE DEF h, len, idx
<1>9. lists' = Move(lists, o, "full", "partial", s)
  BY <1>6, SMTT(30) DEF Free, h
<1>10. slab' = [slab EXCEPT ![s] = NewSlab(o)]
  BY <1>8, SMTT(30) DEF Free, h, idx
<1>11. live' = live \ {x} /\ pool' = pool
  BY DEF Free
<1>12. halted' = FALSE
  <2>1. halted' = \/ h.free_cnt = 0 \/ idx \in h.bitmap
                  \/ x.ptr % PAGE_SIZE \notin BUF_START..(BUF_START + SLAB_BUF_SIZE - 1)
                  \/ (FillLevel(h.free_cnt + 1, o) = "Empty" \/ FillLevel(h.free_cnt, o) = "Full")
                     /\ ~Contains(lists[o]["full"], s)
    BY Zenon, <1>6 DEF Free, h, idx
  <2>2. ~(\/ h.free_cnt = 0 \/ idx \in h.bitmap
          \/ x.ptr % PAGE_SIZE \notin BUF_START..(BUF_START + SLAB_BUF_SIZE - 1)
          \/ (FillLevel(h.free_cnt + 1, o) = "Empty" \/ FillLevel(h.free_cnt, o) = "Full")
             /\ ~Contains(lists[o]["full"], s))
    BY Zenon, <1>3, <1>5, <1>7
  <2> QED BY Zenon, <2>1, <2>2
<1> QED BY <1>9, <1>10, <1>11, <1>12, SMTT(30)

LEMMA DeallocateSmallSInv ==
  ASSUME SInv, NEW x \in live, DeallocateSmall(x)
  PROVE  SInv'
<1> DEFINE o == SlotOrder(x.layout)
           s == SlabOf(x.ptr)
<1>1. Small(x) /\ Free(x)
  BY DEF DeallocateSmall, Small
<1>2. o \in Orders /\ s \in SlabsIn(o, "full") /\ s \in DOMAIN slab /\ Held(x) = {s}
  BY <1>1, SmallObject DEF Held
<1>3. /\ lists' = Move(lists, o, "full", "partial", s)
      /\ slab' = [slab EXCEPT ![s] = NewSlab(o)]
      /\ halted' = FALSE /\ live' = live \ {x} /\ pool' = pool
  BY <1>1, FreeEffect, ZenonT(30)
<1>4. "full" \in Lists /\ "partial" \in Lists /\ "empty" \in Lists
      /\ Linked(lists, DOMAIN slab)
  BY DEF Lists, SInv
<1> HIDE DEF o, s
<1>5. Linked(lists', DOMAIN slab) /\ Moved(lists, lists', o, "full", "partial", s)
  BY <1>2, <1>3, <1>4, MoveLinked DEF SlabsIn
<1>6. ASSUME NEW p \in Orders
      PROVE  /\ SlabsIn(p, "empty")' = SlabsIn(p, "empty")
             /\ SlabsIn(p, "partial")' = SlabsIn(p, "partial") \cup (IF p = o THEN {s} ELSE {})
             /\ SlabsIn(p, "full")' = SlabsIn(p, "full") \ (IF p = o THEN {s} ELSE {})
  BY <1>4, <1>5, ZenonT(30) DEF SlabsIn, Moved
<1>7. /\ DOMAIN slab' = DOMAIN slab /\ slab'[s] = NewSlab(o)
      /\ \A t \in DOMAIN slab : t # s => slab'[t] = slab[t]
  BY <1>2, <1>3
<1>8. \A p \in Orders, name \in Lists :
        /\ SlabsIn(p, name) \subseteq DOMAIN slab
        /\ s \in SlabsIn(p, name) => p = o /\ name = "full"
  BY Zenon, <1>2, <1>4 DEF Linked, SlabsIn
<1>9. BaseInv'
  BY <1>3, <1>7, SMTT(30) DEF SInv, BaseInv
<1>10. Linked(lists, DOMAIN slab)'
  BY <1>5, <1>7 DEF Linked
<1>11. HeaderInv'
  <2> SUFFICES ASSUME NEW p \in Orders
               PROVE  /\ SlabsIn(p, "empty")' = {}
                      /\ \A t \in SlabsIn(p, "partial")' : slab'[t] = NewSlab(p)
                      /\ \A t \in SlabsIn(p, "full")' :
                           slab'[t] = OneTaken(p) /\ \E y \in live' : InSlab(y, t, p)
    BY DEF HeaderInv
  <2>1. SlabsIn(p, "empty")' = {}
    BY <1>6 DEF SInv, HeaderInv
  <2>2. ASSUME NEW t \in SlabsIn(p, "partial")' PROVE slab'[t] = NewSlab(p)
    <3>1. CASE t \in SlabsIn(p, "partial")
      <4>1. t \in DOMAIN slab /\ t # s /\ slab[t] = NewSlab(p)
        BY <1>4, <1>8, <3>1 DEF SInv, HeaderInv
      <4> QED BY <1>7, <4>1
    <3>2. CASE t \notin SlabsIn(p, "partial")
      <4>1. p = o /\ t = s
        BY <1>6, <2>2, <3>2, SMTT(30)
      <4> QED BY <1>7, <4>1
    <3> QED BY <3>1, <3>2
  <2>3. ASSUME NEW t \in SlabsIn(p, "full")'
        PROVE  slab'[t] = OneTaken(p) /\ \E y \in live' : InSlab(y, t, p)
    <3>1. t \in SlabsIn(p, "full") /\ t # s
      BY <1>4, <1>6, <1>8, <2>3, SMTT(30)
    <3>2. t \in DOMAIN slab /\ slab[t] = OneTaken(p)
      BY <1>4, <1>8, <3>1, SMTT(30) DEF SInv, HeaderInv
    <3>3. PICK y \in live : InSlab(y, t, p)
      BY <3>1 DEF SInv, HeaderInv
    <3>4. y # x
      BY <3>1, <3>3 DEF InSlab, s
    <3> QED BY <1>3, <1>7, <3>1, <3>2, <3>3, <3>4, SMTT(30)
  <2> QED BY <2>1, <2>2, <2>3
<1>12. \A y \in live' : y \in live /\ s \notin Held(y)
  BY <1>2, <1>3 DEF SInv, PageInv
<1>13. ObjectInv'
  <2> SUFFICES ASSUME NEW y \in live'
               PROVE  LET q == SlotOrder(y.layout)
                          t == SlabOf(y.ptr)
                      IN  /\ Small(y)  => t \in SlabsIn(q, "full")' /\ y.ptr = PtrTo(t, 0, q)
                          /\ ~Small(y) => y.ptr = t * PAGE_SIZE
                                          /\ PagesOf(y) \cap DOMAIN slab' = {}
    BY DEF ObjectInv
  <2>1. CASE Small(y)
    <3>1. /\ SlotOrder(y.layout) \in Orders
          /\ SlabOf(y.ptr) \in SlabsIn(SlotOrder(y.layout), "full")
          /\ y.ptr = PtrTo(SlabOf(y.ptr), 0, SlotOrder(y.layout))
      BY <1>12, <2>1, SmallObject, SMTT(30)
    <3>2. SlabOf(y.ptr) # s
      BY <1>12, <2>1, SMTT(30) DEF Held
    <3> QED BY <1>6, <2>1, <3>1, <3>2, SMTT(30)
  <2>2. CASE ~Small(y)
    BY <1>7, <1>12, <2>2, SMTT(30) DEF SInv, ObjectInv
  <2> QED BY <2>1, <2>2
<1>14. PageInv'
  <2>1. \A p \in Page : \/ p \in pool' \/ p \in DOMAIN slab'
                         \/ \E y \in live' : ~Small(y) /\ p \in PagesOf(y)
    BY <1>1, <1>3, <1>7 DEF SInv, PageInv
  <2> QED BY <1>3, <1>7, <1>12, <2>1, SMTT(30) DEF SInv, PageInv
<1> QED BY <1>9, <1>10, <1>11, <1>13, <1>14, SMTT(30) DEF SInv

(* Layout::pad_to_align, and what decides between the two allocators.      *)
LEMMA Sizes ==
  ASSUME NEW l \in Layouts
  PROVE  /\ Padded(l) \in Nat /\ MAX_SIZE \in Nat
         /\ l.size <= Padded(l) /\ l.align <= Padded(l)
<1>1. l.size \in Nat \ {0} /\ l.align \in Nat \ {0}
  BY LayoutAssumption
<1>2. MAX_ORDER \in Orders
  BY SlotsAssumption DEF Orders
<1>3. MAX_SIZE \in Nat
  BY <1>2, PowerAssumption DEF MAX_SIZE
<1> QED BY <1>1, <1>3, NextMul DEF Padded

(* What the page allocator gives out is a run of pages of its own.         *)
LEMMA AllocateLargeSInv ==
  ASSUME SInv, NEW l \in Layouts, AllocateLarge(l)
  PROVE  SInv'
<1>1. PICK p \in pool :
        /\ Run(p, l) \subseteq pool /\ pool' = pool \ Run(p, l)
        /\ live' = live \cup {Object(l, p * PAGE_SIZE)}
  BY DEF AllocateLarge
<1>2. ~(Padded(l) <= MAX_SIZE)
  <2>1. Padded(l) \in Nat /\ MAX_SIZE \in Nat
    BY Sizes
  <2> QED BY <2>1 DEF AllocateLarge
<1>3. p \in Nat /\ PAGE_SIZE \in Nat \ {0}
  <2>1. MIN_ORDER \in Orders
    BY SlotsAssumption DEF Orders
  <2> QED BY <2>1, Slots, SlotsAssumption, SMTT(30) DEF SInv, BaseInv
<1> DEFINE z == Object(l, p * PAGE_SIZE)
<1>4. /\ z \in [layout : Layouts, ptr : Nat] /\ z.layout = l /\ z.ptr = p * PAGE_SIZE
      /\ SlabOf(z.ptr) = p
  BY <1>3 DEF Object, SlabOf
<1>5. ~Small(z) /\ Held(z) = Run(p, l) /\ PagesOf(z) = Run(p, l)
  BY <1>2, <1>4 DEF Small, Held, PagesOf
<1> HIDE DEF z
<1>6. /\ live' = live \cup {z} /\ pool' = pool \ Held(z) /\ Held(z) \subseteq pool
      /\ UNCHANGED <<lists, slab, halted>>
  BY <1>1, <1>5 DEF AllocateLarge, z
<1>7. BaseInv' /\ Linked(lists, DOMAIN slab)'
  BY <1>4, <1>6, ZenonT(30) DEF SInv, BaseInv, Linked
<1>8. HeaderInv'
  BY <1>6 DEF SInv, HeaderInv, SlabsIn
<1>9. ObjectInv'
  <2>1. PagesOf(z) \cap DOMAIN slab = {}
    BY <1>5, <1>6, SMTT(30) DEF SInv, PageInv
  <2> QED BY <1>4, <1>5, <1>6, <2>1, SMTT(30) DEF SInv, ObjectInv, SlabsIn
<1>10. PageInv'
  <2>1. \A x \in live : Held(x) \cap Held(z) = {}
    BY <1>6 DEF SInv, PageInv
  <2>2. \A x \in live' : Held(x) \subseteq Page /\ Held(x) \cap pool' = {}
    BY <1>6, SMTT(30) DEF SInv, BaseInv, PageInv
  <2>3. \A x, y \in live' : x # y => Held(x) \cap Held(y) = {}
    BY <1>6, <2>1, SMTT(30) DEF SInv, PageInv
  <2>4. \A q \in Page : \/ q \in pool' \/ q \in DOMAIN slab'
                         \/ \E x \in live' : ~Small(x) /\ q \in PagesOf(x)
    BY <1>5, <1>6 DEF SInv, PageInv, Held
  <2> QED BY <1>6, <2>2, <2>3, <2>4, SMTT(30) DEF SInv, PageInv
<1> QED BY <1>7, <1>8, <1>9, <1>10, SMTT(30) DEF SInv

LEMMA DeallocateLargeSInv ==
  ASSUME SInv, NEW x \in live, DeallocateLarge(x)
  PROVE  SInv'
<1>1. ~Small(x)
  <2>1. x.layout \in Layouts
    BY DEF SInv, BaseInv
  <2>2. Padded(x.layout) \in Nat /\ MAX_SIZE \in Nat
    BY <2>1, Sizes, SMTT(30)
  <2> QED BY <2>2 DEF DeallocateLarge, Small
<1>2. Held(x) = PagesOf(x) /\ PagesOf(x) \cap DOMAIN slab = {} /\ Held(x) \subseteq Page
  BY <1>1 DEF Held, SInv, ObjectInv, PageInv
<1>3. /\ live' = live \ {x} /\ pool' = pool \cup Held(x)
      /\ UNCHANGED <<lists, slab, halted>>
  BY <1>2 DEF DeallocateLarge
<1>4. BaseInv' /\ Linked(lists, DOMAIN slab)'
  BY <1>2, <1>3, SMTT(30) DEF SInv, BaseInv, Linked
<1>5. HeaderInv'
  <2>1. ASSUME NEW p \in Orders, NEW t \in SlabsIn(p, "full")
        PROVE  \E y \in live' : InSlab(y, t, p)
    <3>1. PICK y \in live : InSlab(y, t, p)
      BY SMTT(30) DEF SInv, HeaderInv
    <3> QED BY <1>1, <1>3, <3>1, SMTT(30) DEF InSlab
  <2> QED BY <1>3, <2>1, SMTT(30) DEF SInv, HeaderInv, SlabsIn
<1>6. ObjectInv'
  BY <1>3, SMTT(30) DEF SInv, ObjectInv, SlabsIn
<1>7. PageInv'
  <2>1. \A y \in live' : Held(y) \subseteq Page /\ Held(y) \cap pool' = {}
    BY <1>3, SMTT(30) DEF SInv, PageInv
  <2>2. \A q \in Page : \/ q \in pool' \/ q \in DOMAIN slab'
                         \/ \E y \in live' : ~Small(y) /\ q \in PagesOf(y)
    BY <1>2, <1>3, SMTT(30) DEF SInv, PageInv
  <2> QED BY <1>2, <1>3, <2>1, <2>2, SMTT(30) DEF SInv, PageInv
<1> QED BY <1>4, <1>5, <1>6, <1>7, SMTT(30) DEF SInv

LEMMA NextSInv == SInv /\ [Next]_vars => SInv'
<1> SUFFICES ASSUME SInv, [Next]_vars PROVE SInv'
  OBVIOUS
<1>1. CASE UNCHANGED vars
  <2> USE <1>1 DEF vars, SlabsIn
  <2>1. BaseInv' /\ Linked(lists, DOMAIN slab)'
    BY SMTT(30) DEF SInv, BaseInv, Linked
  <2>2. HeaderInv' /\ ObjectInv'
    BY SMTT(30) DEF SInv, HeaderInv, ObjectInv
  <2>3. PageInv'
    BY DEF SInv, PageInv
  <2> QED BY <2>1, <2>2, <2>3, SMTT(30) DEF SInv
<1>2. CASE Next
  BY <1>2, AllocateSmallSInv, AllocateLargeSInv, DeallocateSmallSInv, DeallocateLargeSInv, SMTT(30)
     DEF Next
<1> QED BY <1>1, <1>2, SMTT(30)

(* The inductive invariant holds in every state of every execution: every  *)
(* slab holds at most one object, whatever the sizes asked for.            *)
THEOREM OneObjectPerSlab == Spec => []SInv
BY InitSInv, NextSInv, PTL DEF Spec

(* No assertion of the allocator fails, no index leaves its slice, and no  *)
(* slab is unlinked from a list it is not in.                              *)
THEOREM SlabPanicFree == Spec => []NoPanic
<1>1. SInv => NoPanic
  BY DEF SInv, BaseInv, NoPanic
<1> QED BY <1>1, OneObjectPerSlab, PTL
=============================================================================
