-------------------------------- MODULE Slab --------------------------------
(***************************************************************************)
(* The global allocator (src/mem/alloc.rs): layouts up to MAX_SIZE go to   *)
(* the slab allocator (src/mem/alloc/slab.rs), larger ones to the page     *)
(* allocator (src/mem/alloc/page.rs), which takes its pages from the       *)
(* physical memory manager.                                                *)
(*                                                                         *)
(* Each order of slot has a cache: three lists of slabs behind a lock that *)
(* is held for a whole call, so a call is one step.  A slab is a page with *)
(* a header, a bitmap of the free slots and a count of them.  A pointer is *)
(* an address: page * PAGE_SIZE + offset.  Layouts of size zero change no  *)
(* state and are left out, and so are allocations that fail for want of a  *)
(* page.                                                                   *)
(***************************************************************************)
EXTENDS Integers, Sequences, FiniteSets, SequencesExt

CONSTANTS
  MIN_ORDER, MAX_ORDER,  \* the orders of the slots
  PAGE_SIZE,             \* the size and the alignment of SLAB_PAGE
  BUF_START,             \* offset_of!(UntypedSlab, buf)
  SLAB_BUF_SIZE,
  Page,                  \* the pages the page allocator manages
  Layouts                \* the layouts callers ask for

Orders   == MIN_ORDER..MAX_ORDER
MAX_SIZE == 2^MAX_ORDER

NextMultiple(n, k) == ((n + k - 1) \div k) * k

(* Slab<[u8; 2^o]>: where its slots begin in buf, and how many there are.  *)
SLOT_SIZE(o)   == 2^o

SlotsStartUnaligned(o) == 0                                   \* mutant

SLOTS_START(o) == NextMultiple(BUF_START, SLOT_SIZE(o)) - BUF_START
SLOTS_LEN(o)   == (SLAB_BUF_SIZE - SLOTS_START(o)) \div SLOT_SIZE(o)

ASSUME SlotsAssumption ==
  /\ MIN_ORDER \in Nat /\ MAX_ORDER \in Nat /\ MIN_ORDER <= MAX_ORDER
  /\ PAGE_SIZE \in Nat /\ BUF_START \in Nat /\ SLAB_BUF_SIZE \in Nat
  /\ BUF_START + SLAB_BUF_SIZE <= PAGE_SIZE
  /\ \A o \in Orders : SLOTS_LEN(o) >= 2
  /\ Page \subseteq Nat

(* Layout::pad_to_align().size(), and the order of the slot for a layout.  *)
Padded(l) == NextMultiple(l.size, l.align)

SlotOrder(l) == Min({k \in Orders : 2^k >= NextMultiple(Padded(l), 2^MIN_ORDER)})

PageCount(l) == NextMultiple(l.size, PAGE_SIZE) \div PAGE_SIZE

(* A layout has a size and an alignment; PageAllocator::allocate asserts   *)
(* that a page is aligned for it.                                          *)
ASSUME LayoutAssumption ==
  \A l \in Layouts : /\ l.size \in Nat \ {0} /\ l.align \in Nat \ {0}
                     /\ PAGE_SIZE % l.align = 0

(* What is used of powers of two; an alignment is one.                     *)
ASSUME PowerAssumption ==
  /\ \A k \in Orders : 2^k \in Nat \ {0}
  /\ \A k \in Orders, l \in Layouts : l.align <= 2^k => (2^k) % l.align = 0
  /\ (2^MAX_ORDER) % (2^MIN_ORDER) = 0
  /\ \A l \in Layouts : \A k \in 0..PageCount(l) : 2^k \in Nat /\ 2^k > k

VARIABLES
  lists,    \* per order: empty_slabs, partial_slabs and full_slabs
  slab,     \* the header of each page that is a slab: bitmap and free_cnt
  live,     \* the objects callers hold
  pool,     \* the pages the page allocator has left
  halted    \* an assertion has failed, or a list was left inconsistent

vars == <<lists, slab, live, pool, halted>>

NewSlab(o) == [bitmap |-> 0..(SLOTS_LEN(o) - 1), free_cnt |-> SLOTS_LEN(o)]

Lists == {"empty", "partial", "full"}

Init ==
  /\ lists = [o \in Orders |-> [name \in Lists |-> << >>]]
  /\ slab = << >> /\ live = {} /\ pool = Page /\ halted = FALSE

FillLevelNamed(cnt, o) ==                                     \* mutant
  IF cnt = 0 THEN "Empty" ELSE IF cnt = SLOTS_LEN(o) THEN "Full" ELSE "Partial"

(* fill_level: its second pattern is a new name, not the constant, and     *)
(* matches every count but 0.                                              *)
FillLevel(cnt, o) == IF cnt = 0 THEN "Empty" ELSE "Full"

(* The address of a slot, and back: Slab::from_elem_ptr and offset_from.   *)
PtrTo(s, idx, o) == s * PAGE_SIZE + BUF_START + SLOTS_START(o) + idx * SLOT_SIZE(o)
SlabOf(ptr)      == ptr \div PAGE_SIZE
IdxOf(ptr, o)    ==
  ((ptr % PAGE_SIZE) - BUF_START - SLOTS_START(o)) \div SLOT_SIZE(o)

Object(l, ptr) == [layout |-> l, ptr |-> ptr]

(* Take a slab out of one list and push it to the front of another.        *)
Move(ls, o, from, to, s) ==
  [ls EXCEPT ![o][from] = RemoveFirst(@, s),
             ![o][to]   = <<s>> \o @]

(* The headers once the one of s has been written.                         *)
Written(s, h) == [t \in DOMAIN slab \cup {s} |-> IF t = s THEN h ELSE slab[t]]

(***************************************************************************)
(* Cache::reserve, once its cursor is at slab s in the list `from` of ls;  *)
(* h is the header of s.                                                   *)
(***************************************************************************)
ReserveAt(l, o, ls, from, s, h) ==
  LET idx       == Min(h.bitmap)
      cnt       == IF h.free_cnt = 0 THEN 0 ELSE h.free_cnt - 1
      was_empty == FillLevel(h.free_cnt, o) = "Empty"
      is_full   == FillLevel(cnt, o) = "Full"
  IN  /\ lists' = IF ~was_empty /\ ~is_full THEN ls
                  ELSE Move(ls, o, from, IF is_full THEN "full" ELSE "partial", s)
      /\ IF h.free_cnt = 0
         THEN slab' = Written(s, h) /\ UNCHANGED <<live, halted>>
         ELSE /\ slab' = Written(s, [bitmap |-> h.bitmap \ {idx}, free_cnt |-> cnt])
              /\ halted' = (idx >= SLOT_SIZE(o))     \* slots_mut()[idx]
              /\ live' = IF halted' THEN live
                         ELSE live \cup {Object(l, PtrTo(s, idx, o))}

(* The cursor: the front of partial_slabs, else of empty_slabs, else a new *)
(* slab that is linked into empty_slabs.                                   *)
Reserve(l) ==
  LET o    == SlotOrder(l)
      from == IF lists[o].partial # << >> THEN "partial" ELSE "empty"
      list == lists[o][from]
  IN  \/ /\ list # << >>
         /\ ReserveAt(l, o, lists, from, Head(list), slab[Head(list)])
         /\ UNCHANGED pool
      \/ /\ list = << >>
         /\ \E p \in pool :
              /\ pool' = pool \ {p}
              /\ ReserveAt(l, o, [lists EXCEPT ![o].empty = <<p>>], "empty", p, NewSlab(o))

AllocateSmall(l) == Padded(l) <= MAX_SIZE /\ Reserve(l)

FreeLinkedTwice(x) ==                                         \* mutant
  LET o == SlotOrder(x.layout)
      s == SlabOf(x.ptr)
  IN  /\ slab' = [slab EXCEPT ![s].bitmap = @ \cup {IdxOf(x.ptr, o)},
                              ![s].free_cnt = @ + 1]
      /\ live' = live \ {x}
      /\ lists' = [lists EXCEPT ![o].partial = <<s>> \o @]
      /\ UNCHANGED <<pool, halted>>

FreeCountsDown(x) ==                                          \* mutant
  LET o == SlotOrder(x.layout)
      s == SlabOf(x.ptr)
  IN  /\ slab' = [slab EXCEPT ![s].bitmap = @ \cup {IdxOf(x.ptr, o)},
                              ![s].free_cnt = @ - 1]
      /\ live' = live \ {x}
      /\ lists' = Move(lists, o, "full", "partial", s)
      /\ UNCHANGED <<pool, halted>>

(* Cache::free, with the assertions of Slab::free.                         *)
Free(x) ==
  LET o        == SlotOrder(x.layout)
      s        == SlabOf(x.ptr)
      h        == slab[s]
      idx      == IdxOf(x.ptr, o)
      was_full == FillLevel(h.free_cnt, o) = "Full"
      is_empty == FillLevel(h.free_cnt + 1, o) = "Empty"
      from     == IF was_full THEN "full" ELSE "partial"
  IN  /\ live' = live \ {x}
      /\ slab' = [slab EXCEPT ![s] = [bitmap   |-> h.bitmap \cup {idx},
                                      free_cnt |-> h.free_cnt + 1]]
      /\ lists' = IF ~is_empty /\ ~was_full THEN lists
                  ELSE Move(lists, o, from, IF is_empty THEN "empty" ELSE "partial", s)
      /\ halted' = \/ h.free_cnt = 0 \/ idx \in h.bitmap
                   \/ x.ptr % PAGE_SIZE \notin BUF_START..(BUF_START + SLAB_BUF_SIZE - 1)
                   \/ (is_empty \/ was_full) /\ ~Contains(lists[o][from], s)
      /\ UNCHANGED pool

DeallocateSmall(x) == Padded(x.layout) <= MAX_SIZE /\ Free(x)

(***************************************************************************)
(* The page allocator.  The physical memory manager is modelled by what it *)
(* promises (PageAllocator): a run of free pages, their number rounded up  *)
(* to a power of two; the whole run comes back, whatever the layout.       *)
(***************************************************************************)
RunLength(l) == Min({n \in {2^k : k \in 0..PageCount(l)} : n >= PageCount(l)})

Run(p, l)  == p..(p + RunLength(l) - 1)
PagesOf(x) == Run(SlabOf(x.ptr), x.layout)

AllocateLarge(l) ==
  /\ Padded(l) > MAX_SIZE
  /\ \E p \in pool :
       /\ Run(p, l) \subseteq pool
       /\ pool' = pool \ Run(p, l)
       /\ live' = live \cup {Object(l, p * PAGE_SIZE)}
  /\ UNCHANGED <<lists, slab, halted>>

DeallocateFirstPage(x) ==                                     \* mutant
  /\ Padded(x.layout) > MAX_SIZE
  /\ live' = live \ {x} /\ pool' = pool \cup {SlabOf(x.ptr)}
  /\ UNCHANGED <<lists, slab, halted>>

DeallocateLarge(x) ==
  /\ Padded(x.layout) > MAX_SIZE
  /\ live' = live \ {x} /\ pool' = pool \cup PagesOf(x)
  /\ UNCHANGED <<lists, slab, halted>>

Next ==
  /\ ~halted
  /\ \/ \E l \in Layouts : AllocateSmall(l) \/ AllocateLarge(l)
     \/ \E x \in live : DeallocateSmall(x) \/ DeallocateLarge(x)

Spec == Init /\ [][Next]_vars
-----------------------------------------------------------------------------
(***************************************************************************)
(* Correctness.                                                            *)
(***************************************************************************)
SlabsIn(o, name) == Range(lists[o][name])
SlabsOf(o) == UNION {SlabsIn(o, name) : name \in Lists}

(* Every variable has its type.                                            *)
TypeOK ==
  /\ \A o \in Orders : \A name \in Lists : lists[o][name] \in Seq(DOMAIN slab)
  /\ DOMAIN slab \subseteq Page
  /\ \A s \in DOMAIN slab : slab[s].bitmap \subseteq Nat /\ slab[s].free_cnt \in Nat
  /\ live \subseteq [layout : Layouts, ptr : Nat]
  /\ pool \subseteq Page /\ halted \in BOOLEAN

(* No assertion fails, no index is out of range, and no slab is unlinked   *)
(* from a list it is not in.                                               *)
NoPanic == ~halted

Bytes(x) == x.ptr..(x.ptr + x.layout.size - 1)

(* No byte belongs to two objects, or to an object and the header of a     *)
(* slab, and every object is aligned as its layout asks.                   *)
Apart ==
  \A x \in live :
    /\ x.ptr % x.layout.align = 0
    /\ \A y \in live : x # y => Bytes(x) \cap Bytes(y) = {}
    /\ \A s \in DOMAIN slab :
         Bytes(x) \cap (s * PAGE_SIZE)..(s * PAGE_SIZE + BUF_START - 1) = {}

(* The bitmap and the count of a slab agree with each other and with what  *)
(* callers hold of it.                                                     *)
Accounted ==
  /\ TypeOK
  /\ \A o \in Orders : \A s \in SlabsOf(o) :
       /\ slab[s].free_cnt = Cardinality(slab[s].bitmap)
       /\ slab[s].bitmap =
            {i \in 0..(SLOTS_LEN(o) - 1) : \A x \in live : x.ptr # PtrTo(s, i, o)}

(* What the safety comment of Cache::free relies on: a slab is in exactly  *)
(* one list, and one that holds an object is in the list that free will    *)
(* take it from.                                                           *)
InItsList ==
  /\ \A s \in DOMAIN slab : \E o \in Orders, name \in Lists :
       \E i \in DOMAIN lists[o][name] :
         /\ lists[o][name][i] = s
         /\ \A p \in Orders, other \in Lists : \A j \in DOMAIN lists[p][other] :
              lists[p][other][j] = s => <<p, other, j>> = <<o, name, i>>
  /\ \A x \in live : Padded(x.layout) <= MAX_SIZE =>
       LET o == SlotOrder(x.layout)
           s == SlabOf(x.ptr)
       IN  s \in SlabsIn(o, IF FillLevel(slab[s].free_cnt, o) = "Full"
                            THEN "full" ELSE "partial")

(* A page is a slab, part of an object of its own, or left in the pool.    *)
PagesAccounted ==
  LET large == UNION {PagesOf(x) : x \in {y \in live : Padded(y.layout) > MAX_SIZE}}
  IN  /\ Page = pool \cup DOMAIN slab \cup large
      /\ pool \cap DOMAIN slab = {} /\ pool \cap large = {}
      /\ large \cap DOMAIN slab = {}

(* What the comment in Cache::reserve says: it finds a slab that is not    *)
(* full, and makes a new one only when there is none.                      *)
FindsNonFull ==
  [][\A s \in DOMAIN slab' \ DOMAIN slab : \A o \in Orders :
       s \in SlabsOf(o)' => \A t \in SlabsOf(o) : slab[t].free_cnt = 0]_vars
=============================================================================
