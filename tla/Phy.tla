-------------------------------- MODULE Phy --------------------------------
(***************************************************************************)
(* The physical memory manager (src/mem/phy.rs): PhysicalMemoryRecord puts *)
(* an array of frames beside the buddy system and turns page counts and    *)
(* layouts into orders.  A frame remembers the order of the block that     *)
(* starts at it; deallocate_pages relies on nothing else, whatever length  *)
(* its caller names.                                                       *)
(*                                                                         *)
(* The lock of PMM is held for a whole call, so a call begins only when    *)
(* the one before has returned (pc = "idle") and the steps of Buddy in     *)
(* between belong to it.                                                   *)
(***************************************************************************)
EXTENDS Buddy, FiniteSetsExt

CONSTANTS
  VARIANTS,   \* PageSize::VARIANTS: the orders of the page sizes, ascending
  Bases,      \* where the frames may begin, as a page number
  MaxCnt,     \* bound: the most pages a caller asks for at a time
  Layouts,    \* bound: the sizes of the layouts callers ask for
  None

ASSUME VariantsAssumption ==
  /\ VARIANTS \in Seq(Nat) /\ VARIANTS # << >>
  /\ \A i, j \in DOMAIN VARIANTS : i < j => VARIANTS[i] < VARIANTS[j]

ASSUME BasesAssumption == Bases \subseteq Nat /\ None \notin Nat

ASSUME AskedAssumption == MaxCnt \in Nat \ {0} /\ Layouts \subseteq Nat

FRAME_ORDER == VARIANTS[1]

VARIABLES
  base,    \* PhysicalMemoryRecord.base, as a page number
  frames,  \* the order kept at each frame; None where it was never written
  req,     \* the request allocate_pages is serving
  held,    \* the page ranges the callers hold
  halted   \* an assertion of PhysicalMemoryRecord has failed

phyVars == <<base, frames, req, held, halted>>

(* The size of a page, in frames.                                          *)
FramesPer(size) == 2^(size - FRAME_ORDER)

OrderForFloor(n) == Max({k \in 0..n : 2^k <= n})              \* mutant

(* usize::next_power_of_two and ilog2: the order of a block of n frames.   *)
OrderFor(n) == Min({k \in 0..n : 2^k >= n})

(* How the shifts of page orders and block orders compose, and that every  *)
(* number a caller asks for is below the power of two that it names.       *)
Exponent == 0..(max_order + VARIANTS[Len(VARIANTS)])

ASSUME PowersAssumption ==
  /\ \A j \in Exponent : 2^j \in Nat \ {0}
  /\ \A j, k \in Exponent : j + k \in Exponent => 2^(j + k) = 2^j * 2^k
  /\ \A n \in Layouts : 2^n \in Nat /\ n < 2^n
  /\ \A cnt \in 1..MaxCnt, i \in DOMAIN VARIANTS :
       LET n == cnt * FramesPer(VARIANTS[i]) IN 2^n \in Nat /\ n < 2^n

(* usize::BITS - leading_zeros.                                            *)
BitLen(n) == Min({k \in 0..n : n < 2^k})

(* PageSize::fit: the first size whose order is at least the bit length.   *)
Fit(bytes) ==
  LET fits == {i \in DOMAIN VARIANTS : BitLen(bytes) <= VARIANTS[i]}
  IN  IF fits = {} THEN None ELSE VARIANTS[Min(fits)]

PhyInit ==
  /\ Init
  /\ base \in Bases
  /\ frames = [p \in 0..(PageCnt - 1) |-> None]
  /\ req = None /\ held = {} /\ halted = FALSE

(***************************************************************************)
(* allocate_pages.                                                         *)
(***************************************************************************)
Request(cnt, size, bytes) ==
  [cnt |-> cnt, size |-> size, bytes |-> bytes,
   order |-> OrderFor(cnt * FramesPer(size))]

(* Up to the call of reserve; an order beyond the roots is refused first.  *)
Start(r) ==
  /\ r.order \in Order
  /\ Reserve(r.order)
  /\ req' = r
  /\ UNCHANGED <<base, frames, held, halted>>

AllocatePages(cnt, size) == Start(Request(cnt, size, 0))

(* allocate: one page that holds the layout.                               *)
Allocate(bytes) == Fit(bytes) # None /\ Start(Request(1, Fit(bytes), bytes))

FrameIdxUnshifted == blk[2]                                   \* mutant

(* The frame index that reserve returned.                                  *)
FrameIdx == blk[2] * 2^blk[1]

(* PageAddr::new asserts that the first byte is aligned to the page size.  *)
Misaligned == (base + FrameIdx) % FramesPer(req.size) # 0

Granted ==
  [idx |-> FrameIdx, size |-> req.size, cnt |-> req.cnt, bytes |-> req.bytes,
   len |-> 2^req.order \div FramesPer(req.size)]

AllocatedNoOrder ==                                           \* mutant
  /\ pc = "done" /\ op = "reserve" /\ ~Misaligned
  /\ Return /\ held' = held \cup {Granted}
  /\ req' = None /\ UNCHANGED <<base, frames, halted>>

(* From the return of reserve to the return of allocate_pages.             *)
Allocated ==
  /\ pc = "done" /\ op = "reserve"
  /\ frames' = [frames EXCEPT ![FrameIdx] = req.order]
  /\ IF Misaligned
     THEN halted' = TRUE /\ UNCHANGED <<vars, held, req>>
     ELSE Return /\ held' = held \cup {Granted} /\ req' = None /\ UNCHANGED halted
  /\ UNCHANGED base

AllocFailed ==
  /\ pc = "failed"
  /\ Return /\ req' = None /\ UNCHANGED <<base, frames, held, halted>>

(***************************************************************************)
(* deallocate_pages: the block of the order kept at the first frame.       *)
(***************************************************************************)
BlockAt(idx) == <<frames[idx], idx \div 2^frames[idx]>>

(* Nothing checks that the frame was ever written: a frame that was not    *)
(* holds any order.                                                        *)
DeallocatePages(r) ==
  /\ \E o \in Order : frames[r.idx] \in {None, o} /\ FreeNode(<<o, r.idx \div 2^o>>)
  /\ held' = held \ {r}
  /\ UNCHANGED <<base, frames, req, halted>>

Deallocated ==
  /\ pc = "done" /\ op = "free"
  /\ Return
  /\ frames' = [frames EXCEPT ![FrameIdx] = 0]
  /\ UNCHANGED <<base, req, held, halted>>

(* The loop over the boot blocks, and the inner steps of the buddy system. *)
BootStep ==
  /\ FreeForced \/ (pc = "done" /\ op = "free_forced" /\ Return)
  /\ UNCHANGED phyVars

BuddyStep ==
  /\ Rewind \/ Descend \/ Take \/ FixupUp \/ FixupStop
  /\ UNCHANGED phyVars

PhyStep ==
  \/ \E cnt \in 1..MaxCnt, i \in DOMAIN VARIANTS : AllocatePages(cnt, VARIANTS[i])
  \/ \E bytes \in Layouts : Allocate(bytes)
  \/ \E r \in held : DeallocatePages(r)
  \/ Allocated \/ AllocFailed \/ Deallocated
  \/ BootStep \/ BuddyStep

PhyNext == ~halted /\ PhyStep

PhySpec == PhyInit /\ [][PhyNext]_<<vars, phyVars>>
-----------------------------------------------------------------------------
(***************************************************************************)
(* Correctness.                                                            *)
(***************************************************************************)
Size == {VARIANTS[i] : i \in DOMAIN VARIANTS}
Frames(r) == r.idx..(r.idx + r.len * FramesPer(r.size) - 1)

(* Every variable has its type; a range has at least one page.             *)
PhyTypeOK ==
  /\ base \in Bases
  /\ frames \in [0..(PageCnt - 1) -> Order \cup {None}]
  /\ req \in [cnt : 1..MaxCnt, size : Size, bytes : Layouts \cup {0}, order : Order]
               \cup {None}
  /\ held \subseteq [idx : 0..(PageCnt - 1), size : Size, cnt : 1..MaxCnt,
                     bytes : Layouts \cup {0}, len : 1..PageCnt]
  /\ halted \in BOOLEAN

(* Unless the boot tore a block, deallocate_pages gives back what          *)
(* allocate_pages got: between calls the order kept at the first frame of  *)
(* a range that is held was written and names a block the buddy system has *)
(* out, and no block is out that no caller holds.                          *)
FreeMatches ==
  Untorn /\ pc = "idle" =>
    /\ \A r \in held : frames[r.idx] # None
    /\ {BlockAt(r.idx) : r \in held} = alloc

(* A range has as many pages as were asked for, they hold the layout, and  *)
(* the first is aligned to its size in physical memory.                    *)
BigEnough ==
  \A r \in held :
    /\ r.len >= r.cnt
    /\ r.bytes <= 2^r.size
    /\ (base + r.idx) % FramesPer(r.size) = 0

(* The assertion of PageAddr::new can fail only when the frames begin at   *)
(* an address that is not aligned to the largest page size: the alignment  *)
(* of a block inside the buddy system is never at fault.                   *)
PanicOnlyMisaligned ==
  halted => base % FramesPer(VARIANTS[Len(VARIANTS)]) # 0

(* A range fits its request and lies on page boundaries, or it is refused  *)
(* because of where the frames begin, unless the boot tore a block.        *)
RangesFit == Untorn => PhyTypeOK /\ BigEnough /\ PanicOnlyMisaligned

(* deallocate_pages has no other guard than the frame it reads, and still  *)
(* keeps the promise that BuddySystem::free asks of its caller: whatever   *)
(* the physical memory manager does is a step of the buddy system, which   *)
(* frees only blocks that are out.                                         *)
FreesOnlyOut == [][Untorn => Next]_vars

(* To its callers the physical memory manager is a page allocator: a range *)
(* becomes theirs when allocate_pages returns and stops being theirs when  *)
(* they call deallocate_pages.  Of a torn boot nothing is said.            *)
HeldOut == IF Untorn THEN {Frames(r) : r \in held} ELSE {}

Callers == INSTANCE PageAllocator WITH
             Block <- {Pages(n) : n \in Node},
             free  <- marked \ UNION HeldOut,
             out   <- HeldOut

PhyIsPageAllocator == Callers!Spec

(***************************************************************************)
(* The inductive invariant behind FreeMatches.  Between the return of      *)
(* reserve and the return of allocate_pages the block is out and nobody    *)
(* holds it yet; during free nobody holds it any more.                     *)
(***************************************************************************)
First(n) == n[2] * 2^n[1]

Returning(o) == pc \in {"fixup", "done"} /\ op = o

PInv ==
  /\ frames \in [0..(PageCnt - 1) -> Order \cup {None}]
  /\ pc = "search" => op = "reserve"
  /\ pc = "search" \/ Returning("reserve") => order = req.order
  /\ Returning("reserve") => blk \in alloc /\ blk[1] = order
  /\ {BlockAt(r.idx) : r \in held} =
       IF Returning("reserve") THEN alloc \ {blk} ELSE alloc
  /\ \A r \in held : /\ r.idx \in 0..(PageCnt - 1) /\ frames[r.idx] \in Order
                      /\ r.idx = First(BlockAt(r.idx))
  /\ \A r, s \in held : r.idx = s.idx => r = s
  /\ Returning("free") => \A r \in held : r.idx # First(blk)

(* The inductive invariant behind RangesFit: the request being served was  *)
(* turned into the order of a block that covers it, and a range is exactly *)
(* the block whose order is kept at its first frame.                       *)
Asked ==
  {r \in [cnt : 1..MaxCnt, size : Size, bytes : Layouts \cup {0}, order : Order] :
     /\ r.order = OrderFor(r.cnt * FramesPer(r.size))
     /\ r.bytes <= 2^r.size}

RInv ==
  /\ base \in Bases /\ halted \in BOOLEAN
  /\ req \in Asked \cup {None}
  /\ pc = "search" \/ Returning("reserve") => req \in Asked
  /\ held \subseteq [idx : 0..(PageCnt - 1), size : Size, cnt : 1..MaxCnt,
                     bytes : Layouts \cup {0}, len : 1..PageCnt]
  /\ \A r \in held : r.len * FramesPer(r.size) = 2^frames[r.idx]
  /\ BigEnough /\ PanicOnlyMisaligned

(* What the documentation of allocate says: the page returned is the       *)
(* smallest that fits the layout.                                          *)
SmallestPage ==
  \A r \in held : r.bytes # 0 =>
    \A s \in Size : r.bytes <= 2^s => r.size <= s
=============================================================================
