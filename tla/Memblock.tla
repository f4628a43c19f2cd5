------------------------------ MODULE Memblock ------------------------------
(***************************************************************************)
(* The boot memory manager (src/mem/phy/memblock.rs) from the memory map   *)
(* of the boot loader to the blocks it hands over to the buddy system in   *)
(* PhysicalMemoryRecord::new (src/mem/phy.rs).                             *)
(*                                                                         *)
(* The boot is sequential.  pc says where it is: reading the memory map    *)
(* ("init"), between two calls of reserve ("ready"), inside one            *)
(* ("reserve"), in the loop that feeds the buddy system ("handover").  A   *)
(* block is a record of its base and size in bytes; the type of a block is *)
(* the list it is in, since areas that are not available are skipped.      *)
(***************************************************************************)
EXTENDS Integers, Sequences, FiniteSets, SequencesExt

CONSTANTS
  FRAME_ORDER,      \* log2 of the size of a frame
  BUDDY_MAX_ORDER,  \* largest order of a block of the buddy system
  MEMBLOCKS_LEN,    \* capacity of a list of blocks
  KernelEnd,        \* kernel_end_lma()
  AddrEnd,          \* UMASpace::RANGE.end
  BITS,             \* usize::BITS
  Maps,             \* the memory maps: sequences of areas
  Layouts,          \* the layouts callers ask for
  MaxReserves,      \* bound: how many of them before the boot ends
  None

FRAME_SIZE == 2^FRAME_ORDER

AlignCeil(x, a)  == ((x + a - 1) \div a) * a
AlignFloor(x, a) == (x \div a) * a

(* usize::trailing_zeros and the position of the highest bit set.          *)
TrailingZeros(n) ==
  IF n = 0 THEN BITS
  ELSE CHOOSE k \in 0..(BITS - 1) : n % 2^k = 0 /\ n % 2^(k + 1) # 0

HighestBit(n) == CHOOSE k \in 0..(BITS - 1) : 2^k <= n /\ n < 2^(k + 1)

(***************************************************************************)
(* Memblocks: a sorted array of blocks.                                    *)
(***************************************************************************)
Blk(base, size) == [base |-> base, size |-> size]

(* binary_search on the sorted array: found, or where to insert.           *)
Found(blocks, b) == \E i \in DOMAIN blocks : blocks[i].base = b.base
Pivot(blocks, b) == Cardinality({i \in DOMAIN blocks : blocks[i].base < b.base}) + 1

JoinsPrev(blocks, b) ==
  LET p == Pivot(blocks, b) - 1
  IN  p >= 1 /\ b.base - blocks[p].base = blocks[p].size

JoinsNext(blocks, b) ==
  LET n == Pivot(blocks, b)
  IN  n <= Len(blocks) /\ blocks[n].base - b.base = b.size

(* ArrayVec::insert panics on a full array.                                *)
InsertPanics(blocks, b) ==
  /\ ~Found(blocks, b) /\ ~JoinsPrev(blocks, b) /\ ~JoinsNext(blocks, b)
  /\ Len(blocks) >= MEMBLOCKS_LEN

InsertNoMergeNext(blocks, b) ==                               \* mutant
  LET n == Pivot(blocks, b)
  IN  IF Found(blocks, b) THEN blocks
      ELSE IF JoinsPrev(blocks, b)
      THEN [blocks EXCEPT ![n - 1].size = @ + b.size]
      ELSE InsertAt(blocks, n, b)

Insert(blocks, b) ==
  LET n == Pivot(blocks, b)
  IN  CASE Found(blocks, b) -> blocks
        [] ~Found(blocks, b) /\ ~JoinsPrev(blocks, b) /\ ~JoinsNext(blocks, b) ->
             InsertAt(blocks, n, b)
        [] ~JoinsPrev(blocks, b) /\ JoinsNext(blocks, b) ->
             [blocks EXCEPT ![n] = Blk(b.base, @.size + b.size)]
        [] JoinsPrev(blocks, b) /\ ~JoinsNext(blocks, b) ->
             [blocks EXCEPT ![n - 1].size = @ + b.size]
        [] JoinsPrev(blocks, b) /\ JoinsNext(blocks, b) ->
             RemoveAt([blocks EXCEPT ![n - 1].size = @ + blocks[n].size + b.size], n)

VARIABLES
  pc,
  mmap,             \* the memory map
  pos,              \* the areas of it that init has read
  free_blocks, reserved_blocks, partial_block, offset,
  min_addr, max_addr,
  layout,           \* the argument of the reserve in progress
  calls,            \* how many calls of reserve there were
  split, split_off, \* the iterator AlignedSplit
  cur,              \* the free blocks the handover has begun with
  handed,           \* the arguments of free_forced, with the block they name
  grants,           \* history: what reserve returned and where it carved it
  fitting           \* history: some block could hold the layout of the call

system  == <<free_blocks, reserved_blocks, partial_block, offset>>
range   == <<min_addr, max_addr>>
handing == <<split, split_off, cur, handed>>
vars    == <<pc, mmap, pos, system, range, layout, calls, handing, grants, fitting>>

(* PhysicalMemoryRecord: the page range of the frames.                     *)
FramesBase == AlignFloor(min_addr, FRAME_SIZE)
FramesLen  == AlignCeil(max_addr - FramesBase, FRAME_SIZE) \div FRAME_SIZE

Init ==
  /\ pc = "init" /\ mmap \in Maps /\ pos = 0
  /\ free_blocks = << >> /\ reserved_blocks = << >>
  /\ partial_block = None /\ offset = 0
  /\ min_addr = AddrEnd - 1 /\ max_addr = 0
  /\ layout = None /\ calls = 0
  /\ split = None /\ split_off = 0 /\ cur = 0 /\ handed = << >>
  /\ grants = {} /\ fitting = FALSE
(***************************************************************************)
(* MemblockSystem::init: one area of the memory map per step.              *)
(***************************************************************************)
(* What is left of an area above the end of the kernel.                    *)
Clipped(a) ==
  IF a.base < KernelEnd
  THEN Blk(KernelEnd, a.size - (KernelEnd - a.base))
  ELSE Blk(a.base, a.size)

Skipped(a) ==
  \/ a.typ # "Available"
  \/ a.base + a.size < KernelEnd
  \/ Clipped(a).size = 0

AddArea ==
  /\ pc = "init" /\ pos < Len(mmap)
  /\ pos' = pos + 1
  /\ LET a == mmap[pos + 1]
         b == Clipped(a)
     IN  IF Skipped(a) THEN UNCHANGED <<pc, free_blocks, range>>
         ELSE /\ min_addr' = Min({min_addr, b.base})
              /\ max_addr' = Max({max_addr, b.base + b.size})
              /\ IF InsertPanics(free_blocks, b)
                 THEN pc' = "panic" /\ UNCHANGED free_blocks
                 ELSE free_blocks' = Insert(free_blocks, b) /\ UNCHANGED pc
  /\ UNCHANGED <<mmap, reserved_blocks, partial_block, offset, layout, calls,
                 handing, grants, fitting>>

(* pop of a list: its last block, or None.                                 *)
Popped(blocks) == IF blocks = << >> THEN None ELSE Last(blocks)
Rest(blocks)   == IF blocks = << >> THEN blocks ELSE Front(blocks)

FinishInit ==
  /\ pc = "init" /\ pos = Len(mmap)
  /\ IF min_addr < max_addr
     THEN /\ pc' = "ready"
          /\ partial_block' = Popped(free_blocks)
          /\ free_blocks' = Rest(free_blocks)
     ELSE pc' = "panic" /\ UNCHANGED <<partial_block, free_blocks>>
  /\ UNCHANGED <<mmap, pos, reserved_blocks, offset, range, layout, calls,
                 handing, grants, fitting>>

(***************************************************************************)
(* reserve: one level of its recursion per step.                           *)
(***************************************************************************)
(* The part of the partial block the layout would take.                    *)
ReserveBase == AlignCeil(offset, layout.align)
Fits == ReserveBase + layout.size <= partial_block.size

CouldFit(l) ==
  \/ /\ partial_block # None
     /\ AlignCeil(offset, l.align) + l.size <= partial_block.size
  \/ \E i \in DOMAIN free_blocks : l.size <= free_blocks[i].size

Reserve(l) ==
  /\ pc = "ready" /\ calls < MaxReserves
  /\ pc' = "reserve" /\ layout' = l /\ calls' = calls + 1
  /\ fitting' = CouldFit(l)
  /\ UNCHANGED <<mmap, pos, system, range, handing, grants>>

ReserveFits ==
  /\ pc = "reserve" /\ partial_block # None /\ Fits
  /\ offset' = ReserveBase + layout.size
  /\ grants' = grants \cup {[addr |-> ReserveBase,
                             home |-> partial_block.base + ReserveBase,
                             size |-> layout.size,
                             nth  |-> calls]}
  /\ pc' = "ready" /\ layout' = None /\ fitting' = FALSE
  /\ UNCHANGED <<mmap, pos, free_blocks, reserved_blocks, partial_block, range,
                 calls, handing>>

ReserveNextLeaksOffset ==                                     \* mutant
  /\ pc = "reserve" /\ partial_block # None /\ ~Fits
  /\ reserved_blocks' = Insert(reserved_blocks, partial_block)
  /\ partial_block' = Popped(free_blocks)
  /\ free_blocks' = Rest(free_blocks)
  /\ offset' = ReserveBase
  /\ UNCHANGED <<pc, mmap, pos, range, layout, calls, handing, grants, fitting>>

ReserveNextDrops ==                                           \* mutant
  /\ pc = "reserve" /\ partial_block # None /\ ~Fits
  /\ partial_block' = Popped(free_blocks)
  /\ free_blocks' = Rest(free_blocks)
  /\ offset' = 0
  /\ UNCHANGED <<pc, mmap, pos, reserved_blocks, range, layout, calls, handing,
                 grants, fitting>>

ReserveNextStays ==                                           \* mutant
  /\ pc = "reserve" /\ partial_block # None /\ ~Fits
  /\ reserved_blocks' = Insert(reserved_blocks, partial_block)
  /\ offset' = 0
  /\ UNCHANGED <<pc, mmap, pos, free_blocks, partial_block, range, layout, calls,
                 handing, grants, fitting>>

(* The partial block is given up, and the last free block takes its place. *)
ReserveNext ==
  /\ pc = "reserve" /\ partial_block # None /\ ~Fits
  /\ reserved_blocks' = Insert(reserved_blocks, partial_block)
  /\ partial_block' = Popped(free_blocks)
  /\ free_blocks' = Rest(free_blocks)
  /\ offset' = 0
  /\ UNCHANGED <<pc, mmap, pos, range, layout, calls, handing, grants, fitting>>

(* Nothing is left: every caller of the boot expects its block.            *)
ReserveNone ==
  /\ pc = "reserve" /\ partial_block = None
  /\ pc' = "panic"
  /\ UNCHANGED <<mmap, pos, system, range, layout, calls, handing, grants, fitting>>

(***************************************************************************)
(* freeze, and the loop of PhysicalMemoryRecord::new over aligned_split.   *)
(***************************************************************************)
FreezeForgets ==                                              \* mutant
  /\ pc = "ready"
  /\ pc' = "handover" /\ partial_block' = None
  /\ free_blocks' = IF partial_block = None THEN free_blocks
                    ELSE Insert(free_blocks, partial_block)
  /\ UNCHANGED <<mmap, pos, reserved_blocks, offset, range, layout, calls,
                 handing, grants, fitting>>

Freeze ==
  /\ pc = "ready"
  /\ pc' = "handover" /\ partial_block' = None
  /\ IF partial_block = None THEN UNCHANGED <<free_blocks, reserved_blocks>>
     ELSE LET b     == partial_block
              whole == IF offset = 0 THEN Insert(free_blocks, b) ELSE free_blocks
          IN  /\ free_blocks' = Insert(whole, Blk(b.base + offset, b.size - offset))
              /\ reserved_blocks' = Insert(reserved_blocks, Blk(b.base, offset))
  /\ UNCHANGED <<mmap, pos, offset, range, layout, calls, handing, grants, fitting>>

AlignedSplitDown(b) ==                                        \* mutant
  LET base == AlignFloor(b.base, FRAME_SIZE)
      end  == AlignFloor(base + b.size, FRAME_SIZE)
  IN  Blk(base, end - base)

(* Memblock::aligned_split.                                                *)
AlignedSplit(b) ==
  LET base == AlignCeil(b.base, FRAME_SIZE)
      end  == AlignFloor(base + b.size, FRAME_SIZE)
  IN  Blk(base, end - base)

NextBlock ==
  /\ pc = "handover" /\ cur < Len(free_blocks)
  /\ split = None
  /\ cur' = cur + 1
  /\ split' = AlignedSplit(free_blocks[cur + 1]) /\ split_off' = 0
  /\ UNCHANGED <<pc, mmap, pos, system, range, layout, calls, handed, grants, fitting>>

(* AlignedSplit::next, and the call of free_forced with what it yields.    *)
NextOrder ==
  Min({TrailingZeros(split_off), HighestBit(split.size - split_off),
       BUDDY_MAX_ORDER + FRAME_ORDER})

SplitNext ==
  /\ pc = "handover" /\ split # None /\ split_off < split.size
  /\ LET base == split.base + split_off
     IN  handed' = Append(handed, [base  |-> base,
                                   size  |-> 2^NextOrder,
                                   idx   |-> (base - FramesBase) \div FRAME_SIZE,
                                   order |-> NextOrder - FRAME_ORDER])
  /\ split_off' = split_off + 2^NextOrder
  /\ UNCHANGED <<pc, mmap, pos, system, range, layout, calls, split, cur,
                 grants, fitting>>

SplitEnd ==
  /\ pc = "handover" /\ split # None /\ split_off >= split.size
  /\ split' = None /\ split_off' = 0
  /\ UNCHANGED <<pc, mmap, pos, system, range, layout, calls, cur, handed,
                 grants, fitting>>

Finish ==
  /\ pc = "handover" /\ split = None /\ cur = Len(free_blocks)
  /\ pc' = "done"
  /\ UNCHANGED <<mmap, pos, system, range, layout, calls, handing, grants, fitting>>

Next ==
  \/ AddArea \/ FinishInit
  \/ \E l \in Layouts : Reserve(l)
  \/ ReserveFits \/ ReserveNext \/ ReserveNone
  \/ Freeze \/ NextBlock \/ SplitNext \/ SplitEnd \/ Finish

Spec == Init /\ [][Next]_vars

(* The boot is straight-line code: it always takes its next step.          *)
FairSpec == Spec /\ WF_vars(Next)
-----------------------------------------------------------------------------
(***************************************************************************)
(* Correctness.                                                            *)
(***************************************************************************)
Block == [base : 0..AddrEnd, size : 0..AddrEnd]

(* Every variable has its type, and no list outgrows its array.            *)
TypeOK ==
  /\ pc \in {"init", "ready", "reserve", "handover", "done", "panic"}
  /\ mmap \in Maps /\ pos \in 0..Len(mmap)
  /\ free_blocks \in Seq(Block) /\ Len(free_blocks) <= MEMBLOCKS_LEN
  /\ reserved_blocks \in Seq(Block) /\ Len(reserved_blocks) <= MEMBLOCKS_LEN
  /\ partial_block \in Block \cup {None}
  /\ offset \in 0..AddrEnd
  /\ min_addr \in 0..AddrEnd /\ max_addr \in 0..AddrEnd
  /\ layout \in Layouts \cup {None} /\ calls \in 0..MaxReserves
  /\ split \in Block \cup {None} /\ split_off \in 0..AddrEnd
  /\ cur \in 0..Len(free_blocks)
  /\ fitting \in BOOLEAN

Bytes(b) == b.base..(b.base + b.size - 1)
BytesOf(blocks) == UNION {Bytes(blocks[i]) : i \in DOMAIN blocks}
PartialBytes == IF partial_block = None THEN {} ELSE Bytes(partial_block)

(* The bytes of the first n areas that a kernel may use.                   *)
Usable(n) ==
  {x \in UNION {Bytes(mmap[i]) : i \in {j \in 1..n : mmap[j].typ = "Available"}} :
     x >= KernelEnd}

(* In whatever order the boot loader lists the areas, the lists stay       *)
(* sorted and within their arrays, and while they are built neighbours are *)
(* merged: between two free blocks there is a gap.                         *)
Sorted ==
  /\ TypeOK
  /\ \A i, j \in DOMAIN free_blocks : i < j =>
       free_blocks[i].base + free_blocks[i].size < free_blocks[j].base
  /\ \A i, j \in DOMAIN reserved_blocks : i < j =>
       reserved_blocks[i].base + reserved_blocks[i].size < reserved_blocks[j].base

(* No byte is lost and none is made up: free, partial and reserved blocks  *)
(* share no byte and are together the usable bytes of the areas read.      *)
Conserved ==
  pc # "panic" =>
    /\ BytesOf(free_blocks) \cup BytesOf(reserved_blocks) \cup PartialBytes = Usable(pos)
    /\ BytesOf(free_blocks) \cap BytesOf(reserved_blocks) = {}
    /\ PartialBytes \cap (BytesOf(free_blocks) \cup BytesOf(reserved_blocks)) = {}

Home(g) == g.home..(g.home + g.size - 1)

(* What two calls of reserve carve out of the blocks shares no byte, and   *)
(* no byte of it is in a free block: not after a change of the partial     *)
(* block, and not after freeze has cut it.                                 *)
CarvedApart ==
  /\ \A g, h \in grants : g # h => Home(g) \cap Home(h) = {}
  /\ \A g \in grants : Home(g) \cap BytesOf(free_blocks) = {}

(* When reserve finds nothing, no block it could use would have held the   *)
(* layout at the time of the call.                                         *)
RefusesHonestly == pc = "reserve" /\ partial_block = None => ~fitting

Handed == {handed[i] : i \in DOMAIN handed}

WholePages(b) ==
  {p \in 0..(AddrEnd \div FRAME_SIZE) :
     b.base <= p * FRAME_SIZE /\ (p + 1) * FRAME_SIZE <= b.base + b.size}

(* Every page that lies in a free block is handed over, exactly once.      *)
EveryPageHanded ==
  pc = "done" =>
    \A i \in DOMAIN free_blocks : \A p \in WholePages(free_blocks[i]) :
      Cardinality({k \in DOMAIN handed : p * FRAME_SIZE \in Bytes(handed[k])}) = 1

(* BuddySystem::new: the order of the roots for that many frames.          *)
MaxOrder ==
  CHOOSE k \in 0..BUDDY_MAX_ORDER :
    /\ 2^k >= FramesLen \/ k = BUDDY_MAX_ORDER
    /\ \A j \in 0..(k - 1) : 2^j < FramesLen

(* What is handed over lies within the frames and is no larger than a root *)
(* of the buddy system: the assertion and the slices of free_forced hold,  *)
(* and so does the assertion that a block starts at a page.                *)
HandedInFrames ==
  \A h \in Handed :
    /\ h.base % FRAME_SIZE = 0
    /\ h.order \in 0..MaxOrder
    /\ h.idx \in Nat /\ h.idx + 2^h.order <= FramesLen

(* The boot hands over every free page once, and nothing that free_forced  *)
(* would refuse.                                                           *)
HandedOver == HandedInFrames /\ EveryPageHanded

(* The boot ends: init, the recursion of reserve and the iterators stop.   *)
BootEnds == <>(pc \in {"done", "panic"})

(* What the documentation says, and the code does not do.                  *)

(* freeze splits off what reserve has returned as a reserved block.        *)
GrantsReserved ==
  pc = "done" =>
    \A g \in grants : g.addr..(g.addr + g.size - 1) \subseteq BytesOf(reserved_blocks)

(* The blocks of aligned_split are split off the block it is called on.    *)
SplitInside ==
  \A h \in Handed : Bytes(h) \subseteq BytesOf(free_blocks)

(* The pages under the node of the buddy system that free_forced marks.    *)
Marked(h) ==
  LET n == h.idx \div 2^h.order IN (n * 2^h.order)..((n + 1) * 2^h.order - 1)

(* The buddy system inherits the records: a page it takes for free has no  *)
(* byte in a reserved block.                                               *)
InheritsRecords ==
  \A h \in Handed : \A p \in Marked(h) :
    Bytes(Blk(FramesBase + p * FRAME_SIZE, FRAME_SIZE))
      \cap BytesOf(reserved_blocks) = {}
=============================================================================
