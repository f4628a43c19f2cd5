----------------------------- MODULE PhyProofs -----------------------------
(* The physical memory manager uses the buddy system as it is meant to be  *)
(* used, its array of frames agrees with it, and what its callers get fits *)
(* what they asked for.                                                    *)
EXTENDS Phy, BuddyProofs

(* Contexts are large here: three provers, each with time.                 *)
USE SMTT(10), ZenonT(10), Z3T(30)

(* deallocate_pages calls free on the block that its range was cut from.   *)
LEMMA DeallocateFrees ==
  ASSUME PInv, NEW r \in held, DeallocatePages(r)
  PROVE  BlockAt(r.idx) \in alloc /\ FreeBlock(BlockAt(r.idx))
<1>1. PICK o \in Order : frames[r.idx] \in {None, o} /\ FreeNode(<<o, r.idx \div 2^o>>)
  BY DEF DeallocatePages
<1>2. frames[r.idx] \in Order /\ None \notin Order
  BY BasesAssumption, ShapeAssumption DEF PInv, Order
<1>3. FreeNode(BlockAt(r.idx))
  BY <1>1, <1>2 DEF BlockAt
<1>4. pc = "idle" /\ BlockAt(r.idx) \in alloc
  BY <1>3 DEF FreeNode, PInv, Returning
<1> QED
  BY <1>3, <1>4 DEF FreeBlock

(* A step of the physical memory manager is a step of the buddy system or  *)
(* leaves it alone.                                                        *)
LEMMA StepIsBuddy == PInv /\ [PhyNext]_<<vars, phyVars>> => [Next]_vars
<1> SUFFICES ASSUME PInv, [PhyNext]_<<vars, phyVars>> PROVE [Next]_vars
  OBVIOUS
<1>1. CASE UNCHANGED <<vars, phyVars>>
  BY <1>1
<1>2. ASSUME NEW r, Start(r) PROVE Next
  BY <1>2 DEF Start, Next
<1>3. ASSUME NEW r \in held, DeallocatePages(r) PROVE Next
  BY <1>3, DeallocateFrees DEF Next
<1>4. CASE Allocated
  BY <1>4 DEF Allocated, Next, Step
<1>5. CASE AllocFailed \/ Deallocated
  BY <1>5 DEF AllocFailed, Deallocated, Next, Step
<1>6. CASE BootStep \/ BuddyStep
  BY <1>6 DEF BootStep, BuddyStep, Next, Step
<1> QED
  BY <1>1, <1>2, <1>3, <1>4, <1>5, <1>6
     DEF PhyNext, PhyStep, AllocatePages, Allocate

(* What was handed over changes during the boot only, and a block once     *)
(* torn stays torn.                                                        *)
LEMMA HandedStep ==
  [PhyNext]_<<vars, phyVars>> =>
    UNCHANGED handed \/ (FreeForced /\ UNCHANGED phyVars)
BY DEF PhyNext, PhyStep, AllocatePages, Allocate, Start, Reserve, Allocated, vars, handed,
       phyVars, AllocFailed, Deallocated, DeallocatePages, FreeNode, BootStep, BuddyStep,
       Rewind, Descend, Take, FixupUp, FixupStop, Return

LEMMA StaysTorn == [PhyNext]_<<vars, phyVars>> /\ Untorn' => Untorn
BY HandedStep DEF handed, Untorn, FreeForced

(* A block starts at a page of its own, from which its index can be had    *)
(* back by a shift.                                                        *)
LEMMA FirstPage ==
  ASSUME NEW n \in Node
  PROVE  /\ First(n) \in Pages(n) /\ First(n) \in 0..(PageCnt - 1)
         /\ First(n) \div 2^n[1] = n[2]
<1>1. n[2] \in Nat /\ 2^n[1] \in Nat \ {0} /\ n[1] \in Order
  BY NodeIs, Shift
<1>2. (n[2] + 1) * 2^n[1] = n[2] * 2^n[1] + 2^n[1] /\ n[2] * 2^n[1] \in Nat
  BY <1>1, MulMono
<1>3. First(n) \in Pages(n)
  BY <1>1, <1>2 DEF Pages, First
<1>4. <<0, First(n)>> \in Node
  BY <1>3, LeafUnder
<1>5. First(n) \in 0..(PageCnt - 1)
  BY <1>4 DEF Node
<1> QED
  BY <1>1, <1>3, <1>5, MulDiv DEF First

(* The pages of a block, from its first.                                   *)
LEMMA PagesFrom ==
  ASSUME NEW n \in Node
  PROVE  Pages(n) = First(n)..(First(n) + 2^n[1] - 1)
<1> DEFINE i == n[2]
           p == 2^n[1]
<1>1. i \in Nat /\ p \in Nat \ {0}
  BY NodeIs, Shift
<1>2. Pages(n) = (i * p)..((i + 1) * p - 1) /\ First(n) = i * p
  BY DEF Pages, First
<1> HIDE DEF i, p
<1>3. (i + 1) * p - 1 = i * p + p - 1
  BY <1>1
<1> QED
  BY <1>2, <1>3 DEF p

(* No two blocks that are out start at the same page.                      *)
LEMMA SameFirst ==
  ASSUME IInv, Untorn, NEW a \in alloc, NEW b \in alloc, First(a) = First(b)
  PROVE  a = b
<1>1. a \in Node /\ b \in Node /\ ~Below(a, b) /\ ~Below(b, a)
  BY DEF IInv, TypeOK, MapInv, AllocInv
<1>2. First(a) \in Pages(a) \cap Pages(b)
  BY <1>1, FirstPage
<1> QED
  BY <1>1, <1>2, PagesApart DEF Below

(* The manager starts with everything reserved and nothing held.           *)
LEMMA InitPInv == PhyInit => PInv
BY DEF PhyInit, Init, PInv, Returning

(* Steps that touch neither the frames nor the holders and do not change   *)
(* what is out.                                                            *)
LEMMA QuietPInv ==
  ASSUME PInv, UNCHANGED <<frames, held, alloc>>,
         pc' = "search" => op' = "reserve",
         pc' = "search" \/ Returning("reserve")' => order' = req'.order,
         Returning("reserve") <=> Returning("reserve")',
         Returning("reserve")' => UNCHANGED <<blk, order>>,
         Returning("free")' => Returning("free") /\ UNCHANGED blk
  PROVE  PInv'
<1>1. {BlockAt(r.idx) : r \in held}' = {BlockAt(r.idx) : r \in held}
  BY DEF BlockAt
<1>2. \A r \in held : BlockAt(r.idx)' = BlockAt(r.idx)
  BY DEF BlockAt
<1>3. {BlockAt(r.idx) : r \in held}'
        = IF Returning("reserve")' THEN alloc' \ {blk'} ELSE alloc'
  BY Zenon, <1>1 DEF PInv
<1>4. \A r \in held' : /\ r.idx \in 0..(PageCnt - 1) /\ frames'[r.idx] \in Order
                       /\ r.idx = First(BlockAt(r.idx)')
  BY <1>2 DEF PInv
<1>5. Returning("free")' => \A r \in held' : r.idx # First(blk')
  BY DEF PInv
<1> QED
  BY <1>3, <1>4, <1>5 DEF PInv, First

(* The search and fixup_map go on without the manager noticing.            *)
LEMMA InnerPInv ==
  ASSUME PInv, Rewind \/ Descend \/ FixupUp \/ FixupStop, UNCHANGED phyVars
  PROVE  PInv'
<1>1. CASE Rewind \/ Descend
  <2>1. /\ UNCHANGED <<frames, held, alloc, req, op, order, blk>>
        /\ pc = "search" /\ pc' \in {"search", "panic"}
    BY <1>1 DEF Rewind, Descend, phyVars
  <2> QED
    BY <2>1, QuietPInv DEF PInv, Returning
<1>2. CASE FixupUp \/ FixupStop
  <2>1. /\ UNCHANGED <<frames, held, alloc, req, op, order, blk>>
        /\ pc = "fixup" /\ pc' \in {"fixup", "done"}
    BY <1>2 DEF FixupUp, FixupStop, phyVars, locals
  <2> QED
    BY <2>1, QuietPInv DEF PInv, Returning
<1> QED
  BY <1>1, <1>2

(* The loop over the boot blocks in PhysicalMemoryRecord::new.             *)
LEMMA BootPInv == PInv /\ BootStep => PInv'
<1> SUFFICES ASSUME PInv, BootStep PROVE PInv'
  OBVIOUS
<1>1. CASE FreeForced
  <2>1. /\ UNCHANGED <<frames, held, alloc>>
        /\ pc = "idle" /\ pc' = "fixup" /\ op' = "free_forced"
    BY <1>1 DEF BootStep, phyVars, FreeForced, StartFixup
  <2> QED
    BY <2>1, QuietPInv DEF Returning
<1>2. CASE pc = "done" /\ op = "free_forced" /\ Return
  <2>1. UNCHANGED <<frames, held, alloc>> /\ pc' = "idle"
    BY <1>2 DEF BootStep, phyVars, Return, Idle
  <2> QED
    BY <1>2, <2>1, QuietPInv DEF Returning
<1> QED
  BY <1>1, <1>2 DEF BootStep

(* allocate_pages up to the call of reserve, and its return with None.     *)
LEMMA StartPInv == ASSUME NEW r PROVE PInv /\ (Start(r) \/ AllocFailed) => PInv'
<1> SUFFICES ASSUME PInv, Start(r) \/ AllocFailed PROVE PInv'
  OBVIOUS
<1>1. CASE Start(r)
  <2>1. /\ UNCHANGED <<frames, held, alloc>> /\ req' = r
        /\ pc = "idle" /\ pc' \in {"search", "failed"}
        /\ op' = "reserve" /\ order' = r.order
    BY <1>1 DEF Start, Reserve
  <2> QED
    BY <2>1, QuietPInv DEF Returning
<1>2. CASE AllocFailed
  <2>1. UNCHANGED <<frames, held, alloc>> /\ pc = "failed" /\ pc' = "idle"
    BY <1>2 DEF AllocFailed, Return, Idle
  <2> QED
    BY <2>1, QuietPInv DEF Returning
<1> QED
  BY <1>1, <1>2

(* reserve marks the block it found: it is out and nobody holds it yet.    *)
LEMMA TakePInv == IInv /\ Untorn /\ PInv /\ Take /\ UNCHANGED phyVars => PInv'
<1> SUFFICES ASSUME IInv, Untorn, PInv, Take, UNCHANGED phyVars PROVE PInv'
  OBVIOUS
<1>1. /\ pc = "search" /\ pc' = "fixup" /\ op' = "reserve" /\ order' = order
      /\ blk' = cursor /\ alloc' = alloc \cup {cursor} /\ cursor[1] = order
      /\ UNCHANGED <<frames, held, req>>
  BY DEF Take, StartFixup, Exact, phyVars
<1>2. cursor \notin alloc
  <2>1. map[cursor] # Reserved
    BY DEF Take, TooSmall
  <2> QED
    BY <2>1 DEF IInv, MapInv, AllocInv
<1>3. {BlockAt(r.idx) : r \in held}' = {BlockAt(r.idx) : r \in held}
  BY <1>1 DEF BlockAt
<1>4. {BlockAt(r.idx) : r \in held} = alloc
  BY <1>1 DEF PInv, Returning
<1>5. {BlockAt(r.idx) : r \in held}'
        = IF Returning("reserve")' THEN alloc' \ {blk'} ELSE alloc'
  BY <1>1, <1>2, <1>3, <1>4, SMTT(30) DEF Returning
<1>6. \A r \in held' : /\ r.idx \in 0..(PageCnt - 1) /\ frames'[r.idx] \in Order
                       /\ r.idx = First(BlockAt(r.idx)')
  BY <1>1 DEF PInv, BlockAt
<1> QED
  BY <1>1, <1>5, <1>6 DEF PInv, Returning, First

(* Writing a frame that no range starts at changes no block that is held.  *)
LEMMA WriteFrame ==
  ASSUME PInv, NEW i, NEW v \in Order, frames' = [frames EXCEPT ![i] = v],
         \A r \in held : r.idx # i
  PROVE  /\ frames' \in [0..(PageCnt - 1) -> Order \cup {None}]
         /\ \A r \in held : frames'[r.idx] = frames[r.idx]
         /\ \A r \in held : BlockAt(r.idx)' = BlockAt(r.idx)
         /\ i \in 0..(PageCnt - 1) => frames'[i] = v
<1>1. frames' \in [0..(PageCnt - 1) -> Order \cup {None}]
  BY Zenon DEF PInv
<1>2. \A r \in held : frames'[r.idx] = frames[r.idx]
  BY DEF PInv
<1> QED
  BY <1>1, <1>2 DEF PInv, BlockAt

(* The block that reserve returns starts where no range of a caller does.  *)
LEMMA NewFirst ==
  ASSUME IInv, Untorn, PInv, Returning("reserve")
  PROVE  \A r \in held : r.idx # First(blk)
<1> SUFFICES ASSUME NEW r \in held, r.idx = First(blk) PROVE FALSE
  OBVIOUS
<1>1. BlockAt(r.idx) \in alloc /\ BlockAt(r.idx) # blk /\ blk \in alloc
  BY DEF PInv
<1>2. First(BlockAt(r.idx)) = First(blk)
  BY DEF PInv
<1> QED
  BY <1>1, <1>2, SameFirst

(* allocate_pages after reserve: the order is written at the first frame,  *)
(* which is nobody else's, and the block finds its holder.                 *)
LEMMA AllocatedPInv == IInv /\ Untorn /\ PInv /\ Allocated => PInv'
<1> SUFFICES ASSUME IInv, Untorn, PInv, Allocated PROVE PInv'
  OBVIOUS
<1>1. /\ Returning("reserve") /\ order = req.order /\ blk \in alloc /\ blk[1] = order
      /\ {BlockAt(r.idx) : r \in held} = alloc \ {blk}
  BY DEF Allocated, PInv, Returning
<1>2. blk \in Node /\ order \in Order /\ FrameIdx = First(blk)
  BY DEF IInv, TypeOK, FrameIdx, First
<1>3. \A r \in held : r.idx # First(blk)
  BY <1>1, NewFirst
<1>4. frames' = [frames EXCEPT ![First(blk)] = order]
  BY <1>1, <1>2 DEF Allocated
<1>5. /\ frames' \in [0..(PageCnt - 1) -> Order \cup {None}]
      /\ \A r \in held : frames'[r.idx] = frames[r.idx]
      /\ \A r \in held : BlockAt(r.idx)' = BlockAt(r.idx)
      /\ frames'[First(blk)] = order
  BY Zenon, <1>2, <1>3, <1>4, WriteFrame, FirstPage
<1>6. <<frames'[First(blk)], First(blk) \div 2^(frames'[First(blk)])>> = blk
  BY <1>1, <1>2, <1>5, FirstPage, NodeIs, SMTT(30)
<1>7. CASE Misaligned
  <2>1. UNCHANGED <<pc, op, order, blk, alloc, held, req>>
    BY <1>7 DEF Allocated, vars, locals
  <2>2. {BlockAt(r.idx) : r \in held}' = alloc' \ {blk'}
    BY <1>1, <1>5, <2>1, SMTT(30)
  <2>3. \A r \in held' : /\ r.idx \in 0..(PageCnt - 1) /\ frames'[r.idx] \in Order
                         /\ r.idx = First(BlockAt(r.idx)')
    BY <1>5, <2>1 DEF PInv
  <2>4. Returning("reserve")' /\ ~Returning("free")'
    BY <1>1, <2>1 DEF Returning
  <2> QED
    BY <1>1, <1>5, <2>1, <2>2, <2>3, <2>4, SMTT(30) DEF PInv, First, Returning
<1>8. CASE ~Misaligned
  <2>1. PICK g : held' = held \cup {g} /\ g.idx = First(blk)
    <3>1. held' = held \cup {Granted}
      BY <1>8 DEF Allocated
    <3>2. Granted.idx = First(blk)
      BY <1>2 DEF Granted
    <3> QED
      BY Zenon, <3>1, <3>2
  <2>2. pc' = "idle" /\ alloc' = alloc
    BY <1>8 DEF Allocated, Return, Idle
  <2>3. BlockAt(g.idx)' = blk
    BY <1>6, <2>1 DEF BlockAt
  <2>4. \A r \in held' : r = g \/ r \in held
    BY <2>1
  <2>5. {BlockAt(r.idx)' : r \in held'} = {BlockAt(r.idx) : r \in held} \cup {blk}
    BY <1>5, <2>1, <2>3
  <2>6. {BlockAt(r.idx) : r \in held}' = alloc'
    BY <1>1, <2>2, <2>5, SMTT(30)
  <2>7. \A r \in held' : /\ r.idx \in 0..(PageCnt - 1) /\ frames'[r.idx] \in Order
                         /\ r.idx = First(BlockAt(r.idx)')
    <3>1. g.idx \in 0..(PageCnt - 1) /\ frames'[g.idx] \in Order
      BY <1>2, <1>5, <2>1, FirstPage
    <3> QED
      BY <1>5, <2>1, <2>3, <2>4, <3>1, SMTT(30) DEF PInv
  <2>8. \A r, s \in held' : r.idx = s.idx => r = s
    BY <1>3, <2>1, <2>4, SMTT(30) DEF PInv
  <2> QED
    BY <1>5, <2>2, <2>6, <2>7, <2>8, SMTT(30) DEF PInv, Returning, First
<1> QED
  BY <1>7, <1>8

(* deallocate_pages up to the call of free: the order at the first frame   *)
(* names the very block that the range was cut from.                       *)
LEMMA DeallocatePInv ==
  ASSUME NEW x \in held
  PROVE  IInv /\ Untorn /\ PInv /\ DeallocatePages(x) => PInv'
<1> SUFFICES ASSUME IInv, Untorn, PInv, DeallocatePages(x) PROVE PInv'
  OBVIOUS
<1>1. PICK n : n = BlockAt(x.idx)
  OBVIOUS
<1>2. FreeBlock(n) /\ n \in alloc /\ map[n] = Reserved
  BY <1>1, DeallocateFrees DEF IInv, MapInv, AllocInv
<1>3. /\ pc = "idle" /\ pc' = "fixup" /\ op' = "free" /\ blk' = n
      /\ alloc' = alloc \ {n} /\ held' = held \ {x} /\ frames' = frames
  BY <1>2 DEF DeallocatePages, FreeBlock, FreeNode, StartFixup
<1>4. x.idx = First(n) /\ {BlockAt(r.idx) : r \in held} = alloc
  BY <1>1, <1>3 DEF PInv, Returning
<1>5. \A r \in held : BlockAt(r.idx)' = BlockAt(r.idx)
  BY <1>3 DEF BlockAt
<1>6. \A r \in held' : r \in held /\ r.idx # x.idx /\ BlockAt(r.idx) # n
  BY <1>3, <1>4 DEF PInv
<1>7. {BlockAt(r.idx)' : r \in held'} = alloc \ {n}
  BY Zenon, <1>1, <1>3, <1>4, <1>5, <1>6
<1>8. {BlockAt(r.idx) : r \in held}' = alloc'
  BY <1>3, <1>7
<1>9. \A r \in held' : /\ r.idx \in 0..(PageCnt - 1) /\ frames'[r.idx] \in Order
                       /\ r.idx = First(BlockAt(r.idx)')
  BY <1>3, <1>5, <1>6, SMTT(30) DEF PInv
<1> QED
  BY <1>3, <1>4, <1>6, <1>8, <1>9, SMTT(30) DEF PInv, Returning, First

(* deallocate_pages after free: the frame it clears is nobody's.           *)
LEMMA DeallocatedPInv == IInv /\ Untorn /\ PInv /\ Deallocated => PInv'
<1> SUFFICES ASSUME IInv, Untorn, PInv, Deallocated PROVE PInv'
  OBVIOUS
<1>1. /\ Returning("free") /\ pc' = "idle" /\ UNCHANGED <<alloc, held>>
      /\ frames' = [frames EXCEPT ![First(blk)] = 0]
  BY DEF Deallocated, Returning, Return, Idle, FrameIdx, First
<1>2. 0 \in Order /\ \A r \in held : r.idx # First(blk)
  BY <1>1, ShapeAssumption DEF PInv, Order
<1>3. /\ frames' \in [0..(PageCnt - 1) -> Order \cup {None}]
      /\ \A r \in held : frames'[r.idx] = frames[r.idx]
      /\ \A r \in held : BlockAt(r.idx)' = BlockAt(r.idx)
  BY Zenon, <1>1, <1>2, WriteFrame
<1>4. {BlockAt(r.idx) : r \in held} = alloc
  BY <1>1 DEF PInv, Returning
<1>5. {BlockAt(r.idx) : r \in held}' = alloc'
  BY <1>1, <1>3, <1>4
<1>6. \A r \in held' : /\ r.idx \in 0..(PageCnt - 1) /\ frames'[r.idx] \in Order
                       /\ r.idx = First(BlockAt(r.idx)')
  BY <1>1, <1>3 DEF PInv
<1> QED
  BY <1>1, <1>3, <1>5, <1>6, SMTT(30) DEF PInv, Returning, First

(* Every step of the physical memory manager preserves the invariant.      *)
LEMMA NextPInv == IInv /\ Untorn /\ PInv /\ [PhyNext]_<<vars, phyVars>> => PInv'
<1> SUFFICES ASSUME IInv, Untorn, PInv, [PhyNext]_<<vars, phyVars>> PROVE PInv'
  BY SMTT(30)
<1>1. CASE UNCHANGED <<vars, phyVars>>
  <2>1. UNCHANGED <<frames, held, alloc, req, pc, op, order, blk>>
    BY <1>1 DEF vars, locals, phyVars
  <2> QED
    BY <2>1, QuietPInv DEF PInv, Returning
<1>2. CASE BuddyStep
  BY <1>2, InnerPInv, TakePInv DEF BuddyStep
<1>3. ASSUME NEW r, Start(r) PROVE PInv'
  BY <1>3, StartPInv
<1>4. ASSUME NEW r \in held, DeallocatePages(r) PROVE PInv'
  BY <1>4, DeallocatePInv
<1>5. CASE AllocFailed
  BY <1>5, StartPInv
<1> QED
  BY <1>1, <1>2, <1>3, <1>4, <1>5, AllocatedPInv, DeallocatedPInv, BootPInv, SMTT(30)
     DEF PhyNext, PhyStep, AllocatePages, Allocate

(* The page sizes begin with that of a frame and end with the largest.     *)
LEMMA SizeIs ==
  ASSUME NEW s \in Size
  PROVE  /\ s \in Exponent /\ s - FRAME_ORDER \in Exponent
         /\ FramesPer(s) \in Nat \ {0}
         /\ LET l == VARIANTS[Len(VARIANTS)]
            IN  l \in Size /\ s - FRAME_ORDER <= l - FRAME_ORDER
<1> DEFINE l == VARIANTS[Len(VARIANTS)]
<1>1. /\ Len(VARIANTS) \in Nat \ {0} /\ DOMAIN VARIANTS = 1..Len(VARIANTS)
      /\ \A i \in DOMAIN VARIANTS : VARIANTS[i] \in Nat
  BY VariantsAssumption
<1>2. PICK i \in DOMAIN VARIANTS : s = VARIANTS[i]
  BY DEF Size
<1>3. 1 \in DOMAIN VARIANTS /\ Len(VARIANTS) \in DOMAIN VARIANTS
  BY <1>1
<1>4. i = 1 \/ VARIANTS[1] < s
  BY <1>1, <1>2, <1>3, VariantsAssumption, SMTT(30)
<1>5. i = Len(VARIANTS) \/ s < l
  BY <1>1, <1>2, <1>3, VariantsAssumption, SMTT(30)
<1>6. FRAME_ORDER \in Nat /\ s \in Nat /\ l \in Nat /\ FRAME_ORDER <= s /\ s <= l
  BY <1>1, <1>2, <1>3, <1>4, <1>5, SMTT(30) DEF FRAME_ORDER
<1>7. s \in Exponent /\ s - FRAME_ORDER \in Exponent
  BY <1>6, ShapeAssumption DEF Exponent
<1>8. l \in Size
  BY <1>3 DEF Size
<1> QED
  BY <1>6, <1>7, <1>8, PowersAssumption, SMTT(30) DEF FramesPer

(* A shift by more is a multiple of a shift by less.                       *)
LEMMA Multiple ==
  ASSUME NEW j \in Exponent, NEW k \in Exponent, j <= k
  PROVE  /\ 2^(k - j) \in Nat \ {0} /\ 2^j \in Nat \ {0}
         /\ 2^k = 2^(k - j) * 2^j
         /\ 2^j <= 2^k
         /\ j < k => 2^j < 2^k
<1>1. /\ max_order + VARIANTS[Len(VARIANTS)] \in Nat
      /\ k - j \in Exponent /\ (k - j) + j = k
  <2>1. max_order \in Nat /\ VARIANTS[Len(VARIANTS)] \in Nat
    BY ShapeAssumption, VariantsAssumption
  <2> QED
    BY <2>1 DEF Exponent
<1>2. /\ 2^(k - j) \in Nat \ {0} /\ 2^j \in Nat \ {0}
      /\ 2^k = 2^(k - j) * 2^j
  BY <1>1, PowersAssumption
<1>3. ASSUME j < k PROVE 2^(k - j) > 1
  <2>1. k - j - 1 \in Exponent /\ 1 \in Exponent /\ 1 + (k - j - 1) = k - j
    BY <1>1, <1>3 DEF Exponent
  <2>2. 2^(k - j) = 2^1 * 2^(k - j - 1) /\ 2^(k - j - 1) \in Nat \ {0}
    BY <1>1, <2>1, PowersAssumption, Zenon
  <2>3. 2^1 = 2
    BY ShiftAssumption
  <2> DEFINE a == 2^(k - j - 1)
             b == 2^(k - j)
  <2>4. b = 2 * a /\ a \in Nat \ {0}
    BY <2>2, <2>3
  <2> HIDE DEF a, b
  <2>5. b > 1
    BY <2>4
  <2> QED
    BY <2>5 DEF b
<1> DEFINE a == 2^(k - j)
           b == 2^j
<1>4. a \in Nat \ {0} /\ b \in Nat \ {0} /\ (j < k => a > 1)
  BY <1>2, <1>3
<1> HIDE DEF a, b
<1>5. b <= a * b /\ (j < k => b < a * b)
  <2>1. 1 * b <= a * b /\ (a > 1 => (1 + 1) * b <= a * b) /\ a * b \in Nat
    BY <1>4, MulMono
  <2> QED
    BY <1>4, <2>1
<1>6. 2^k = a * b
  BY <1>2 DEF a, b
<1> QED
  BY <1>2, <1>5, <1>6 DEF a, b

LOCAL INSTANCE FiniteSetTheorems

(* A set of naturals that is not empty has a minimum.                      *)
LEMMA MinIs ==
  ASSUME NEW S \in SUBSET Nat, S # {}
  PROVE  Min(S) \in S
<1> PICK b \in S : TRUE
  BY Zenon
<1> DEFINE F == 0..b
           R == StrictSubsetOrdering(F)
           T == {0..n : n \in S \cap F}
<1>1. IsWellFoundedOn(R, FiniteSubsetsOf(F))
  BY FS_StrictSubsetOrderingWellFounded
<1>2. \A n \in S \cap F : IsFiniteSet(0..n) /\ 0..n \subseteq F
  BY FS_Interval
<1>3. T \subseteq FiniteSubsetsOf(F) /\ T # {}
  BY <1>2 DEF FiniteSubsetsOf
<1>4. PICK X \in T : \A Y \in T : ~(<<Y, X>> \in R)
  <2> HIDE DEF R, T
  <2> QED BY <1>1, <1>3, WFMin
<1>5. PICK x \in S \cap F : X = 0..x
  OBVIOUS
<1>6. ASSUME NEW y \in S, y < x PROVE FALSE
  <2>1. 0..y \subseteq 0..x /\ 0..y # 0..x /\ y \in F
    BY <1>6
  <2>2. <<0..y, X>> \in R
    BY <2>1, <1>5, <1>3 DEF StrictSubsetOrdering
  <2> QED BY <2>1, <2>2, <1>4, Zenon
<1>7. x \in S /\ \A y \in S : x <= y
  BY <1>6
<1> HIDE DEF F, R, T
<1> QED BY <1>7, Zenon DEF Min

(* allocate_pages: the power of two it rounds to is at least the number of *)
(* frames that was asked for.                                              *)
LEMMA OrderCovers ==
  ASSUME NEW c \in 1..MaxCnt, NEW s \in Size
  PROVE  2^OrderFor(c * FramesPer(s)) >= c * FramesPer(s)
<1> DEFINE n == c * FramesPer(s)
           S == {k \in 0..n : 2^k >= n}
<1>1. n \in Nat /\ 2^n \in Nat /\ n < 2^n
  <2>1. PICK i \in DOMAIN VARIANTS : s = VARIANTS[i]
    BY DEF Size
  <2>2. n \in Nat
    BY SizeIs, AskedAssumption
  <2> QED
    BY <2>1, <2>2, PowersAssumption
<1> HIDE DEF n
<1>2. S \in SUBSET Nat /\ n \in S
  BY <1>1
<1>3. Min(S) \in S
  <2> HIDE DEF S
  <2> QED BY <1>2, MinIs
<1>4. OrderFor(n) = Min(S)
  BY DEF OrderFor
<1>5. 2^OrderFor(n) >= n
  BY <1>3, <1>4
<1> QED
  BY <1>5 DEF n

(* PageSize::fit: a page of the size it finds holds the layout.            *)
LEMMA FitHolds ==
  ASSUME NEW bytes \in Layouts, Fit(bytes) # None
  PROVE  Fit(bytes) \in Size /\ bytes <= 2^Fit(bytes)
<1> DEFINE fits == {i \in DOMAIN VARIANTS : BitLen(bytes) <= VARIANTS[i]}
           S == {k \in 0..bytes : bytes < 2^k}
<1>1. fits # {} /\ Fit(bytes) = VARIANTS[Min(fits)]
  BY Zenon DEF Fit
<1>2. fits \in SUBSET Nat
  BY VariantsAssumption
<1>3. Min(fits) \in fits
  <2> HIDE DEF fits
  <2> QED BY <1>1, <1>2, MinIs
<1>4. bytes \in Nat /\ bytes < 2^bytes
  BY PowersAssumption, AskedAssumption
<1>5. S \in SUBSET Nat /\ bytes \in S
  BY <1>4
<1>6. Min(S) \in S
  <2> HIDE DEF S
  <2> QED BY <1>5, MinIs
<1>7. BitLen(bytes) = Min(S)
  BY DEF BitLen
<1>8. BitLen(bytes) \in Nat /\ bytes < 2^BitLen(bytes)
  BY <1>6, <1>7
<1>9. Fit(bytes) \in Size /\ BitLen(bytes) <= Fit(bytes)
  BY <1>1, <1>3 DEF Size
<1> DEFINE f == Fit(bytes)
           b == BitLen(bytes)
<1> HIDE DEF f, b
<1>10. f \in Size /\ b \in Nat /\ b <= f /\ bytes < 2^b
  BY <1>8, <1>9 DEF f, b
<1>11. f \in Exponent /\ b \in Exponent
  <2>1. f \in Exponent /\ max_order + VARIANTS[Len(VARIANTS)] \in Nat
    BY <1>10, SizeIs, ShapeAssumption, VariantsAssumption
  <2> QED
    BY <1>10, <2>1 DEF Exponent
<1>12. 2^b <= 2^f /\ 2^b \in Nat /\ 2^f \in Nat
  BY <1>10, <1>11, Multiple, PowersAssumption
<1>13. bytes <= 2^f
  BY <1>4, <1>10, <1>12
<1> QED
  BY <1>10, <1>13 DEF f

(* The block of a request: it divides into pages of the size asked for, at *)
(* least as many as asked for, and begins at a multiple of that size.      *)
LEMMA BlockOf ==
  ASSUME NEW r \in Asked
  PROVE  LET len == 2^r.order \div FramesPer(r.size)
         IN  /\ len * FramesPer(r.size) = 2^r.order
             /\ len \in 1..PageCnt /\ len >= r.cnt
<1> DEFINE f == FramesPer(r.size)
           d == r.size - FRAME_ORDER
           o == r.order
           p == 2^(o - d)
<1>1. r.cnt \in 1..MaxCnt /\ r.size \in Size /\ o \in Order /\ 2^o >= r.cnt * f
  BY OrderCovers DEF Asked
<1>2. d \in Exponent /\ f = 2^d /\ f \in Nat \ {0}
  BY <1>1, SizeIs DEF FramesPer
<1>3. /\ max_order \in Nat /\ tree_cnt \in Nat \ {0} /\ MaxCnt \in Nat
      /\ VARIANTS[Len(VARIANTS)] \in Nat
  BY ShapeAssumption, VariantsAssumption, AskedAssumption
<1>4. o \in Exponent /\ max_order \in Exponent /\ o <= max_order /\ d \in Nat
  BY <1>1, <1>2, <1>3, SMTT(30) DEF Exponent, Order
<1>5. 2^o <= 2^max_order /\ 2^o \in Nat \ {0} /\ 2^max_order \in Nat \ {0}
  BY <1>4, Multiple, PowersAssumption
<1>6. d <= o
  <2> SUFFICES ASSUME o < d PROVE FALSE
    BY <1>4, <1>1, <1>3 DEF Order
  <2> HIDE DEF f, o, d
  <2>1. 2^o < 2^d
    BY <1>2, <1>4, Multiple
  <2>2. 1 * f <= r.cnt * f /\ r.cnt * f \in Nat
    BY <1>1, <1>2, <1>3, MulMono, SMTT(30)
  <2> QED
    BY <1>1, <1>2, <1>3, <1>5, <2>1, <2>2, SMTT(30)
<1>7. p \in Nat \ {0} /\ 2^o = p * f
  BY <1>2, <1>4, <1>6, Multiple
<1> HIDE DEF f, d, o, p
<1>8. 2^o \div f = p
  BY <1>2, <1>7, MulDiv, SMTT(30)
<1>9. p >= r.cnt
  <2> SUFFICES ASSUME p < r.cnt PROVE FALSE
    BY <1>1, <1>3, <1>7, SMTT(30)
  <2>1. (p + 1) * f <= r.cnt * f /\ (p + 1) * f = p * f + f /\ p * f \in Nat /\ r.cnt * f \in Nat
    BY <1>1, <1>2, <1>3, <1>7, MulMono, SMTT(30)
  <2> QED
    BY <1>1, <1>2, <1>7, <2>1, SMTT(30)
<1>10. p <= PageCnt /\ PageCnt \in Nat
  <2>1. p * 1 <= p * f /\ p * f \in Nat
    BY <1>2, <1>7, MulMono, SMTT(30)
  <2>2. 1 * 2^max_order <= tree_cnt * 2^max_order /\ tree_cnt * 2^max_order \in Nat
    BY <1>3, <1>5, MulMono
  <2> QED
    BY <1>5, <1>7, <2>1, <2>2, SMTT(30) DEF PageCnt
<1> QED
  BY <1>7, <1>8, <1>9, <1>10, <1>1 DEF f, o

(* The boundary of a block whose length is a multiple of the page size is  *)
(* as aligned as the first frame is.                                       *)
LEMMA AlignedSum ==
  ASSUME NEW q \in Nat, NEW m \in Nat, NEW f \in Nat \ {0}
  PROVE  (q * f + m * f) % f = 0
<1>1. q * f + m * f = (q + m) * f /\ q + m \in Nat
  OBVIOUS
<1>2. ((q + m) * f) % f = 0
  BY <1>1
<1> QED
  BY <1>1, <1>2

(* PageAddr::new: only the base of the frames can make it refuse a block.  *)
LEMMA OnlyTheBase ==
  ASSUME NEW r \in Asked, NEW i \in Nat, NEW b \in Nat,
         (b + i * 2^r.order) % FramesPer(r.size) # 0
  PROVE  b % FramesPer(VARIANTS[Len(VARIANTS)]) # 0
<1> DEFINE f == FramesPer(r.size)
           l == VARIANTS[Len(VARIANTS)]
           g == FramesPer(l)
           p == 2^r.order \div f
           t == 2^((l - FRAME_ORDER) - (r.size - FRAME_ORDER))
<1> SUFFICES ASSUME b % g = 0 PROVE FALSE
  OBVIOUS
<1>1. r.size \in Size /\ l \in Size /\ f \in Nat \ {0} /\ g \in Nat \ {0}
  BY SizeIs DEF Asked
<1>2. t \in Nat \ {0} /\ g = t * f
  BY <1>1, SizeIs, Multiple, Zenon DEF FramesPer
<1>3. p * f = 2^r.order /\ p \in Nat
  BY BlockOf
<1>4. (b + i * 2^r.order) % f # 0
  OBVIOUS
<1> HIDE DEF f, l, g, p, t
<1>5. b \div g \in Nat /\ b = (b \div g) * g
  BY <1>1, DivMul
<1> DEFINE q == b \div g
<1>6. q \in Nat /\ b = q * (t * f)
  BY <1>2, <1>5
<1> HIDE DEF q
<1>7. b = (q * t) * f /\ q * t \in Nat
  BY <1>1, <1>2, <1>6, SMTT(30)
<1>8. i * 2^r.order = (i * p) * f /\ i * p \in Nat
  BY <1>1, <1>3
<1> DEFINE m == i * p
           n == q * t
<1>9. m \in Nat /\ n \in Nat /\ b = n * f /\ i * 2^r.order = m * f
  BY <1>7, <1>8
<1> HIDE DEF m, n
<1>10. f \in Nat \ {0} /\ m \in Nat /\ n \in Nat
  BY <1>1, <1>9
<1>11. (n * f + m * f) % f = 0
  BY Zenon, <1>10, AlignedSum
<1> QED
  BY <1>4, <1>9, <1>11, SMTT(30)

(* The manager starts with no request, no range and no failed assertion.   *)
LEMMA InitRInv == PhyInit => RInv
BY Zenon DEF PhyInit, Init, RInv, Returning, BigEnough, PanicOnlyMisaligned

(* Steps that leave the ranges alone and write no first frame of one.      *)
LEMMA QuietRInv ==
  ASSUME RInv, UNCHANGED <<base, held, halted>>,
         req' = req \/ req' = None \/ req' \in Asked,
         pc' = "search" \/ Returning("reserve")' =>
           req' \in Asked \/ (req' = req /\ (pc = "search" \/ Returning("reserve"))),
         \A r \in held : frames'[r.idx] = frames[r.idx]
  PROVE  RInv'
<1>1. BigEnough' /\ PanicOnlyMisaligned'
  BY DEF RInv, BigEnough, PanicOnlyMisaligned
<1>2. req' \in Asked \cup {None} /\ (pc' = "search" \/ Returning("reserve")' => req' \in Asked)
  BY DEF RInv
<1>3. \A r \in held' : r.len * FramesPer(r.size) = 2^frames'[r.idx]
  BY DEF RInv
<1> QED
  BY <1>1, <1>2, <1>3 DEF RInv

(* What callers ask for is turned into a request whose block covers it.    *)
LEMMA StartRInv ==
  ASSUME NEW c \in 1..MaxCnt, NEW s \in Size, NEW b \in Layouts \cup {0}, b <= 2^s,
         RInv, Start(Request(c, s, b))
  PROVE  RInv'
<1>1. Request(c, s, b) \in Asked
  BY DEF Request, Asked, Start
<1>2. UNCHANGED <<base, held, halted, frames>> /\ req' \in Asked
  BY <1>1 DEF Start
<1> QED
  BY <1>2, QuietRInv

(* allocate_pages after reserve: the range it returns is the whole block,  *)
(* and its first page is aligned unless the frames begin askew.            *)
LEMMA AllocatedRInv == IInv /\ Untorn /\ PInv /\ RInv /\ Allocated => RInv'
<1> SUFFICES ASSUME IInv, Untorn, PInv, RInv, Allocated PROVE RInv'
  OBVIOUS
<1>1. /\ Returning("reserve") /\ order = req.order /\ blk \in alloc /\ blk[1] = order
      /\ {BlockAt(r.idx) : r \in held} = alloc \ {blk} /\ req \in Asked
  BY DEF Allocated, PInv, RInv, Returning
<1>2. blk \in Node /\ order \in Order /\ FrameIdx = First(blk)
  BY DEF IInv, TypeOK, FrameIdx, First
<1>3. \A r \in held : r.idx # First(blk)
  BY <1>1, NewFirst, SMTT(30)
<1>4. frames' = [frames EXCEPT ![First(blk)] = order] /\ base' = base
  BY <1>1, <1>2 DEF Allocated
<1>5. /\ \A r \in held : frames'[r.idx] = frames[r.idx]
      /\ frames'[First(blk)] = order
  BY Zenon, <1>2, <1>3, <1>4, WriteFrame, FirstPage
<1>6. CASE Misaligned
  <2>1. UNCHANGED <<pc, op, held, req>> /\ halted' = TRUE
    BY <1>6 DEF Allocated, vars, locals
  <2>2. base \in Nat /\ blk[2] \in Nat
    BY <1>2, NodeIs, BasesAssumption, SMTT(30) DEF RInv
  <2>3. (base + blk[2] * 2^req.order) % FramesPer(req.size) # 0
    BY <1>1, <1>6, SMTT(30) DEF Misaligned, FrameIdx
  <2>4. PanicOnlyMisaligned'
    BY <1>1, <1>4, <2>2, <2>3, OnlyTheBase, SMTT(30) DEF PanicOnlyMisaligned
  <2>5. BigEnough'
    BY <1>4, <2>1, SMTT(30) DEF RInv, BigEnough
  <2>6. \A r \in held' : r.len * FramesPer(r.size) = 2^frames'[r.idx]
    BY <1>5, <2>1, SMTT(30) DEF RInv
  <2> QED
    BY <1>1, <1>4, <2>1, <2>4, <2>5, <2>6, SMTT(30) DEF RInv, Returning
<1>7. CASE ~Misaligned
  <2> DEFINE len == 2^req.order \div FramesPer(req.size)
  <2>1. /\ len * FramesPer(req.size) = 2^req.order
        /\ len \in 1..PageCnt /\ len >= req.cnt
    BY <1>1, BlockOf, SMTT(30)
  <2> HIDE DEF len
  <2>2. PICK g : g = [idx |-> First(blk), size |-> req.size, cnt |-> req.cnt,
                      bytes |-> req.bytes, len |-> len]
    BY ZenonT(30)
  <2>3. held' = held \cup {g} /\ req' = None /\ halted' = halted /\ pc' = "idle"
    BY <1>2, <1>7, <2>2 DEF Allocated, Granted, Return, Idle, len
  <2>4. g \in [idx : 0..(PageCnt - 1), size : Size, cnt : 1..MaxCnt,
               bytes : Layouts \cup {0}, len : 1..PageCnt]
    BY <1>1, <1>2, <2>1, <2>2, FirstPage DEF Asked
  <2>5. /\ g.len >= g.cnt /\ g.bytes <= 2^g.size
        /\ (base + g.idx) % FramesPer(g.size) = 0
        /\ g.len * FramesPer(g.size) = 2^frames'[g.idx]
    BY <1>1, <1>2, <1>5, <1>7, <2>1, <2>2, SMTT(30) DEF Asked, Misaligned
  <2>6. BigEnough' /\ PanicOnlyMisaligned'
    BY <1>4, <2>3, <2>5, SMTT(30) DEF RInv, BigEnough, PanicOnlyMisaligned
  <2>7. \A r \in held' : r.len * FramesPer(r.size) = 2^frames'[r.idx]
    BY <1>5, <2>3, <2>5, SMTT(30) DEF RInv
  <2> QED
    BY <1>4, <2>3, <2>4, <2>6, <2>7, SMTT(30) DEF RInv, Returning
<1> QED
  BY <1>6, <1>7

(* Every step of the physical memory manager keeps the ranges fitting.     *)
LEMMA NextRInv == IInv /\ Untorn /\ PInv /\ RInv /\ [PhyNext]_<<vars, phyVars>> => RInv'
<1> SUFFICES ASSUME IInv, Untorn, PInv, RInv, [PhyNext]_<<vars, phyVars>> PROVE RInv'
  OBVIOUS
<1>1. CASE UNCHANGED <<vars, phyVars>>
  <2>1. UNCHANGED <<base, held, halted, req, frames, pc, op>>
    BY <1>1 DEF vars, locals, phyVars
  <2> QED
    BY <2>1, QuietRInv DEF Returning
<1>2. CASE BuddyStep
  <2>1. UNCHANGED <<base, held, halted, req, frames>>
    BY <1>2, SMTT(30) DEF BuddyStep, phyVars
  <2>2. CASE Rewind \/ Descend
    BY <2>1, <2>2, QuietRInv, SMTT(30) DEF Rewind, Descend, Returning
  <2>3. CASE Take
    BY <2>1, <2>3, QuietRInv DEF Take, Returning
  <2>4. CASE FixupUp \/ FixupStop
    <3>1. op' = op /\ pc = "fixup" /\ pc' \in {"fixup", "done"}
      BY <2>4 DEF FixupUp, FixupStop, locals
    <3> QED
      BY <2>1, <3>1, QuietRInv DEF Returning
  <2> QED
    BY <1>2, <2>2, <2>3, <2>4, SMTT(30) DEF BuddyStep
<1>3. CASE BootStep
  <2>1. UNCHANGED <<base, held, halted, req, frames>>
    BY <1>3 DEF BootStep, phyVars
  <2>2. pc' # "search" /\ ~Returning("reserve")'
    BY <1>3 DEF BootStep, FreeForced, StartFixup, Return, Idle, Returning
  <2> QED
    BY <2>1, <2>2, QuietRInv
<1>4. ASSUME NEW cnt \in 1..MaxCnt, NEW i \in DOMAIN VARIANTS,
             AllocatePages(cnt, VARIANTS[i])
      PROVE  RInv'
  <2>1. VARIANTS[i] \in Size /\ 0 <= 2^VARIANTS[i]
    <3>1. VARIANTS[i] \in Size
      BY DEF Size
    <3> QED
      BY <3>1, SizeIs, PowersAssumption, SMTT(30)
  <2> QED
    BY <1>4, <2>1, StartRInv, SMTT(30) DEF AllocatePages
<1>5. ASSUME NEW bytes \in Layouts, Allocate(bytes) PROVE RInv'
  <2>1. Fit(bytes) \in Size /\ bytes <= 2^Fit(bytes)
    BY <1>5, FitHolds DEF Allocate
  <2>2. Start(Request(1, Fit(bytes), bytes))
    BY <1>5 DEF Allocate
  <2>3. 1 \in 1..MaxCnt
    BY AskedAssumption, SMTT(30)
  <2> QED
    BY <2>1, <2>2, <2>3, StartRInv, SMTT(30)
<1>6. ASSUME NEW x \in held, DeallocatePages(x) PROVE RInv'
  <2>1. /\ UNCHANGED <<base, frames, req, halted>> /\ held' = held \ {x}
        /\ pc' # "search" /\ ~Returning("reserve")'
    BY <1>6, SMTT(30) DEF DeallocatePages, FreeNode, StartFixup, Returning
  <2>2. BigEnough' /\ PanicOnlyMisaligned'
    BY <2>1, SMTT(30) DEF RInv, BigEnough, PanicOnlyMisaligned
  <2> QED
    BY <2>1, <2>2, SMTT(30) DEF RInv
<1>7. CASE AllocFailed
  BY <1>7, QuietRInv, SMTT(30) DEF AllocFailed, Return, Idle, Returning
<1>8. CASE Deallocated
  <2>1. /\ UNCHANGED <<base, held, halted, req>> /\ pc' = "idle"
        /\ frames' = [frames EXCEPT ![First(blk)] = 0] /\ Returning("free")
    BY <1>8, SMTT(30) DEF Deallocated, Return, Idle, Returning, FrameIdx, First
  <2>2. 0 \in Order /\ \A r \in held : r.idx # First(blk)
    BY <2>1, ShapeAssumption DEF PInv, Order
  <2>3. \A r \in held : frames'[r.idx] = frames[r.idx]
    BY Zenon, <2>1, <2>2, WriteFrame
  <2> QED
    BY <2>1, <2>3, QuietRInv, SMTT(30) DEF Returning
<1> QED
  BY <1>1, <1>2, <1>3, <1>4, <1>5, <1>6, <1>7, <1>8, AllocatedRInv, SMTT(30) DEF PhyNext, PhyStep

(* The three invariants hold together.                                     *)
LEMMA PhyInvariance == PhySpec => [](Untorn => IInv /\ PInv /\ RInv)
<1> DEFINE I == Untorn => IInv /\ PInv /\ RInv
<1>1. PhyInit => I
  BY InitIInv, InitPInv, InitRInv DEF PhyInit
<1>2. I /\ [PhyNext]_<<vars, phyVars>> => I'
  <2> SUFFICES ASSUME I, [PhyNext]_<<vars, phyVars>>, Untorn' PROVE (IInv /\ PInv /\ RInv)'
    OBVIOUS
  <2>1. Untorn /\ IInv /\ PInv /\ RInv
    BY StaysTorn
  <2>2. IInv'
    BY <2>1, StepIsBuddy, NextIInv
  <2> QED
    BY <2>1, <2>2, NextPInv, NextRInv
<1> QED
  BY <1>1, <1>2, PTL DEF PhySpec

(* The physical memory manager implements the buddy system, unless the     *)
(* boot tore a block: free gets from it only blocks that are out, so that  *)
(* every theorem about the buddy system holds of it, the absence of a      *)
(* double free included.                                                   *)
THEOREM PhyImplementsBuddy == PhySpec => Init /\ FreesOnlyOut
<1>1. PhyInit => Init
  BY DEF PhyInit
<1>2. (Untorn => IInv /\ PInv /\ RInv) /\ [PhyNext]_<<vars, phyVars>>
        => [Untorn => Next]_vars
  BY StepIsBuddy
<1> QED
  BY <1>1, <1>2, PhyInvariance, PTL DEF PhySpec, FreesOnlyOut

(* deallocate_pages always frees the block that allocate_pages reserved:   *)
(* between calls the blocks named by the frames of the ranges that callers *)
(* hold are exactly the blocks the buddy system has out.                   *)
THEOREM FreesWhatItGot == PhySpec => []FreeMatches
<1>1. (Untorn => PInv) => FreeMatches
  <2>1. None \notin Order
    BY BasesAssumption, ShapeAssumption DEF Order
  <2> QED
    BY <2>1 DEF PInv, FreeMatches, Returning
<1> QED
  BY <1>1, PhyInvariance, PTL

(* allocate_pages and allocate return at least the pages asked for, on     *)
(* boundaries of their size, and the assertion of PageAddr::new fails only *)
(* where the frames themselves begin askew.                                *)
THEOREM RangesAlwaysFit == PhySpec => []RangesFit
<1>1. PInv /\ RInv => RangesFit
  <2> SUFFICES ASSUME PInv, RInv PROVE RangesFit
    BY SMTT(30)
  <2>1. PhyTypeOK
    BY DEF PInv, RInv, PhyTypeOK, Asked
  <2> QED
    BY <2>1 DEF RInv, RangesFit
<1>2. ~Untorn => RangesFit
  BY DEF RangesFit
<1> QED
  BY <1>1, <1>2, PhyInvariance, PTL

(* A range that a caller holds is a block that the buddy system has out.   *)
LEMMA RangeIsBlock ==
  ASSUME IInv, Untorn, PInv, RInv, NEW r \in held
  PROVE  /\ BlockAt(r.idx) \in alloc /\ BlockAt(r.idx) \in Node
         /\ Frames(r) = Pages(BlockAt(r.idx))
<1> DEFINE n == BlockAt(r.idx)
<1>1. n \in alloc /\ n \in Node
  BY DEF PInv, IInv, TypeOK
<1>2. n[1] = frames[r.idx] /\ r.idx = First(n) /\ r.len * FramesPer(r.size) = 2^n[1]
  BY DEF PInv, RInv, BlockAt
<1> HIDE DEF n
<1>3. Frames(r) = First(n)..(First(n) + 2^n[1] - 1)
  BY <1>2 DEF Frames
<1> QED
  BY <1>1, <1>3, PagesFrom DEF n

(* Ranges of two callers share no frame.                                   *)
LEMMA RangesApart ==
  ASSUME IInv, Untorn, PInv, RInv, NEW r \in held, NEW s \in held, r # s
  PROVE  Frames(r) \cap Frames(s) = {} /\ Frames(r) # Frames(s)
<1> DEFINE a == BlockAt(r.idx)
           b == BlockAt(s.idx)
<1>1. /\ a \in alloc /\ a \in Node /\ Frames(r) = Pages(a)
      /\ b \in alloc /\ b \in Node /\ Frames(s) = Pages(b)
  BY RangeIsBlock
<1>2. a # b
  BY DEF PInv
<1> HIDE DEF a, b
<1>3. Pages(a) \cap Pages(b) = {} /\ Pages(a) # {}
  BY <1>1, <1>2, PagesApart, PagesNonempty DEF IInv, MapInv, AllocInv, Below
<1> QED
  BY <1>1, <1>3

(* What the callers see of deallocate_pages.                               *)
LEMMA GivenBack ==
  ASSUME IInv, Untorn, PInv, RInv, NEW r \in held, DeallocatePages(r)
  PROVE  Callers!Next
<1>1. held' = held \ {r} /\ marked' = marked /\ Untorn'
  BY DEF DeallocatePages, FreeNode, handed, Untorn
<1>2. PICK n \in Node : n \in alloc /\ Frames(r) = Pages(n)
  BY RangeIsBlock
<1>3. \A s \in held : s # r => Frames(s) # Frames(r) /\ Frames(s) \cap Frames(r) = {}
  BY RangesApart
<1>4. Frames(r) \subseteq marked
  BY <1>2 DEF IInv, MarkInv
<1>5. HeldOut = {Frames(s) : s \in held} /\ HeldOut' = {Frames(s) : s \in held'}
  BY <1>1 DEF HeldOut, Frames
<1>6. HeldOut' = HeldOut \ {Frames(r)} /\ Frames(r) \in HeldOut
  BY <1>1, <1>3, <1>5
<1>7. marked' \ UNION (HeldOut') = (marked \ UNION HeldOut) \cup Frames(r)
  BY <1>1, <1>3, <1>4, <1>5
<1>8. Callers!Deallocate(Pages(n))
  BY Zenon, <1>2, <1>6, <1>7 DEF Callers!Deallocate
<1> QED
  BY <1>8 DEF Callers!Next

(* What the callers see of the return of allocate_pages.                   *)
LEMMA HandedOut ==
  ASSUME IInv, Untorn, PInv, RInv, Allocated, ~Misaligned
  PROVE  Callers!Next
<1>1. /\ {BlockAt(r.idx) : r \in held} = alloc \ {blk} /\ blk \in alloc
      /\ blk[1] = req.order /\ req \in Asked /\ blk \in Node
  BY Zenon DEF Allocated, PInv, RInv, Returning, IInv, TypeOK
<1>2. PICK g : held' = held \cup {g} /\ Frames(g) = Pages(blk)
  <2>1. held' = held \cup {Granted}
    BY DEF Allocated
  <2>2. (2^req.order \div FramesPer(req.size)) * FramesPer(req.size) = 2^req.order
    BY <1>1, BlockOf
  <2>3. Frames(Granted) = First(blk)..(First(blk) + 2^req.order - 1)
    BY <2>2 DEF Frames, Granted, FrameIdx, First
  <2>4. Frames(Granted) = Pages(blk)
    BY <1>1, <2>3, PagesFrom
  <2> QED
    BY Zenon, <2>1, <2>4
<1>3. marked' = marked /\ Untorn'
  BY DEF Allocated, Return, handed, Untorn
<1>4. \A s \in held : Frames(s) \cap Pages(blk) = {}
  <2> TAKE s \in held
  <2>1. PICK a \in Node : a \in alloc /\ a # blk /\ Frames(s) = Pages(a)
    BY <1>1, RangeIsBlock
  <2> QED
    BY <1>1, <2>1, OutApart DEF Apart
<1>5. Pages(blk) \subseteq marked
  BY <1>1 DEF IInv, MarkInv
<1>6. HeldOut = {Frames(s) : s \in held} /\ HeldOut' = {Frames(s) : s \in held'}
  BY <1>3 DEF HeldOut, Frames
<1>7. Pages(blk) \subseteq marked \ UNION HeldOut
  BY <1>4, <1>5, <1>6
<1>8. HeldOut' = HeldOut \cup {Pages(blk)}
  BY <1>2, <1>6
<1>9. marked' \ UNION (HeldOut') = (marked \ UNION HeldOut) \ Pages(blk)
  BY <1>3, <1>8
<1>10. Callers!Allocate(Pages(blk))
  BY Zenon, <1>7, <1>8, <1>9 DEF Callers!Allocate
<1> QED
  BY <1>1, <1>10 DEF Callers!Next

(* To its callers the physical memory manager is a page allocator, unless  *)
(* the boot tore a block.                                                  *)
THEOREM PhyRefinement == PhySpec => PhyIsPageAllocator
<1>1. PhyInit => Callers!Init
  BY DEF PhyInit, Init, Callers!Init, HeldOut
<1>2. (Untorn => IInv /\ PInv /\ RInv) /\ [PhyNext]_<<vars, phyVars>>
        => [Callers!Next]_(Callers!vars)
  <2> SUFFICES ASSUME Untorn => IInv /\ PInv /\ RInv, [PhyNext]_<<vars, phyVars>>
               PROVE  [Callers!Next]_(Callers!vars)
    OBVIOUS
  <2>1. CASE UNCHANGED <<marked, shape, held>>
    <3>1. HeldOut' = HeldOut
      BY <2>1 DEF HeldOut, Untorn, Frames
    <3> QED
      BY <2>1, <3>1 DEF Callers!vars
  <2>2. CASE FreeForced /\ UNCHANGED phyVars
    <3>1. marked \subseteq marked' /\ held' = held /\ (Untorn' => Untorn)
      BY <2>2, StaysTorn DEF FreeForced, phyVars
    <3>2. ASSUME Untorn PROVE held = {}
      <4>1. pc = "idle" /\ alloc = {}
        BY <2>2, <3>2 DEF IInv, BootInv, FreeForced
      <4>2. {BlockAt(r.idx) : r \in held} = alloc
        BY <3>2, <4>1 DEF PInv, Returning
      <4> QED
        BY <4>1, <4>2
    <3>3. HeldOut = {} /\ HeldOut' = {}
      BY <3>1, <3>2 DEF HeldOut
    <3> QED
      BY <3>1, <3>3 DEF Callers!Next, Callers!Donate
  <2>3. CASE ~Untorn /\ UNCHANGED handed
    <3>1. HeldOut' = {} /\ HeldOut = {} /\ marked' = marked
      BY <2>3 DEF HeldOut, Untorn, handed
    <3> QED
      BY <3>1 DEF Callers!vars
  <2>4. CASE Untorn /\ UNCHANGED handed
    <3>1. CASE \E r \in held : DeallocatePages(r)
      BY <2>4, <3>1, GivenBack
    <3>2. CASE Allocated /\ ~Misaligned
      BY <2>4, <3>2, HandedOut
    <3>3. CASE held' = held
      BY <2>1, <2>4, <3>3 DEF handed
    <3> QED
      BY <3>1, <3>2, <3>3
         DEF PhyNext, PhyStep, AllocatePages, Allocate, Start, Allocated, phyVars,
             AllocFailed, Deallocated, BootStep, BuddyStep
  <2> QED
    BY <2>2, <2>3, <2>4, HandedStep
<1> QED
  BY <1>1, <1>2, PhyInvariance, PTL DEF PhySpec, PhyIsPageAllocator, Callers!Spec
=============================================================================
