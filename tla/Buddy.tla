------------------------------- MODULE Buddy -------------------------------
(***************************************************************************)
(* The buddy system of the physical memory manager (src/mem/phy/buddy.rs)  *)
(* on top of its forest of binary trees (src/common/array_forest.rs).      *)
(*                                                                         *)
(* A node of the forest is a pair <<order, idx>>: order is the number of   *)
(* levels below it (max_depth - depth in the code) and idx its position on *)
(* that level, so node <<o, i>> stands for the 2^o pages from i * 2^o.     *)
(* map[n] is the byte Buddy(u8) kept at the node: 0 is "reserved", k + 1   *)
(* is "the largest free block in this subtree has order k".                *)
(*                                                                         *)
(* The loops of reserve and fixup_map are taken one iteration per step, so *)
(* that the intermediate states of the map are states of the model.  The   *)
(* caller holds the lock of PMM for the whole call: no step of another     *)
(* call comes in between, and pc sequences the steps of one call.          *)
(***************************************************************************)
EXTENDS Integers, Sequences

CONSTANTS
  BUDDY_MAX_ORDER,  \* capacity of the search stack, cap of max_order
  max_order,        \* the order of a root, NewMaxOrder(page_cnt)
  tree_cnt,         \* the number of trees, NewTreeCnt(page_cnt)
  Boots             \* sequences of <<page index, order>> the boot hands over

(* The part of BuddySystem::new that chooses the shape of the forest.      *)
NewMaxOrder(page_cnt) ==
  CHOOSE k \in 0..BUDDY_MAX_ORDER :
    /\ 2^k >= page_cnt \/ k = BUDDY_MAX_ORDER
    /\ \A j \in 0..(k - 1) : 2^j < page_cnt

NewTreeCnt(page_cnt) ==
  LET tree == 2^NewMaxOrder(page_cnt)
  IN  (page_cnt + tree - 1) \div tree

(* slice(depth).len(): the number of nodes on a level.                     *)
NodeCnt(o) == tree_cnt * 2^(max_order - o)

PageCnt == tree_cnt * 2^max_order
Order   == 0..max_order
Node    == {n \in Order \X (0..(PageCnt - 1)) : n[2] < NodeCnt(n[1])}

(* The blocks of the boot lie inside the forest.  into_iter of Memblock    *)
(* splits a free area from its start, wherever that is: a block need not   *)
(* be aligned to its size.                                                 *)
BootBlock == {b \in (0..(PageCnt - 1)) \X Order : b[1] + 2^b[2] <= PageCnt}

ASSUME ShapeAssumption ==
  /\ BUDDY_MAX_ORDER \in Nat
  /\ max_order \in 0..BUDDY_MAX_ORDER
  /\ tree_cnt \in Nat \ {0}

ASSUME BootAssumption == Boots \subseteq Seq(BootBlock)

(* How a shift composes: the provers know nothing of exponentiation.       *)
ASSUME ShiftAssumption ==
  /\ \A k \in Order : 2^k \in Nat \ {0}
  /\ 2^0 = 1 /\ 2^1 = 2
  /\ \A j \in Order : \A k \in 0..(max_order - j) : 2^(j + k) = 2^j * 2^k

(***************************************************************************)
(* The moves of a Cursor.                                                  *)
(***************************************************************************)
Left(n)    == <<n[1] - 1, 2 * n[2]>>
Right(n)   == <<n[1] - 1, 2 * n[2] + 1>>
Parent(n)  == <<n[1] + 1, n[2] \div 2>>
Sibling(n) == <<n[1], IF n[2] % 2 = 0 THEN n[2] + 1 ELSE n[2] - 1>>
IsRoot(n)  == n[1] = max_order
IsLeaf(n)  == n[1] = 0

(* Buddy::free, Buddy::reserved, Buddy::order and the derived Ord.         *)
Reserved   == 0
Free(o)    == o + 1
OrderOf(b) == b - 1
BuddyMin(b, c) == IF b >= c THEN c ELSE b                     \* mutant
BuddyMax(b, c) == IF b >= c THEN b ELSE c

Pages(n) == (n[2] * 2^n[1])..((n[2] + 1) * 2^n[1] - 1)

VARIABLES
  map,     \* the forest
  pc,      \* where the call in progress is
  op,      \* which method is being called
  order,   \* its argument
  cursor,  \* its cursor
  stack,   \* the rewind stack of reserve
  blk,     \* the node reserved or freed by the call
  boot,    \* the blocks the boot has still to hand over
  freed,   \* history: the pages handed over by free_forced
  marked,  \* history: the pages of the nodes that free_forced marked
  shape,   \* history: how the blocks handed over lie, see below
  whole,   \* history: the blocks nothing was ever taken out of
  alloc    \* history: the blocks reserve has returned and free not got back

locals  == <<op, order, cursor, stack, blk>>
handed  == <<boot, freed, marked, shape>>
vars    == <<map, pc, locals, handed, whole, alloc>>

Root0 == <<max_order, 0>>

Idle ==
  /\ pc' = "idle" /\ op' = "none" /\ order' = 0
  /\ cursor' = Root0 /\ stack' = << >> /\ blk' = Root0

Init ==
  /\ map = [n \in Node |-> Reserved]
  /\ pc = "idle" /\ op = "none" /\ order = 0
  /\ cursor = Root0 /\ stack = << >> /\ blk = Root0
  /\ boot \in Boots
  /\ freed = {} /\ marked = {} /\ shape = "aligned"
  /\ whole = {} /\ alloc = {}

(***************************************************************************)
(* The order of ancestors, and what a node claims.                         *)
(***************************************************************************)

(* n is d or an ancestor of d.                                             *)
Under(d, n) ==
  /\ d[1] <= n[1]
  /\ n[2] * 2^(n[1] - d[1]) <= d[2]
  /\ d[2] < (n[2] + 1) * 2^(n[1] - d[1])

Below(d, n) == Under(d, n) /\ d # n

(* The node says that its whole block is free.                             *)
Unit(n) == map[n] = Free(n[1])

(* Enter the loop of fixup_map at node n.                                  *)
StartFixup(o, k, n) ==
  /\ pc' = "fixup" /\ op' = o /\ order' = k
  /\ cursor' = n /\ stack' = << >> /\ blk' = n

(***************************************************************************)
(* free_forced: mark a block and everything below it free, level by level. *)
(***************************************************************************)
FilledTooFar(idx, o) ==                                       \* mutant
  {n \in Node : /\ n[1] <= o
                /\ idx \div 2^n[1] <= n[2]
                /\ n[2] <= idx \div 2^n[1] + 2^(o - n[1])}

Filled(idx, o) ==
  {n \in Node : /\ n[1] <= o
                /\ idx \div 2^n[1] <= n[2]
                /\ n[2] < idx \div 2^n[1] + 2^(o - n[1])}

(* The blocks handed over so far are all "aligned" to their size; or some  *)
(* is "shifted"; or they are "torn": a node that was marked lies above     *)
(* one that its block does not reach and that claims a part of itself.     *)
Tears(filled) ==
  \E n \in filled, d \in Node \ filled :
    Under(d, n) /\ ~Unit(d) /\ map[d] # Reserved

FreeForced ==
  /\ pc = "idle" /\ boot # << >>
  /\ LET idx    == Head(boot)[1]
         o      == Head(boot)[2]
         x      == <<o, idx \div 2^o>>
         filled == Filled(idx, o)
     IN  /\ map' = [n \in Node |-> IF n \in filled THEN Free(n[1]) ELSE map[n]]
         /\ StartFixup("free_forced", o, x)
         /\ freed' = freed \cup idx..(idx + 2^o - 1)
         /\ marked' = marked \cup UNION {Pages(n) : n \in filled}
         /\ shape' = IF shape = "torn" \/ Tears(filled) THEN "torn"
                     ELSE IF idx % 2^o # 0 THEN "shifted" ELSE shape
         /\ whole' = {n \in whole : ~Below(x, n)} \cup {n \in filled : Under(n, x)}
  /\ boot' = Tail(boot)
  /\ UNCHANGED alloc

(***************************************************************************)
(* free, called on the index and the order of a node.                      *)
(***************************************************************************)
FreeNoFixup(n) ==                                             \* mutant
  /\ pc = "idle" /\ boot = << >>
  /\ alloc' = alloc \ {n}
  /\ map' = [map EXCEPT ![n] = Free(n[1])]
  /\ UNCHANGED <<pc, locals, handed, whole>>

FreeNode(n) ==
  /\ pc = "idle" /\ boot = << >>
  /\ alloc' = alloc \ {n}
  /\ IF map[n] = Reserved
     THEN /\ map' = [map EXCEPT ![n] = Free(n[1])]
          /\ StartFixup("free", n[1], n)
     ELSE pc' = "panic" /\ UNCHANGED <<map, locals>>      \* Double Free!
  /\ UNCHANGED <<handed, whole>>

(* What its documentation asks of the caller: the block was reserved.      *)
FreeBlock(n) == n \in alloc /\ FreeNode(n)

(***************************************************************************)
(* reserve.                                                                *)
(***************************************************************************)
RootFitsAny(i, o) == map[<<max_order, i>>] # Reserved         \* mutant

RootFits(i, o) ==
  /\ map[<<max_order, i>>] # Reserved
  /\ OrderOf(map[<<max_order, i>>]) > o

Reserve(o) ==
  /\ pc = "idle" /\ boot = << >>
  /\ op' = "reserve" /\ order' = o /\ stack' = << >> /\ blk' = Root0
  /\ \/ \E i \in 0..(tree_cnt - 1) :
          /\ RootFits(i, o)
          /\ \A j \in 0..(i - 1) : ~RootFits(j, o)
          /\ cursor' = <<max_order, i>> /\ pc' = "search"
     \/ /\ \A i \in 0..(tree_cnt - 1) : ~RootFits(i, o)
        /\ cursor' = Root0 /\ pc' = "failed"              \* return None
  /\ UNCHANGED <<map, handed, whole, alloc>>

TooSmall == map[cursor] = Reserved \/ OrderOf(map[cursor]) < order
Exact    == OrderOf(map[cursor]) = order /\ cursor[1] = order

RewindToParent ==                                             \* mutant
  /\ pc = "search" /\ TooSmall /\ stack # << >>
  /\ cursor' = Parent(cursor)
  /\ stack' = SubSeq(stack, 1, Len(stack) - 1)
  /\ UNCHANGED <<pc, map, op, order, blk, handed, whole, alloc>>

(* A subtree without a fit: rewind to the last right sibling passed by.    *)
Rewind ==
  /\ pc = "search" /\ TooSmall
  /\ IF stack = << >>
     THEN pc' = "panic" /\ UNCHANGED <<cursor, stack>>    \* unreachable!
     ELSE /\ cursor' = stack[Len(stack)]
          /\ stack' = SubSeq(stack, 1, Len(stack) - 1)
          /\ UNCHANGED pc
  /\ UNCHANGED <<map, op, order, blk, handed, whole, alloc>>

Descend ==
  /\ pc = "search" /\ ~TooSmall /\ ~Exact
  /\ IF IsLeaf(cursor) \/ Len(stack) = BUDDY_MAX_ORDER
     THEN pc' = "panic" /\ UNCHANGED <<cursor, stack>>    \* assert, full stack
     ELSE /\ stack' = Append(stack, Right(cursor))
          /\ cursor' = Left(cursor)
          /\ UNCHANGED pc
  /\ UNCHANGED <<map, op, order, blk, handed, whole, alloc>>

TakeUnmarked ==                                               \* mutant
  /\ pc = "search" /\ ~TooSmall /\ Exact
  /\ alloc' = alloc \cup {cursor}
  /\ StartFixup("reserve", order, cursor)
  /\ UNCHANGED <<map, handed, whole>>

Take ==
  /\ pc = "search" /\ ~TooSmall /\ Exact
  /\ map' = [map EXCEPT ![cursor] = Reserved]
  /\ alloc' = alloc \cup {cursor}
  /\ StartFixup("reserve", order, cursor)
  /\ whole' = {n \in whole : ~Below(cursor, n)}
  /\ UNCHANGED handed

(***************************************************************************)
(* fixup_map: recompute the parents up to the root or to a parent that is  *)
(* already right.                                                          *)
(***************************************************************************)
Par == BuddyMax(map[cursor], map[Sibling(cursor)])

FixupNeeded == ~IsRoot(cursor) /\ map[Parent(cursor)] # Par

FixupUpOnce ==                                                \* mutant
  /\ pc = "fixup" /\ FixupNeeded
  /\ map' = [map EXCEPT ![Parent(cursor)] = Par]
  /\ pc' = "done"
  /\ UNCHANGED <<locals, handed, whole, alloc>>

FixupUp ==
  /\ pc = "fixup" /\ FixupNeeded
  /\ map' = [map EXCEPT ![Parent(cursor)] = Par]
  /\ cursor' = Parent(cursor)
  /\ UNCHANGED <<pc, op, order, stack, blk, handed, whole, alloc>>

FixupStop ==
  /\ pc = "fixup" /\ ~FixupNeeded
  /\ pc' = "done"
  /\ UNCHANGED <<map, locals, handed, whole, alloc>>

Return ==
  /\ pc \in {"done", "failed"}
  /\ Idle
  /\ UNCHANGED <<map, handed, whole, alloc>>

Step == Rewind \/ Descend \/ Take \/ FixupUp \/ FixupStop \/ Return

Next ==
  \/ FreeForced
  \/ \E n \in alloc : FreeBlock(n)
  \/ \E o \in Order : Reserve(o)
  \/ Step

Spec == Init /\ [][Next]_vars

(* A call, once made, runs: the kernel executes its next instruction.      *)
FairSpec == Spec /\ WF_vars(Step)
-----------------------------------------------------------------------------
(***************************************************************************)
(* Correctness.                                                            *)
(***************************************************************************)

(* Every variable has its type, and the value at a node never claims a     *)
(* block larger than the node: map[n] <= Free(order of n).                 *)
TypeOK ==
  /\ map \in [Node -> 0..(max_order + 1)]
  /\ \A n \in Node : map[n] <= Free(n[1])
  /\ pc \in {"idle", "search", "fixup", "done", "failed", "panic"}
  /\ op \in {"none", "reserve", "free", "free_forced"}
  /\ order \in Order
  /\ cursor \in Node
  /\ stack \in Seq(Node)
  /\ blk \in Node
  /\ boot \in Seq(BootBlock)
  /\ freed \subseteq 0..(PageCnt - 1) /\ marked \subseteq 0..(PageCnt - 1)
  /\ shape \in {"aligned", "shifted", "torn"}
  /\ whole \subseteq Node /\ alloc \subseteq Node

Aligned == shape = "aligned"
Untorn  == shape # "torn"

(* No block that is out contains n, or contains it properly.               *)
Available(n) == \A a \in alloc : ~Under(n, a)
Uncovered(n) == \A a \in alloc : ~Below(n, a)

(* Unless the boot tore a block, no assertion of the code fires: free      *)
(* never sees a block that is already free, the search neither runs off a  *)
(* leaf nor overflows its stack nor ends without the block the root        *)
(* promised.                                                               *)
NoPanic == Untorn => pc # "panic"

(* Unless the boot tore a block, the blocks handed out by reserve and not  *)
(* given back share no page.                                               *)
Apart == \A a, b \in alloc : a # b => Pages(a) \cap Pages(b) = {}
Disjoint == Untorn => Apart

(* reserve hands out only pages of blocks that free_forced marked, and     *)
(* when these were aligned, only pages that the boot handed over.          *)
OnlyFreed == \A a \in alloc : Pages(a) \subseteq IF Aligned THEN freed ELSE marked

(* A reserve that returns None overlooked no larger block that is intact:  *)
(* one that an aligned boot handed over and nothing was ever taken out of. *)
(* A block that was split is another matter: fixup_map never joins two     *)
(* free buddies again.                                                     *)
FailedHonestly ==
  Aligned /\ pc = "failed" =>
    \A n \in whole : Available(n) => n[1] <= order

(* Only a boot of several areas can tear a block: as long as the pages     *)
(* handed over are one area, wherever it begins, none is torn.             *)
TornOnlyByAreas ==
  ~Untorn => \E p, r \in freed : \E q \in p..r : q \notin freed

(* Every step of the buddy system is a step of a page allocator that hands *)
(* out blocks of the forest: Take hands one out, FreeBlock takes one back, *)
(* the boot donates some, and everything else is invisible to the callers. *)
(* Of a torn boot nothing is said.                                         *)
Out == IF Untorn THEN {Pages(a) : a \in alloc} ELSE {}

Outside == INSTANCE PageAllocator WITH
             Block <- {Pages(n) : n \in Node},
             free  <- marked \ UNION Out,
             out   <- Out

IsPageAllocator == Outside!Spec

(* Every call returns, or panics after a boot that tore a block.           *)
CallsReturn ==
  (pc \in {"search", "fixup", "done", "failed"}) ~>
    (pc = "idle" \/ (pc = "panic" /\ ~Untorn))
-----------------------------------------------------------------------------
(***************************************************************************)
(* What comments of the code say and the code does not do.  A page is free *)
(* in fact when the boot handed it over and no block that is out has it.   *)
(***************************************************************************)
FreeInFact(n) == Pages(n) \subseteq freed \ UNION {Pages(a) : a \in alloc}

(* At the early return of reserve: when it returns None, no root contains  *)
(* a block of the order asked for.                                         *)
NoneMeansNoFit ==
  pc = "failed" => \A n \in Node : FreeInFact(n) => n[1] < order

(* The same for the blocks of a larger order, that the strict comparison   *)
(* at the roots is not to blame for.                                       *)
NoneMeansNoLarger ==
  pc = "failed" => \A n \in Node : FreeInFact(n) => n[1] <= order

(* At free_forced: it marks a block as free, so that no page is handed out *)
(* that was in none of these blocks.                                       *)
OnlyHandedOver == \A a \in alloc : Pages(a) \subseteq freed
-----------------------------------------------------------------------------
(***************************************************************************)
(* The inductive invariant.  While fixup_map runs, what it has changed     *)
(* lies under its cursor, and the nodes above the cursor may be stale.     *)
(***************************************************************************)
Stale(d, n) == pc = "fixup" /\ Under(d, cursor) /\ Below(cursor, n)

(* A node in a block that was marked, which the marks did not reach.       *)
Lost(d) == ~Aligned /\ map[d] = Reserved

(* A node that claims its whole block has only such nodes below it.        *)
UnitInv ==
  \A n, d \in Node :
    Unit(n) /\ Under(d, n) => Unit(d) \/ Lost(d) \/ Stale(d, n)

(* A node claims no more than one of its children does, but for the child  *)
(* being smaller than the node.                                            *)
Backed(n, c) == map[n] <= map[c] \/ Unit(c)

ChildInv ==
  \A n \in Node :
    \/ map[n] = Reserved \/ IsLeaf(n)
    \/ Backed(n, Left(n)) \/ Backed(n, Right(n))
    \/ pc = "fixup" /\ ~IsRoot(cursor) /\ n = Parent(cursor)

(* A node claims at least what the available nodes below it do.            *)
SumInv ==
  Aligned =>
    \A n, d \in Node :
      Under(d, n) /\ Available(d) => map[d] <= map[n] \/ Stale(d, n)

(* A block that is out is marked at its node and nowhere below, none lies  *)
(* inside another, and no node above it claims to be free as a whole.      *)
AllocInv ==
  /\ \A a \in alloc : map[a] = Reserved
  /\ \A a \in alloc : \A d \in Node : Below(d, a) => Unit(d) \/ Lost(d)
  /\ \A a \in alloc : IsLeaf(a) \/ Unit(Left(a)) \/ Unit(Right(a))
  /\ \A a, b \in alloc : ~Below(a, b)
  /\ \A a \in alloc : \A n \in Node : Below(a, n) => ~Unit(n) \/ Stale(a, n)

(* An intact block is free as a whole or out as a whole.                   *)
WholeInv ==
  /\ \A n \in whole : Unit(n) \/ n \in alloc
  /\ \A n \in whole : \A a \in alloc : ~Below(a, n)
  /\ pc = "fixup" => \A n \in whole : ~Below(cursor, n)

(* Nothing that is out lies above the node being fixed up, and where there *)
(* is nothing free below a node, the nodes above still claim something.    *)
Reached(n) == \A m \in Node : Below(n, m) => map[m] # Reserved

FixupInv ==
  pc = "fixup" => Uncovered(cursor) /\ (map[cursor] = Reserved => Reached(cursor))

(* A node where the search can still find what it looks for.               *)
Promising(n) == order <= n[1] /\ order < map[n]

SearchInv ==
  pc = "search" =>
    /\ Uncovered(cursor) /\ Reached(cursor)
    /\ \A i \in 1..Len(stack) : Uncovered(stack[i]) /\ Reached(stack[i])
    /\ Promising(cursor) \/ \E i \in 1..Len(stack) : Promising(stack[i])
    /\ cursor[1] + Len(stack) <= max_order
    /\ \A i \in 1..Len(stack) : stack[i][1] + i <= max_order

(* When reserve returns None no available node claims a larger block.      *)
FailedInv ==
  Aligned /\ pc = "failed" =>
    \A n \in Node : Unit(n) /\ Available(n) => n[1] <= order

(* Blocks are searched for and given out only when the boot is over.       *)
BootInv == boot # << >> => alloc = {} /\ pc # "search"

(* What claims to be free, or is out, was marked.                          *)
MarkInv ==
  /\ \A n \in Node : Unit(n) \/ n \in alloc => Pages(n) \subseteq marked
  /\ Aligned => marked = freed

MapInv ==
  /\ pc # "panic"
  /\ UnitInv /\ ChildInv /\ SumInv
  /\ AllocInv /\ WholeInv
  /\ FixupInv /\ SearchInv /\ FailedInv

IInv == TypeOK /\ BootInv /\ MarkInv /\ (Untorn => MapInv)
=============================================================================
