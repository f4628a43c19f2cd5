---------------------------- MODULE ArrayForest -----------------------------
(***************************************************************************)
(* How the forest of the buddy system lies in its buffer                   *)
(* (src/common/array_forest.rs): a cursor is a depth and an offset, moved  *)
(* by shifts alone, and the node at an offset is in the buffer tree_cnt    *)
(* places before it.  Buddy names the same nodes by order and index.       *)
(***************************************************************************)
EXTENDS Buddy

(* A shift by one, for the level below the leaves.                         *)
ASSUME BufferAssumption == 2^(max_order + 1) = 2 * 2^max_order

tree_depth == max_order + 1
max_depth  == tree_depth - 1

offset_start(depth) == tree_cnt * 2^depth

(* buf_layout: the length of the buffer.                                   *)
BufLen == tree_cnt * 2^tree_depth

(* cursor(depth, idx), for a node.                                         *)
Depth(n)  == max_depth - n[1]
Offset(n) == offset_start(Depth(n)) + n[2]

down(offset, child_idx) == offset * 2 + child_idx
UpRounds(offset) == (offset + 1) \div 2                       \* mutant
up(offset)      == offset \div 2
sibling(offset) == IF offset % 2 = 0 THEN offset + 1 ELSE offset - 1

(* get: the place of the node in the buffer; idx: its index on the level.  *)
get(offset)        == offset - tree_cnt
idx(offset, depth) == offset - offset_start(depth)

(* The moves of a cursor at n lead from its offset to that of the node     *)
(* they mean, and the cell of n is in the buffer, the cell of no other     *)
(* node.                                                                   *)
Follows(n) ==
  /\ ~IsLeaf(n) => /\ down(Offset(n), 0) = Offset(Left(n))
                   /\ down(Offset(n), 1) = Offset(Right(n))
  /\ ~IsRoot(n) => /\ up(Offset(n)) = Offset(Parent(n))
                   /\ sibling(Offset(n)) = Offset(Sibling(n))
  /\ get(Offset(n)) \in 0..(BufLen - 1) /\ idx(Offset(n), Depth(n)) = n[2]
  /\ \A k \in Node : get(Offset(k)) = get(Offset(n)) => k = n

(* Wherever reserve and fixup_map go, and whatever their stack brings them *)
(* back to, the cursor is a node and its shifts follow the tree.           *)
CursorFollows ==
  \A n \in {cursor, blk} \cup {stack[i] : i \in DOMAIN stack} : n \in Node /\ Follows(n)
=============================================================================
