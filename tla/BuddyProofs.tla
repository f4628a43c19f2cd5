---------------------------- MODULE BuddyProofs ----------------------------
(* The inductive invariant of Buddy and what follows from it, for every    *)
(* shape of the forest and every sequence of boot blocks.                  *)
EXTENDS ArrayForest, TLAPS

(* Contexts are large here: three provers, each with time.                 *)
USE SMTT(10), ZenonT(10), Z3T(30)

-----------------------------------------------------------------------------
(***************************************************************************)
(* How the nodes of the forest lie above and below each other.             *)
(***************************************************************************)

(* Multiplying by a positive number keeps the order of naturals.           *)
LEMMA MulMono ==
  ASSUME NEW a \in Nat, NEW b \in Nat, NEW s \in Nat \ {0}
  PROVE  /\ a <= b => a * s <= b * s
         /\ a < b  => (a + 1) * s <= b * s
         /\ a * s < b * s => a < b
         /\ a * s \in Nat
OBVIOUS

(* A product divided by one factor is the other factor (idx >> order).     *)
LEMMA MulDiv ==
  ASSUME NEW a \in Nat, NEW s \in Nat \ {0}
  PROVE  (a * s) \div s = a
OBVIOUS

(* An index aligned to a block is the index of the block times its size.   *)
LEMMA DivMul ==
  ASSUME NEW a \in Nat, NEW s \in Nat \ {0}, a % s = 0
  PROVE  a \div s \in Nat /\ a = (a \div s) * s
<1>1. a = (a \div s) * s + (a % s) /\ a \div s \in Int
  OBVIOUS
<1>2. a = (a \div s) * s
  BY <1>1
<1> DEFINE q == a \div s
<1>3. q \in Int /\ q * s >= 0
  BY <1>1, <1>2
<1> HIDE DEF q
<1>4. q >= 0
  BY <1>3
<1> QED
  BY <1>1, <1>2, <1>4 DEF q

(* An index lies in the block that its shift names.                        *)
LEMMA DivBounds ==
  ASSUME NEW a \in Nat, NEW s \in Nat \ {0}
  PROVE  a \div s \in Nat /\ (a \div s) * s <= a /\ a < (a \div s + 1) * s
<1> DEFINE q == a \div s
           r == a % s
<1>1. q \in Int /\ r \in 0..(s - 1) /\ a = q * s + r
  OBVIOUS
<1> HIDE DEF q, r
<1>2. q * s <= a /\ a < (q + 1) * s
  BY <1>1
<1>3. q >= 0
  BY <1>1, <1>2
<1> QED
  BY <1>1, <1>2, <1>3 DEF q

(* The powers of two the code shifts by.                                   *)
LEMMA Shift ==
  /\ max_order \in Nat
  /\ \A k \in Order : 2^k \in Nat \ {0}
  /\ \A k \in Order : k < max_order => 2^(k + 1) = 2 * 2^k
  /\ \A j, k \in Order : j + k \in Order => 2^(j + k) = 2^j * 2^k
<1>1. max_order \in Nat
  BY ShapeAssumption
<1>2. \A k \in Order : k < max_order => 2^(k + 1) = 2 * 2^k
  <2> TAKE k \in Order
  <2> HAVE k < max_order
  <2>1. 1 \in 0..(max_order - k)
    BY <1>1 DEF Order
  <2>2. 2^(k + 1) = 2^k * 2^1
    BY Zenon, <2>1, ShiftAssumption
  <2> QED
    BY <2>2, ShiftAssumption
<1>3. \A j, k \in Order : j + k \in Order => 2^(j + k) = 2^j * 2^k
  BY <1>1, ShiftAssumption DEF Order
<1> QED
  BY <1>1, <1>2, <1>3, ShiftAssumption

(* A level has twice as many nodes as the one above it.                    *)
LEMMA Levels ==
  ASSUME NEW o \in Order
  PROVE  /\ NodeCnt(o) \in Nat \ {0}
         /\ NodeCnt(o) <= PageCnt
         /\ NodeCnt(0) = PageCnt
         /\ o > 0 => NodeCnt(o - 1) = 2 * NodeCnt(o)
         /\ NodeCnt(o) * 2^o = PageCnt
<1>1. tree_cnt \in Nat \ {0} /\ max_order \in Nat /\ o \in 0..max_order
  BY ShapeAssumption DEF Order
<1>2. max_order - o \in Order /\ 2^(max_order - o) \in Nat \ {0} /\ 2^o \in Nat \ {0}
  BY <1>1, Shift DEF Order
<1>3. 2^max_order = 2^(max_order - o) * 2^o
  <2>1. (max_order - o) + o = max_order
    BY <1>1
  <2>2. max_order \in Order
    BY <1>1 DEF Order
  <2> QED
    BY <1>2, <2>1, <2>2, Shift
<1>4. NodeCnt(o) \in Nat \ {0}
  BY <1>1, <1>2 DEF NodeCnt
<1>5. NodeCnt(o) * 2^o = PageCnt
  BY <1>1, <1>2, <1>3 DEF NodeCnt, PageCnt
<1>6. NodeCnt(o) <= PageCnt
  BY <1>2, <1>4, <1>5
<1>7. o > 0 => NodeCnt(o - 1) = 2 * NodeCnt(o)
  <2> HAVE o > 0
  <2>1. 2^((max_order - o) + 1) = 2 * 2^(max_order - o)
    BY <1>1, <1>2, Shift
  <2>2. max_order - (o - 1) = (max_order - o) + 1
    BY <1>1
  <2> QED
    BY <1>1, <1>2, <2>1, <2>2 DEF NodeCnt
<1>8. NodeCnt(0) = PageCnt
  BY <1>1 DEF NodeCnt, PageCnt
<1> QED
  BY <1>4, <1>5, <1>6, <1>7, <1>8

(* What it is to be a node.                                                *)
LEMMA NodeIs ==
  ASSUME NEW n \in Node
  PROVE  /\ n = <<n[1], n[2]>>
         /\ n[1] \in Order /\ n[1] \in Nat /\ n[1] <= max_order
         /\ n[2] \in Nat
         /\ n[2] < NodeCnt(n[1])
BY ShapeAssumption DEF Node, Order

(* An order and an index below the length of its level name a node.        *)
LEMMA IsNode ==
  ASSUME NEW o \in Order, NEW i \in Nat, i < NodeCnt(o)
  PROVE  <<o, i>> \in Node
<1>1. NodeCnt(o) \in Nat \ {0} /\ NodeCnt(o) <= PageCnt /\ NodeCnt(0) = PageCnt
  BY Levels
<1>2. PageCnt \in Nat
  BY Levels, ShapeAssumption DEF Order
<1>3. i \in 0..(PageCnt - 1)
  BY <1>1, <1>2
<1> QED
  BY <1>3 DEF Node

(* Cursor::left and Cursor::right stay in the forest above the leaves.     *)
LEMMA ChildNode ==
  ASSUME NEW n \in Node, n[1] > 0
  PROVE  Left(n) \in Node /\ Right(n) \in Node
<1>1. n[1] - 1 \in Order
  BY NodeIs, ShapeAssumption DEF Order
<1>2. NodeCnt(n[1]) \in Nat \ {0} /\ NodeCnt(n[1] - 1) = 2 * NodeCnt(n[1])
  BY NodeIs, Levels
<1>3. 2 * n[2] \in Nat /\ 2 * n[2] + 1 < NodeCnt(n[1] - 1)
  BY <1>2, NodeIs
<1> QED
  BY <1>1, <1>2, <1>3, NodeIs, IsNode DEF Left, Right

(* Cursor::up and Cursor::sibling stay in the forest below the roots, and  *)
(* a node and its sibling are the two children of its parent.              *)
LEMMA ParentNode ==
  ASSUME NEW n \in Node, n[1] # max_order
  PROVE  /\ Parent(n) \in Node /\ Parent(n)[1] = n[1] + 1
         /\ Sibling(n) \in Node
         /\ \/ n = Left(Parent(n)) /\ Sibling(n) = Right(Parent(n))
            \/ n = Right(Parent(n)) /\ Sibling(n) = Left(Parent(n))
<1>0. max_order \in Nat
  BY ShapeAssumption
<1>1. n[1] + 1 \in Order /\ n[1] + 1 > 0 /\ (n[1] + 1) - 1 = n[1]
  BY <1>0, NodeIs DEF Order
<1>2. NodeCnt(n[1] + 1) \in Nat \ {0} /\ NodeCnt(n[1]) = 2 * NodeCnt(n[1] + 1)
  BY <1>1, Levels
<1>3. n[2] \div 2 \in Nat /\ n[2] \div 2 < NodeCnt(n[1] + 1)
  BY <1>2, NodeIs
<1>4. Parent(n) \in Node /\ Parent(n)[1] = n[1] + 1 /\ Parent(n)[2] = n[2] \div 2
  BY <1>1, <1>3, IsNode DEF Parent
<1>5. CASE n[2] % 2 = 0
  <2>1. n[2] = 2 * (n[2] \div 2)
    BY <1>5, NodeIs
  <2>2. n = Left(Parent(n)) /\ Sibling(n) = Right(Parent(n))
    BY <1>1, <1>4, <1>5, <2>1, NodeIs DEF Left, Right, Sibling
  <2> QED
    BY <1>1, <1>4, <2>2, ChildNode
<1>6. CASE n[2] % 2 # 0
  <2>1. n[2] = 2 * (n[2] \div 2) + 1
    BY <1>6, NodeIs
  <2>2. n = Right(Parent(n)) /\ Sibling(n) = Left(Parent(n))
    <3>1. n[2] - 1 = 2 * (n[2] \div 2)
      BY <2>1, NodeIs
    <3> QED
      BY <1>1, <1>4, <1>6, <2>1, <3>1, NodeIs DEF Left, Right, Sibling
  <2> QED
    BY <1>1, <1>4, <2>2, ChildNode
<1> QED
  BY <1>5, <1>6

-----------------------------------------------------------------------------
(* The order of ancestors.                                                 *)

(* The difference of two orders is an order, with its shift.               *)
LEMMA Diff ==
  ASSUME NEW d \in Node, NEW n \in Node, d[1] <= n[1]
  PROVE  n[1] - d[1] \in Order /\ 2^(n[1] - d[1]) \in Nat \ {0}
<1>1. n[1] - d[1] \in Order
  BY NodeIs, ShapeAssumption DEF Order
<1> QED
  BY <1>1, Shift

(* A node is under itself.                                                 *)
LEMMA UnderRefl ==
  ASSUME NEW n \in Node
  PROVE  Under(n, n)
<1>1. n[1] - n[1] = 0
  BY NodeIs
<1>2. 2^(n[1] - n[1]) = 1
  BY Zenon, <1>1, ShiftAssumption
<1> QED
  BY <1>2, NodeIs DEF Under

(* Under a node of the same level there is only the node itself.           *)
LEMMA UnderLevel ==
  ASSUME NEW d \in Node, NEW n \in Node, Under(d, n)
  PROVE  d[1] <= n[1] /\ (d[1] = n[1] => d = n)
<1>1. ASSUME d[1] = n[1] PROVE d = n
  <2>1. n[1] - d[1] = 0
    BY <1>1, NodeIs
  <2>2. 2^(n[1] - d[1]) = 1
    BY Zenon, <2>1, ShiftAssumption
  <2>3. d[2] = n[2]
    BY <2>2, NodeIs DEF Under
  <2> QED
    BY <1>1, <2>3, NodeIs
<1> QED
  BY <1>1 DEF Under

(* Being under is transitive.                                              *)
LEMMA UnderTrans ==
  ASSUME NEW a \in Node, NEW b \in Node, NEW c \in Node,
         Under(a, b), Under(b, c)
  PROVE  Under(a, c)
<1> DEFINE s == 2^(b[1] - a[1])
           t == 2^(c[1] - b[1])
<1>1. a[1] <= b[1] /\ b[1] <= c[1] /\ a[1] <= c[1]
  BY NodeIs DEF Under
<1>2. s \in Nat \ {0} /\ t \in Nat \ {0}
  BY <1>1, Diff
<1>3. 2^(c[1] - a[1]) = t * s
  <2>1. (c[1] - b[1]) + (b[1] - a[1]) = c[1] - a[1]
    BY NodeIs
  <2> QED
    BY <1>1, <2>1, Diff, Shift
<1>4. /\ c[2] * t <= b[2] /\ b[2] + 1 <= (c[2] + 1) * t
      /\ b[2] * s <= a[2] /\ a[2] < (b[2] + 1) * s
  BY <1>2, NodeIs DEF Under
<1> HIDE DEF s, t
<1>5. (c[2] * t) * s <= b[2] * s /\ (b[2] + 1) * s <= ((c[2] + 1) * t) * s
  <2>1. c[2] * t \in Nat /\ (c[2] + 1) * t \in Nat /\ b[2] + 1 \in Nat
    BY <1>2, NodeIs
  <2> QED
    BY <1>2, <1>4, <2>1, NodeIs, MulMono
<1>6. c[2] * (t * s) <= a[2] /\ a[2] < (c[2] + 1) * (t * s)
  <2>1. (c[2] * t) * s = c[2] * (t * s) /\ ((c[2] + 1) * t) * s = (c[2] + 1) * (t * s)
    BY <1>2, NodeIs
  <2>2. /\ (c[2] * t) * s \in Nat /\ ((c[2] + 1) * t) * s \in Nat
        /\ b[2] * s \in Nat /\ (b[2] + 1) * s \in Nat
    BY <1>2, NodeIs
  <2> QED
    BY <1>4, <1>5, <2>1, <2>2, NodeIs
<1> QED
  BY <1>1, <1>3, <1>6 DEF Under

(* A node lies under its parent.                                           *)
LEMMA UnderParent ==
  ASSUME NEW n \in Node, n[1] # max_order
  PROVE  Under(n, Parent(n))
<1>1. Parent(n)[1] - n[1] = 1 /\ n[1] <= Parent(n)[1]
  BY NodeIs, ParentNode
<1>2. 2^(Parent(n)[1] - n[1]) = 2
  BY Zenon, <1>1, ShiftAssumption
<1>3. Parent(n)[2] = n[2] \div 2
  BY DEF Parent
<1> QED
  BY <1>1, <1>2, <1>3, NodeIs DEF Under

(* Whatever lies properly above a node lies above its parent.              *)
LEMMA AboveParent ==
  ASSUME NEW d \in Node, NEW n \in Node, Below(d, n)
  PROVE  d[1] # max_order /\ Under(Parent(d), n)
<1> DEFINE p == Parent(d)
<1>1. d[1] < n[1]
  BY UnderLevel, NodeIs DEF Below
<1>2. d[1] # max_order
  BY <1>1, NodeIs, ShapeAssumption
<1>3. p \in Node /\ p[1] = d[1] + 1 /\ p[2] = d[2] \div 2
  BY <1>2, ParentNode DEF Parent
<1> HIDE DEF p
<1>4. p[1] <= n[1]
  BY <1>1, <1>3, NodeIs
<1> DEFINE s == 2^(n[1] - p[1])
<1>5. s \in Nat \ {0}
  BY <1>3, <1>4, Diff
<1>6. 2^(n[1] - d[1]) = 2 * s
  <2>1. n[1] - d[1] = (n[1] - p[1]) + 1
    BY <1>3, NodeIs
  <2>2. n[1] - p[1] \in Order /\ n[1] - p[1] < max_order
    BY <1>1, <1>3, <1>4, Diff, NodeIs, ShapeAssumption
  <2> QED
    BY <2>1, <2>2, Shift
<1>7. n[2] * (2 * s) <= d[2] /\ d[2] < (n[2] + 1) * (2 * s)
  BY <1>6 DEF Below, Under
<1> HIDE DEF s
<1>8. n[2] * s <= p[2] /\ p[2] < (n[2] + 1) * s
  <2> DEFINE u == n[2] * s
             v == (n[2] + 1) * s
  <2>1. u \in Nat /\ v \in Nat
    BY <1>5, NodeIs
  <2>2. n[2] * (2 * s) = 2 * u /\ (n[2] + 1) * (2 * s) = 2 * v
    BY <1>5, NodeIs
  <2> HIDE DEF u, v
  <2>3. u <= p[2] /\ p[2] < v
    BY <1>3, <1>7, <2>1, <2>2, NodeIs
  <2> QED
    BY <2>3 DEF u, v
<1> QED
  BY <1>2, <1>4, <1>8 DEF p, s, Under

(* Two ancestors of one node are ancestors of each other.                  *)
LEMMA AncestorChain ==
  ASSUME NEW d \in Node, NEW a \in Node, NEW b \in Node,
         Under(d, a), Under(d, b), a[1] <= b[1]
  PROVE  Under(a, b)
<1> DEFINE s == 2^(a[1] - d[1])
           t == 2^(b[1] - a[1])
<1>1. d[1] <= a[1] /\ d[1] <= b[1]
  BY DEF Under
<1>2. s \in Nat \ {0} /\ t \in Nat \ {0}
  BY <1>1, Diff
<1>3. 2^(b[1] - d[1]) = t * s
  <2>1. (b[1] - a[1]) + (a[1] - d[1]) = b[1] - d[1]
    BY NodeIs
  <2> QED
    BY <1>1, <2>1, Diff, Shift
<1>4. /\ b[2] * (t * s) <= d[2] /\ d[2] < (b[2] + 1) * (t * s)
      /\ a[2] * s <= d[2] /\ d[2] < (a[2] + 1) * s
  BY <1>3 DEF Under
<1> HIDE DEF s, t
<1>5. /\ b[2] * (t * s) = (b[2] * t) * s
      /\ (b[2] + 1) * (t * s) = ((b[2] + 1) * t) * s
      /\ b[2] * t \in Nat /\ (b[2] + 1) * t \in Nat
      /\ (b[2] * t) * s \in Nat /\ ((b[2] + 1) * t) * s \in Nat
      /\ a[2] * s \in Nat /\ (a[2] + 1) * s \in Nat
  BY <1>2, NodeIs
<1>6. (b[2] * t) * s < (a[2] + 1) * s /\ a[2] * s < ((b[2] + 1) * t) * s
  BY <1>4, <1>5, NodeIs
<1>7. b[2] * t < a[2] + 1 /\ a[2] < (b[2] + 1) * t
  BY <1>2, <1>5, <1>6, NodeIs, MulMono
<1> QED
  BY <1>5, <1>7, NodeIs DEF t, Under

(* A node properly below n is under one of the children of n.              *)
LEMMA BelowChild ==
  ASSUME NEW d \in Node, NEW n \in Node, Below(d, n)
  PROVE  n[1] > 0 /\ (Under(d, Left(n)) \/ Under(d, Right(n)))
<1>1. d[1] < n[1]
  BY UnderLevel, NodeIs DEF Below
<1>2. n[1] > 0
  BY <1>1, NodeIs
<1> DEFINE s == 2^((n[1] - 1) - d[1])
<1>3. Left(n) \in Node /\ Left(n)[1] = n[1] - 1 /\ d[1] <= Left(n)[1]
  BY <1>1, <1>2, ChildNode, NodeIs DEF Left
<1>4. s \in Nat \ {0} /\ (n[1] - 1) - d[1] \in Order
  BY <1>3, Diff
<1>5. 2^(n[1] - d[1]) = 2 * s
  <2>1. n[1] - d[1] = ((n[1] - 1) - d[1]) + 1
    BY NodeIs
  <2>2. (n[1] - 1) - d[1] < max_order
    BY <1>1, NodeIs, ShapeAssumption
  <2> QED
    BY <1>4, <2>1, <2>2, Shift
<1>6. n[2] * (2 * s) <= d[2] /\ d[2] < (n[2] + 1) * (2 * s)
  BY <1>5 DEF Below, Under
<1> HIDE DEF s
<1>7. \/ (2 * n[2]) * s <= d[2] /\ d[2] < (2 * n[2] + 1) * s
      \/ (2 * n[2] + 1) * s <= d[2] /\ d[2] < ((2 * n[2] + 1) + 1) * s
  BY <1>4, <1>6, NodeIs
<1> QED
  BY <1>2, <1>3, <1>7 DEF s, Left, Right, Under

(* The children of a node are below it, and it is their parent.            *)
LEMMA ChildBelow ==
  ASSUME NEW n \in Node, n[1] > 0
  PROVE  /\ Below(Left(n), n) /\ Below(Right(n), n)
         /\ Left(n)[1] = n[1] - 1 /\ Right(n)[1] = n[1] - 1
         /\ Left(n)[1] # max_order /\ Right(n)[1] # max_order
         /\ Parent(Left(n)) = n /\ Parent(Right(n)) = n
<1>1. Left(n)[1] = n[1] - 1 /\ Right(n)[1] = n[1] - 1
  BY DEF Left, Right
<1>2. Left(n)[1] # max_order /\ Right(n)[1] # max_order
  BY <1>1, NodeIs, ShapeAssumption
<1>3. (2 * n[2]) \div 2 = n[2] /\ (2 * n[2] + 1) \div 2 = n[2] /\ (n[1] - 1) + 1 = n[1]
  BY NodeIs
<1>4. Parent(Left(n)) = n /\ Parent(Right(n)) = n
  BY <1>3, NodeIs DEF Left, Right, Parent
<1>5. Left(n) # n /\ Right(n) # n
  BY <1>1, NodeIs
<1> QED
  BY <1>1, <1>2, <1>4, <1>5, ChildNode, UnderParent DEF Below

-----------------------------------------------------------------------------
(* The pages of a node are the leaves under it.                            *)
LEMMA Leaf ==
  ASSUME NEW p
  PROVE  p \in 0..(PageCnt - 1) <=> <<0, p>> \in Node
<1>1. 0 \in Order /\ NodeCnt(0) = PageCnt /\ PageCnt \in Nat
  BY Levels, ShapeAssumption DEF Order
<1> QED
  BY <1>1 DEF Node

(* A page is in the block of a node exactly when its leaf is under it.     *)
LEMMA LeafUnder ==
  ASSUME NEW n \in Node, NEW p
  PROVE  p \in Pages(n) <=> <<0, p>> \in Node /\ Under(<<0, p>>, n)
<1> DEFINE s == 2^n[1]
<1>1. s \in Nat \ {0} /\ n[1] - 0 = n[1]
  BY NodeIs, Shift
<1>2. (n[2] + 1) * s <= PageCnt /\ PageCnt \in Nat
  <2>1. NodeCnt(n[1]) \in Nat /\ NodeCnt(n[1]) * s = PageCnt
    BY NodeIs, Levels
  <2>2. n[2] + 1 \in Nat /\ n[2] + 1 <= NodeCnt(n[1])
    BY <2>1, NodeIs
  <2> HIDE DEF s
  <2>3. (n[2] + 1) * s <= NodeCnt(n[1]) * s /\ NodeCnt(n[1]) * s \in Nat
    BY <1>1, <2>1, <2>2, MulMono
  <2> QED
    BY <2>1, <2>3
<1>3. n[2] * s \in Nat /\ (n[2] + 1) * s \in Nat
  BY <1>1, NodeIs
<1>4. p \in Pages(n) <=> p \in Int /\ n[2] * s <= p /\ p < (n[2] + 1) * s
  BY <1>3 DEF Pages
<1>5. p \in Pages(n) => p \in 0..(PageCnt - 1)
  BY <1>2, <1>3, <1>4
<1>6. p \in 0..(PageCnt - 1) => p \in Int
  BY <1>2
<1>7. ASSUME p \in 0..(PageCnt - 1)
      PROVE  p \in Pages(n) <=> Under(<<0, p>>, n)
  BY <1>1, <1>4, <1>6, <1>7, NodeIs DEF Under
<1> QED
  BY <1>5, <1>7, Leaf

(* The pages of a node are pages of the nodes it is under.                 *)
LEMMA PagesInside ==
  ASSUME NEW d \in Node, NEW n \in Node, Under(d, n)
  PROVE  Pages(d) \subseteq Pages(n)
BY Zenon, LeafUnder, UnderTrans

(* Every node has a page.                                                  *)
LEMMA PagesNonempty ==
  ASSUME NEW n \in Node
  PROVE  Pages(n) # {}
<1>1. n[2] \in Nat /\ 2^n[1] \in Nat \ {0}
  BY NodeIs, Shift
<1>2. (n[2] + 1) * 2^n[1] = n[2] * 2^n[1] + 2^n[1] /\ n[2] * 2^n[1] \in Nat
  BY <1>1, MulMono
<1>3. n[2] * 2^n[1] \in Pages(n)
  BY <1>1, <1>2 DEF Pages
<1> QED
  BY <1>3

(* Nodes that are not on one path from a root have no page in common.      *)
LEMMA PagesApart ==
  ASSUME NEW a \in Node, NEW b \in Node, ~Under(a, b), ~Under(b, a)
  PROVE  Pages(a) \cap Pages(b) = {}
<1> SUFFICES ASSUME NEW p, p \in Pages(a), p \in Pages(b) PROVE FALSE
  OBVIOUS
<1>1. <<0, p>> \in Node /\ Under(<<0, p>>, a) /\ Under(<<0, p>>, b)
  BY LeafUnder
<1>2. a[1] <= b[1] \/ b[1] <= a[1]
  BY NodeIs
<1> QED
  BY <1>1, <1>2, AncestorChain

(* free_forced marks the node of a block, and with every node its right    *)
(* child.                                                                  *)
LEMMA FilledNode ==
  ASSUME NEW page, NEW o, <<page, o>> \in BootBlock
  PROVE  LET x == <<o, page \div 2^o>> IN x \in Node /\ x \in Filled(page, o)
<1> DEFINE q == page \div 2^o
           x == <<o, q>>
<1>0. o \in Order /\ page \in 0..(PageCnt - 1)
  BY DEF BootBlock
<1>1. 2^o \in Nat \ {0} /\ page \in Nat /\ NodeCnt(o) \in Nat /\ NodeCnt(o) * 2^o = PageCnt
  BY <1>0, Shift, Levels
<1>2. q \in Nat /\ q * 2^o <= page /\ page < (q + 1) * 2^o
  BY <1>1, DivBounds
<1>3. q < NodeCnt(o)
  <2>1. q * 2^o < NodeCnt(o) * 2^o
    BY <1>0, <1>1, <1>2
  <2> QED
    BY <1>1, <1>2, <2>1, MulMono
<1>4. x \in Node
  BY <1>0, <1>2, <1>3, IsNode
<1>5. 2^(o - o) = 1
  <2>1. o - o = 0
    BY <1>0, ShapeAssumption DEF Order
  <2> QED
    BY Zenon, <2>1, ShiftAssumption
<1>6. x \in Filled(page, o)
  <2>1. x[1] = o /\ x[2] = q /\ o <= o /\ q <= q /\ q < q + 1
    BY <1>0, <1>2, ShapeAssumption DEF Order
  <2>2. page \div 2^x[1] = q /\ 2^(o - x[1]) = 1
    BY Zenon, <1>5, <2>1
  <2> HIDE DEF q, x
  <2> QED
    BY <1>4, <2>1, <2>2 DEF Filled
<1> QED
  BY <1>4, <1>6

LEMMA FilledChild ==
  ASSUME NEW page, NEW o, <<page, o>> \in BootBlock,
         NEW n \in Filled(page, o), n[1] > 0
  PROVE  Right(n) \in Filled(page, o)
<1> DEFINE k == n[1]
           s == 2^(k - 1)
           t == 2^(o - k)
           a == page \div 2^k
           b == page \div s
<1>0. o \in Order /\ page \in Nat /\ n \in Node /\ k <= o
  BY Levels, ShapeAssumption DEF BootBlock, Filled, Order
<1>1. k \in Nat /\ o \in Nat /\ k <= max_order /\ o <= max_order /\ max_order \in Nat
  BY <1>0, NodeIs, ShapeAssumption DEF Order
<1> HIDE DEF k
<1>2. k - 1 \in Order /\ o - k \in Order /\ k \in Order /\ (k - 1) + 1 = k
      /\ o - (k - 1) = (o - k) + 1 /\ k - 1 < max_order /\ o - k < max_order
  <2>1. k > 0
    BY DEF k
  <2> QED
    BY <1>0, <1>1, <2>1 DEF Order
<1>3. 2^k = 2 * s /\ s \in Nat \ {0}
  BY <1>2, Shift
<1>4. 2^(o - (k - 1)) = 2 * t /\ t \in Nat \ {0}
  BY <1>2, Shift
<1>5. a <= n[2] /\ n[2] < a + t
  BY DEF Filled, k
<1>6. a \in Nat /\ a * (2 * s) <= page /\ page < (a + 1) * (2 * s)
  <2>1. a \in Nat /\ a * 2^k <= page /\ page < (a + 1) * 2^k
    BY <1>0, <1>2, Shift, DivBounds
  <2> QED
    BY Zenon, <1>3, <2>1
<1>7. b \in Nat /\ b * s <= page /\ page < (b + 1) * s
  BY <1>0, <1>3, DivBounds
<1>8. Right(n) \in Node /\ Right(n)[1] = k - 1 /\ Right(n)[2] = 2 * n[2] + 1
  BY <1>0, ChildNode DEF Right, k
<1> HIDE DEF s, t, a, b
<1>9. b <= 2 * a + 1
  <2>1. b * s < (2 * (a + 1)) * s
    <3>1. (a + 1) * (2 * s) = (2 * (a + 1)) * s /\ b * s \in Nat /\ (a + 1) * (2 * s) \in Nat
      BY <1>3, <1>6, <1>7
    <3> QED
      BY <1>0, <1>6, <1>7, <3>1
  <2>2. b < 2 * (a + 1)
    BY <1>3, <1>6, <1>7, <2>1, MulMono
  <2> QED
    BY <1>6, <1>7, <2>2
<1>10. 2 * a <= b
  <2>1. (2 * a) * s < (b + 1) * s
    <3>1. a * (2 * s) = (2 * a) * s /\ (2 * a) * s \in Nat /\ (b + 1) * s \in Nat
      BY <1>3, <1>6, <1>7
    <3> QED
      BY <1>0, <1>6, <1>7, <3>1
  <2>2. 2 * a < b + 1
    BY <1>3, <1>6, <1>7, <2>1, MulMono
  <2> QED
    BY <1>6, <1>7, <2>2
<1>11. b <= 2 * n[2] + 1 /\ 2 * n[2] + 1 < b + 2 * t
  BY <1>0, <1>4, <1>5, <1>6, <1>7, <1>9, <1>10, NodeIs
<1>12. k - 1 <= o
  BY <1>0, <1>1
<1> QED
  BY <1>4, <1>8, <1>11, <1>12 DEF Filled, b, s

(* An aligned block is exactly the subtree of its node.                    *)
LEMMA FilledIsSubtree ==
  ASSUME NEW page, NEW o, <<page, o>> \in BootBlock, page % 2^o = 0
  PROVE  LET x == <<o, page \div 2^o>>
         IN  /\ x \in Node
             /\ Filled(page, o) = {d \in Node : Under(d, x)}
             /\ page..(page + 2^o - 1) = Pages(x)
<1> DEFINE q == page \div 2^o
           x == <<o, q>>
<1>0. o \in Order /\ page \in 0..(PageCnt - 1) 
  BY DEF BootBlock
<1>1. 2^o \in Nat \ {0} /\ page \in Nat /\ NodeCnt(o) \in Nat /\ NodeCnt(o) * 2^o = PageCnt
  BY <1>0, Shift, Levels
<1>2. q \in Nat /\ page = q * 2^o
  BY Zenon, <1>0, <1>1, DivMul
<1>3. q < NodeCnt(o)
  <2>1. q * 2^o < NodeCnt(o) * 2^o
    BY <1>0, <1>1, <1>2
  <2> QED
    BY <1>1, <1>2, <2>1, MulMono
<1>4. x \in Node
  BY <1>0, <1>2, <1>3, IsNode
<1>5. page..(page + 2^o - 1) = Pages(x)
  BY <1>1, <1>2 DEF Pages
<1>6. ASSUME NEW d \in Node, d[1] <= o
      PROVE  /\ page \div 2^d[1] = q * 2^(o - d[1])
             /\ page \div 2^d[1] + 2^(o - d[1]) = (q + 1) * 2^(o - d[1])
  <2> DEFINE s == 2^d[1]
             t == 2^(o - d[1])
  <2>1. s \in Nat \ {0} /\ o - d[1] \in Order /\ t \in Nat \ {0}
    BY <1>0, <1>6, NodeIs, ShapeAssumption, Shift DEF Order
  <2>2. 2^o = t * s
    <3>1. (o - d[1]) + d[1] = o
      BY <1>0, NodeIs, ShapeAssumption DEF Order
    <3> QED
      BY <1>0, <2>1, <3>1, NodeIs, Shift
  <2> HIDE DEF s, t, q
  <2>3. page = (q * t) * s /\ q * t \in Nat
    BY <1>2, <2>1, <2>2
  <2>4. page \div s = q * t
    BY <2>1, <2>3, MulDiv
  <2>5. q * t + t = (q + 1) * t
    BY <1>2, <2>1 DEF q
  <2> QED
    BY <2>4, <2>5 DEF s, t
<1>7. Filled(page, o) = {d \in Node : Under(d, x)}
  BY <1>6 DEF Filled, Under
<1> QED
  BY <1>4, <1>5, <1>7

(* Every node has a root above it.                                         *)
LEMMA RootAbove ==
  ASSUME NEW n \in Node
  PROVE  \E i \in 0..(tree_cnt - 1) :
           <<max_order, i>> \in Node /\ Under(n, <<max_order, i>>)
<1> DEFINE s == 2^(max_order - n[1])
           i == n[2] \div s
<1>1. s \in Nat \ {0} /\ tree_cnt \in Nat \ {0} /\ max_order \in Order
  BY NodeIs, Shift, ShapeAssumption DEF Order
<1>2. n[2] \in Nat /\ n[2] < tree_cnt * s /\ n[1] <= max_order
  BY NodeIs DEF NodeCnt
<1> HIDE DEF s
<1>3. i \in Int /\ n[2] = i * s + (n[2] % s) /\ n[2] % s \in 0..(s - 1)
  BY <1>1, <1>2
<1> HIDE DEF i
<1>4. i * s <= n[2] /\ n[2] < (i + 1) * s
  BY <1>1, <1>2, <1>3
<1>5. i >= 0
  BY <1>1, <1>2, <1>3, <1>4
<1>6. i < tree_cnt
  <2>1. i * s < tree_cnt * s
    BY <1>1, <1>2, <1>3, <1>4
  <2> QED
    BY <1>1, <1>3, <1>5, <2>1, MulMono
<1>7. NodeCnt(max_order) = tree_cnt
  <2>1. max_order - max_order = 0
    BY ShapeAssumption
  <2>2. 2^(max_order - max_order) = 1
    BY Zenon, <2>1, ShiftAssumption
  <2> QED
    BY <1>1, <2>2 DEF NodeCnt
<1>8. <<max_order, i>> \in Node
  BY <1>1, <1>3, <1>5, <1>6, <1>7, IsNode
<1>9. Under(n, <<max_order, i>>)
  BY <1>2, <1>4 DEF s, Under
<1>10. i \in 0..(tree_cnt - 1)
  BY <1>1, <1>3, <1>5, <1>6
<1> QED
  BY <1>8, <1>9, <1>10

-----------------------------------------------------------------------------
(***************************************************************************)
(* The inductive invariant.                                                *)
(***************************************************************************)

(* The conjuncts of the type invariant that bound the values of the map.   *)
LEMMA MapType ==
  ASSUME TypeOK, NEW n \in Node
  PROVE  /\ map[n] \in Nat /\ map[n] <= n[1] + 1
         /\ Unit(n) <=> map[n] = n[1] + 1
         /\ Unit(n) => map[n] # Reserved
BY SMTT(30), NodeIs, ShapeAssumption DEF TypeOK, Free, Unit, Reserved

(* Nothing is above a root.                                                *)
LEMMA RootTop ==
  ASSUME NEW i, <<max_order, i>> \in Node, NEW a \in Node
  PROVE  ~Below(<<max_order, i>>, a)
BY AboveParent

(* Every tree has its root (the slice that reserve scans).                 *)
LEMMA RootNode == \A i \in 0..(tree_cnt - 1) : <<max_order, i>> \in Node
<1>1. max_order - max_order = 0 /\ tree_cnt \in Nat \ {0} /\ max_order \in Order
  BY ShapeAssumption DEF Order
<1>2. 2^(max_order - max_order) = 1
  BY Zenon, <1>1, ShiftAssumption
<1>3. NodeCnt(max_order) = tree_cnt
  BY <1>1, <1>2 DEF NodeCnt
<1> QED
  BY <1>1, <1>3, IsNode

(* BuddySystem::new establishes the invariant: everything is reserved.     *)
LEMMA InitIInv == Init => IInv
<1> SUFFICES ASSUME Init PROVE IInv
  OBVIOUS
<1>1. Root0 \in Node
  <2>1. 0 \in 0..(tree_cnt - 1)
    BY ShapeAssumption
  <2> QED
    BY <2>1, RootNode DEF Root0
<1>2. TypeOK
  <2>1. 0 \in Order /\ 0 \in 0..(max_order + 1)
    BY ShapeAssumption DEF Order
  <2>2. \A n \in Node : 0 <= Free(n[1])
    BY NodeIs DEF Free
  <2>3. boot \in Seq(BootBlock)
    BY BootAssumption DEF Init
  <2> QED
    BY <1>1, <2>1, <2>2, <2>3 DEF Init, TypeOK, Reserved
<1>3. \A n \in Node : map[n] = 0 /\ ~Unit(n)
  BY NodeIs DEF Init, Reserved, Unit, Free
<1>4. alloc = {} /\ whole = {} /\ freed = {} /\ marked = {} /\ pc = "idle"
  BY DEF Init
<1>5. UnitInv /\ ChildInv /\ SumInv
  BY <1>3 DEF UnitInv, ChildInv, SumInv, Reserved
<1>6. MapInv
  BY <1>4, <1>5 DEF MapInv, AllocInv, WholeInv, FixupInv, SearchInv, FailedInv
<1>7. MarkInv /\ BootInv
  BY <1>3, <1>4 DEF MarkInv, BootInv
<1> QED
  BY <1>2, <1>6, <1>7 DEF IInv

-----------------------------------------------------------------------------
(* A step that leaves the map, the blocks that are out and what was handed *)
(* over alone, outside fixup_map, keeps everything that is said of them.   *)
LEMMA QuietStep ==
  ASSUME IInv, UNCHANGED <<map, alloc, whole, handed>>, pc # "fixup", pc' # "fixup"
  PROVE  /\ MarkInv' /\ (Untorn' => Untorn) /\ (Untorn => MapInv)
         /\ Untorn => UnitInv' /\ ChildInv' /\ SumInv' /\ AllocInv' /\ WholeInv'
                      /\ FixupInv'
<1>0. UNCHANGED <<map, alloc, whole, freed, marked, shape>> /\ (Aligned' <=> Aligned)
  BY DEF handed, Aligned
<1>1. MarkInv' /\ (Untorn' => Untorn) /\ (Untorn => MapInv)
  BY <1>0 DEF IInv, MarkInv, Unit, Untorn
<1>2. ASSUME Untorn PROVE UnitInv'
  BY <1>0, <1>2 DEF IInv, MapInv, UnitInv, Unit, Stale, Lost
<1>3. ASSUME Untorn PROVE ChildInv'
  BY <1>0, <1>3 DEF IInv, MapInv, ChildInv, Backed, Unit
<1>4. ASSUME Untorn PROVE SumInv'
  BY <1>0, <1>4 DEF IInv, MapInv, SumInv, Stale, Available
<1>5. ASSUME Untorn PROVE AllocInv'
  BY <1>0, <1>5 DEF IInv, MapInv, AllocInv, Unit, Stale, Lost
<1>6. ASSUME Untorn PROVE WholeInv' /\ FixupInv'
  BY <1>0, <1>6 DEF IInv, MapInv, WholeInv, FixupInv, Unit
<1> QED
  BY <1>1, <1>2, <1>3, <1>4, <1>5, <1>6

(* The return of a call preserves the invariant.                           *)
LEMMA ReturnIInv == IInv /\ Return => IInv'
<1> SUFFICES ASSUME IInv, Return PROVE IInv'
  OBVIOUS
<1>1. pc' = "idle" /\ pc # "fixup"
  BY DEF Return, Idle
<1>2. TypeOK'
  <2>1. Root0 \in Node /\ 0 \in Order /\ << >> \in Seq(Node)
    BY RootNode, ShapeAssumption DEF Root0, Order
  <2> QED
    BY <2>1 DEF IInv, TypeOK, Return, Idle, handed
<1>3. UNCHANGED <<map, alloc, whole, handed>> /\ boot' = boot
  BY DEF Return, handed
<1> QED
  BY <1>1, <1>2, <1>3, QuietStep DEF IInv, MapInv, BootInv, SearchInv, FailedInv

(* The scan of the roots in reserve preserves the invariant: either a root *)
(* promises a block, or no larger one is free anywhere.                    *)
LEMMA ReserveIInv ==
  ASSUME NEW o \in Order
  PROVE  IInv /\ Reserve(o) => IInv'
<1> SUFFICES ASSUME IInv, Reserve(o) PROVE IInv'
  OBVIOUS
<1>1. UNCHANGED <<map, alloc, whole, handed>> /\ pc = "idle" /\ boot = << >>
      /\ order' = o /\ stack' = << >> /\ op' = "reserve" /\ blk' = Root0
      /\ pc' \in {"search", "failed"}
  BY DEF Reserve
<1>a. UNCHANGED <<boot, freed, marked, shape>>
  BY <1>1 DEF handed
<1>2. Root0 \in Node
  BY RootNode, ShapeAssumption DEF Root0
<1>3. CASE pc' = "search"
  <2>1. PICK i \in 0..(tree_cnt - 1) : RootFits(i, o) /\ cursor' = <<max_order, i>>
    BY <1>3 DEF Reserve
  <2> DEFINE r == <<max_order, i>>
  <2>2. r \in Node
    BY RootNode
  <2>3. TypeOK'
    BY <1>1, <1>a, <1>2, <1>3, <2>1, <2>2 DEF IInv, TypeOK
  <2>4. Promising(cursor)'
    <3>1. map[r] \in Nat /\ map[r] - 1 > o
      BY <2>1, <2>2, MapType DEF IInv, RootFits, OrderOf
    <3> QED
      BY <1>1, <2>1, <3>1, ShapeAssumption DEF Promising, Order
  <2>5. Uncovered(cursor)' /\ Reached(cursor)'
    BY <1>1, <2>1, <2>2, RootTop DEF IInv, TypeOK, Uncovered, Reached
  <2>6. SearchInv'
    <3>1. Len(stack') = 0 /\ cursor'[1] + Len(stack') <= max_order
      BY <1>1, <2>1, ShapeAssumption
    <3> QED
      BY <2>4, <2>5, <3>1 DEF SearchInv
  <2> QED
    BY <1>1, <1>a, <1>3, <2>3, <2>6, QuietStep DEF IInv, MapInv, BootInv, FailedInv
<1>4. CASE pc' = "failed"
  <2>1. \A i \in 0..(tree_cnt - 1) : ~RootFits(i, o)
    BY <1>4 DEF Reserve
  <2>2. TypeOK'
    BY <1>1, <1>a, <1>2, <1>4 DEF IInv, TypeOK, Reserve
  <2>3. ASSUME Aligned, NEW n \in Node, Unit(n), Available(n) PROVE n[1] <= o
    <3>1. PICK i \in 0..(tree_cnt - 1) :
            <<max_order, i>> \in Node /\ Under(n, <<max_order, i>>)
      BY RootAbove
    <3>2. map[n] <= map[<<max_order, i>>]
      BY <1>1, <2>3, <3>1 DEF IInv, MapInv, SumInv, Stale, Aligned, Untorn
    <3>3. map[<<max_order, i>>] = Reserved \/ ~(map[<<max_order, i>>] - 1 > o)
      BY <2>1 DEF RootFits, OrderOf
    <3>4. map[n] = n[1] + 1 /\ map[<<max_order, i>>] \in Nat /\ o \in Nat
      BY <2>3, <3>1, MapType, ShapeAssumption DEF IInv, Order
    <3> QED
      BY <3>2, <3>3, <3>4, NodeIs DEF Reserved
  <2>4. FailedInv'
    BY <1>1, <1>a, <2>3 DEF FailedInv, Unit, Available, Aligned
  <2> QED
    BY <1>1, <1>a, <1>4, <2>2, <2>4, QuietStep DEF IInv, MapInv, BootInv, SearchInv
<1> QED
  BY <1>1, <1>3, <1>4
-----------------------------------------------------------------------------
(* The search of reserve.                                                  *)

(* stack.pop() leaves the cursors that were below the top.                 *)
LEMMA PopStack ==
  ASSUME NEW S, NEW s \in Seq(S), s # << >>
  PROVE  /\ Len(s) \in Nat \ {0} /\ s[Len(s)] \in S
         /\ SubSeq(s, 1, Len(s) - 1) \in Seq(S)
         /\ Len(SubSeq(s, 1, Len(s) - 1)) = Len(s) - 1
         /\ \A j \in 1..(Len(s) - 1) : SubSeq(s, 1, Len(s) - 1)[j] = s[j]
<1> DEFINE l == Len(s) - 1
           t == SubSeq(s, 1, l)
<1>1. Len(s) \in Nat \ {0} /\ s[Len(s)] \in S
  OBVIOUS
<1>2. l \in Nat /\ l <= Len(s)
  BY <1>1
<1> HIDE DEF l
<1>3. \A j \in 1..l : j \in 1..Len(s)
  BY <1>1, <1>2
<1>4. t \in Seq(S) /\ Len(t) = l /\ \A j \in 1..l : t[j] = s[j]
  BY <1>1, <1>2, <1>3
<1> HIDE DEF t
<1> QED
  BY <1>1, <1>4 DEF l, t

(* The rewind of reserve preserves the invariant: what was promising is    *)
(* still on the stack, so unreachable! is not reached.                     *)
LEMMA RewindIInv == IInv /\ Rewind => IInv'
<1> SUFFICES ASSUME IInv, Rewind PROVE IInv'
  OBVIOUS
<1>1. /\ pc = "search" /\ TooSmall /\ pc' \in {"search", "panic"}
      /\ UNCHANGED <<map, op, order, blk, handed, whole, alloc>>
      /\ UNCHANGED <<boot, freed, marked, shape>>
  BY DEF Rewind, handed
<1>2. cursor \in Node /\ stack \in Seq(Node) /\ order \in Nat
  BY ShapeAssumption DEF IInv, TypeOK, Order
<1>3. TypeOK'
  <2>1. CASE stack = << >>
    BY <1>1, <2>1 DEF IInv, TypeOK, Rewind
  <2>2. CASE stack # << >>
    <3>1. cursor' \in Node /\ stack' \in Seq(Node)
      BY <1>2, <2>2, PopStack DEF Rewind
    <3> QED
      BY <1>1, <3>1 DEF IInv, TypeOK
  <2> QED
    BY <2>1, <2>2
<1>4. ASSUME Untorn PROVE SearchInv' /\ pc' = "search"
  <2>1. ~Promising(cursor)
    <3>1. map[cursor] \in Nat
      BY <1>2, MapType DEF IInv
    <3> QED
      BY <1>1, <1>2, <3>1 DEF TooSmall, Promising, Reserved, OrderOf
  <2>2. SearchInv
    BY <1>4 DEF IInv, MapInv
  <2>3. PICK i \in 1..Len(stack) : Promising(stack[i])
    BY <1>1, <2>1, <2>2 DEF SearchInv
  <2>4. stack # << >> /\ Len(stack) \in Nat \ {0}
    BY <1>2, <2>3
  <2> DEFINE l == Len(stack)
  <2>5. pc' = pc /\ cursor' = stack[l] /\ stack' = SubSeq(stack, 1, l - 1)
    BY <2>4 DEF Rewind
  <2>6. /\ stack' \in Seq(Node) /\ Len(stack') = l - 1
        /\ \A j \in 1..(l - 1) : stack'[j] = stack[j]
        /\ stack[l] \in Node
    BY <1>2, <2>4, <2>5, PopStack
  <2>7. Promising(cursor)' \/ \E j \in 1..Len(stack') : Promising(stack[j])'
    <3>1. CASE i = l
      BY <1>1, <2>3, <2>5, <3>1 DEF Promising
    <3>2. CASE i # l
      <4>1. i \in 1..(l - 1)
        BY <2>4, <3>2
      <4> QED
        BY <1>1, <2>3, <2>6, <4>1 DEF Promising
    <3> QED
      BY <3>1, <3>2
  <2>8. /\ \A j \in 1..l : Uncovered(stack[j]) /\ Reached(stack[j])
        /\ \A j \in 1..l : stack[j][1] + j <= max_order
    BY <1>1, <2>2 DEF SearchInv
  <2>9. Uncovered(cursor)' /\ Reached(cursor)'
    <3>1. l \in 1..l
      BY <2>4
    <3> QED
      BY <1>1, <2>5, <2>8, <3>1 DEF Uncovered, Reached
  <2>10. \A j \in 1..Len(stack') : Uncovered(stack[j])' /\ Reached(stack[j])'
    <3> SUFFICES ASSUME NEW j \in 1..(l - 1) PROVE Uncovered(stack[j])' /\ Reached(stack[j])'
      BY <2>6
    <3>1. j \in 1..l /\ stack'[j] = stack[j]
      BY <2>4, <2>6
    <3> QED
      BY <1>1, <2>8, <3>1 DEF Uncovered, Reached
  <2>11. /\ cursor'[1] + Len(stack') <= max_order
         /\ \A j \in 1..Len(stack') : stack'[j][1] + j <= max_order
    BY SMTT(30), <2>4, <2>5, <2>6, <2>8, NodeIs, ShapeAssumption
  <2> QED
    BY <1>1, <2>5, <2>7, <2>9, <2>10, <2>11 DEF SearchInv
<1>5. pc' # "fixup" /\ pc' # "failed" /\ BootInv'
  BY <1>1 DEF IInv, BootInv
<1> QED
  BY <1>1, <1>3, <1>4, <1>5, QuietStep DEF IInv, MapInv, FailedInv

(* The descent of reserve preserves the invariant: the promise passes to   *)
(* a child, and neither the assertion nor the stack fails.                 *)
LEMMA DescendIInv == IInv /\ Descend => IInv'
<1> SUFFICES ASSUME IInv, Descend PROVE IInv'
  OBVIOUS
<1>1. /\ pc = "search" /\ ~TooSmall /\ ~Exact /\ pc' \in {"search", "panic"}
      /\ UNCHANGED <<map, op, order, blk, handed, whole, alloc>>
      /\ UNCHANGED <<boot, freed, marked, shape>>
  BY DEF Descend, handed
<1> DEFINE c == cursor
           l == Len(stack)
<1>2. c \in Node /\ stack \in Seq(Node) /\ order \in Nat /\ l \in Nat
  BY ShapeAssumption DEF IInv, TypeOK, Order
<1>3. TypeOK'
  <2>1. CASE IsLeaf(cursor) \/ Len(stack) = BUDDY_MAX_ORDER
    BY <1>1, <2>1 DEF IInv, TypeOK, Descend
  <2>2. CASE ~(IsLeaf(cursor) \/ Len(stack) = BUDDY_MAX_ORDER)
    <3>1. Left(c) \in Node /\ Right(c) \in Node
      BY <1>2, <2>2, ChildNode, NodeIs DEF IsLeaf
    <3>2. cursor' \in Node /\ stack' \in Seq(Node)
      BY <1>2, <2>2, <3>1 DEF Descend
    <3> QED
      BY <1>1, <3>2 DEF IInv, TypeOK
  <2> QED
    BY <2>1, <2>2
<1>4. ASSUME Untorn PROVE SearchInv' /\ pc' = "search"
  <2>1. MapInv
    BY <1>4 DEF IInv
  <2>2. map[c] \in Nat /\ map[c] <= c[1] + 1 /\ (Unit(c) <=> map[c] = c[1] + 1)
    BY <1>2, MapType DEF IInv
  <2>3. order < map[c] /\ map[c] # Reserved
    BY <1>1, <1>2, <2>2 DEF TooSmall, Reserved, OrderOf
  <2>4. order < c[1] /\ c[1] > 0
    BY <1>1, <1>2, <2>2, <2>3, NodeIs DEF Exact, OrderOf
  <2>5. c[1] + l <= max_order /\ Reached(c) /\ Uncovered(c)
    BY <1>1, <2>1 DEF MapInv, SearchInv
  <2>6. ~IsLeaf(c) /\ l # BUDDY_MAX_ORDER
    BY <1>2, <2>4, <2>5, NodeIs, ShapeAssumption DEF IsLeaf
  <2>7. pc' = pc /\ stack' = Append(stack, Right(c)) /\ cursor' = Left(c)
    BY <2>6 DEF Descend
  <2>8. /\ Left(c) \in Node /\ Right(c) \in Node
        /\ Left(c)[1] = c[1] - 1 /\ Right(c)[1] = c[1] - 1
        /\ Below(Left(c), c) /\ Parent(Left(c)) = c /\ Parent(Right(c)) = c
    BY <1>2, <2>4, ChildNode, ChildBelow
  <2>9. /\ stack' \in Seq(Node) /\ Len(stack') = l + 1
        /\ \A j \in 1..l : stack'[j] = stack[j]
        /\ stack'[l + 1] = Right(c)
    BY <1>2, <2>7, <2>8
  <2>10. c \notin alloc /\ Available(c)
    <3>1. c \notin alloc
      BY <2>1, <2>3 DEF MapInv, AllocInv
    <3> QED
      BY <2>5, <3>1 DEF Uncovered, Available, Below
  <2>11. ASSUME NEW d \in Node, Parent(d) = c PROVE Uncovered(d) /\ Reached(d)
    <3>1. ASSUME NEW a \in alloc, Below(d, a) PROVE FALSE
      <4>1. a \in Node
        BY DEF IInv, TypeOK
      <4> QED
        BY <2>10, <2>11, <3>1, <4>1, AboveParent DEF Available
    <3>2. ASSUME NEW m \in Node, Below(d, m) PROVE map[m] # Reserved
      <4>1. Under(c, m)
        BY <2>11, <3>2, AboveParent
      <4> QED
        BY <2>3, <2>5, <4>1 DEF Reached, Below
    <3> QED
      BY <3>1, <3>2 DEF Uncovered, Reached
  <2>12. Promising(Left(c)) \/ Promising(Right(c))
    <3>1. order <= Left(c)[1] /\ order <= Right(c)[1]
      BY <1>2, <2>4, <2>8, NodeIs
    <3>2. Backed(c, Left(c)) \/ Backed(c, Right(c))
      BY <1>1, <1>2, <2>1, <2>3, <2>6 DEF MapInv, ChildInv
    <3>3. ASSUME NEW d \in Node, d[1] = c[1] - 1, Backed(c, d) PROVE order < map[d]
      <4>1. map[d] \in Nat /\ (Unit(d) => map[d] = d[1] + 1)
        BY MapType DEF IInv
      <4> QED
        BY <1>2, <2>2, <2>3, <2>4, <3>3, <4>1, NodeIs DEF Backed
    <3> QED
      BY <2>8, <3>1, <3>2, <3>3 DEF Promising
  <2>13. /\ \A j \in 1..l : Uncovered(stack[j]) /\ Reached(stack[j])
         /\ \A j \in 1..l : stack[j][1] + j <= max_order
    BY <1>1, <2>1 DEF MapInv, SearchInv
  <2>14. /\ Uncovered(Left(c)) /\ Uncovered(Right(c))
         /\ Reached(Left(c)) /\ Reached(Right(c))
    BY <2>8, <2>11
  <2>15. Uncovered(cursor)' /\ Reached(cursor)'
    BY <1>1, <2>7, <2>14 DEF Uncovered, Reached
  <2>16. \A j \in 1..Len(stack') : Uncovered(stack[j])' /\ Reached(stack[j])'
    <3> SUFFICES ASSUME NEW j \in 1..(l + 1) PROVE Uncovered(stack[j])' /\ Reached(stack[j])'
      BY <2>9
    <3>1. j \in 1..l \/ j = l + 1
      BY <1>2
    <3> QED
      BY <1>1, <2>9, <2>13, <2>14, <3>1 DEF Uncovered, Reached
  <2>17. Promising(cursor)' \/ \E j \in 1..Len(stack') : Promising(stack[j])'
    <3>1. l + 1 \in 1..Len(stack')
      BY <1>2, <2>9
    <3> QED
      BY <1>1, <2>7, <2>9, <2>12, <3>1 DEF Promising
  <2>18. cursor'[1] + Len(stack') <= max_order
    BY SMTT(30), <1>2, <2>5, <2>7, <2>8, <2>9, NodeIs, ShapeAssumption
  <2>19. \A j \in 1..Len(stack') : stack'[j][1] + j <= max_order
    <3> SUFFICES ASSUME NEW j \in 1..(l + 1) PROVE stack'[j][1] + j <= max_order
      BY <2>9
    <3>1. j \in 1..l \/ j = l + 1
      BY <1>2
    <3>2. CASE j \in 1..l
      BY <2>9, <2>13, <3>2
    <3>3. CASE j = l + 1
      BY SMTT(30), <1>2, <2>5, <2>8, <2>9, <3>3, NodeIs, ShapeAssumption
    <3> QED
      BY <3>1, <3>2, <3>3
  <2> QED
    BY <1>1, <2>7, <2>15, <2>16, <2>17, <2>18, <2>19 DEF SearchInv
<1>5. pc' # "fixup" /\ pc' # "failed" /\ BootInv'
  BY <1>1 DEF IInv, BootInv
<1> QED
  BY <1>1, <1>3, <1>4, <1>5, QuietStep DEF IInv, MapInv, FailedInv
-----------------------------------------------------------------------------
(* The steps that change the map at one node x and start fixup_map there.  *)

(* What a child that is x does to its parent is not yet fixed up.          *)
LEMMA ChildElsewhere ==
  ASSUME NEW n \in Node, NEW x \in Node, n[1] > 0
  PROVE  \/ Left(n) # x /\ Right(n) # x
         \/ x[1] # max_order /\ n = Parent(x)
BY ChildBelow

(* A change at x alone leaves the other nodes as well backed as they were, *)
(* but for the parent of x.                                                *)
LEMMA ChildKept ==
  ASSUME NEW x \in Node, pc # "fixup", ChildInv, pc' = "fixup", cursor' = x,
         \A n \in Node : n # x => map'[n] = map[n],
         \/ map'[x] = Reserved \/ IsLeaf(x)
         \/ Backed(x, Left(x))' \/ Backed(x, Right(x))'
  PROVE  ChildInv'
<1> SUFFICES ASSUME NEW n \in Node, map'[n] # Reserved, ~IsLeaf(n), n # x,
                    ~(x[1] # max_order /\ n = Parent(x))
             PROVE  Backed(n, Left(n))' \/ Backed(n, Right(n))'
  BY DEF ChildInv, IsRoot
<1>1. Backed(n, Left(n)) \/ Backed(n, Right(n))
  BY DEF ChildInv
<1>2. n[1] > 0
  BY NodeIs DEF IsLeaf
<1>3. /\ Left(n) \in Node /\ Right(n) \in Node /\ Left(n) # x /\ Right(n) # x
  BY <1>2, ChildNode, ChildElsewhere
<1> QED
  BY <1>1, <1>3 DEF Backed, Unit

(* Marking the block that reserve found preserves the invariant.           *)
LEMMA TakeIInv == IInv /\ Take => IInv'
<1> SUFFICES ASSUME IInv, Take PROVE IInv'
  OBVIOUS
<1>0. PICK x \in Node : x = cursor
  BY DEF IInv, TypeOK
<1>1. /\ pc = "search" /\ ~TooSmall /\ Exact
      /\ map' = [map EXCEPT ![x] = Reserved]
      /\ alloc' = alloc \cup {x} /\ whole' = {n \in whole : ~Below(x, n)}
      /\ pc' = "fixup" /\ cursor' = x /\ UNCHANGED <<boot, freed, marked, shape>>
  BY <1>0 DEF Take, StartFixup, handed
<1>2. x \in Node /\ TypeOK /\ alloc \subseteq Node /\ whole \subseteq Node
  BY DEF IInv, TypeOK
<1>3. /\ map'[x] = 0
      /\ \A n \in Node : n # x => map'[n] = map[n] /\ (Unit(n)' <=> Unit(n))
  BY <1>1, <1>2 DEF TypeOK, Reserved, Unit
<1>4. ~Unit(x)'
  BY <1>2, <1>3, NodeIs DEF Unit, Free
<1>5. Unit(x) /\ map[x] # Reserved
  <2>1. map[x] = x[1] + 1
    BY <1>0, <1>1, <1>2, MapType, NodeIs DEF Exact, OrderOf
  <2> QED
    BY <1>2, <2>1, MapType
<1>6. TypeOK'
  <2>1. Reserved \in 0..(max_order + 1)
    BY ShapeAssumption DEF Reserved
  <2>2. map' \in [Node -> 0..(max_order + 1)]
    BY <1>1, <1>2, <2>1 DEF TypeOK
  <2>3. \A n \in Node : map'[n] <= n[1] + 1
    BY <1>2, <1>3, MapType, NodeIs
  <2> QED
    BY <1>0, <1>1, <1>2, <2>2, <2>3 DEF TypeOK, Free, Take, StartFixup
<1>7. MarkInv'
  BY <1>1, <1>3, <1>4, <1>5 DEF IInv, MarkInv, Aligned
<1>8. BootInv'
  BY <1>1 DEF IInv, BootInv
<1>9. ASSUME Untorn PROVE MapInv'
  <2>1. MapInv /\ (Aligned' <=> Aligned)
    BY <1>1, <1>9 DEF IInv, Aligned
  <2>2. Uncovered(x) /\ Reached(x) /\ x \notin alloc
    BY <1>0, <1>1, <1>5, <2>1 DEF MapInv, SearchInv, AllocInv
  <2>3. \A d \in Node : Lost(d) => Lost(d)'
    BY <1>3, <2>1 DEF Lost, Reserved
  <2>4. \A n \in Node : Below(x, n) => Stale(x, n)'
    BY <1>1, UnderRefl DEF Stale
  <2>5. \A n, d \in Node : Unit(n) /\ Under(d, n) => Unit(d) \/ Lost(d)
    BY <1>1, <2>1 DEF MapInv, UnitInv, Stale
  <2>6. UnitInv'
    <3> SUFFICES ASSUME NEW n \in Node, NEW d \in Node, Unit(n)', Under(d, n)
                 PROVE  Unit(d)' \/ Lost(d)' \/ Stale(d, n)'
      BY DEF UnitInv
    <3>1. n # x /\ Unit(n)
      BY <1>3, <1>4
    <3>2. Unit(d) \/ Lost(d)
      BY <2>5, <3>1
    <3>3. d = x => Stale(d, n)'
      BY <2>4, <3>1 DEF Below
    <3> QED
      BY <1>3, <2>3, <3>2, <3>3
  <2>7. ChildInv'
    BY <1>1, <1>3, <2>1, ChildKept DEF MapInv, Reserved
  <2>8. SumInv'
    <3> SUFFICES ASSUME Aligned, NEW n \in Node, NEW d \in Node, Under(d, n), Available(d)'
                 PROVE  map'[d] <= map'[n]
      BY <2>1 DEF SumInv
    <3>1. Available(d) /\ ~Under(d, x)
      BY <1>1 DEF Available
    <3>2. d # x /\ n # x
      BY <1>2, <3>1, UnderRefl
    <3> QED
      BY <1>1, <1>3, <2>1, <3>1, <3>2 DEF MapInv, SumInv, Stale
  <2>9. AllocInv'
    <3>0. /\ \A a \in alloc : a \in Node /\ a # x /\ ~Below(x, a)
          /\ \A a \in alloc : \A n \in Node : Below(a, n) => ~Unit(n)
      BY <1>1, <1>2, <2>1, <2>2 DEF MapInv, AllocInv, Stale, Uncovered
    <3>1. ASSUME NEW a \in alloc' PROVE map'[a] = Reserved
      BY <1>1, <1>3, <2>1, <3>0, <3>1 DEF MapInv, AllocInv, Reserved
    <3>2. ASSUME NEW a \in alloc', NEW d \in Node, Below(d, a) PROVE Unit(d)' \/ Lost(d)'
      <4>1. Unit(d) \/ Lost(d)
        BY <1>1, <1>2, <1>5, <2>1, <2>5, <3>2 DEF MapInv, AllocInv, Below
      <4>2. d # x
        BY <1>1, <2>2, <3>2 DEF Uncovered, Below
      <4> QED
        BY <1>3, <2>3, <4>1, <4>2
    <3>3. ASSUME NEW a \in alloc', ~IsLeaf(a) PROVE Unit(Left(a))' \/ Unit(Right(a))'
      <4>0. a \in Node /\ a[1] > 0 /\ Left(a) \in Node /\ Right(a) \in Node
        BY <1>1, <1>2, <3>3, ChildNode, NodeIs DEF IsLeaf
      <4>1. Unit(Left(a)) \/ Unit(Right(a))
        <5>1. CASE a = x
          <6>1. Backed(x, Left(x)) \/ Backed(x, Right(x))
            BY <1>1, <1>5, <2>1, <3>3, <5>1 DEF MapInv, ChildInv
          <6>2. ASSUME NEW c \in Node, c[1] = x[1] - 1, Backed(x, c) PROVE Unit(c)
            <7>1. map[x] = x[1] + 1 /\ map[c] \in Nat /\ map[c] <= c[1] + 1
              BY <1>2, <1>5, MapType
            <7> QED
              BY <6>2, <7>1, NodeIs DEF Backed
          <6> QED
            BY <4>0, <5>1, <6>1, <6>2, ChildBelow
        <5>2. CASE a # x
          BY <1>1, <2>1, <3>3, <5>2 DEF MapInv, AllocInv
        <5> QED
          BY <5>1, <5>2
      <4>2. Left(a) # x /\ Right(a) # x
        BY <1>1, <2>2, <4>0, ChildBelow DEF Uncovered, Below
      <4> QED
        BY <1>3, <4>0, <4>1, <4>2
    <3>4. ASSUME NEW a \in alloc', NEW b \in alloc', Below(a, b) PROVE FALSE
      <4>1. a # x
        BY <1>1, <2>2, <3>4 DEF Uncovered, Below
      <4>2. a \in alloc
        BY <1>1, <4>1
      <4> QED
        BY <1>1, <1>5, <2>1, <3>0, <3>4, <4>2 DEF MapInv, AllocInv
    <3>5. ASSUME NEW a \in alloc', NEW n \in Node, Below(a, n) PROVE ~Unit(n)' \/ Stale(a, n)'
      BY <1>1, <1>3, <1>4, <2>4, <3>0, <3>5
    <3> QED
      BY <3>1, <3>2, <3>3, <3>4, <3>5 DEF AllocInv
  <2>10. WholeInv'
    <3>1. \A n \in whole' : n \in whole /\ n \in Node /\ ~Below(x, n)
      BY <1>1, <1>2
    <3>2. \A n \in whole' : Unit(n)' \/ n \in alloc'
      BY <1>1, <1>3, <2>1, <3>1 DEF MapInv, WholeInv
    <3>3. \A n \in whole', a \in alloc' : ~Below(a, n)
      BY <1>1, <2>1, <3>1 DEF MapInv, WholeInv
    <3> QED
      BY <1>1, <3>1, <3>2, <3>3 DEF WholeInv
  <2>11. FixupInv'
    <3>1. Uncovered(x)'
      BY <1>1, <2>2 DEF Uncovered, Below
    <3>2. Reached(x)'
      BY <1>3, <2>2 DEF Reached, Below
    <3> QED
      BY <1>1, <3>1, <3>2 DEF FixupInv, Uncovered, Reached
  <2> QED
    BY <1>1, <2>6, <2>7, <2>8, <2>9, <2>10, <2>11 DEF MapInv, SearchInv, FailedInv
<1> QED
  BY <1>1, <1>6, <1>7, <1>8, <1>9 DEF IInv, Untorn

(* free preserves the invariant; after an untorn boot its double-free      *)
(* assertion holds.                                                        *)
LEMMA FreeBlockIInv ==
  ASSUME NEW x \in alloc
  PROVE  IInv /\ FreeBlock(x) => IInv'
<1> SUFFICES ASSUME IInv, FreeBlock(x) PROVE IInv'
  OBVIOUS
<1>1. x \in Node /\ TypeOK /\ alloc \subseteq Node /\ whole \subseteq Node
  BY DEF IInv, TypeOK
<1>2. /\ pc = "idle" /\ boot = << >> /\ alloc' = alloc \ {x} /\ whole' = whole
      /\ UNCHANGED <<boot, freed, marked, shape>> /\ (Aligned' <=> Aligned)
  BY DEF FreeBlock, FreeNode, handed, Aligned
<1>3. BootInv'
  BY <1>2 DEF BootInv
<1>4. CASE map[x] # Reserved
  <2>1. pc' = "panic" /\ UNCHANGED <<map, locals>>
    BY <1>4 DEF FreeBlock, FreeNode
  <2>2. TypeOK'
    BY <1>1, <1>2, <2>1 DEF TypeOK, locals
  <2>3. MarkInv'
    BY <1>2, <2>1 DEF IInv, MarkInv, Unit
  <2>4. ~Untorn
    BY <1>4 DEF IInv, MapInv, AllocInv
  <2> QED
    BY <1>2, <1>3, <2>2, <2>3, <2>4 DEF IInv, Untorn
<1>5. CASE map[x] = Reserved
  <2>1. /\ map' = [map EXCEPT ![x] = Free(x[1])]
        /\ pc' = "fixup" /\ cursor' = x
    BY <1>5 DEF FreeBlock, FreeNode, StartFixup
  <2>2. /\ map'[x] = x[1] + 1 /\ Unit(x)'
        /\ \A n \in Node : n # x => map'[n] = map[n] /\ (Unit(n)' <=> Unit(n))
    BY <1>1, <2>1 DEF TypeOK, Free, Unit
  <2>3. TypeOK'
    <3>1. x[1] + 1 \in 0..(max_order + 1)
      BY <1>1, NodeIs, ShapeAssumption
    <3>2. map' \in [Node -> 0..(max_order + 1)]
      BY <1>1, <2>1, <3>1 DEF TypeOK, Free
    <3>3. \A n \in Node : map'[n] <= Free(n[1])
      <4> TAKE n \in Node
      <4>1. n[1] + 1 <= n[1] + 1 /\ map[n] <= n[1] + 1
        BY <1>1, MapType, NodeIs
      <4> QED
        BY <2>2, <4>1 DEF Free
    <3>4. order' = x[1] /\ op' = "free" /\ stack' = << >> /\ blk' = x
      BY <1>5 DEF FreeBlock, FreeNode, StartFixup
    <3> QED
      BY <1>1, <1>2, <2>1, <3>2, <3>3, <3>4, NodeIs DEF TypeOK
  <2>4. MarkInv'
    BY <1>2, <2>2 DEF IInv, MarkInv
  <2>5. ASSUME Untorn PROVE MapInv'
    <3>1. MapInv
      BY <2>5 DEF IInv
    <3>2. \A n \in Node : map'[n] \in Nat /\ map'[n] <= n[1] + 1
      BY <2>3, NodeIs, ShapeAssumption DEF TypeOK, Free
    <3>3. \A n, d \in Node : Unit(n)' /\ Under(d, n) => map'[d] <= map'[n]
      <4> SUFFICES ASSUME NEW n \in Node, NEW d \in Node, Unit(n)', Under(d, n)
                   PROVE  map'[d] <= map'[n]
        OBVIOUS
      <4>1. map'[n] = n[1] + 1 /\ d[1] <= n[1]
        BY UnderLevel DEF Unit, Free
      <4> QED
        BY <3>2, <4>1, NodeIs
    <3>4. \A n \in Node : Below(x, n) => ~Unit(n)
      BY <1>2, <3>1 DEF MapInv, AllocInv, Stale
    <3>5. \A d \in Node : d # x => (Lost(d)' <=> Lost(d))
      BY <1>2, <2>2 DEF Lost
    <3>6. UnitInv'
      <4> SUFFICES ASSUME NEW n \in Node, NEW d \in Node, Unit(n)', Under(d, n)
                   PROVE  Unit(d)' \/ Lost(d)'
        BY DEF UnitInv
      <4>1. CASE d = x
        BY <2>2, <4>1
      <4>2. CASE d # x /\ n = x
        BY <2>2, <3>1, <3>5, <4>2 DEF MapInv, AllocInv, Below
      <4>3. CASE d # x /\ n # x
        BY <1>2, <2>2, <3>1, <3>5, <4>3 DEF MapInv, UnitInv, Stale
      <4> QED
        BY <4>1, <4>2, <4>3
    <3>7. ChildInv'
      <4>1. IsLeaf(x) \/ Backed(x, Left(x))' \/ Backed(x, Right(x))'
        <5> SUFFICES ASSUME ~IsLeaf(x) PROVE Unit(Left(x))' \/ Unit(Right(x))'
          BY DEF Backed
        <5>1. x[1] > 0
          BY <1>1, NodeIs DEF IsLeaf
        <5>2. Left(x) \in Node /\ Right(x) \in Node /\ Left(x) # x /\ Right(x) # x
          BY <1>1, <5>1, ChildNode, ChildBelow DEF Below
        <5> QED
          BY <2>2, <3>1, <5>2 DEF MapInv, AllocInv
      <4> QED
        BY <1>1, <1>2, <2>1, <2>2, <3>1, <4>1, ChildKept DEF MapInv
    <3>8. SumInv'
      <4> SUFFICES ASSUME Aligned, NEW n \in Node, NEW d \in Node, Under(d, n), Available(d)'
                   PROVE  map'[d] <= map'[n] \/ Stale(d, n)'
        BY <1>2 DEF SumInv
      <4>1. CASE n = x
        BY <2>2, <3>3, <4>1
      <4>2. CASE n # x /\ Under(d, x)
        <5>1. Under(n, x) \/ Under(x, n)
          BY <1>1, <4>2, AncestorChain, NodeIs
        <5>2. CASE Under(x, n)
          BY <2>1, <4>2, <5>2 DEF Stale, Below
        <5>3. CASE Under(n, x)
          <6>1. Unit(n)'
            BY <2>2, <3>1, <4>2, <5>3 DEF MapInv, AllocInv, Below, Lost
          <6> QED
            BY <3>3, <6>1
        <5> QED
          BY <5>1, <5>2, <5>3
      <4>3. CASE n # x /\ ~Under(d, x)
        <5>1. d # x /\ Available(d)
          BY <1>1, <1>2, <4>3, UnderRefl DEF Available
        <5> QED
          BY <1>2, <2>2, <3>1, <4>3, <5>1 DEF MapInv, SumInv, Stale
      <4> QED
        BY <4>1, <4>2, <4>3
    <3>9. AllocInv'
      <4>1. /\ \A a \in alloc' : a \in alloc /\ a \in Node /\ a # x
            /\ \A a \in alloc : ~Below(a, x) /\ ~Below(x, a)
        BY <1>1, <1>2, <3>1 DEF MapInv, AllocInv
      <4>2. \A a \in alloc' : map'[a] = Reserved
        BY <2>2, <3>1, <4>1 DEF MapInv, AllocInv
      <4>3. \A a \in alloc', d \in Node : Below(d, a) => Unit(d)' \/ Lost(d)'
        BY <2>2, <3>1, <3>5, <4>1 DEF MapInv, AllocInv
      <4>4. ASSUME NEW a \in alloc', ~IsLeaf(a) PROVE Unit(Left(a))' \/ Unit(Right(a))'
        <5>1. a[1] > 0
          BY <4>1, <4>4, NodeIs DEF IsLeaf
        <5>2. Left(a) \in Node /\ Right(a) \in Node
          BY <4>1, <5>1, ChildNode
        <5> QED
          BY <2>2, <3>1, <4>1, <4>4, <5>2 DEF MapInv, AllocInv
      <4>5. \A a, b \in alloc' : ~Below(a, b)
        BY <3>1, <4>1 DEF MapInv, AllocInv
      <4>6. \A a \in alloc', n \in Node : Below(a, n) => ~Unit(n)'
        BY <1>2, <2>2, <3>1, <4>1 DEF MapInv, AllocInv, Stale
      <4> QED
        BY <4>2, <4>3, <4>4, <4>5, <4>6 DEF AllocInv
    <3>10. WholeInv'
      <4>1. \A n \in whole : n \in Node /\ ~Below(x, n)
        BY <1>1, <3>1 DEF MapInv, WholeInv
      <4> QED
        BY <1>2, <2>1, <2>2, <3>1, <4>1 DEF MapInv, WholeInv
    <3>11. FixupInv'
      <4>1. Uncovered(x)'
        BY <1>2, <3>1 DEF MapInv, AllocInv, Uncovered
      <4>2. map'[x] # Reserved
        BY <1>1, <2>2, NodeIs DEF Reserved
      <4> QED
        BY <2>1, <4>1, <4>2 DEF FixupInv, Uncovered
    <3> QED
      BY <2>1, <3>6, <3>7, <3>8, <3>9, <3>10, <3>11 DEF MapInv, SearchInv, FailedInv
  <2> QED
    BY <1>2, <1>3, <2>3, <2>4, <2>5 DEF IInv, Untorn
<1> QED
  BY <1>4, <1>5

(* free_forced preserves the invariant during the boot.                    *)
LEMMA FreeForcedIInv == IInv /\ FreeForced => IInv'
<1> SUFFICES ASSUME IInv, FreeForced PROVE IInv'
  OBVIOUS
<1>1. TypeOK /\ pc = "idle" /\ boot # << >> /\ alloc = {} /\ alloc' = {}
  BY DEF IInv, BootInv, FreeForced
<1>2. PICK page, o : Head(boot) = <<page, o>> /\ <<page, o>> \in BootBlock
  <2>1. Head(boot) \in BootBlock
    BY <1>1 DEF TypeOK
  <2> QED
    BY <2>1 DEF BootBlock
<1>3. PICK x, filled : x = <<o, page \div 2^o>> /\ filled = Filled(page, o)
  BY Zenon
<1>4. x \in Node /\ x \in filled /\ filled \subseteq Node
  BY <1>2, <1>3, FilledNode DEF Filled
<1>5. /\ map' = [n \in Node |-> IF n \in filled THEN Free(n[1]) ELSE map[n]]
      /\ pc' = "fixup" /\ cursor' = x /\ stack' = << >> /\ blk' = x
      /\ op' = "free_forced" /\ order' = o /\ boot' = Tail(boot)
      /\ freed' = freed \cup page..(page + 2^o - 1)
      /\ marked' = marked \cup UNION {Pages(n) : n \in filled}
      /\ shape' = IF shape = "torn" \/ Tears(filled) THEN "torn"
                  ELSE IF page % 2^o # 0 THEN "shifted" ELSE shape
      /\ whole' = {n \in whole : ~Below(x, n)} \cup {n \in filled : Under(n, x)}
  <2>1. Head(boot)[1] = page /\ Head(boot)[2] = o
    BY <1>2
  <2>2. /\ map' = [n \in Node |-> IF n \in filled THEN Free(n[1]) ELSE map[n]]
        /\ StartFixup("free_forced", o, x) /\ boot' = Tail(boot)
    BY <1>3, <2>1 DEF FreeForced
  <2>3. /\ freed' = freed \cup page..(page + 2^o - 1)
        /\ marked' = marked \cup UNION {Pages(n) : n \in filled}
        /\ shape' = IF shape = "torn" \/ Tears(filled) THEN "torn"
                    ELSE IF page % 2^o # 0 THEN "shifted" ELSE shape
        /\ whole' = {n \in whole : ~Below(x, n)} \cup {n \in filled : Under(n, x)}
    BY Zenon, <1>3, <2>1 DEF FreeForced
  <2> QED
    BY Zenon, <2>2, <2>3 DEF StartFixup
<1>6. /\ \A n \in filled : Unit(n)' /\ map'[n] = n[1] + 1
      /\ \A n \in Node : n \notin filled => map'[n] = map[n] /\ (Unit(n)' <=> Unit(n))
      /\ \A n \in Node : Unit(n) => Unit(n)'
  BY <1>4, <1>5 DEF Unit, Free
<1>7. /\ Aligned' => Aligned /\ page % 2^o = 0
      /\ Untorn' => Untorn /\ ~Tears(filled)
  BY <1>5 DEF Aligned, Untorn
<1>8. ASSUME Aligned'
      PROVE  filled = {d \in Node : Under(d, x)} /\ page..(page + 2^o - 1) = Pages(x)
  BY <1>2, <1>3, <1>7, <1>8, FilledIsSubtree
<1>9. TypeOK'
  <2>1. \A n \in Node : Free(n[1]) \in 0..(max_order + 1)
    BY NodeIs, ShapeAssumption DEF Free
  <2>2. map' \in [Node -> 0..(max_order + 1)]
    BY <1>1, <1>5, <2>1 DEF TypeOK
  <2>3. \A n \in Node : map'[n] <= Free(n[1])
    <3> TAKE n \in Node
    <3>1. n[1] + 1 <= n[1] + 1 /\ map[n] <= n[1] + 1
      BY <1>1, MapType, NodeIs
    <3> QED
      BY <1>6, <3>1 DEF Free
  <2>4. freed' \subseteq 0..(PageCnt - 1)
    <3>1. page \in 0..(PageCnt - 1) /\ page + 2^o <= PageCnt /\ 2^o \in Nat /\ PageCnt \in Nat
      BY <1>2, Shift, Levels DEF BootBlock
    <3>2. \A k \in Nat : page + k <= PageCnt => page..(page + k - 1) \subseteq 0..(PageCnt - 1)
      BY <3>1
    <3>3. page..(page + 2^o - 1) \subseteq 0..(PageCnt - 1)
      BY Zenon, <3>1, <3>2
    <3> QED
      BY Zenon, <1>1, <1>5, <3>3 DEF TypeOK
  <2>5. marked' \subseteq 0..(PageCnt - 1)
    <3>1. \A n \in Node : Pages(n) \subseteq 0..(PageCnt - 1)
      BY Zenon, LeafUnder, Leaf
    <3> QED
      BY Zenon, <1>1, <1>4, <1>5, <3>1 DEF TypeOK
  <2>6. o \in Order /\ boot' \in Seq(BootBlock)
    BY <1>1, <1>2, <1>5 DEF TypeOK, BootBlock
  <2>7. shape' \in {"aligned", "shifted", "torn"} /\ whole' \subseteq Node
    BY <1>1, <1>4, <1>5 DEF TypeOK
  <2> QED
    BY <1>1, <1>4, <1>5, <2>2, <2>3, <2>4, <2>5, <2>6, <2>7 DEF TypeOK
<1>10. BootInv'
  BY <1>1, <1>5 DEF BootInv
<1>11. MarkInv'
  <2>1. \A n \in Node : Unit(n)' => Pages(n) \subseteq marked'
    BY <1>5, <1>6 DEF IInv, MarkInv
  <2>2. ASSUME Aligned' PROVE marked' = freed'
    <3>1. UNION {Pages(n) : n \in filled} = Pages(x)
      <4>1. \A n \in filled : Pages(n) \subseteq Pages(x)
        BY <1>4, <1>8, <2>2, PagesInside
      <4> QED
        BY <1>4, <4>1
    <3> QED
      BY Zenon, <1>5, <1>7, <1>8, <2>2, <3>1 DEF IInv, MarkInv
  <2> QED
    BY <1>1, <2>1, <2>2 DEF MarkInv
<1>12. ASSUME Untorn' PROVE MapInv'
  <2>1. MapInv /\ ~Tears(filled)
    BY <1>7, <1>12 DEF IInv
  <2>2. UnitInv'
    <3> SUFFICES ASSUME NEW n \in Node, NEW d \in Node, Unit(n)', Under(d, n), d \notin filled
                 PROVE  Unit(d)' \/ Lost(d)'
      BY <1>6 DEF UnitInv
    <3>1. CASE n \in filled
      <4>1. Unit(d) \/ map[d] = Reserved
        BY <2>1, <3>1 DEF Tears
      <4>2. ~Aligned'
        BY <1>4, <1>8, <3>1, UnderTrans
      <4> QED
        BY <1>6, <4>1, <4>2 DEF Lost
    <3>2. CASE n \notin filled
      <4>1. Unit(d) \/ Lost(d)
        BY <1>1, <1>6, <2>1, <3>2 DEF MapInv, UnitInv, Stale
      <4> QED
        BY <1>6, <1>7, <4>1 DEF Lost
    <3> QED
      BY <3>1, <3>2
  <2>3. ChildInv'
    <3> SUFFICES ASSUME NEW n \in Node, map'[n] # Reserved, ~IsLeaf(n)
                 PROVE  Backed(n, Left(n))' \/ Backed(n, Right(n))'
      BY DEF ChildInv
    <3>1. n[1] > 0 /\ Left(n) \in Node /\ Right(n) \in Node
      BY ChildNode, NodeIs DEF IsLeaf
    <3>2. CASE n \in filled
      <4>1. Right(n) \in filled
        BY <1>2, <1>3, <3>1, <3>2, FilledChild
      <4> QED
        BY <1>6, <4>1 DEF Backed
    <3>3. CASE n \notin filled
      <4>1. map'[n] = map[n] /\ (Backed(n, Left(n)) \/ Backed(n, Right(n)))
        BY <1>1, <1>6, <2>1, <3>3 DEF MapInv, ChildInv
      <4>2. ASSUME NEW c \in Node, Backed(n, c) PROVE Backed(n, c)'
        BY <1>6, <4>1, <4>2 DEF Backed
      <4> QED
        BY <3>1, <4>1, <4>2
    <3> QED
      BY <3>2, <3>3
  <2>4. SumInv'
    <3> SUFFICES ASSUME Aligned', NEW n \in Node, NEW d \in Node, Under(d, n)
                 PROVE  map'[d] <= map'[n] \/ Stale(d, n)'
      BY DEF SumInv
    <3>0. \A m \in Node : m \in filled <=> Under(m, x)
      BY <1>8
    <3>1. CASE Under(n, x)
      <4>1. Under(d, x) /\ d[1] <= n[1]
        BY <1>4, <3>1, UnderTrans, UnderLevel
      <4> QED
        BY <1>6, <3>0, <3>1, <4>1, NodeIs
    <3>2. CASE ~Under(n, x) /\ Under(d, x)
      <4>1. Under(x, n) /\ x # n
        BY <1>4, <3>2, AncestorChain, NodeIs, UnderRefl
      <4> QED
        BY <1>5, <3>2, <4>1 DEF Stale, Below
    <3>3. CASE ~Under(n, x) /\ ~Under(d, x)
      <4>1. Available(d) /\ Aligned
        BY <1>1, <1>7 DEF Available
      <4> QED
        BY <1>1, <1>6, <2>1, <3>0, <3>3, <4>1 DEF MapInv, SumInv, Stale
    <3> QED
      BY <3>1, <3>2, <3>3
  <2>5. AllocInv'
    BY <1>1 DEF AllocInv
  <2>6. WholeInv'
    <3>1. \A n \in whole' : n \in Node /\ Unit(n)'
      BY <1>1, <1>4, <1>5, <1>6, <2>1 DEF MapInv, WholeInv, TypeOK
    <3>2. \A n \in Node : Under(n, x) => ~Below(x, n)
      BY <1>4, UnderLevel, NodeIs DEF Below
    <3> QED
      BY <1>1, <1>4, <1>5, <3>1, <3>2 DEF WholeInv
  <2>7. FixupInv'
    <3>1. map'[x] # Reserved
      BY <1>4, <1>6, NodeIs DEF Reserved
    <3> QED
      BY <1>1, <1>5, <3>1 DEF FixupInv, Uncovered
  <2> QED
    BY <1>5, <2>2, <2>3, <2>4, <2>5, <2>6, <2>7 DEF MapInv, SearchInv, FailedInv
<1> QED
  BY <1>9, <1>10, <1>11, <1>12 DEF IInv

-----------------------------------------------------------------------------
(* fixup_map.                                                              *)

(* The facts about the cursor c of fixup_map and its parent p that the two *)
(* steps of the loop share.                                                *)
LEMMA FixupFacts ==
  ASSUME IInv, pc = "fixup", NEW c \in Node, c = cursor, c[1] # max_order,
         NEW p \in Node, p = Parent(c)
  PROVE  /\ Sibling(c) \in Node /\ p[1] = c[1] + 1 /\ p[1] > 0
         /\ \/ c = Left(p) /\ Sibling(c) = Right(p)
            \/ c = Right(p) /\ Sibling(c) = Left(p)
         /\ Under(c, p) /\ c # p /\ ~Under(p, c)
         /\ Par \in Nat /\ Par < p[1] + 1 /\ Par # p[1] + 1 /\ Par <= Par
         /\ Par = map[c] \/ Par = map[Sibling(c)]
         /\ Par = Reserved => map[c] = Reserved
         /\ \A n \in Node : Below(c, n) => Under(p, n)
         /\ Untorn => Available(p)
         /\ Untorn /\ Aligned =>
              \A d \in Node : Below(d, p) /\ Available(d) => map[d] <= Par
<1>1. /\ Sibling(c) \in Node /\ p[1] = c[1] + 1
      /\ \/ c = Left(p) /\ Sibling(c) = Right(p)
         \/ c = Right(p) /\ Sibling(c) = Left(p)
  BY ParentNode
<1>2. Under(c, p) /\ c # p /\ ~Under(p, c) /\ p[1] > 0
  BY <1>1, UnderParent, UnderLevel, NodeIs
<1>3. ASSUME Untorn PROVE Available(p)
  <2> SUFFICES ASSUME NEW a \in alloc, Under(p, a) PROVE FALSE
    BY DEF Available
  <2>1. a \in Node /\ Under(c, a) /\ a # c
    BY <1>2, UnderTrans DEF IInv, TypeOK
  <2> QED
    BY <1>3, <2>1 DEF IInv, MapInv, FixupInv, Uncovered, Below
<1>4. /\ map[c] \in Nat /\ map[c] <= c[1] + 1
      /\ map[Sibling(c)] \in Nat /\ map[Sibling(c)] <= c[1] + 1
  <2>1. Sibling(c)[1] = c[1]
    BY <1>1, ChildBelow, <1>2
  <2> QED
    BY <1>1, <2>1, MapType DEF IInv
<1>5. /\ Par \in Nat /\ Par < p[1] + 1 /\ Par # p[1] + 1 /\ Par <= Par
      /\ map[c] <= Par /\ map[Sibling(c)] <= Par
      /\ Par = map[c] \/ Par = map[Sibling(c)]
  BY <1>1, <1>4, NodeIs DEF Par, BuddyMax
<1>6. ASSUME Untorn, Aligned, NEW d \in Node, Below(d, p), Available(d) PROVE map[d] <= Par
  <2>0. SumInv
    BY <1>6 DEF IInv, MapInv
  <2>1. Under(d, c) \/ Under(d, Sibling(c))
    BY <1>1, <1>6, BelowChild
  <2>2. CASE Under(d, c)
    <3>1. map[d] <= map[c]
      BY <1>6, <2>0, <2>2 DEF SumInv, Stale, Below
    <3> QED
      BY <1>4, <1>5, <1>6, <3>1, MapType DEF IInv
  <2>3. CASE Under(d, Sibling(c))
    <3>1. ~Below(c, Sibling(c))
      <4>1. c[1] = Sibling(c)[1]
        BY <1>1, <1>2, ChildBelow
      <4> QED
        BY <1>1, <4>1, UnderLevel DEF Below
    <3>2. map[d] <= map[Sibling(c)]
      BY <1>1, <1>6, <2>0, <2>3, <3>1 DEF SumInv, Stale
    <3> QED
      BY <1>4, <1>5, <1>6, <3>2, MapType DEF IInv
  <2> QED
    BY <2>1, <2>2, <2>3
<1>7. Par = Reserved => map[c] = Reserved
  BY <1>4, <1>5 DEF Reserved
<1> QED
  BY <1>1, <1>2, <1>3, <1>5, <1>6, <1>7, AboveParent

(* An iteration of fixup_map preserves the invariant: what was stale moves *)
(* one level up.                                                           *)
LEMMA FixupUpIInv == IInv /\ FixupUp => IInv'
<1> SUFFICES ASSUME IInv, FixupUp PROVE IInv'
  OBVIOUS
<1>0. PICK c \in Node : c = cursor
  BY DEF IInv, TypeOK
<1>1. c[1] # max_order
  BY <1>0 DEF FixupUp, FixupNeeded, IsRoot
<1>2. PICK p \in Node : p = Parent(c)
  BY <1>1, ParentNode
<1>3. PICK v : v = Par
  OBVIOUS
<1>4. /\ pc = "fixup" /\ pc' = "fixup" /\ cursor' = p
      /\ map' = [map EXCEPT ![p] = v]
      /\ UNCHANGED <<op, order, stack, blk, boot, freed, marked, shape, whole, alloc>>
  BY <1>0, <1>2, <1>3 DEF FixupUp, handed
<1>5. /\ Sibling(c) \in Node /\ p[1] = c[1] + 1 /\ p[1] > 0
      /\ \/ c = Left(p) /\ Sibling(c) = Right(p)
         \/ c = Right(p) /\ Sibling(c) = Left(p)
      /\ Under(c, p) /\ c # p /\ ~Under(p, c)
      /\ v \in Nat /\ v < p[1] + 1 /\ v # p[1] + 1 /\ v <= v
      /\ v = map[c] \/ v = map[Sibling(c)]
      /\ v = Reserved => map[c] = Reserved
      /\ \A n \in Node : Below(c, n) => Under(p, n)
      /\ Untorn => Available(p)
      /\ Untorn /\ Aligned =>
           \A d \in Node : Below(d, p) /\ Available(d) => map[d] <= v
  BY <1>0, <1>1, <1>2, <1>3, <1>4, FixupFacts
<1>6. /\ map'[p] = v /\ ~Unit(p)'
      /\ \A n \in Node : n # p => map'[n] = map[n] /\ (Unit(n)' <=> Unit(n))
  BY <1>4, <1>5 DEF IInv, TypeOK, Unit, Free
<1>7. TypeOK'
  <2>1. v \in 0..(max_order + 1) /\ v <= Free(p[1])
    BY <1>5, NodeIs, ShapeAssumption DEF Free
  <2>2. map' \in [Node -> 0..(max_order + 1)] /\ \A n \in Node : map'[n] <= Free(n[1])
    BY <1>4, <1>6, <2>1 DEF IInv, TypeOK
  <2> QED
    BY <1>4, <2>2 DEF IInv, TypeOK
<1>8. BootInv' /\ (Aligned' <=> Aligned) /\ (Untorn' <=> Untorn)
  BY <1>4 DEF IInv, BootInv, Aligned, Untorn
<1>9. MarkInv'
  BY <1>4, <1>6, <1>8 DEF IInv, MarkInv
<1>10. ASSUME Untorn PROVE MapInv'
  <2>1. MapInv /\ Available(p)
    BY <1>5, <1>10 DEF IInv
  <2>2. ASSUME NEW n \in Node, NEW d \in Node, n # p, Stale(d, n) PROVE Stale(d, n)'
    <3>1. Under(d, c) /\ Below(c, n)
      BY <1>0, <2>2 DEF Stale
    <3>2. Under(d, p) /\ Below(p, n)
      BY <1>5, <2>2, <3>1, UnderTrans DEF Below
    <3> QED
      BY <1>4, <3>2 DEF Stale
  <2>3. ASSUME NEW n \in Node, n # p, Under(p, n) PROVE Stale(p, n)'
    BY <1>4, <2>3, UnderRefl DEF Stale, Below
  <2>4. \A d \in Node : d # p => (Lost(d)' <=> Lost(d))
    BY <1>6, <1>8 DEF Lost
  <2>5. UnitInv'
    <3> SUFFICES ASSUME NEW n \in Node, NEW d \in Node, Unit(n)', Under(d, n)
                 PROVE  Unit(d)' \/ Lost(d)' \/ Stale(d, n)'
      BY DEF UnitInv
    <3>1. n # p /\ Unit(n)
      BY <1>6
    <3>2. Unit(d) \/ Lost(d) \/ Stale(d, n)
      BY <2>1, <3>1 DEF MapInv, UnitInv
    <3> QED
      BY <1>6, <2>2, <2>3, <2>4, <3>1, <3>2
  <2>6. ChildInv'
    <3> SUFFICES ASSUME NEW n \in Node, map'[n] # Reserved, ~IsLeaf(n),
                        ~(p[1] # max_order /\ n = Parent(p))
                 PROVE  Backed(n, Left(n))' \/ Backed(n, Right(n))'
      BY <1>4 DEF ChildInv, IsRoot
    <3>1. CASE n = p
      <4>1. p # Sibling(c)
        BY <1>5, ChildBelow DEF Below
      <4>2. map'[c] = map[c] /\ map'[Sibling(c)] = map[Sibling(c)]
        BY <1>5, <1>6, <4>1
      <4>3. v <= v
        BY <1>5
      <4> QED
        BY <1>5, <1>6, <3>1, <4>2, <4>3 DEF Backed
    <3>2. CASE n # p
      <4>1. map'[n] = map[n] /\ (Backed(n, Left(n)) \/ Backed(n, Right(n)))
        BY <1>0, <1>2, <1>6, <2>1, <3>2 DEF MapInv, ChildInv
      <4>2. n[1] > 0
        BY NodeIs DEF IsLeaf
      <4>3. /\ Left(n) \in Node /\ Right(n) \in Node /\ Left(n) # p /\ Right(n) # p
        BY <4>2, ChildNode, ChildElsewhere
      <4> QED
        BY <1>6, <4>1, <4>3 DEF Backed
    <3> QED
      BY <3>1, <3>2
  <2>7. SumInv'
    <3> SUFFICES ASSUME Aligned, NEW n \in Node, NEW d \in Node, Under(d, n), Available(d)'
                 PROVE  map'[d] <= map'[n] \/ Stale(d, n)'
      BY <1>8 DEF SumInv
    <3>0. Available(d)
      BY <1>4 DEF Available
    <3>1. CASE n = p /\ d = p
      BY <1>5, <1>6, <3>1
    <3>2. CASE n = p /\ d # p
      BY <1>5, <1>6, <1>10, <3>0, <3>2 DEF Below
    <3>3. CASE n # p /\ d = p
      BY <2>3, <3>3
    <3>4. CASE n # p /\ d # p
      BY <1>6, <2>1, <2>2, <3>0, <3>4 DEF MapInv, SumInv
    <3> QED
      BY <3>1, <3>2, <3>3, <3>4
  <2>8. AllocInv'
    <3>0. AllocInv
      BY <2>1 DEF MapInv
    <3>1. \A a \in alloc : a \in Node /\ ~Under(p, a) /\ a # p
      BY <2>1, UnderRefl DEF IInv, TypeOK, Available
    <3>2. \A a \in alloc : map'[a] = Reserved
      BY <1>6, <3>0, <3>1 DEF AllocInv
    <3>3. \A a \in alloc, d \in Node : Below(d, a) => Unit(d)' \/ Lost(d)'
      BY <1>6, <2>4, <3>0, <3>1 DEF AllocInv, Below
    <3>4. ASSUME NEW a \in alloc, ~IsLeaf(a) PROVE Unit(Left(a))' \/ Unit(Right(a))'
      <4>1. a[1] > 0
        BY <3>1, <3>4, NodeIs DEF IsLeaf
      <4>2. Left(a) \in Node /\ Right(a) \in Node /\ Left(a) # p /\ Right(a) # p
        BY <3>1, <4>1, ChildNode, ChildBelow DEF Below
      <4> QED
        BY <1>6, <3>0, <3>4, <4>2 DEF AllocInv
    <3>5. \A a \in alloc, n \in Node : Below(a, n) => ~Unit(n)' \/ Stale(a, n)'
      BY <1>6, <2>2, <3>0, <3>1 DEF AllocInv
    <3> QED
      BY <1>4, <3>0, <3>2, <3>3, <3>4, <3>5 DEF AllocInv
  <2>9. WholeInv'
    <3>1. \A n \in whole : n \in Node /\ n # p /\ ~Below(p, n)
      <4>1. \A n \in whole : n \in Node /\ ~Below(c, n)
        BY <1>0, <1>4, <2>1 DEF IInv, TypeOK, MapInv, WholeInv
      <4>2. \A n \in Node : Below(p, n) => Under(c, n) /\ (n = c => FALSE)
        BY <1>5, UnderTrans DEF Below
      <4> QED
        BY <1>5, <4>1, <4>2 DEF Below
    <3> QED
      BY <1>4, <1>6, <2>1, <3>1 DEF MapInv, WholeInv
  <2>10. FixupInv'
    <3>1. Uncovered(p)'
      BY <1>4, <2>1 DEF Uncovered, Available, Below
    <3>2. ASSUME v = Reserved, NEW m \in Node, Below(p, m) PROVE map'[m] # Reserved
      <4>1. Reached(c)
        BY <1>0, <1>4, <1>5, <2>1, <3>2 DEF MapInv, FixupInv
      <4>2. Below(c, m) /\ m # p
        BY <1>5, <3>2, UnderTrans DEF Below
      <4> QED
        BY <1>6, <4>1, <4>2 DEF Reached
    <3> QED
      BY <1>4, <1>6, <3>1, <3>2 DEF FixupInv, Uncovered, Reached
  <2> QED
    BY <1>4, <2>5, <2>6, <2>7, <2>8, <2>9, <2>10 DEF MapInv, SearchInv, FailedInv
<1> QED
  BY <1>7, <1>8, <1>9, <1>10 DEF IInv

(* The early exit of fixup_map preserves the invariant: a parent that is   *)
(* right proves all its ancestors right.                                   *)
LEMMA FixupStopIInv == IInv /\ FixupStop => IInv'
<1> SUFFICES ASSUME IInv, FixupStop PROVE IInv'
  OBVIOUS
<1>0. PICK c \in Node : c = cursor
  BY DEF IInv, TypeOK
<1>1. /\ pc = "fixup" /\ pc' = "done" /\ (Aligned' <=> Aligned) /\ (Untorn' <=> Untorn)
      /\ UNCHANGED <<map, locals, boot, freed, marked, shape, whole, alloc>>
  BY DEF FixupStop, handed, Aligned, Untorn
<1>2. TypeOK' /\ BootInv' /\ MarkInv'
  <2>1. TypeOK'
    BY <1>1 DEF IInv, TypeOK, locals
  <2> QED
    BY <1>1, <2>1 DEF IInv, BootInv, MarkInv, Unit
<1>3. ASSUME c[1] = max_order, MapInv PROVE UnitInv' /\ SumInv' /\ ChildInv' /\ AllocInv'
  <2>1. \A n \in Node : ~Below(c, n)
    BY <1>3, AboveParent
  <2>2. \A n, d \in Node : ~Stale(d, n)
    BY <1>0, <2>1 DEF Stale
  <2>3. UnitInv' /\ SumInv'
    BY <1>1, <1>3, <2>2 DEF MapInv, UnitInv, SumInv, Unit, Lost, Available
  <2>4. ChildInv'
    BY <1>0, <1>1, <1>3 DEF MapInv, ChildInv, Backed, Unit, IsRoot
  <2>5. AllocInv'
    BY <1>1, <1>2, <1>3, <2>2 DEF MapInv, AllocInv, Unit, Lost, TypeOK
  <2> QED
    BY <2>3, <2>4, <2>5
<1>4. ASSUME c[1] # max_order, Untorn, MapInv PROVE UnitInv' /\ SumInv' /\ ChildInv' /\ AllocInv'
  <2>1. PICK p \in Node : p = Parent(c)
    BY <1>4, ParentNode
  <2>2. map[p] = Par
    BY <1>0, <1>4, <2>1 DEF FixupStop, FixupNeeded, IsRoot
  <2>3. /\ Sibling(c) \in Node /\ p[1] = c[1] + 1 /\ p[1] > 0
        /\ \/ c = Left(p) /\ Sibling(c) = Right(p)
           \/ c = Right(p) /\ Sibling(c) = Left(p)
        /\ Under(c, p) /\ c # p /\ ~Under(p, c)
        /\ Par \in Nat /\ Par < p[1] + 1 /\ Par # p[1] + 1 /\ Par <= Par
        /\ Par = map[c] \/ Par = map[Sibling(c)]
        /\ Par = Reserved => map[c] = Reserved
        /\ \A n \in Node : Below(c, n) => Under(p, n)
        /\ Aligned => \A d \in Node : Below(d, p) /\ Available(d) => map[d] <= Par
    BY <1>0, <1>1, <1>4, <2>1, FixupFacts
  <2>4. ~Unit(p) /\ ~Lost(p)
    <3>1. ~Unit(p)
      BY <2>2, <2>3, MapType DEF IInv
    <3>2. map[c] = Reserved => map[p] # Reserved
      BY <1>0, <1>1, <1>4, <2>3 DEF MapInv, FixupInv, Reached, Below
    <3> QED
      BY <2>2, <2>3, <3>1, <3>2 DEF Lost
  <2>5. ASSUME NEW n \in Node, NEW d \in Node, Stale(d, n)
        PROVE  Under(d, c) /\ Below(c, n) /\ Under(p, n) /\ ~Stale(p, n)
    BY <1>0, <2>3, <2>5 DEF Stale
  <2>6. \A n, d \in Node : Unit(n) => ~Stale(d, n)
    BY <1>4, <2>4, <2>5 DEF MapInv, UnitInv
  <2>7. UnitInv' /\ AllocInv'
    <3>1. UnitInv'
      BY <1>1, <1>4, <2>6 DEF MapInv, UnitInv, Unit, Lost
    <3>2. AllocInv'
      BY <1>1, <1>2, <1>4, <2>6 DEF MapInv, AllocInv, Unit, Lost, TypeOK
    <3> QED
      BY <3>1, <3>2
  <2>8. SumInv'
    <3> SUFFICES ASSUME Aligned, NEW n \in Node, NEW d \in Node, Available(d), Stale(d, n)
                 PROVE  map[d] <= map[n]
      BY <1>1, <1>4 DEF MapInv, SumInv, Available
    <3>1. Below(d, p)
      BY <2>3, <2>5, UnderTrans DEF Below
    <3>2. map[d] <= map[p]
      BY <2>2, <2>3, <3>1
    <3>3. Available(p)
      BY <1>0, <1>1, <1>4, <2>1, FixupFacts
    <3>4. map[p] <= map[n]
      BY <1>4, <2>5, <3>3 DEF MapInv, SumInv
    <3> QED
      BY <3>2, <3>4, MapType DEF IInv
  <2>9. ChildInv'
    <3>1. map[p] <= map[Left(p)] \/ map[p] <= map[Right(p)]
      BY <2>2, <2>3
    <3> QED
      BY <1>0, <1>1, <1>4, <2>1, <3>1 DEF MapInv, ChildInv, Backed, Unit
  <2> QED
    BY <2>7, <2>8, <2>9
<1>5. ASSUME MapInv PROVE WholeInv'
  BY <1>1, <1>5 DEF MapInv, WholeInv, Unit
<1> QED
  BY <1>1, <1>2, <1>3, <1>4, <1>5 DEF IInv, MapInv, FixupInv, SearchInv, FailedInv

-----------------------------------------------------------------------------
(* A step that changes nothing preserves the invariant.                    *)
LEMMA StutterIInv == IInv /\ UNCHANGED vars => IInv'
<1> SUFFICES ASSUME IInv, UNCHANGED vars PROVE IInv'
  OBVIOUS
<1> USE DEF vars, locals, handed
<1>1. TypeOK'
  BY DEF IInv, TypeOK
<1>2. BootInv' /\ MarkInv' /\ (Untorn' => Untorn) /\ (Aligned' <=> Aligned)
  BY DEF IInv, BootInv, MarkInv, Unit, Untorn, Aligned
<1>3. ASSUME MapInv PROVE MapInv'
  <2> USE <1>3
  <2>1. UnitInv'
    BY <1>2 DEF MapInv, UnitInv, Unit, Lost, Stale
  <2>2. ChildInv'
    BY DEF MapInv, ChildInv, Backed, Unit
  <2>3. SumInv'
    BY <1>2 DEF MapInv, SumInv, Stale, Available
  <2>4. AllocInv'
    BY <1>2 DEF MapInv, AllocInv, Unit, Lost, Stale
  <2>5. WholeInv' /\ FixupInv'
    BY DEF MapInv, WholeInv, FixupInv, Unit, Uncovered, Reached
  <2>6. SearchInv'
    BY DEF MapInv, SearchInv, Uncovered, Reached, Promising
  <2>7. FailedInv'
    BY <1>2 DEF MapInv, FailedInv, Unit, Available
  <2> QED
    BY <2>1, <2>2, <2>3, <2>4, <2>5, <2>6, <2>7 DEF MapInv
<1> QED
  BY <1>1, <1>2, <1>3 DEF IInv

(* The invariant is inductive: one lemma per action, put together.         *)
LEMMA NextIInv == IInv /\ [Next]_vars => IInv'
<1> SUFFICES ASSUME IInv, [Next]_vars PROVE IInv'
  OBVIOUS
<1>1. CASE \E n \in alloc : FreeBlock(n)
  BY <1>1, FreeBlockIInv
<1>2. CASE \E o \in Order : Reserve(o)
  BY <1>2, ReserveIInv
<1> QED
  BY <1>1, <1>2, StutterIInv, FreeForcedIInv, RewindIInv, DescendIInv, TakeIInv,
     FixupUpIInv, FixupStopIInv, ReturnIInv DEF Next, Step

(* The inductive invariant holds in every state of every execution of the  *)
(* buddy system, whatever the size of the memory and wherever the blocks   *)
(* of the boot begin.                                                      *)
THEOREM Invariance == Spec => []IInv
BY InitIInv, NextIInv, PTL DEF Spec

(* Every variable keeps its type, and no node of the forest ever claims a  *)
(* block larger than itself.                                               *)
THEOREM TypeCorrect == Spec => []TypeOK
BY Invariance, PTL DEF IInv

(* Unless the boot tore a block, the double-free panic of free, the        *)
(* assertion and the unreachable! of reserve and the overflow of its stack *)
(* never happen.                                                           *)
THEOREM PanicFree == Spec => []NoPanic
<1>1. IInv => NoPanic
  BY DEF IInv, MapInv, NoPanic
<1> QED
  BY <1>1, Invariance, PTL

(* Blocks that are out share no page.                                      *)
LEMMA OutApart == IInv /\ Untorn => Apart
BY PagesApart DEF IInv, TypeOK, MapInv, AllocInv, Below, Apart

(* Unless the boot tore a block, two blocks that reserve has handed out    *)
(* never share a page, be the boot aligned or not.                         *)
THEOREM DisjointBlocks == Spec => []Disjoint
<1>1. IInv => Disjoint
  BY OutApart DEF Disjoint
<1> QED
  BY <1>1, Invariance, PTL

(* reserve hands out nothing that free_forced has not marked, and after an *)
(* aligned boot nothing that it was not given.                             *)
THEOREM OnlyFreedOut == Spec => []OnlyFreed
<1>1. IInv => OnlyFreed
  BY DEF IInv, TypeOK, MarkInv, OnlyFreed
<1> QED
  BY <1>1, Invariance, PTL

(* When reserve returns None after an aligned boot, no larger block that   *)
(* nothing was ever taken out of is free.                                  *)
THEOREM HonestFailure == Spec => []FailedHonestly
<1>1. IInv => FailedHonestly
  <2> SUFFICES ASSUME IInv, Aligned, pc = "failed", NEW n \in whole, Available(n)
               PROVE  n[1] <= order
    BY DEF FailedHonestly
  <2>1. MapInv /\ n \in Node
    BY DEF IInv, TypeOK, Aligned, Untorn
  <2>2. n \notin alloc
    BY <2>1, UnderRefl DEF Available
  <2> QED
    BY <2>1, <2>2 DEF MapInv, WholeInv, FailedInv
<1> QED
  BY <1>1, Invariance, PTL

(* What the callers see of an allocation and of a deallocation.            *)
LEMMA TakeIsAllocate ==
  ASSUME IInv, Untorn, Take
  PROVE  \E n \in Node : Outside!Allocate(Pages(n))
<1>1. PICK n \in Node : n = cursor
  BY DEF IInv, TypeOK
<1>2. alloc' = alloc \cup {n} /\ marked' = marked /\ Untorn' /\ alloc \subseteq Node
  BY <1>1 DEF IInv, TypeOK, Take, handed, Untorn
<1>3. Unit(n) /\ map[n] # Reserved
  <2>1. map[n] = n[1] + 1
    BY <1>1, MapType, NodeIs DEF IInv, Take, Exact, OrderOf
  <2> QED
    BY <2>1, MapType DEF IInv
<1>4. Pages(n) \subseteq marked
  BY <1>3 DEF IInv, MarkInv
<1>5. \A a \in alloc : Pages(a) \cap Pages(n) = {}
  <2>1. MapInv /\ pc = "search"
    BY DEF IInv, Take
  <2>2. \A a \in alloc : ~Below(a, n) /\ ~Below(n, a) /\ a # n
    BY <1>1, <1>3, <2>1 DEF MapInv, AllocInv, SearchInv, Uncovered, Stale
  <2> QED
    BY <1>2, <2>2, PagesApart DEF Below
<1>6. Out = {Pages(a) : a \in alloc} /\ Out' = {Pages(a) : a \in alloc} \cup {Pages(n)}
  BY <1>2 DEF Out
<1>7. Pages(n) \subseteq marked \ UNION Out
  BY <1>4, <1>5, <1>6
<1>8. marked' \ UNION (Out') = (marked \ UNION Out) \ Pages(n)
  BY <1>2, <1>6
<1> QED
  BY <1>6, <1>7, <1>8 DEF Outside!Allocate

LEMMA FreeIsDeallocate ==
  ASSUME IInv, Untorn, NEW n \in alloc, FreeBlock(n)
  PROVE  n \in Node /\ Outside!Deallocate(Pages(n))
<1>1. /\ n \in Node /\ alloc \subseteq Node /\ alloc' = alloc \ {n}
      /\ marked' = marked /\ Untorn'
  BY DEF IInv, TypeOK, FreeBlock, FreeNode, handed, Untorn
<1>2. \A a \in alloc : a # n => Pages(a) \cap Pages(n) = {}
  BY OutApart DEF Apart
<1>3. Pages(n) # {} /\ Pages(n) \subseteq marked
  BY <1>1, PagesNonempty DEF IInv, MarkInv
<1>4. Out = {Pages(a) : a \in alloc} /\ Out' = {Pages(a) : a \in alloc'}
  BY <1>1 DEF Out
<1>5. Out' = Out \ {Pages(n)} /\ Pages(n) \in Out
  BY <1>1, <1>2, <1>3, <1>4
<1>6. marked' \ UNION (Out') = (marked \ UNION Out) \cup Pages(n)
  BY <1>1, <1>2, <1>3, <1>4
<1> QED
  BY <1>1, <1>5, <1>6 DEF Outside!Deallocate

(* The buddy system implements the abstract page allocator, for every boot *)
(* that tears no block.                                                    *)
THEOREM Refinement == Spec => IsPageAllocator
<1>1. Init => Outside!Init
  BY DEF Init, Outside!Init, Out
<1>2. IInv /\ [Next]_vars => [Outside!Next]_(Outside!vars)
  <2> SUFFICES ASSUME IInv, [Next]_vars
               PROVE  [Outside!Next]_(Outside!vars)
    OBVIOUS
  <2>1. CASE FreeForced
    <3>1. alloc = {} /\ alloc' = {} /\ marked \subseteq marked'
      BY <2>1 DEF IInv, BootInv, FreeForced
    <3>2. Out = {} /\ Out' = {}
      BY <3>1 DEF Out
    <3> QED
      BY <3>1, <3>2 DEF Outside!Next, Outside!Donate
  <2>2. CASE Untorn /\ \E n \in alloc : FreeBlock(n)
    BY Zenon, <2>2, FreeIsDeallocate DEF Outside!Next
  <2>3. CASE Untorn /\ Take
    BY Zenon, <2>3, TakeIsAllocate DEF Outside!Next
  <2>4. CASE UNCHANGED <<marked, shape>> /\ (~Untorn \/ UNCHANGED alloc)
    <3>1. Out' = Out
      BY <2>4 DEF Out, Untorn
    <3> QED
      BY <2>4, <3>1 DEF Outside!vars
  <2> QED
    BY <2>1, <2>2, <2>3, <2>4
       DEF Next, Step, vars, handed, Reserve, Rewind, Descend, Take, FreeBlock, FreeNode,
           FixupUp, FixupStop, Return
<1> QED
  BY <1>1, <1>2, Invariance, PTL DEF Spec, IsPageAllocator, Outside!Spec

-----------------------------------------------------------------------------
(***************************************************************************)
(* The arithmetic of array_forest.rs follows the trees of the buddy system *)
(* in a forest of any shape.                                               *)
(***************************************************************************)

(* The offset of a level is the number of its nodes, and the buffer has    *)
(* room for twice the leaves.                                              *)
LEMMA OffsetIs ==
  /\ \A n \in Node : /\ offset_start(Depth(n)) = NodeCnt(n[1])
                     /\ Offset(n) = NodeCnt(n[1]) + n[2]
                     /\ Offset(n) \in Nat
  /\ BufLen = 2 * PageCnt
<1>1. ASSUME NEW n \in Node
      PROVE  /\ offset_start(Depth(n)) = NodeCnt(n[1])
             /\ Offset(n) = NodeCnt(n[1]) + n[2]
             /\ Offset(n) \in Nat
  <2>1. n[1] \in Order /\ n[1] \in Nat /\ n[2] \in Nat /\ max_order \in Nat
    BY NodeIs, ShapeAssumption
  <2>2. Depth(n) = max_order - n[1]
    BY <2>1 DEF Depth, max_depth, tree_depth
  <2>3. offset_start(Depth(n)) = NodeCnt(n[1])
    BY <2>2, Zenon DEF offset_start, NodeCnt
  <2>4. NodeCnt(n[1]) \in Nat
    BY <2>1, Levels
  <2> QED
    BY <2>1, <2>3, <2>4 DEF Offset
<1>2. BufLen = 2 * PageCnt
  <2>1. tree_cnt \in Nat /\ 2^max_order \in Nat
    BY ShapeAssumption, ShiftAssumption DEF Order
  <2>2. BufLen = tree_cnt * (2 * 2^max_order)
    BY BufferAssumption DEF BufLen, tree_depth
  <2> DEFINE p == 2^max_order
  <2> HIDE DEF p
  <2>3. tree_cnt * (2 * p) = 2 * (tree_cnt * p)
    BY <2>1 DEF p
  <2> QED
    BY <2>2, <2>3 DEF PageCnt, p
<1> QED
  BY <1>1, <1>2

(* A deeper level starts behind the end of every level above it.           *)
LEMMA LevelsApart ==
  ASSUME NEW p \in Order, NEW o \in Order, o < p
  PROVE  2 * NodeCnt(p) <= NodeCnt(o)
<1>1. p \in Nat /\ o \in Nat /\ max_order \in Nat /\ p <= max_order /\ p > 0
  BY ShapeAssumption DEF Order
<1>2. p - 1 \in Order /\ (p - 1) - o \in Order /\ max_order - (p - 1) \in Order
  BY <1>1 DEF Order
<1>3. NodeCnt(p - 1) = 2 * NodeCnt(p) /\ NodeCnt(p) \in Nat /\ NodeCnt(p - 1) \in Nat
  BY <1>1, <1>2, Levels
<1>4. 2^(max_order - o) = 2^(max_order - (p - 1)) * 2^((p - 1) - o)
  <2>1. (max_order - (p - 1)) + ((p - 1) - o) = max_order - o /\ max_order - o \in Order
    BY <1>1 DEF Order
  <2> QED
    BY <1>2, <2>1, Shift
<1>5. /\ 2^((p - 1) - o) \in Nat \ {0} /\ 2^(max_order - (p - 1)) \in Nat
      /\ tree_cnt \in Nat
  BY <1>2, Shift, ShapeAssumption
<1> DEFINE a == 2^(max_order - (p - 1))
           b == 2^((p - 1) - o)
<1>6. NodeCnt(o) = tree_cnt * (a * b) /\ NodeCnt(p - 1) = tree_cnt * a
  BY <1>4, Zenon DEF NodeCnt
<1>7. a \in Nat /\ b \in Nat \ {0}
  BY <1>5
<1> HIDE DEF a, b
<1>8. tree_cnt * (a * b) = (tree_cnt * a) * b
  BY <1>5, <1>7
<1>9. (tree_cnt * a) * b >= tree_cnt * a
  BY <1>5, <1>7
<1> QED
  BY <1>3, <1>6, <1>8, <1>9

(* No two nodes share a cell of the buffer.                                *)
LEMMA CellsApart ==
  ASSUME NEW n \in Node, NEW k \in Node, Offset(k) = Offset(n)
  PROVE  k = n
<1>1. /\ n[1] \in Order /\ k[1] \in Order /\ n[2] \in Nat /\ k[2] \in Nat
      /\ n[1] \in Nat /\ k[1] \in Nat
      /\ n[2] < NodeCnt(n[1]) /\ k[2] < NodeCnt(k[1])
      /\ n = <<n[1], n[2]>> /\ k = <<k[1], k[2]>>
  BY NodeIs
<1>2. NodeCnt(n[1]) \in Nat /\ NodeCnt(k[1]) \in Nat
  BY <1>1, Levels
<1>3. NodeCnt(n[1]) + n[2] = NodeCnt(k[1]) + k[2]
  BY OffsetIs
<1>4. n[1] = k[1]
  <2>1. CASE n[1] < k[1]
    BY <1>1, <1>2, <1>3, <2>1, LevelsApart
  <2>2. CASE k[1] < n[1]
    BY <1>1, <1>2, <1>3, <2>2, LevelsApart
  <2> QED
    BY <1>1, <2>1, <2>2
<1>5. n[2] = k[2]
  BY <1>1, <1>2, <1>3, <1>4
<1> QED
  BY <1>1, <1>4, <1>5, Zenon

(* The shifts of a cursor at any node follow the tree.                     *)
LEMMA AllFollow == ASSUME NEW n \in Node PROVE Follows(n)
<1>1. /\ n[1] \in Order /\ n[1] \in Nat /\ n[2] \in Nat /\ max_order \in Nat
      /\ n[1] <= max_order /\ n[2] < NodeCnt(n[1])
  BY NodeIs, ShapeAssumption
<1>2. NodeCnt(n[1]) \in Nat /\ Offset(n) = NodeCnt(n[1]) + n[2]
  BY <1>1, Levels, OffsetIs
<1>3. ASSUME ~IsLeaf(n)
      PROVE  /\ down(Offset(n), 0) = Offset(Left(n))
             /\ down(Offset(n), 1) = Offset(Right(n))
  <2>1. n[1] > 0 /\ n[1] - 1 \in Order
    BY <1>1, <1>3 DEF IsLeaf, Order
  <2>2. NodeCnt(n[1] - 1) = 2 * NodeCnt(n[1])
    BY <1>1, <2>1, Levels
  <2>3. Left(n) \in Node /\ Right(n) \in Node
    BY <2>1, ChildNode
  <2>4. /\ Offset(Left(n)) = NodeCnt(n[1] - 1) + 2 * n[2]
        /\ Offset(Right(n)) = NodeCnt(n[1] - 1) + (2 * n[2] + 1)
    BY <2>3, OffsetIs DEF Left, Right
  <2> QED
    BY <1>1, <1>2, <2>2, <2>4 DEF down
<1>4. ASSUME ~IsRoot(n)
      PROVE  /\ up(Offset(n)) = Offset(Parent(n))
             /\ sibling(Offset(n)) = Offset(Sibling(n))
  <2>1. n[1] # max_order /\ n[1] + 1 \in Order
    BY <1>1, <1>4 DEF IsRoot, Order
  <2>2. NodeCnt(n[1]) = 2 * NodeCnt(n[1] + 1) /\ NodeCnt(n[1] + 1) \in Nat
    <3>1. NodeCnt((n[1] + 1) - 1) = 2 * NodeCnt(n[1] + 1) /\ NodeCnt(n[1] + 1) \in Nat
      BY <1>1, <2>1, Levels
    <3> QED
      BY <1>1, <3>1
  <2>3. Parent(n) \in Node /\ Sibling(n) \in Node
    BY <2>1, ParentNode
  <2>4. Offset(Parent(n)) = NodeCnt(n[1] + 1) + (n[2] \div 2)
    BY <2>3, OffsetIs DEF Parent
  <2>5. Offset(Sibling(n)) =
          NodeCnt(n[1]) + (IF n[2] % 2 = 0 THEN n[2] + 1 ELSE n[2] - 1)
    BY <2>3, OffsetIs DEF Sibling
  <2> DEFINE c == NodeCnt(n[1] + 1)
             i == n[2]
  <2>6. c \in Nat /\ i \in Nat /\ Offset(n) = 2 * c + i
    BY <1>1, <1>2, <2>2
  <2> HIDE DEF c, i
  <2>7. (2 * c + i) \div 2 = c + (i \div 2) /\ (2 * c + i) % 2 = i % 2
    BY <2>6
  <2> QED
    BY <1>1, <2>2, <2>4, <2>5, <2>6, <2>7 DEF up, sibling, c, i
<1>5. get(Offset(n)) \in 0..(BufLen - 1) /\ idx(Offset(n), Depth(n)) = n[2]
  <2>1. tree_cnt \in Nat \ {0} /\ PageCnt \in Nat /\ NodeCnt(n[1]) <= PageCnt
    BY <1>1, Levels, ShapeAssumption DEF Order
  <2>2. tree_cnt <= NodeCnt(n[1])
    <3>1. max_order - n[1] \in Order
      BY <1>1 DEF Order
    <3>2. 2^(max_order - n[1]) \in Nat \ {0}
      BY <3>1, Shift
    <3> QED
      BY <2>1, <3>2 DEF NodeCnt
  <2>3. idx(Offset(n), Depth(n)) = n[2]
    BY <1>1, <1>2, OffsetIs DEF idx
  <2> QED
    BY <1>1, <1>2, <2>1, <2>2, <2>3, OffsetIs DEF get
<1>6. ASSUME NEW k \in Node, get(Offset(k)) = get(Offset(n))
      PROVE  k = n
  <2>1. Offset(k) = Offset(n)
    BY <1>6, OffsetIs, ShapeAssumption DEF get
  <2> QED
    BY <2>1, CellsApart
<1> QED
  BY <1>3, <1>4, <1>5, <1>6 DEF Follows

(* In a forest of any shape, wherever reserve, free and free_forced move   *)
(* their cursor, its offset is that of the node they mean, inside the      *)
(* buffer and shared with no other node.                                   *)
THEOREM CursorsFollow == Spec => []CursorFollows
<1>1. TypeOK => CursorFollows
  <2> SUFFICES ASSUME TypeOK,
                      NEW n \in {cursor, blk} \cup {stack[i] : i \in DOMAIN stack}
               PROVE  n \in Node /\ Follows(n)
    BY DEF CursorFollows
  <2>1. cursor \in Node /\ blk \in Node /\ \A i \in DOMAIN stack : stack[i] \in Node
    BY DEF TypeOK
  <2>2. n \in Node
    BY <2>1
  <2> QED
    BY <2>2, AllFollow
<1> QED
  BY <1>1, TypeCorrect, PTL
=============================================================================
