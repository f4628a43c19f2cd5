------------------------------- MODULE MCSlab -------------------------------
(* A small instance of Slab for TLC: pages of 16 bytes, slots of 2 and 4.  *)
EXTENDS Slab

(* Two layouts of either order, one of which needs its padding, and two    *)
(* that go to the page allocator: for one page, and for three, so four.    *)
MCLayouts == {[size |-> 1, align |-> 1], [size |-> 2, align |-> 2],
              [size |-> 2, align |-> 4], [size |-> 3, align |-> 1],
              [size |-> 6, align |-> 2], [size |-> 40, align |-> 16]}
=============================================================================
