--------------------------- MODULE PageAllocator ---------------------------
(***************************************************************************)
(* What a page allocator promises its callers (trait Allocator in          *)
(* src/mem/addr.rs): a block that is handed out was free in its entirety,  *)
(* and it is the caller's alone until the caller gives it back.            *)
(***************************************************************************)
CONSTANT Block   \* the sets of pages that can be handed out

VARIABLES
  free,   \* the pages the allocator may hand out
  out     \* the blocks that callers hold

vars == <<free, out>>

Init == free = {} /\ out = {}

(* The boot hands pages over before the first block is handed out.         *)
Donate ==
  /\ out = {}
  /\ free \subseteq free'
  /\ UNCHANGED out

Allocate(b) ==
  /\ b \subseteq free
  /\ free' = free \ b
  /\ out' = out \cup {b}

Deallocate(b) ==
  /\ b \in out
  /\ free' = free \cup b
  /\ out' = out \ {b}

Next == Donate \/ \E b \in Block : Allocate(b) \/ Deallocate(b)

Spec == Init /\ [][Next]_vars
=============================================================================
