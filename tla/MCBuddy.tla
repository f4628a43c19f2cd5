------------------------------ MODULE MCBuddy ------------------------------
(* Small instances of Buddy for TLC.                                       *)
EXTENDS ArrayForest

CONSTANT page_cnt   \* pages of the managed range

MCmax_order == NewMaxOrder(page_cnt)
MCtree_cnt  == NewTreeCnt(page_cnt)

(* Ten pages and trees of eight: the second tree is the incomplete one.    *)
(* An area is split from its start, the largest block first.  The boot     *)
(* hands over everything, or two areas whose blocks are aligned; one area  *)
(* from the second or from the fourth page on; or two areas of which the   *)
(* second tears a block of the first.                                      *)
MCAligned == { << <<0, 3>>, <<8, 1>> >>,
               << <<1, 0>>, <<4, 2>>, <<8, 0>> >> }
MCShifted == { << <<1, 3>>, <<9, 0>> >>,
               << <<3, 2>>, <<7, 1>>, <<9, 0>> >> }
MCTorn    == { << <<1, 0>>, <<3, 2>>, <<7, 0>> >> }
MCBoots   == MCAligned \cup MCShifted \cup MCTorn

(* Thirty-two pages in one tree: a page, a page, and two areas after a     *)
(* hole each.  The third block is counted from page 5 and claims the node  *)
(* above all of the first eight pages.                                     *)
MCTornWide == { << <<1, 0>>, <<3, 0>>, <<5, 3>>, <<16, 4>> >> }
=============================================================================
