------------------------------- MODULE MCPhy -------------------------------
(* A small instance of Phy for TLC: a small page has 2 bytes and a large    *)
(* one is two small ones.                                                  *)
EXTENDS Phy

CONSTANT page_cnt   \* pages of the managed range

MCmax_order == NewMaxOrder(page_cnt)
MCtree_cnt  == NewTreeCnt(page_cnt)
MCVARIANTS  == <<1, 2>>

(* One tree of eight pages: all of it, two areas whose blocks are aligned, *)
(* and one area from the second page on, split from its start.             *)
MCBoots == { << <<0, 3>> >>, << <<1, 0>>, <<4, 2>> >>,
             << <<1, 2>>, <<5, 1>>, <<7, 0>> >> }
=============================================================================
