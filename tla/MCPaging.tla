------------------------------ MODULE MCPaging ------------------------------
(* A small instance of Paging for TLC: tables of four entries, the first   *)
(* of PML4 for users, then one each for the remap, for data and for the    *)
(* kernel image.                                                           *)
EXTENDS Paging, TLC

Req(level, v, frame, flags) ==
  [level |-> level, v |-> v, frame |-> frame, flags |-> flags]

(* Two neighbouring small pages and the large page that holds them, for    *)
(* users; a large and a small page of kernel data; flags that are not      *)
(* valid for a small page.                                                 *)
MCRequests ==
  {Req(PT, 5, 65, {"Present", "ReadWrite", "UserSuper"}),
   Req(PT, 6, 66, {"Present", "PageSize"}),
   Req(PD, 4, 68, {"Present", "PageSize"}),
   Req(PD, 136, 72, {"Present", "PageSize", "Global"}),
   Req(PT, 137, 77, {"Present", "ReadWrite", "Global"})}

(* The run of the properties that hold while clean does stops where it no  *)
(* longer does: clean never becomes true again.                            *)
Clean == clean

Symmetric == Permutations(Pool) \cup Permutations(MapIds \ {Boot})
=============================================================================
