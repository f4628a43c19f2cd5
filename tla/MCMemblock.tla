---------------------------- MODULE MCMemblock ----------------------------
(* Small instances of Memblock for TLC: a frame has 4 bytes.               *)
EXTENDS Memblock

CONSTANT Cuts   \* the boundaries the areas of a memory map lie between

Area(i, typ) == [base |-> Cuts[i], size |-> Cuts[i + 1] - Cuts[i], typ |-> typ]

(* Every way to make the intervals between the cuts available or reserved, *)
(* listed upwards, downwards, and odd ones before even ones.               *)
Types == [1..(Len(Cuts) - 1) -> {"Available", "Reserved"}]
Listed(t, ids) == [k \in DOMAIN ids |-> Area(ids[k], t[ids[k]])]

Upwards   == [i \in 1..(Len(Cuts) - 1) |-> i]
Downwards == Reverse(Upwards)
OddFirst  == SelectSeq(Upwards, LAMBDA i : i % 2 = 1)
               \o SelectSeq(Upwards, LAMBDA i : i % 2 = 0)

MCMaps == {Listed(t, ids) : t \in Types, ids \in {Upwards, Downwards, OddFirst}}

MCCuts    == <<2, 8, 13, 20, 27, 40>>
MCLayouts == {[size |-> 3, align |-> 1], [size |-> 4, align |-> 4],
              [size |-> 7, align |-> 2]}
=============================================================================
