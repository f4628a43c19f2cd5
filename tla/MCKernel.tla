------------------------------ MODULE MCKernel ------------------------------
(***************************************************************************)
(* An instance of Kernel: a machine that halts, with a device that         *)
(* requests service on a masked line of the second controller; one whose   *)
(* kernel uses guards; one that runs a monitor while anything interrupts   *)
(* anything; one on which ctrl is pressed, repeated and released faster    *)
(* than the monitor takes it; and one on which the shift keys and alt are, *)
(* in any order and overlap, one scan code at a time.                      *)
(***************************************************************************)
EXTENDS Kernel

A == 30
LeftShift == 42
RightShift == 54
Ctrl == 29
Alt == 56
Released(key) == key + 128
Prefix == 224      \* parses to nothing

KeysOf(keys) == keys \cup {Released(k) : k \in keys}

Halting  == [tail |-> "hlt", bytes |-> {A, Prefix}, slow |-> FALSE, noise |-> {8},
             exceptions |-> {"fault", "spurious"}]
Guarding == [tail |-> "guards", bytes |-> {A}, slow |-> FALSE, noise |-> {},
             exceptions |-> {"fault", "trap"}]
Watching == [tail |-> "monitor", bytes |-> {A}, slow |-> FALSE, noise |-> {},
             exceptions |-> {"fault", "trap", "spurious"}]
Hasty    == [tail |-> "monitor", bytes |-> KeysOf({Ctrl}), slow |-> FALSE,
             noise |-> {}, exceptions |-> {}]
Typing   == [tail |-> "monitor", bytes |-> KeysOf({LeftShift, RightShift, Alt}),
             slow |-> TRUE, noise |-> {}, exceptions |-> {}]

Machines == {Halting, Guarding, Watching, Hasty, Typing}
=============================================================================
