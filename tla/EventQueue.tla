----------------------------- MODULE EventQueue -----------------------------
(***************************************************************************)
(* What the keyboard driver promises its consumer: the packets come out in *)
(* the order they went in, each once, and at most Capacity are waiting.    *)
(***************************************************************************)
EXTENDS Integers, Sequences

CONSTANTS Capacity, Packet

VARIABLES
  queue,    \* the packets that are waiting
  hand      \* what the consumer has taken and not handled yet, {} if nothing

Init == queue = << >> /\ hand = {}

Push(p) ==
  /\ Len(queue) < Capacity
  /\ queue' = Append(queue, p) /\ UNCHANGED hand

Pop ==
  /\ queue # << >> /\ hand = {}
  /\ hand' = {Head(queue)} /\ queue' = Tail(queue)

Handle == hand # {} /\ hand' = {} /\ UNCHANGED queue

Next == Pop \/ Handle \/ \E p \in Packet : Push(p)

Spec == Init /\ [][Next]_<<queue, hand>>
=============================================================================
