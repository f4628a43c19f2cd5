------------------------------ MODULE Keyboard ------------------------------
(***************************************************************************)
(* The way of a scan code: the parser of the PS/2 driver and its ring of   *)
(* packets (src/drivers/ps2.rs), the state of the keys and the modifiers   *)
(* (src/io/keyboard.rs), and the character of an event                     *)
(* (src/io/monitor.rs).  Who runs the steps, and when, is in Kernel: the   *)
(* interrupt handler pushes, kernel code pops.                             *)
(*                                                                         *)
(* A packet is a key code and whether the key was pressed.  None is {},    *)
(* Some(x) is {x}.                                                         *)
(***************************************************************************)
EXTENDS Integers, Sequences, FiniteSets

CONSTANT Capacity      \* the places of the ring (128)

ASSUME CapacityAssumption == Capacity \in Nat \ {0}

KEY_1          == 2
KEY_9          == 10
KEY_0          == 11
KEY_BACKSPACE  == 14
KEY_ENTER      == 28
KEY_LEFTCTRL   == 29
KEY_LEFTSHIFT  == 42
KEY_RIGHTSHIFT == 54
KEY_LEFTALT    == 56
KEY_SPACE      == 57
KEY_CAPSLOCK   == 58
KEY_NUMLOCK    == 69
KEY_SCROLLLOCK == 70
KEY_KPDOT      == 83
KEY_F11        == 87
KEYCODE_MAX    == 88

Letters == (16..25) \cup (30..38) \cup (44..50)

Packet == [key : 0..KEYCODE_MAX, press : BOOLEAN]

VARIABLES
  slots,      \* the places of the ring, each empty or a packet
  read,       \* the indices of the ring, modulo twice its capacity
  write,
  states,     \* VirtKeyboard: the keys that are down
  modifier    \* VirtKeyboard: the modifiers that are on

keyboardVars == <<slots, read, write, states, modifier>>

(* Sc1::parse.  The parser never leaves its state Normal; its arms for     *)
(* 0x0F and 0x39 come after a range that contains them.                    *)
parse(byte) ==
  LET codes == (0..KEY_KPDOT) \cup (KEY_F11..KEYCODE_MAX)
  IN  IF byte \in codes THEN {[key |-> byte, press |-> TRUE]}
      ELSE IF byte - 128 \in codes THEN {[key |-> byte - 128, press |-> FALSE]}
      ELSE {}

(***************************************************************************)
(* The ring of the external crate: single producer, single consumer.       *)
(***************************************************************************)
Occupied == (write - read) % (2 * Capacity)
Advance(i) == (i + 1) % (2 * Capacity)

(* try_push writes the slot, then publishes it.                            *)
FillSlot(p) ==
  /\ Occupied < Capacity
  /\ slots' = [slots EXCEPT ![write % Capacity] = {p}]
  /\ UNCHANGED <<read, write, states, modifier>>

Publish == write' = Advance(write) /\ UNCHANGED <<slots, read, states, modifier>>

(* try_pop moves the packet out of the slot, then releases it.             *)
ReadSlot == slots[read % Capacity]

Release ==
  /\ slots' = [slots EXCEPT ![read % Capacity] = {}]
  /\ read' = Advance(read)
  /\ UNCHANGED <<write, states, modifier>>

(* The keyboard that init makes: an empty ring and a new VirtKeyboard.     *)
KeyboardInit ==
  /\ slots = [i \in 0..(Capacity - 1) |-> {}]
  /\ read = 0 /\ write = 0
  /\ states = {} /\ modifier = {}

(***************************************************************************)
(* VirtKeyboard::update: what a packet does to the modifiers.              *)
(***************************************************************************)
Held(key) ==
  CASE key = KEY_LEFTALT                         -> {"ALT"}
    [] key = KEY_LEFTCTRL                        -> {"CTRL"}
    [] key \in {KEY_LEFTSHIFT, KEY_RIGHTSHIFT}   -> {"SHIFT"}
    [] OTHER                                     -> {}

Toggled(key) ==
  CASE key = KEY_CAPSLOCK   -> {"CAPSLOCK"}
    [] key = KEY_SCROLLLOCK -> {"SCROLLLOCK"}
    [] key = KEY_NUMLOCK    -> {"NUMLOCK"}
    [] OTHER                -> {}

UpdatePressOnly(p) ==                                         \* mutant
  /\ states' = states \cup {p.key}
  /\ modifier' = modifier \cup Held(p.key)
  /\ UNCHANGED <<slots, read, write>>

UpdateShiftsToggle(p) ==                                      \* mutant
  /\ states' = IF p.press THEN states \cup {p.key} ELSE states \ {p.key}
  /\ modifier' = (modifier \ Held(p.key)) \cup (Held(p.key) \ modifier)
  /\ UNCHANGED <<slots, read, write>>

update(p) ==
  /\ states' = IF p.press THEN states \cup {p.key} ELSE states \ {p.key}
  /\ modifier' = LET toggled == IF p.press THEN Toggled(p.key) ELSE {}
                     new     == (modifier \ toggled) \cup (toggled \ modifier)
                 IN  IF p.press THEN new \cup Held(p.key) ELSE new \ Held(p.key)
  /\ UNCHANGED <<slots, read, write>>

(* ketoa: the character, as a key and whether it is a capital.             *)
ketoa(p, mods) ==
  LET is_cap == ("CAPSLOCK" \in mods) # ("SHIFT" \in mods)
  IN  IF ~p.press THEN {}
      ELSE IF p.key \in Letters THEN {<<p.key, is_cap>>}
      ELSE IF p.key \in (KEY_1..KEY_9) \cup {KEY_0, KEY_ENTER, KEY_SPACE, KEY_BACKSPACE}
           THEN {<<p.key, FALSE>>}
      ELSE {}
-----------------------------------------------------------------------------
(* The slots of the ring that are in use, in the order they were filled.   *)
Waiting == [i \in 1..Occupied |-> slots[(read + i - 1) % Capacity]]
=============================================================================
