------------------------------- MODULE Kernel -------------------------------
(***************************************************************************)
(* The kernel on its one CPU: kmain (src/main.rs), the interrupt set-up    *)
(* and the guard (src/interrupt.rs), the handlers (src/interrupt/          *)
(* handler.rs), the panic handler (src/common/panic.rs) and the log! macro *)
(* (src/common.rs), together with the interrupt controllers (Pic) and the  *)
(* keyboard (Keyboard).                                                    *)
(*                                                                         *)
(* What runs is a stack of frames.  A frame runs a program, a sequence of  *)
(* the steps at which something else may come between; only the topmost    *)
(* frame moves.  Interrupts and exceptions push a frame.  Both kinds of    *)
(* gate are trap gates, which leave the interrupt flag alone.              *)
(*                                                                         *)
(* kmain ends in hlt.  InterruptGuard and Monitor have no caller yet; two  *)
(* more ends of kmain use them as they are meant to be used: "guards"      *)
(* takes and drops guards, "monitor" runs Monitor::start.                  *)
(***************************************************************************)
EXTENDS Keyboard, Pic, SequencesExt

CONSTANTS
  Setups,      \* the machines the kernel may run on
  MaxDepth,    \* bound on the frames of the stack
  MaxGuards    \* bound on the guards alive at once

(* A machine: how kmain ends, the scan codes the keyboard sends, and       *)
(* whether only once the one before has gone all the way, the masked lines *)
(* on which devices request service, and what else may interrupt.          *)
ASSUME KernelAssumption ==
  /\ \A s \in Setups :
       /\ DOMAIN s = {"tail", "bytes", "slow", "noise", "exceptions"}
       /\ s.tail \in {"hlt", "guards", "monitor"}
       /\ s.bytes \subseteq 0..255 /\ s.slow \in BOOLEAN
       /\ s.noise \subseteq Lines \ {1}
       /\ s.exceptions \subseteq {"fault", "trap", "spurious"}
  /\ MaxDepth \in Nat /\ MaxGuards \in Nat

VARIABLES
  stack,        \* the frames, the running one last
  flag,         \* the interrupt flag of the CPU
  setup,        \* the machine
  idt,          \* what init has put up: "idtr", "exn", "irq"
  once,         \* which of KEYBOARD_SRC and KEYBOARD are initialised
  pic,          \* the interrupt controllers
  port,         \* the output of the keyboard controller, {} or a byte
  locked,       \* the spin lock of VGA_BUFFER is taken
  screen,       \* who wrote on the console last
  guard_cnt,    \* INTERRUPT_GUARD_CNT
  guards,       \* the guards that are alive
  down,         \* the keys that are really down
  lost          \* the keys whose latest packet was dropped

vars == <<stack, flag, setup, idt, once, pic, port, locked, screen,
          guard_cnt, guards, down, lost, keyboardVars>>
-----------------------------------------------------------------------------
(***************************************************************************)
(* Programs.                                                               *)
(***************************************************************************)

(* log! holds the lock of the console while it writes.                     *)
LogKeepsLock == <<"lock", "write">>                            \* mutant
Log == <<"lock", "write", "unlock">>

InterruptInitEarlySti ==                                      \* mutant
  <<"idtr", "exn", "irq", "pic", "mask", "sti", "unmask">>

InterruptInit == <<"idtr", "exn", "irq", "pic", "mask", "unmask", "sti">>

DriversInit == <<"rb", "src", "kb">>

Kmain ==
  Log \o <<"boot_info">> \o Log \o <<"mem">> \o Log
  \o InterruptInit \o Log \o DriversInit \o Log \o Log

Monitor == <<"start", "poll", "take", "release", "parse", "echo">>

Ending(t) ==
  CASE t = "hlt"     -> <<"hlt">>
    [] t = "guards"  -> <<"use", "count", "enable">>
    [] t = "monitor" -> Monitor

IrqHandlerAcksFirst == <<"ack", "inb", "push", "publish", "iret">>   \* mutant

irq_handler == <<"inb", "push", "publish", "ack", "iret">>

ReportSilently == <<"lock", "unlock", "hlt">>                  \* mutant

Report == Log \o <<"hlt">>

default_exn_handler == <<"iret">>

MainProgram == [t \in {"hlt", "guards", "monitor"} |-> Kmain \o Ending(t)]

Program(code) ==
  CASE code = "main"              -> MainProgram[setup.tail]
    [] code = "irq"               -> irq_handler
    [] code \in {"fault", "panic"} -> Report
    [] code = "trap"              -> default_exn_handler

Position(code, op) == CHOOSE i \in DOMAIN Program(code) : Program(code)[i] = op

(***************************************************************************)
(* Frames.                                                                 *)
(***************************************************************************)
Frame(code, line) ==
  [code |-> code, line |-> line, ip |-> 1, item |-> {}, flags |-> flag]

At(f)   == Program(f.code)[f.ip]
Top     == Last(stack)
Main    == stack[1]
Runs(op) == At(Top) = op

Push(f)   == Len(stack) < MaxDepth /\ stack' = Append(stack, f)
Become(f) == stack' = [stack EXCEPT ![Len(stack)] = f]
Proceed   == Become([Top EXCEPT !.ip = @ + 1])
Goto(op)  == Become([Top EXCEPT !.ip = Position(Top.code, op)])

Init ==
  /\ setup \in Setups /\ flag = FALSE
  /\ stack = << [code |-> "main", line |-> 0, ip |-> 1, item |-> {}, flags |-> FALSE] >>
  /\ idt = {} /\ once = {}
  /\ pic = [irr |-> {}, isr |-> {}, imr |-> {}, vector |-> 8]
  /\ port = {} /\ down = {} /\ lost = {}
  /\ locked = FALSE /\ screen = "none"
  /\ guard_cnt = 0 /\ guards = 0
  /\ KeyboardInit

consoleVars == <<locked, screen>>
bootVars    == <<setup, idt, once>>
guardVars   == <<guard_cnt, guards>>
deviceVars  == <<pic, port, down>>
-----------------------------------------------------------------------------
(***************************************************************************)
(* kmain and the code that reports: the console.                           *)
(***************************************************************************)
TakeLock ==
  /\ Runs("lock") \/ Runs("start")
  /\ ~locked /\ locked' = TRUE
  /\ Proceed
  /\ UNCHANGED <<flag, screen, bootVars, guardVars, deviceVars, lost, keyboardVars>>

WriteText ==
  /\ Runs("write") /\ screen' = Top.code
  /\ Proceed
  /\ UNCHANGED <<flag, locked, bootVars, guardVars, deviceVars, lost, keyboardVars>>

DropLock ==
  /\ Runs("unlock") /\ locked' = FALSE
  /\ Proceed
  /\ UNCHANGED <<flag, screen, bootVars, guardVars, deviceVars, lost, keyboardVars>>

(* boot_info.expect, mem::init and the allocation of the ring succeed, or  *)
(* panic.                                                                  *)
MayPanic == Runs("boot_info") \/ Runs("mem") \/ Runs("rb")

Succeed ==
  /\ MayPanic /\ Proceed
  /\ UNCHANGED <<flag, consoleVars, bootVars, guardVars, deviceVars, lost, keyboardVars>>

Panic ==
  /\ MayPanic /\ Push(Frame("panic", 0))
  /\ UNCHANGED <<flag, consoleVars, bootVars, guardVars, deviceVars, lost, keyboardVars>>

(***************************************************************************)
(* interrupt::init and drivers::init.                                      *)
(***************************************************************************)
InitIdt ==
  /\ \E part \in {"idtr", "exn", "irq"} : Runs(part) /\ idt' = idt \cup {part}
  /\ Proceed
  /\ UNCHANGED <<flag, consoleVars, setup, once, guardVars, deviceVars, lost, keyboardVars>>

InitPic ==
  /\ \/ Runs("pic")    /\ pic' = init_pic
     \/ Runs("mask")   /\ pic' = mask_all(pic)
     \/ Runs("unmask") /\ pic' = unmask(pic, 1)
  /\ Proceed
  /\ UNCHANGED <<flag, consoleVars, bootVars, guardVars, port, down, lost, keyboardVars>>

enable_interrupt ==
  /\ Runs("sti") /\ flag' = TRUE
  /\ Proceed
  /\ UNCHANGED <<consoleVars, bootVars, guardVars, deviceVars, lost, keyboardVars>>

InitKeyboard ==
  /\ \E part \in {"src", "kb"} : Runs(part) /\ once' = once \cup {part}
  /\ Proceed
  /\ UNCHANGED <<flag, consoleVars, setup, idt, guardVars, deviceVars, lost, keyboardVars>>

(***************************************************************************)
(* InterruptGuard: new is cli and a fetch_add, drop a fetch_sub and        *)
(* perhaps sti.                                                            *)
(***************************************************************************)
GuardDisables ==
  /\ Runs("use") /\ guards < MaxGuards
  /\ flag' = FALSE /\ Goto("count")
  /\ UNCHANGED <<consoleVars, bootVars, guardVars, deviceVars, lost, keyboardVars>>

GuardCounts ==
  /\ Runs("count")
  /\ guard_cnt' = guard_cnt + 1 /\ guards' = guards + 1
  /\ Goto("use")
  /\ UNCHANGED <<flag, consoleVars, bootVars, deviceVars, lost, keyboardVars>>

GuardDropAlwaysEnables ==                                     \* mutant
  /\ Runs("use") /\ guards > 0
  /\ guard_cnt' = guard_cnt - 1 /\ guards' = guards - 1
  /\ Goto("enable")
  /\ UNCHANGED <<flag, consoleVars, bootVars, deviceVars, lost, keyboardVars>>

GuardDrops ==
  /\ Runs("use") /\ guards > 0
  /\ guard_cnt' = guard_cnt - 1 /\ guards' = guards - 1
  /\ IF guard_cnt = 1 THEN Goto("enable") ELSE UNCHANGED stack
  /\ UNCHANGED <<flag, consoleVars, bootVars, deviceVars, lost, keyboardVars>>

GuardEnables ==
  /\ Runs("enable") /\ flag' = TRUE
  /\ Goto("use")
  /\ UNCHANGED <<consoleVars, bootVars, guardVars, deviceVars, lost, keyboardVars>>

(***************************************************************************)
(* Monitor::start, with Ps2Keyboard::next in its loop.                     *)
(***************************************************************************)
PollWaitsForFull ==                                           \* mutant
  /\ Runs("poll") /\ Occupied = Capacity
  /\ Proceed
  /\ UNCHANGED <<flag, consoleVars, bootVars, guardVars, deviceVars, lost, keyboardVars>>

Poll ==
  /\ Runs("poll") /\ Occupied > 0
  /\ Proceed
  /\ UNCHANGED <<flag, consoleVars, bootVars, guardVars, deviceVars, lost, keyboardVars>>

Take ==
  /\ Runs("take")
  /\ Become([Top EXCEPT !.ip = @ + 1, !.item = ReadSlot])
  /\ UNCHANGED <<flag, consoleVars, bootVars, guardVars, deviceVars, lost, keyboardVars>>

ReleaseSlot ==
  /\ Runs("release") /\ Release
  /\ Proceed
  /\ UNCHANGED <<flag, consoleVars, bootVars, guardVars, deviceVars, lost>>

Parse ==
  /\ Runs("parse")
  /\ \E p \in Top.item :
       /\ update(p)
       /\ Become([Top EXCEPT !.ip = Position("main", IF ketoa(p, modifier') = {} THEN "poll"
                                                     ELSE "echo"),
                             !.item = {}])
  /\ UNCHANGED <<flag, consoleVars, bootVars, guardVars, deviceVars, lost>>

Echo ==
  /\ Runs("echo") /\ screen' = "echo"
  /\ Goto("poll")
  /\ UNCHANGED <<flag, locked, bootVars, guardVars, deviceVars, lost, keyboardVars>>

(***************************************************************************)
(* irq_handler, with ps2_keyboard_handler for line 1.                      *)
(***************************************************************************)
OtherIrq ==
  /\ Runs("inb") /\ Top.line # 1
  /\ Goto("ack")
  /\ UNCHANGED <<flag, consoleVars, bootVars, guardVars, deviceVars, lost, keyboardVars>>

ReturnsUnacked ==                                             \* mutant
  LET packet == UNION {parse(b) : b \in port}
  IN  /\ Runs("inb") /\ Top.line = 1
      /\ port' = {}
      /\ IF "src" \in once /\ packet # {}
         THEN Become([Top EXCEPT !.ip = @ + 1, !.item = packet])
         ELSE Goto("iret")
      /\ lost' = IF "src" \in once THEN lost ELSE lost \cup {p.key : p \in packet}
      /\ UNCHANGED <<flag, consoleVars, bootVars, guardVars, pic, down, keyboardVars>>

ReadByte ==
  LET packet == UNION {parse(b) : b \in port}
  IN  /\ Runs("inb") /\ Top.line = 1
      /\ port' = {}
      /\ IF "src" \in once /\ packet # {}
         THEN Become([Top EXCEPT !.ip = @ + 1, !.item = packet])
         ELSE Goto("ack")
      /\ lost' = IF "src" \in once THEN lost ELSE lost \cup {p.key : p \in packet}
      /\ UNCHANGED <<flag, consoleVars, bootVars, guardVars, pic, down, keyboardVars>>

TryPush ==
  /\ Runs("push")
  /\ \E p \in Top.item :
       \/ FillSlot(p) /\ Proceed /\ UNCHANGED lost
       \/ /\ Occupied = Capacity
          /\ Become([Top EXCEPT !.ip = Position("irq", "ack"), !.item = {}])
          /\ lost' = lost \cup {p.key}
          /\ UNCHANGED keyboardVars
  /\ UNCHANGED <<flag, consoleVars, bootVars, guardVars, deviceVars>>

PublishSlot ==
  /\ Runs("publish") /\ Publish
  /\ lost' = lost \ {p.key : p \in Top.item}
  /\ Become([Top EXCEPT !.ip = @ + 1, !.item = {}])
  /\ UNCHANGED <<flag, consoleVars, bootVars, guardVars, deviceVars>>

Acknowledge ==
  /\ Runs("ack") /\ pic' = ack(pic, Top.line)
  /\ Proceed
  /\ UNCHANGED <<flag, consoleVars, bootVars, guardVars, port, down, lost, keyboardVars>>

Iret ==
  /\ Runs("iret")
  /\ stack' = Front(stack) /\ flag' = Top.flags
  /\ UNCHANGED <<consoleVars, bootVars, guardVars, deviceVars, lost, keyboardVars>>

(* Waiting: in hlt, for the lock, for a key.                               *)
Wait ==
  /\ \/ Runs("hlt")
     \/ (Runs("lock") \/ Runs("start")) /\ locked
     \/ Runs("poll") /\ Occupied = 0
  /\ UNCHANGED vars
-----------------------------------------------------------------------------
(***************************************************************************)
(* The CPU and the devices.                                                *)
(***************************************************************************)
irq_gate == "Trap"
exn_gate == "Trap"

(* A gate of the other kind would clear the interrupt flag.                *)
Enter(gate) == flag' = (flag /\ gate = "Trap")

Deliver(irq) ==
  /\ flag /\ Interrupts(pic, irq)
  /\ Push(Frame("irq", irq)) /\ Enter(irq_gate)
  /\ pic' = Accept(pic, irq)
  /\ UNCHANGED <<consoleVars, bootVars, guardVars, port, down, lost, keyboardVars>>

On(code) == \E i \in DOMAIN stack : stack[i].code = code

Spurious ==
  /\ "spurious" \in setup.exceptions
  /\ flag /\ MayBeSpurious(pic)
  /\ \A i \in DOMAIN stack : stack[i].line # SpuriousLine
  /\ Push(Frame("irq", SpuriousLine)) /\ Enter(irq_gate)
  /\ UNCHANGED <<consoleVars, bootVars, guardVars, deviceVars, lost, keyboardVars>>

(* Exceptions.  Page and double faults are reported, for the others the    *)
(* handler returns.  Without the gates the machine would reset.            *)
Fault ==
  /\ "fault" \in setup.exceptions /\ {"idtr", "exn"} \subseteq idt
  /\ ~Runs("hlt") /\ ~On("fault")
  /\ Push(Frame("fault", 0)) /\ Enter(exn_gate)
  /\ UNCHANGED <<consoleVars, bootVars, guardVars, deviceVars, lost, keyboardVars>>

Trap ==
  /\ "trap" \in setup.exceptions /\ {"idtr", "exn"} \subseteq idt
  /\ Top.code # "trap"
  /\ Push(Frame("trap", 0)) /\ Enter(exn_gate)
  /\ UNCHANGED <<consoleVars, bootVars, guardVars, deviceVars, lost, keyboardVars>>

(* Nothing is under way between the keyboard and the key states.           *)
Settled ==
  /\ port = {} /\ Occupied = 0
  /\ \A i \in DOMAIN stack : stack[i].item = {}

(* The keyboard sends a byte once the last one was read.  A key that is    *)
(* down may repeat, only such a key is released.                           *)
KeyArrives(b) ==
  /\ port = {} /\ port' = {b} /\ (setup.slow => Settled)
  /\ \A p \in parse(b) : p.press \/ p.key \in down
  /\ down' = (down \ {p.key : p \in parse(b)}) \cup {p.key : p \in {q \in parse(b) : q.press}}
  /\ pic' = Request(pic, 1)
  /\ UNCHANGED <<stack, flag, consoleVars, bootVars, guardVars, lost, keyboardVars>>

NoiseArrives(irq) ==
  /\ pic' = Request(pic, irq)
  /\ UNCHANGED <<stack, flag, consoleVars, bootVars, guardVars, port, down, lost, keyboardVars>>

Console   == TakeLock \/ WriteText \/ DropLock
Boot      == Succeed \/ Panic \/ InitIdt \/ InitPic \/ enable_interrupt \/ InitKeyboard
Guard     == GuardDisables \/ GuardCounts \/ GuardDrops \/ GuardEnables
MonitorStep == Poll \/ Take \/ ReleaseSlot \/ Parse \/ Echo
Handler   == OtherIrq \/ ReadByte \/ TryPush \/ PublishSlot \/ Acknowledge \/ Iret
Interrupt == \E irq \in Lines : Deliver(irq)
Devices   == (\E b \in setup.bytes : KeyArrives(b)) \/ (\E irq \in setup.noise : NoiseArrives(irq))

Next ==
  \/ Console \/ Boot \/ Guard \/ MonitorStep \/ Handler \/ Wait
  \/ Interrupt \/ Spurious \/ Fault \/ Trap \/ Devices

(* The CPU goes on with the running frame.  A frame below that becomes the *)
(* running one again and again gets to move: keys arrive far apart, and    *)
(* after a trap the code goes on.  A request that waits while the flag is  *)
(* set again and again is delivered: the CPU looks after every             *)
(* instruction.  Nobody has to press a key or use a guard.                 *)
Code == Console \/ Boot \/ MonitorStep \/ Handler

Fairness ==
  /\ \A depth \in 1..MaxDepth : SF_vars(Len(stack) = depth /\ Code)
  /\ SF_vars(Interrupt)

Spec == Init /\ [][Next]_vars /\ Fairness
-----------------------------------------------------------------------------
(***************************************************************************)
(* Correctness.                                                            *)
(***************************************************************************)

(* The lines in service are exactly those whose handler has not            *)
(* acknowledged yet, each handler once: though a trap gate leaves          *)
(* interrupts enabled, the keyboard handler never interrupts itself, and   *)
(* the end-of-interrupt of a spurious interrupt ends no other.             *)
InService ==
  LET Unacked(i) == /\ stack[i].code = "irq" /\ stack[i].line # SpuriousLine
                    /\ stack[i].ip <= Position("irq", "ack")
      serving == {i \in DOMAIN stack : Unacked(i)}
  IN  /\ pic.isr = UNION {{stack[i].line, MasterLine(stack[i].line)} : i \in serving}
      /\ \A i, j \in serving : stack[i].line = stack[j].line => i = j

(* While a guard is alive interrupts are off, and once the last is dropped *)
(* they are on again, whatever order guards and exceptions come in; only   *)
(* in the middle of new and drop is there a guard less than cli suggests.  *)
GuardsDisable ==
  setup.tail = "guards" /\ Main.ip > Len(Kmain) =>
    /\ guard_cnt = guards
    /\ guards > 0 => ~flag
    /\ At(Main) = "use" => (flag <=> guards = 0)

(* Interrupts are never enabled before there is a handler to take them:    *)
(* the table is loaded, the controllers are moved off the exceptions'      *)
(* vectors, and only the keyboard is let through.                          *)
ReadyWhenEnabled ==
  flag => /\ idt = {"idtr", "exn", "irq"}
          /\ pic.vector = VECTOR_PIC /\ pic.imr = Lines \ {1}

(* The lock of the console has at most one holder and is taken as long as  *)
(* there is one.  Who waits for it forever is the handler of a fault that  *)
(* interrupted the holder; neither kmain nor a panic ever does.            *)
OnlyFaultsWait ==
  LET ops == {"write", "unlock"} \cup {Monitor[i] : i \in 2..Len(Monitor)}
      holders == {i \in DOMAIN stack : At(stack[i]) \in ops}
  IN  /\ locked <=> holders # {}
      /\ \A i, j \in holders : i = j
      /\ locked /\ (Runs("lock") \/ Runs("start")) => Top.code = "fault"

(* When nothing is under way between the keyboard and the key states, they *)
(* agree on every key whose latest packet was not dropped.                 *)
StatesCatchUp ==
  Settled => \A k \in (down \cup states) \ lost : k \in down /\ k \in states

Shifts == {KEY_LEFTSHIFT, KEY_RIGHTSHIFT}

(* The modifiers follow the fingers.  When nothing is under way, ALT and   *)
(* CTRL are on exactly while their key is really down, unless its latest   *)
(* packet was dropped.  SHIFT is never on without a shift key down, and is *)
(* on with both down, however the two were pressed and repeated; when one  *)
(* of two is released it goes off with the other still down.               *)
ModifiersHeld ==
  Settled =>
    /\ \A k \in {KEY_LEFTALT, KEY_LEFTCTRL} \ lost :
         Held(k) \subseteq modifier <=> k \in down
    /\ Shifts \cap lost = {} =>
         /\ "SHIFT" \in modifier => Shifts \cap down # {}
         /\ Shifts \subseteq down => "SHIFT" \in modifier

Sent == {parse(b) : b \in UNION {s.bytes : s \in Setups}} \ {{}}

Queue == INSTANCE EventQueue WITH
           Packet <- Sent, queue <- Waiting,
           hand <- IF At(Main) = "parse" THEN {Main.item} ELSE {}

(* The ring between handler and consumer is a queue: nothing published is  *)
(* overwritten, lost or seen twice, however the two interleave.            *)
IsEventQueue == Queue!Spec

Faultless == ~On("fault")

(* A byte that requested service from the controllers as init set them up  *)
(* is read, if interrupts are enabled again and again and nothing faults.  *)
KeyServed ==
  []<>flag /\ []Faultless =>
    ((pic.vector = VECTOR_PIC /\ 1 \in pic.irr) ~> (port = {}))

(* A fault that finds the console unlocked is reported, and so is every    *)
(* panic unless a fault comes between.                                     *)
Reported ==
  /\ (Top.code = "fault" /\ Runs("lock") /\ ~locked) ~> (screen = "fault")
  /\ []Faultless => (On("panic") ~> (screen = "panic"))

(* While packets wait, the monitor keeps taking them out of the ring.      *)
Delivered ==
  []Faultless =>
    ((setup.tail = "monitor" /\ Main.ip > Len(Kmain) + 1 /\ Occupied > 0)
        ~> (At(Main) = "parse"))
=============================================================================
