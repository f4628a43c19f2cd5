-------------------------------- MODULE Pic ---------------------------------
(***************************************************************************)
(* The two cascaded interrupt controllers, as src/interrupt/pic.rs sets    *)
(* them up and acknowledges them.  A controller pair is a record: the      *)
(* lines that request service (irr), are in service (isr) or masked (imr), *)
(* and the vector of line 0.  Lines 8..15 come in through line 2; of the   *)
(* first controller's lines the lower number has priority.                 *)
(***************************************************************************)
EXTENDS Integers, FiniteSetsExt

VECTOR_PIC == 32

Lines == 0..15
Pic1  == 0..7
Pic2  == 8..15
Cascade == 2

(* The hardware, external to the kernel.  The line through which the first *)
(* controller sees a line, and whether a line may interrupt now.           *)
MasterLine(irq) == IF irq \in Pic1 THEN irq ELSE Cascade

Interrupts(pic, irq) ==
  /\ irq \in pic.irr \ pic.imr
  /\ irq \in Pic2 => /\ Cascade \notin pic.imr
                     /\ \A j \in pic.isr \cap Pic2 : irq < j
  /\ \A j \in pic.isr \cap Pic1 : MasterLine(irq) < j

Request(pic, irq) == [pic EXCEPT !.irr = @ \cup {irq}]

Accept(pic, irq) == [pic EXCEPT !.irr = @ \ {irq}, !.isr = @ \cup {irq, MasterLine(irq)}]

(* A request that is gone when the CPU asks for it is answered as line 7,  *)
(* with nothing in service.                                                *)
SpuriousLine == 7
MayBeSpurious(pic) ==
  \E irq \in Pic1 \ pic.imr : \A j \in pic.isr \cap Pic1 : irq < j

(* A non-specific end of interrupt: the most urgent line in service of the *)
(* controller it is sent to is done.                                       *)
EndOfInterrupt(pic, controller) ==
  LET served == pic.isr \cap controller
  IN  [pic EXCEPT !.isr = IF served = {} THEN @ ELSE @ \ {Min(served)}]

(* The driver.  ICW1 forgets every request and every mask.                 *)
init_pic == [irr |-> {}, isr |-> {}, imr |-> {}, vector |-> VECTOR_PIC]

mask_all(pic) == [pic EXCEPT !.imr = Lines]

UnmaskTooMany(pic, irq) == [pic EXCEPT !.imr = {}]             \* mutant

unmask(pic, irq) == [pic EXCEPT !.imr = @ \ {irq}]

ack(pic, irq) ==
  IF irq \in Pic1 THEN EndOfInterrupt(pic, Pic1)
  ELSE IF irq \in Pic2 THEN EndOfInterrupt(pic, Pic2)
  ELSE pic
=============================================================================
