------------------------------- MODULE I8259 -------------------------------
(***************************************************************************)
(* The data of NEMU's interrupt controller (nemu/src/device/i8259_pic.c):  *)
(* one pending interrupt number, with the priority rule the devices' raise *)
(* applies to it.  The modules that interleave raising, querying and       *)
(* acknowledging (InterruptController, KernelDisk) use these operators.    *)
(***************************************************************************)
EXTENDS Integers

CONSTANT Irqs            \* the interrupt lines the modelled devices use

ASSUME IrqsAssumption == Irqs \subseteq 0..15

IRQ_BASE      == 32      \* the vector of line 0
I8259_NO_INTR == 255     \* nothing is pending

TIMER_IRQ    == 0
KEYBOARD_IRQ == 1
AUDIO_IRQ    == 2
IDE_IRQ      == 14

IntrNos == {IRQ_BASE + q : q \in Irqs}
Slots   == IntrNos \cup {I8259_NO_INTR}

(* Mutants of SlotAfterRaise: the latest request wins; the line number is  *)
(* stored without IRQ_BASE.                                                *)
SlotAfterRaise_Latest(slot, irq) == irq + IRQ_BASE
SlotAfterRaise_NoBase(slot, irq) ==
  IF slot = I8259_NO_INTR \/ irq > slot - IRQ_BASE THEN irq ELSE slot

(* What i8259_raise_intr leaves in the slot: a request on a line with a    *)
(* higher number displaces the pending one, any other one is dropped.      *)
SlotAfterRaise(slot, irq) ==
  IF slot = I8259_NO_INTR \/ irq > slot - IRQ_BASE THEN irq + IRQ_BASE ELSE slot

(* The gate the kernel installs for a vector (kernel/src/irq/idt.c): an    *)
(* interrupt gate for the four device lines, a trap gate everywhere else.  *)
INTERRUPT_GATE_32 == 14
TRAP_GATE_32      == 15

GateType(no) ==
  IF no - IRQ_BASE \in {TIMER_IRQ, KEYBOARD_IRQ, AUDIO_IRQ, IDE_IRQ}
  THEN INTERRUPT_GATE_32 ELSE TRAP_GATE_32

(* EFLAGS.IF after raise_intr has gone through gate `no`.                  *)
IFAfterGate(no, IF_) == IF GateType(no) = 15 THEN FALSE ELSE IF_
=============================================================================
