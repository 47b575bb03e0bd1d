----------------------- MODULE MCInterruptController -----------------------
(***************************************************************************)
(* Instances of InterruptController.  The raising threads behave alike,    *)
(* but PriorityKept is a temporal formula, so no symmetry is declared.     *)
(***************************************************************************)
EXTENDS InterruptController

(* Every line a device of NEMU raises.                                     *)
DeviceIrqs == {TIMER_IRQ, KEYBOARD_IRQ, AUDIO_IRQ, IDE_IRQ}
=============================================================================
