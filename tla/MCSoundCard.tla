---------------------------- MODULE MCSoundCard ----------------------------
(***************************************************************************)
(* Instances of SoundCard.                                                 *)
(***************************************************************************)
EXTENDS SoundCard

SoundIrqs == {TIMER_IRQ, AUDIO_IRQ}
=============================================================================
