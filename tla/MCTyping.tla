------------------------------ MODULE MCTyping ------------------------------
(***************************************************************************)
(* An instance of Typing: two keys, a screen on which two or three letters *)
(* are at a time, and a pool that they nearly exhaust.                     *)
(***************************************************************************)
EXTENDS Typing

TypingIrqs == {TIMER_IRQ, KEYBOARD_IRQ}
=============================================================================
