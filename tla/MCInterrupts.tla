---------------------------- MODULE MCInterrupts ----------------------------
(* Instances of Interrupts for TLC. *)
EXTENDS Interrupts

\* One for the time slice, one for a sleep or a message.
MCIds == 1..2
=============================================================================
