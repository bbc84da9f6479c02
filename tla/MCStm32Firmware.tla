-------------------------- MODULE MCStm32Firmware --------------------------
(* A word of three bytes: a transfer can be overtaken with bytes in the    *)
(* memory, in DR, on the wire and in the chip.  Two words, whose bytes all *)
(* differ; a blink of two ticks, the shortest with a tick that does not    *)
(* end it.                                                                 *)
EXTENDS Stm32Firmware
=============================================================================
