----------------------------- MODULE MCTinyAdf -----------------------------
(* Registers of two digits of two bits; a counter of digits that wraps     *)
(* after four, so that words are typed short, in full, too long, and past  *)
(* the wrap; words whose two digits differ.                                *)
EXTENDS TinyAdf

MCDigits == {0, 1, 2}
MCWords == {6, 11}
=============================================================================
