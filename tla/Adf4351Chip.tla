----------------------------- MODULE Adf4351Chip -----------------------------
(***************************************************************************)
(* The ADF4351 synthesiser as the firmware sees it: six 32 bit registers   *)
(* written as whole words, the three least significant bits of a word      *)
(* naming the register it goes to.  The chip is external; what is modelled *)
(* is what the repository relies on: a word with control bits 6 or 7 is    *)
(* lost, and the double-buffered fields of R1, R2 and R4 (the tooltips of  *)
(* the GUI, usbioboard.cpp:117-128) take effect only with the next R0.     *)
(***************************************************************************)
EXTENDS Naturals

CONSTANTS Word,      \* the 32 bit values that occur
          Unset      \* content of a register not written since power-on

Regs == 0..5
DoubleBuffered == {1, 2, 4}

Ctrl(w) == w % 8

Latch == [Regs -> Word \cup {Unset}]

Chip == [regs : Latch, live : Latch]

PoweredOn == [regs |-> [r \in Regs |-> Unset], live |-> [r \in Regs |-> Unset]]

Latched(c, w) == [c.regs EXCEPT ![Ctrl(w)] = w]

(* The chip after LE has latched the word w.                               *)
AdfWrite(c, w) ==
  IF Ctrl(w) \notin Regs THEN c
  ELSE [regs |-> Latched(c, w),
        live |-> IF Ctrl(w) = 0 THEN Latched(c, w)
                 ELSE IF Ctrl(w) \in DoubleBuffered THEN c.live
                 ELSE [c.live EXCEPT ![Ctrl(w)] = w]]
=============================================================================
