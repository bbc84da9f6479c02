---------------------------- MODULE RegisterWrite ----------------------------
(***************************************************************************)
(* What the firmware promises its callers about a register write, and what *)
(* Fx2Firmware takes for granted: a word is handed over, the chip latches  *)
(* this word in one step and never another, and only then the call returns.*)
(***************************************************************************)
CONSTANTS Words, None

VARIABLES calling,   \* the word being written, or None
          latched    \* the word the chip latched last, or None

vars == <<calling, latched>>

Init == calling = None /\ latched = None

Call == /\ calling = None
        /\ calling' \in Words
        /\ UNCHANGED latched

Latch == /\ calling # None
         /\ latched' = calling
         /\ UNCHANGED calling

Return == /\ calling # None /\ latched = calling
          /\ calling' = None
          /\ UNCHANGED latched

Next == Call \/ Latch \/ Return

Spec == Init /\ [][Next]_vars
=============================================================================
