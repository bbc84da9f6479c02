----------------------------- MODULE LatchedWord -----------------------------
(***************************************************************************)
(* What a firmware promises that hands a word to hardware and does not     *)
(* wait for it: the chip latches whole words only, and of the words        *)
(* accepted so far only the last one.  A word that is overtaken by the     *)
(* next before it is latched is lost; compare RegisterWrite, where the     *)
(* caller waits.                                                           *)
(***************************************************************************)
CONSTANTS Words, None

VARIABLES accepted,   \* the word accepted last, or None
          latched     \* what the chip latched last, or None

vars == <<accepted, latched>>

Init == accepted = None /\ latched = None

Accept == /\ accepted' \in Words
          /\ UNCHANGED latched

Latch == /\ accepted # None
         /\ latched' = accepted
         /\ UNCHANGED accepted

Next == Accept \/ Latch

Spec == Init /\ [][Next]_vars
=============================================================================
