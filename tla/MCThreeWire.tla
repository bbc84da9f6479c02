----------------------------- MODULE MCThreeWire -----------------------------
(* Registers of the real width; single bits at the borders of the bytes    *)
(* and two patterns without symmetry show a bit that is lost, repeated or  *)
(* in the wrong place.                                                     *)
EXTENDS ThreeWire

Bits(S) == [k \in 0..31 |-> IF k \in S THEN 1 ELSE 0]

MCWords == {Bits({k}) : k \in {0, 7, 8, 23, 24, 31}}
             \cup {Bits({}), Bits({0, 1, 2, 4, 8, 13, 21, 30}), Bits(0..31)}
=============================================================================
