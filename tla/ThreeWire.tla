------------------------------ MODULE ThreeWire ------------------------------
(***************************************************************************)
(* adf_set_reg of src/firmware/fx2/main.c: a register goes bit by bit over *)
(* the wires CLK, DATA and LE of port A.  One action is one assignment to  *)
(* IOA with the statements around it; the shift register of the chip       *)
(* reacts to the edges of the wires and to nothing else.                   *)
(***************************************************************************)
EXTENDS Naturals

CONSTANTS Bytes,   \* bytes of a register, 4
          Words,   \* the words written; bit k of a word is word[k]
          None

BIT == {0, 1}
Width == 8 * Bytes

ASSUME BytesAssumption == Bytes \in Nat \ {0}
ASSUME WordsAssumption == Words \subseteq [0..(Width - 1) -> BIT] /\ None \notin Words

VARIABLES pc, reg, data, one_byte, bit_pos,   \* the function
          IOA,                                \* the wires
          shift, latched                      \* the chip

vars == <<pc, reg, data, one_byte, bit_pos, IOA, shift, latched>>

Wires == [LE : BIT, CLK : BIT, DATA : BIT]
Low == [LE |-> 0, CLK |-> 0, DATA |-> 0]

(* The byte at p of the register in memory, least significant byte first.  *)
Byte(word, p) == [i \in 0..7 |-> word[8 * p + i]]

(* The chip: a rising CLK shifts DATA in, a rising LE latches what has     *)
(* been shifted in.                                                        *)
Drive(wires) ==
  /\ IOA' = wires
  /\ shift' = IF IOA.CLK = 0 /\ wires.CLK = 1
                THEN [k \in 0..(Width - 1) |-> IF k = 0 THEN wires.DATA ELSE shift[k - 1]]
                ELSE shift
  /\ latched' = IF IOA.LE = 0 /\ wires.LE = 1 THEN shift ELSE latched

Init ==
  /\ pc = "idle" /\ reg = None /\ data = 0 /\ bit_pos = 0
  /\ one_byte = [i \in 0..7 |-> 0]
  /\ IOA = Low
  /\ shift = [k \in 0..(Width - 1) |-> 0] /\ latched = None

(* Mutant: data one byte too high.                                         *)
CallPastEnd ==
  /\ pc = "idle"
  /\ reg' \in Words
  /\ pc' = "data" /\ data' = Bytes + 1 /\ bit_pos' = 0
  /\ one_byte' = [i \in 0..7 |-> 0]
  /\ UNCHANGED <<IOA, shift, latched>>

(* Called with a register: data points behind the most significant byte    *)
(* still to be fetched.                                                    *)
Call ==
  /\ pc = "idle"
  /\ reg' \in Words
  /\ pc' = "data" /\ data' = Bytes /\ bit_pos' = 0 /\ one_byte' = [i \in 0..7 |-> 0]
  /\ UNCHANGED <<IOA, shift, latched>>

(* Head of the loop: fetch a byte every eight bits, put out its top bit.   *)
DataBit ==
  /\ pc = "data" /\ bit_pos < Width
  /\ IF bit_pos % 8 = 0
       THEN data' = data - 1 /\ one_byte' = Byte(reg, data - 1)
       ELSE UNCHANGED <<data, one_byte>>
  /\ Drive([Low EXCEPT !.DATA = one_byte'[7]])
  /\ pc' = "clk"
  /\ UNCHANGED <<reg, bit_pos>>

ClkHigh ==
  /\ pc = "clk"
  /\ Drive([IOA EXCEPT !.CLK = 1])
  /\ pc' = "shift"
  /\ UNCHANGED <<reg, data, one_byte, bit_pos>>

(* Mutant: without one_byte <<= 1.                                         *)
ClkLowSameBit ==
  /\ pc = "shift"
  /\ Drive(Low)
  /\ bit_pos' = bit_pos + 1
  /\ pc' = "data"
  /\ UNCHANGED <<reg, data, one_byte>>

(* End of the loop body.                                                   *)
ClkLow ==
  /\ pc = "shift"
  /\ Drive(Low)
  /\ one_byte' = [i \in 0..7 |-> IF i = 0 THEN 0 ELSE one_byte[i - 1]]
  /\ bit_pos' = bit_pos + 1
  /\ pc' = "data"
  /\ UNCHANGED <<reg, data>>

(* Mutant: the loop is left one bit early.                                 *)
LeHighEarly ==
  /\ pc = "data" /\ bit_pos >= Width - 1
  /\ Drive([Low EXCEPT !.LE = 1])
  /\ pc' = "le"
  /\ UNCHANGED <<reg, data, one_byte, bit_pos>>

(* After the loop.                                                         *)
LeHigh ==
  /\ pc = "data" /\ bit_pos = Width
  /\ Drive([Low EXCEPT !.LE = 1])
  /\ pc' = "le"
  /\ UNCHANGED <<reg, data, one_byte, bit_pos>>

LeLow ==
  /\ pc = "le"
  /\ Drive(Low)
  /\ pc' = "idle" /\ reg' = None
  /\ UNCHANGED <<data, one_byte, bit_pos>>

Body == DataBit \/ ClkHigh \/ ClkLow \/ LeHigh \/ LeLow

Next == Call \/ Body

Spec == Init /\ [][Next]_vars

(* The function runs to its end once called.                               *)
FairSpec == Spec /\ WF_vars(Body)

(***************************************************************************)
(* Properties                                                              *)
(***************************************************************************)
(* Every variable holds a value of its kind: bit_pos ends at the width,    *)
(* data never points below the register (main.c:169-183).                  *)
TypeOK ==
  /\ pc \in {"idle", "data", "clk", "shift", "le"}
  /\ reg \in Words \cup {None} /\ data \in 0..Bytes /\ bit_pos \in 0..Width
  /\ one_byte \in [0..7 -> BIT] /\ IOA \in Wires
  /\ shift \in [0..(Width - 1) -> BIT]
  /\ latched \in [0..(Width - 1) -> BIT] \cup {None}

(* The thirty-two clocks and the one LE pulse of adf_set_reg amount to one *)
(* atomic register write: whatever an earlier call left in the shift       *)
(* register, the chip latches the word of this call and nothing else       *)
(* (main.c:166-186).                                                       *)
Abstract == INSTANCE RegisterWrite WITH calling <- reg
Implements == Abstract!Spec

(* Once called it returns, with the word latched.                          *)
Returns == \A w \in Words : (reg = w) ~> (reg = None /\ latched = w)
=============================================================================
