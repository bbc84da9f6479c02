--------------------------- MODULE ThreeWireProofs ---------------------------
(***************************************************************************)
(* adf_set_reg implements the atomic register write, for registers of any  *)
(* number of bytes and any words.                                          *)
(***************************************************************************)
EXTENDS ThreeWire, TLAPS

(* The bits of the fetched byte that are still to be put out.              *)
Left == Width - bit_pos - 8 * data

(* The top Left bits of one_byte are the next bits of the register.        *)
ByteInv == \A i \in 0..7 : i >= 8 - Left => one_byte[i] = reg[8 * data + i - (8 - Left)]

(* The last b bits shifted in are the top b bits of the register.          *)
Sent(b) == \A k \in 0..(Width - 1) : k < b => shift[k] = reg[Width - b + k]

(* What each point of the function relies on.                              *)
DataInv == pc = "data" => Left \in 0..7 /\ ByteInv /\ Sent(bit_pos) /\ IOA = Low
ClkInv == pc = "clk" =>
  /\ Left \in 1..8 /\ ByteInv /\ Sent(bit_pos) /\ bit_pos < Width
  /\ IOA = [Low EXCEPT !.DATA = one_byte[7]]
ShiftInv == pc = "shift" =>
  /\ Left \in 1..8 /\ ByteInv /\ Sent(bit_pos + 1) /\ bit_pos < Width
  /\ IOA.LE = 0
LeInv == pc = "le" => latched = reg /\ IOA.LE = 1 /\ IOA.CLK = 0

CallInv == (reg = None <=> pc = "idle") /\ (pc = "idle" => IOA = Low)

Inv == TypeOK /\ DataInv /\ ClkInv /\ ShiftInv /\ LeInv /\ CallInv

(* Sizes.                                                                  *)
LEMMA WidthType == Width \in Nat /\ Width >= 8 /\ Width = 8 * Bytes /\ Bytes \in Nat
BY BytesAssumption DEF Width

LEMMA InitInv == Init => Inv
<1> SUFFICES ASSUME Init PROVE Inv
  OBVIOUS
<1>1. TypeOK
  BY WidthType DEF Init, TypeOK, Wires, Low, BIT
<1> QED
  BY <1>1 DEF Init, Inv, DataInv, ClkInv, ShiftInv, LeInv, CallInv

(* What the chip does on the edges: nothing but a falling or a steady CLK  *)
(* and LE, one shift, or one latch.                                        *)
LEMMA DriveType ==
  ASSUME TypeOK, NEW wires \in Wires, Drive(wires)
  PROVE  /\ IOA' \in Wires /\ shift' \in [0..(Width - 1) -> BIT]
         /\ latched' \in [0..(Width - 1) -> BIT] \cup {None}
<1>1. wires.DATA \in BIT
  BY DEF Wires
<1>2. \A k \in 0..(Width - 1) : k # 0 => k - 1 \in 0..(Width - 1)
  BY WidthType
<1> QED
  BY <1>1, <1>2 DEF Drive, TypeOK

LEMMA NextInv == Inv /\ [Next]_vars => Inv'
<1> SUFFICES ASSUME Inv, [Next]_vars PROVE Inv'
  OBVIOUS
<1> USE WidthType DEF Inv
<1>r. reg # None => reg \in [0..(Width - 1) -> BIT]
  BY WordsAssumption DEF TypeOK
<1>1. CASE Call
  <2>1. TypeOK'
    BY <1>1 DEF Call, TypeOK, BIT
  <2>2. DataInv'
    <3>1. IOA' = Low
      BY <1>1 DEF Call, CallInv
    <3>2. Left' = 0
      BY <1>1 DEF Call, Left
    <3> QED BY <1>1, <3>1, <3>2 DEF Call, DataInv, ByteInv, Sent
  <2>3. CallInv'
    BY <1>1, WordsAssumption DEF Call, CallInv
  <2> QED BY <1>1, <2>1, <2>2, <2>3 DEF Call, ClkInv, ShiftInv, LeInv
<1>2. CASE DataBit
  <2>0. /\ pc = "data" /\ bit_pos \in 0..(Width - 1) /\ data \in 0..Bytes
        /\ Left \in 0..7 /\ ByteInv /\ Sent(bit_pos) /\ IOA = Low
        /\ reg \in [0..(Width - 1) -> BIT] /\ one_byte \in [0..7 -> BIT]
    BY <1>2, <1>r DEF DataBit, DataInv, TypeOK, CallInv
  <2>1. /\ data' \in 0..Bytes /\ one_byte' \in [0..7 -> BIT]
        /\ Left' \in 1..8 /\ ByteInv'
    <3>1. CASE bit_pos % 8 = 0
      <4>0. /\ bit_pos = 8 * (Bytes - data) - Left /\ bit_pos < 8 * Bytes
            /\ bit_pos \in Nat /\ data \in Nat /\ data <= Bytes
        BY <2>0 DEF Left
      <4>1a. Left = 0 /\ data # 0
        <5>1. ASSUME NEW b \in Nat, NEW d \in 0..Bytes, NEW l \in 0..7,
                     b = 8 * (Bytes - d) - l, b % 8 = 0, b < 8 * Bytes
              PROVE  l = 0 /\ d # 0
          BY <5>1
        <5> QED BY <2>0, <3>1, <4>0, <5>1
      <4>1. Left = 0 /\ data \in 1..Bytes /\ data' = data - 1
        BY <1>2, <2>0, <3>1, <4>1a DEF DataBit
      <4>2. Left' = 8
        <5>1. Left' = Width - bit_pos - 8 * (data - 1)
          BY <1>2, <4>1 DEF DataBit, Left
        <5>2. Width - bit_pos - 8 * data = 0
          BY <4>1 DEF Left
        <5> QED BY <2>0, <4>1, <5>1, <5>2
      <4>3. one_byte' = [i \in 0..7 |-> reg[8 * data' + i]]
        BY <1>2, <3>1, <4>1 DEF DataBit, Byte
      <4>4. \A i \in 0..7 : 8 * data' + i \in 0..(Width - 1)
        BY <4>1
      <4>5. one_byte' \in [0..7 -> BIT]
        BY <2>0, <4>3, <4>4
      <4>6. ByteInv'
        BY <1>2, <4>1, <4>2, <4>3 DEF ByteInv, DataBit
      <4> QED BY <4>1, <4>2, <4>5, <4>6
    <3>2. CASE bit_pos % 8 # 0
      <4>1. data' = data /\ one_byte' = one_byte /\ bit_pos' = bit_pos /\ reg' = reg
        BY <1>2, <3>2 DEF DataBit
      <4>2. Left' = Left /\ Left # 0
        BY <2>0, <3>2, <4>1 DEF Left
      <4> QED BY <2>0, <4>1, <4>2 DEF ByteInv
    <3> QED BY <3>1, <3>2
  <2>2. IOA' = [Low EXCEPT !.DATA = one_byte'[7]] /\ UNCHANGED <<shift, latched>>
    BY <1>2, <2>0 DEF DataBit, Drive, Low
  <2>3. IOA' \in Wires
    BY <2>1, <2>2 DEF Wires, Low, BIT
  <2>4. TypeOK'
    BY <1>2, <2>1, <2>2, <2>3 DEF DataBit, TypeOK
  <2>5. Sent(bit_pos)'
    BY <1>2, <2>0, <2>2 DEF DataBit, Sent
  <2>6. ClkInv'
    BY <1>2, <2>0, <2>1, <2>2, <2>5 DEF DataBit, ClkInv
  <2> QED BY <1>2, <2>4, <2>6 DEF DataBit, DataInv, ShiftInv, LeInv, CallInv
<1>3. CASE ClkHigh
  <2>0. /\ pc = "clk" /\ bit_pos \in 0..(Width - 1) /\ data \in 0..Bytes
        /\ Left \in 1..8 /\ ByteInv /\ Sent(bit_pos)
        /\ IOA.CLK = 0 /\ IOA.LE = 0 /\ IOA.DATA = one_byte[7] /\ IOA \in Wires
    BY <1>3 DEF ClkHigh, ClkInv, TypeOK, Low
  <2>1. one_byte[7] = reg[Width - bit_pos - 1]
    <3>1. 7 \in 0..7 /\ 7 >= 8 - Left
      BY <2>0
    <3>2. one_byte[7] = reg[8 * data + 7 - (8 - Left)]
      BY <2>0, <3>1 DEF ByteInv
    <3>3. 8 * data + 7 - (8 - Left) = Width - bit_pos - 1
      BY <2>0 DEF Left
    <3> QED BY <3>2, <3>3
  <2>2. /\ IOA' = [IOA EXCEPT !.CLK = 1]
        /\ shift' = [k \in 0..(Width - 1) |-> IF k = 0 THEN one_byte[7] ELSE shift[k - 1]]
        /\ latched' = latched
    BY <1>3, <2>0 DEF ClkHigh, Drive, Wires
  <2>3. Sent(bit_pos + 1)'
    <3> SUFFICES ASSUME NEW k \in 0..(Width - 1), k < bit_pos + 1
                 PROVE  shift'[k] = reg[Width - (bit_pos + 1) + k]
      BY <1>3 DEF ClkHigh, Sent
    <3>1. CASE k = 0
      BY <2>0, <2>1, <2>2, <3>1
    <3>2. CASE k # 0
      <4>1. k - 1 \in 0..(Width - 1) /\ k - 1 < bit_pos
        BY <2>0, <3>2
      <4>2. shift[k - 1] = reg[Width - bit_pos + (k - 1)]
        BY <2>0, <4>1 DEF Sent
      <4>3. Width - bit_pos + (k - 1) = Width - (bit_pos + 1) + k
        BY <2>0
      <4> QED BY <2>2, <3>2, <4>2, <4>3
    <3> QED BY <3>1, <3>2
  <2>4. [IOA EXCEPT !.CLK = 1] \in Wires
    BY <2>0 DEF Wires, BIT
  <2>5. TypeOK'
    BY <1>3, <2>4, DriveType DEF ClkHigh, TypeOK
  <2>6. ShiftInv'
    <3>1. Left' = Left /\ ByteInv'
      BY <1>3, <2>0 DEF ClkHigh, Left, ByteInv
    <3>2. IOA'.LE = 0
      BY <2>0, <2>2 DEF Wires
    <3> QED BY <1>3, <2>0, <2>3, <3>1, <3>2 DEF ClkHigh, ShiftInv
  <2> QED BY <1>3, <2>5, <2>6 DEF ClkHigh, DataInv, ClkInv, LeInv, CallInv
<1>4. CASE ClkLow
  <2>0. /\ pc = "shift" /\ bit_pos \in 0..(Width - 1) /\ data \in 0..Bytes
        /\ Left \in 1..8 /\ ByteInv /\ Sent(bit_pos + 1) /\ IOA.LE = 0
        /\ one_byte \in [0..7 -> BIT]
    BY <1>4 DEF ClkLow, ShiftInv, TypeOK
  <2>1. IOA' = Low /\ UNCHANGED <<shift, latched, reg, data>> /\ bit_pos' = bit_pos + 1
    BY <1>4, <2>0 DEF ClkLow, Drive, Low
  <2>2. /\ one_byte' \in [0..7 -> BIT]
        /\ \A i \in 1..7 : one_byte'[i] = one_byte[i - 1]
    BY <1>4, <2>0 DEF ClkLow, BIT
  <2>3. Left' = Left - 1
    BY <2>0, <2>1 DEF Left
  <2>4. ByteInv'
    <3> SUFFICES ASSUME NEW i \in 0..7, i >= 8 - (Left - 1)
                 PROVE  one_byte'[i] = reg[8 * data + i - (8 - (Left - 1))]
      BY <2>1, <2>3 DEF ByteInv
    <3>1. i - 1 \in 0..7 /\ i - 1 >= 8 - Left /\ i \in 1..7
      BY <2>0
    <3>2. one_byte[i - 1] = reg[8 * data + (i - 1) - (8 - Left)]
      BY <2>0, <3>1 DEF ByteInv
    <3>3. 8 * data + (i - 1) - (8 - Left) = 8 * data + i - (8 - (Left - 1))
      BY <2>0
    <3> QED BY <2>2, <3>1, <3>2, <3>3
  <2>5. TypeOK'
    BY <1>4, <2>0, <2>1, <2>2 DEF ClkLow, TypeOK, Wires, Low, BIT
  <2>6. Sent(bit_pos)'
    BY <2>0, <2>1 DEF Sent
  <2>7. DataInv'
    BY <1>4, <2>0, <2>1, <2>3, <2>4, <2>6 DEF ClkLow, DataInv
  <2> QED BY <1>4, <2>1, <2>5, <2>7 DEF ClkLow, ClkInv, ShiftInv, LeInv, CallInv
<1>5. CASE LeHigh
  <2>0. /\ pc = "data" /\ bit_pos = Width /\ Sent(Width) /\ IOA = Low /\ reg # None
        /\ shift \in [0..(Width - 1) -> BIT] /\ reg \in [0..(Width - 1) -> BIT]
    BY <1>5, <1>r DEF LeHigh, DataInv, TypeOK, CallInv
  <2>1. shift = reg
    <3>1. \A k \in 0..(Width - 1) : k < Width /\ Width - Width + k = k
      OBVIOUS
    <3>2. \A k \in 0..(Width - 1) : shift[k] = reg[k]
      BY <2>0, <3>1 DEF Sent
    <3> QED BY <2>0, <3>2
  <2>2. IOA' = [Low EXCEPT !.LE = 1] /\ shift' = shift /\ latched' = shift
    BY <1>5, <2>0 DEF LeHigh, Drive, Low
  <2>3. TypeOK'
    BY <1>5, <2>0, <2>2 DEF LeHigh, TypeOK, Wires, Low, BIT
  <2> QED BY <1>5, <2>1, <2>2, <2>3
          DEF LeHigh, DataInv, ClkInv, ShiftInv, LeInv, CallInv, Low
<1>6. CASE LeLow
  <2>1. IOA' = Low /\ UNCHANGED <<shift, latched>>
    BY <1>6 DEF LeLow, Drive, Low
  <2>2. TypeOK'
    BY <1>6, <2>1 DEF LeLow, TypeOK, Wires, Low, BIT
  <2> QED BY <1>6, <2>1, <2>2 DEF LeLow, DataInv, ClkInv, ShiftInv, LeInv, CallInv
<1>7. CASE UNCHANGED vars
  BY <1>7 DEF vars, TypeOK, DataInv, ClkInv, ShiftInv, LeInv, CallInv, ByteInv, Sent, Left
<1> QED
  BY <1>1, <1>2, <1>3, <1>4, <1>5, <1>6, <1>7 DEF Next, Body

(* Types hold in every reachable state: no fetch below the register, no    *)
(* thirty-third bit.                                                       *)
THEOREM TypeCorrect == Spec => []TypeOK
<1>1. Inv => TypeOK
  BY DEF Inv
<1> QED
  BY <1>1, InitInv, NextInv, PTL DEF Spec

(* Every step of the bit-banging is a step of the atomic write or changes  *)
(* neither the word being written nor what the chip has latched.           *)
LEMMA StepImplements == Inv /\ [Next]_vars => [Abstract!Next]_(Abstract!vars)
<1> SUFFICES ASSUME Inv, [Next]_vars PROVE [Abstract!Next]_(Abstract!vars)
  OBVIOUS
<1> USE DEF Abstract!Next, Abstract!vars, Inv
<1>1. CASE Call
  BY <1>1 DEF Call, CallInv, Abstract!Call
<1>2. CASE DataBit
  BY <1>2 DEF DataBit, Drive, DataInv, Low
<1>3. CASE ClkHigh
  <2>1. IOA.LE = 0 /\ [IOA EXCEPT !.CLK = 1].LE = 0
    BY <1>3 DEF ClkHigh, ClkInv, Low
  <2> QED BY <1>3, <2>1 DEF ClkHigh, Drive
<1>4. CASE ClkLow
  BY <1>4 DEF ClkLow, Drive, Low
<1>5. CASE LeHigh
  <2>1. latched' = reg' /\ reg' = reg /\ reg # None
    <3>1. LeInv' /\ pc' = "le"
      BY <1>5, NextInv DEF LeHigh
    <3> QED BY <1>5, <3>1 DEF LeHigh, LeInv, CallInv
  <2> QED BY <2>1 DEF Abstract!Latch
<1>6. CASE LeLow
  <2>1. latched' = latched /\ latched = reg /\ reg # None /\ reg' = None
    BY <1>6 DEF LeLow, Drive, LeInv, CallInv, Low
  <2> QED BY <2>1 DEF Abstract!Return
<1>7. CASE UNCHANGED vars
  BY <1>7 DEF vars
<1> QED
  BY <1>1, <1>2, <1>3, <1>4, <1>5, <1>6, <1>7 DEF Next, Body

(* adf_set_reg implements the atomic write of a register.                  *)
THEOREM ThreeWireImplements == Spec => Implements
<1>1. Init => Abstract!Init
  BY DEF Init, Abstract!Init
<1> QED
  BY <1>1, InitInv, NextInv, StepImplements, PTL DEF Spec, Implements, Abstract!Spec
=============================================================================
