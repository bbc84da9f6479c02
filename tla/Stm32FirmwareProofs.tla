------------------------- MODULE Stm32FirmwareProofs -------------------------
(***************************************************************************)
(* The chip never latches anything but the word accepted last, for words   *)
(* of any number of bytes and requests at any moment of a transfer.        *)
(***************************************************************************)
EXTENDS Stm32Firmware, TLAPS

(* The callback between storing a word and restarting the DMA: a transfer  *)
(* of the word before may still be running, and hand out the new bytes.    *)
Restarting == pc \in {"clear_LE", "dma_reset", "dma_enable"}

(* Bytes of the present transfer the DMA has handed to the SPI.            *)
Handed == WordBytes - dma.left

(* The byte handed out j bytes ago: still in DR, on the wire or in the     *)
(* chip.                                                                   *)
Ago(j) == IF DR # None
            THEN IF j = 0 THEN DR ELSE IF j = 1 THEN shifting ELSE shift[j - 2]
            ELSE IF Busy THEN IF j = 0 THEN shifting ELSE shift[j - 1]
                         ELSE shift[j]

(* The bytes handed out last are those of the present word, in order,      *)
(* whatever an overtaken transfer has left in front of them.               *)
BytesInv == ~Restarting /\ reg # None =>
  \A j \in Positions : j < Handed => Ago(j) = reg[Handed - 1 - j]

(* While bytes are left the SPI goes on asking for them.                   *)
AskingInv == ~Restarting /\ reg # None /\ dma.left > 0 =>
  dma.enabled /\ (pc = "tx_dma" \/ txdma)

(* LE is low from the callback on, high only when all is done.             *)
LowInv == pc \in {"dma_reset", "dma_enable", "tx_dma", "set_LED", "countdown"} => LE = 0
HighInv == LE = 1 => ~Busy /\ dma.left = 0

(* Before the first word.                                                  *)
FreshInv == reg = None => LE = 1 /\ latched = None /\ pc \in {"usbd_poll", "spi_poll"}

Inv == TypeOK /\ BytesInv /\ AskingInv /\ LowInv /\ HighInv /\ FreshInv /\ HighMeansLatched

(* Positions of a word and their images.                                   *)
LEMMA Sizes == /\ WordBytes \in Nat /\ WordBytes > 0
               /\ \A k \in Positions : k \in Nat /\ k < WordBytes /\ WordBytes - 1 - k \in Positions
               /\ \A k \in Nat : k < WordBytes => k \in Positions
BY WordBytesAssumption DEF Positions

(* A word as it is sent has bytes at its positions; turned round twice it  *)
(* is the word again.                                                      *)
LEMMA DataType ==
  ASSUME NEW w \in Words
  PROVE  Data(w) \in Wire /\ Turned(Data(w)) \in Wire /\ Turned(Turned(Data(w))) = Data(w)
<1>1. \A k \in Positions : <<w, k>> \in Bytes
  BY DEF Bytes
<1>2. Data(w) \in Wire /\ Turned(Data(w)) \in Wire
  BY <1>1, Sizes DEF Data, Turned, Wire
<1>3. \A k \in Positions : WordBytes - 1 - (WordBytes - 1 - k) = k
  BY Sizes
<1> QED
  BY <1>2, <1>3, Sizes DEF Data, Turned, Wire

LEMMA InitInv == Init => Inv
<1> SUFFICES ASSUME Init PROVE Inv
  OBVIOUS
<1>1. TypeOK
  <2>1. dma \in [enabled : BOOLEAN, interrupt : BOOLEAN, left : 0..WordBytes, complete : BOOLEAN]
    BY WordBytesAssumption DEF Init, Off
  <2>2. led_countdown \in 0..LED_TIMEOUT
    BY TimeoutAssumption DEF Init
  <2> QED
    BY <2>1, <2>2 DEF Init, TypeOK, Off, Busy
<1> QED
  BY <1>1 DEF Init, Inv, BytesInv, AskingInv, LowInv, HighInv, FreshInv, HighMeansLatched,
              Off, Busy, Word, Restarting

(* The steps of the main loop keep every variable in its type.             *)
LEMMA MainLoopType == TypeOK /\ MainLoop => TypeOK'
<1> SUFFICES ASSUME TypeOK, MainLoop PROVE TypeOK'
  OBVIOUS
<1> USE DEF TypeOK, At, Busy
<1>1. CASE usbd_poll
  BY <1>1 DEF usbd_poll, board, spi
<1>2. CASE usb_set_config_cb
  BY <1>2 DEF usb_set_config_cb, board, spi
<1>3. CASE StoreWord
  BY <1>3, DataType DEF StoreWord, board, spi
<1>4. CASE ClearLE
  BY <1>4 DEF ClearLE, board, spi
<1>5. CASE DmaReset
  BY <1>5, Sizes DEF DmaReset, Off, board, spi
<1>6. CASE DmaEnable
  <2>1. dma' = [enabled |-> TRUE, interrupt |-> TRUE, left |-> WordBytes, complete |-> FALSE]
    BY <1>6 DEF DmaEnable, Off
  <2>2. dma' \in [enabled : BOOLEAN, interrupt : BOOLEAN, left : 0..WordBytes, complete : BOOLEAN]
    BY <2>1, WordBytesAssumption
  <2>3. dma'.complete = FALSE
    BY <2>1
  <2> QED BY <1>6, <2>2, <2>3 DEF DmaEnable, board, spi
<1>7. CASE EnableTxDma
  BY <1>7 DEF EnableTxDma, board, spi
<1>8. CASE SetLED
  BY <1>8 DEF SetLED, spi
<1>9. CASE SetCountdown
  BY <1>9, TimeoutAssumption DEF SetCountdown, spi
<1>10. CASE spi_poll
  <2>1. LE' \in {0, 1} /\ pc' = "usbd_poll" /\ UNCHANGED <<configured, request, reg, dma, txdma>>
    BY <1>10 DEF spi_poll
  <2>2. latched' \in [Positions -> Bytes \cup {None}] \cup {None}
    BY <1>10 DEF spi_poll
  <2>3. UNCHANGED <<LED, led_countdown, shifting, DR, shift>>
    BY <1>10 DEF spi_poll, board, spi
  <2> QED BY <2>1, <2>2, <2>3
<1> QED
  BY <1>1, <1>2, <1>3, <1>4, <1>5, <1>6, <1>7, <1>8, <1>9, <1>10 DEF MainLoop, Callback

(* The interrupt handlers and the hardware likewise: the DMA reads a byte  *)
(* of the register and nothing beside it.                                  *)
LEMMA DmaByte ==
  ASSUME TypeOK, DmaDue, reg # None
  PROVE  /\ reg \in Wire /\ dma.left \in 1..WordBytes
         /\ WordBytes - dma.left \in Positions
         /\ reg[WordBytes - dma.left] \in Bytes
<1>1. reg \in Wire /\ dma.left \in 1..WordBytes
  BY WordBytesAssumption DEF TypeOK, DmaDue
<1>2. WordBytes - dma.left \in Positions
  BY <1>1, Sizes
<1> QED
  BY <1>1, <1>2 DEF Wire

LEMMA HardwareType ==
  TypeOK /\ FreshInv /\ HighInv /\ (Host \/ sys_tick_handler \/ dma1_channel3_isr \/ Hardware)
    => TypeOK'
<1> SUFFICES ASSUME TypeOK, FreshInv, HighInv,
                    Host \/ sys_tick_handler \/ dma1_channel3_isr \/ Hardware
             PROVE  TypeOK'
  OBVIOUS
<1> USE DEF TypeOK, Busy
<1>1. CASE Host
  BY <1>1 DEF Host, board, spi
<1>2. CASE sys_tick_handler
  BY <1>2, TimeoutAssumption DEF sys_tick_handler, spi
<1>3. CASE dma1_channel3_isr
  BY <1>3 DEF dma1_channel3_isr, board, spi
<1>4. CASE DmaTransfer
  <2>1. reg # None
    BY <1>4 DEF DmaTransfer, DmaDue, FreshInv, HighInv
  <2>2. dma.left \in 1..WordBytes /\ reg[WordBytes - dma.left] \in Bytes
    BY <1>4, <2>1, DmaByte DEF DmaTransfer
  <2>3. dma' \in [enabled : BOOLEAN, interrupt : BOOLEAN, left : 0..WordBytes, complete : BOOLEAN]
    <3>1. (dma.left = 1) \in BOOLEAN /\ dma.left - 1 \in 0..WordBytes
      BY <2>2, WordBytesAssumption
    <3> QED BY <1>4, <3>1 DEF DmaTransfer
  <2>4. dma'.complete => dma'.left = 0
    BY <1>4, <2>2, WordBytesAssumption DEF DmaTransfer
  <2>5. /\ shifting' \in Bytes \cup {None} /\ DR' \in Bytes \cup {None}
        /\ DR' # None => shifting' # None
    BY <1>4, <2>2, NoneAssumption DEF DmaTransfer
  <2> QED BY <1>4, <2>3, <2>4, <2>5 DEF DmaTransfer, board
<1>5. CASE ShiftOut
  <2>1. shift' \in [Positions -> Bytes \cup {None}]
    <3>1. \A k \in Positions : k # 0 => k - 1 \in Positions
      BY WordBytesAssumption DEF Positions
    <3> QED BY <1>5, <3>1 DEF ShiftOut
  <2> QED BY <1>5, <2>1 DEF ShiftOut, board
<1> QED
  BY <1>1, <1>2, <1>3, <1>4, <1>5 DEF Hardware

(* Reading what is on its way: the next byte handed out pushes the others  *)
(* one position on, a shift moves none of them.                            *)
LEMMA AgoDma ==
  ASSUME TypeOK, DmaTransfer, reg # None
  PROVE  /\ Ago(0)' = reg[Handed]
         /\ \A j \in Nat : Ago(j + 1)' = Ago(j)
<1>1. reg[Handed] \in Bytes /\ reg[Handed] # None
  BY DmaByte, NoneAssumption DEF DmaTransfer, Handed
<1> QED
  BY <1>1 DEF DmaTransfer, DmaDue, Ago, Busy, TypeOK, Handed

LEMMA AgoShift ==
  ASSUME TypeOK, ShiftOut
  PROVE  \A j \in Positions : Ago(j)' = Ago(j)
<1> SUFFICES ASSUME NEW j \in Positions PROVE Ago(j)' = Ago(j)
  OBVIOUS
<1>1. /\ 0 \in Positions /\ j \in Nat
      /\ j # 0 => j - 1 \in Positions
      /\ j # 0 /\ j # 1 => j - 2 \in Positions
  BY Sizes
<1>2. /\ shift'[0] = shifting
      /\ \A k \in Positions : k # 0 => shift'[k] = shift[k - 1]
      /\ shifting' = DR /\ DR' = None /\ shifting # None
  BY <1>1 DEF ShiftOut, Busy
<1>3. CASE DR = None
  BY <1>1, <1>2, <1>3 DEF Ago, Busy
<1>4. CASE DR # None
  BY <1>1, <1>2, <1>4 DEF Ago, Busy
<1> QED
  BY <1>3, <1>4

(* One step per part of the invariant that the actions can disturb.        *)
LEMMA NextInv == Inv /\ [Next]_vars => Inv'
<1> SUFFICES ASSUME Inv, [Next]_vars PROVE Inv'
  OBVIOUS
<1> USE DEF Inv
<1>0. CASE UNCHANGED vars
  BY <1>0 DEF vars, board, spi, TypeOK, BytesInv, AskingInv, LowInv, HighInv, FreshInv,
              HighMeansLatched, Restarting, Handed, Ago, Busy, Word
<1>1. CASE Next
  <2>1. TypeOK'
    BY <1>1, MainLoopType, HardwareType DEF Next
  <2>2. CASE Host \/ usbd_poll \/ usb_set_config_cb \/ SetLED \/ SetCountdown \/ sys_tick_handler
    <3>1. /\ UNCHANGED <<reg, LE, dma, txdma, shifting, DR, shift, latched>>
          /\ \/ pc' = pc
             \/ pc = "usbd_poll" /\ pc' = "spi_poll"
             \/ pc = "set_LED" /\ pc' = "countdown"
             \/ pc = "countdown" /\ pc' = "spi_poll"
      BY <2>2 DEF Host, usbd_poll, usb_set_config_cb, SetLED, SetCountdown, sys_tick_handler,
                  At, spi, board
    <3> QED
      BY <2>1, <3>1 DEF BytesInv, AskingInv, LowInv, HighInv, FreshInv, HighMeansLatched,
                        Restarting, Handed, Ago, Busy, Word
  <2>3. CASE StoreWord
    <3>1. reg' \in Wire /\ reg' # None /\ pc' = "clear_LE"
          /\ UNCHANGED <<LE, dma, txdma, shifting, DR, shift, latched>>
      BY <2>3, DataType, NoneAssumption DEF StoreWord, At, spi
    <3> QED
      BY <2>1, <3>1 DEF BytesInv, AskingInv, LowInv, HighInv, FreshInv, HighMeansLatched,
                        Restarting, Busy
  <2>4. CASE ClearLE \/ DmaReset
    BY <2>1, <2>4 DEF ClearLE, DmaReset, At, Off, spi, BytesInv, AskingInv, LowInv, HighInv,
                      FreshInv, HighMeansLatched, Restarting, Busy
  <2>5. CASE DmaEnable
    <3>1. /\ dma'.enabled /\ dma'.left = WordBytes /\ pc' = "tx_dma" /\ LE = 0
          /\ UNCHANGED <<reg, LE, latched>>
      BY <2>5 DEF DmaEnable, At, Off, LowInv
    <3>2. Handed' = 0
      BY <3>1, WordBytesAssumption DEF Handed
    <3>3. BytesInv'
      BY <3>2, Sizes DEF BytesInv
    <3> QED
      BY <2>1, <3>1, <3>3 DEF AskingInv, LowInv, HighInv, FreshInv, HighMeansLatched
  <2>6. CASE EnableTxDma
    BY <2>1, <2>6 DEF EnableTxDma, At, spi, BytesInv, AskingInv, LowInv, HighInv,
                      FreshInv, HighMeansLatched, Restarting, Handed, Ago, Busy
  <2>7. CASE dma1_channel3_isr
    <3>1. dma.left = 0 /\ dma'.left = 0
      BY <2>7 DEF dma1_channel3_isr, Interrupt, TypeOK
    <3>2. UNCHANGED <<pc, reg, LE, shifting, DR, shift, latched>>
      BY <2>7 DEF dma1_channel3_isr, spi
    <3>3. Handed' = Handed
      BY <3>1 DEF Handed
    <3>4. BytesInv'
      BY <3>2, <3>3 DEF BytesInv, Restarting, Ago, Busy
    <3>5. AskingInv' /\ HighInv'
      BY <3>1, <3>2 DEF AskingInv, HighInv, Busy
    <3>6. LowInv' /\ FreshInv' /\ HighMeansLatched'
      BY <3>2 DEF LowInv, FreshInv, HighMeansLatched, Word
    <3> QED
      BY <2>1, <3>4, <3>5, <3>6
  <2>8. CASE DmaTransfer
    <3>1. reg # None /\ LE = 0
      BY <2>8 DEF DmaTransfer, DmaDue, HighInv, FreshInv, TypeOK
    <3>2. /\ dma.left \in 1..WordBytes /\ dma'.left = dma.left - 1 /\ dma'.enabled = dma.enabled
          /\ UNCHANGED <<pc, reg, LE, txdma, latched>>
      BY <2>8, <3>1, DmaByte DEF DmaTransfer, TypeOK
    <3>3. Handed' = Handed + 1 /\ Handed \in Nat
      BY <3>2, WordBytesAssumption DEF Handed
    <3>4. BytesInv'
      <4> SUFFICES ASSUME ~Restarting', NEW j \in Positions, j < Handed'
                   PROVE  Ago(j)' = reg[Handed' - 1 - j]
        BY <3>2 DEF BytesInv
      <4>1. CASE j = 0
        BY <2>8, <3>1, <3>3, <4>1, AgoDma
      <4>2. CASE j # 0
        <5>1. j - 1 \in Positions /\ j - 1 \in Nat /\ j - 1 < Handed /\ (j - 1) + 1 = j
          BY <3>3, <4>2, WordBytesAssumption DEF Positions
        <5>2. Ago(j)' = Ago(j - 1)
          BY <2>8, <3>1, <5>1, AgoDma
        <5>3. Ago(j - 1) = reg[Handed - 1 - (j - 1)]
          BY <3>1, <3>2, <5>1 DEF BytesInv, Restarting
        <5>4. Handed - 1 - (j - 1) = Handed' - 1 - j
          BY <3>3, <5>1, Sizes
        <5> QED BY <5>2, <5>3, <5>4
      <4> QED BY <4>1, <4>2
    <3> QED
      BY <2>1, <3>1, <3>2, <3>4 DEF AskingInv, LowInv, HighInv, FreshInv, HighMeansLatched,
                                    Restarting
  <2>9. CASE ShiftOut
    <3>1. LE = 0 /\ UNCHANGED <<pc, reg, LE, dma, txdma, latched>>
      BY <2>9 DEF ShiftOut, HighInv, TypeOK
    <3>2. BytesInv'
      BY <2>9, <3>1, AgoShift DEF BytesInv, Restarting, Handed
    <3> QED
      BY <2>1, <3>1, <3>2 DEF AskingInv, LowInv, HighInv, FreshInv, HighMeansLatched, Restarting
  <2>10. CASE spi_poll
    <3>1. /\ pc = "spi_poll" /\ pc' = "usbd_poll"
          /\ UNCHANGED <<reg, dma, txdma, shifting, DR, shift>>
      BY <2>10 DEF spi_poll, At, spi
    <3>2. BytesInv' /\ AskingInv' /\ LowInv'
      BY <3>1 DEF BytesInv, AskingInv, LowInv, Restarting, Handed, Ago, Busy
    <3>3. CASE Busy \/ LE = 1
      BY <2>1, <2>10, <3>1, <3>2, <3>3 DEF spi_poll, HighInv, FreshInv, HighMeansLatched, Word,
                                           Busy
    <3>4. CASE ~Busy /\ LE = 0
      <4>1. reg # None /\ reg \in Wire /\ LE' = 1 /\ latched' = shift
        BY <2>10, <3>4 DEF spi_poll, FreshInv, TypeOK
      <4>2. dma.left = 0
        BY <2>10, <3>1, <3>4, <4>1 DEF spi_poll, AskingInv, Restarting, DmaDue, TypeOK
      <4>3. shift = Turned(reg)
        <5>1. Handed = WordBytes /\ DR = None /\ ~Restarting
          BY <3>1, <3>4, <4>2, WordBytesAssumption DEF Handed, TypeOK, Restarting
        <5>2. \A j \in Positions : shift[j] = reg[WordBytes - 1 - j]
          BY <3>4, <4>1, <5>1, Sizes DEF BytesInv, Ago
        <5> QED BY <5>2 DEF Turned, TypeOK
      <4> QED
        BY <2>1, <3>1, <3>2, <3>4, <4>1, <4>2, <4>3 DEF HighInv, FreshInv, HighMeansLatched,
                                                        Word, Busy
    <3> QED BY <3>3, <3>4, <2>1 DEF TypeOK
  <2> QED
    BY <1>1, <2>2, <2>3, <2>4, <2>5, <2>6, <2>7, <2>8, <2>9, <2>10
       DEF Next, MainLoop, Callback, Hardware
<1> QED
  BY <1>0, <1>1

(* Types hold in every reachable state; the DMA reads nothing but reg.     *)
THEOREM TypesHold == Spec => []TypeOK
<1>1. Inv => TypeOK
  BY DEF Inv
<1> QED
  BY <1>1, InitInv, NextInv, PTL DEF Spec

(* When LE is high, the chip holds the word accepted last.                 *)
THEOREM HighAlwaysLatched == Spec => []HighMeansLatched
<1>1. Inv => HighMeansLatched
  BY DEF Inv
<1> QED
  BY <1>1, InitInv, NextInv, PTL DEF Spec

(* Bits are clocked into the chip with LE low only.                        *)
THEOREM AlwaysClockedLow == Spec => []ClockedWhileLow
<1>1. Inv => ClockedWhileLow
  BY DEF Inv, HighInv, ClockedWhileLow, TypeOK
<1> QED
  BY <1>1, InitInv, NextInv, PTL DEF Spec

(* Every step accepts a word, latches the last one or changes neither.     *)
LEMMA StepImplements == Inv /\ [Next]_vars => [Abstract!Next]_(Abstract!vars)
<1> SUFFICES ASSUME Inv, [Next]_vars PROVE [Abstract!Next]_(Abstract!vars)
  OBVIOUS
<1> USE DEF Abstract!Next, Abstract!vars
<1>1. CASE StoreWord
  <2>1. Word' = Data(request) /\ request \in Words /\ latched' = latched
    BY <1>1, DataType, NoneAssumption DEF StoreWord, Word, spi
  <2> QED BY <2>1 DEF Abstract!Accept
<1>2. CASE spi_poll
  <2>1. Word' = Word
    BY <1>2 DEF spi_poll, Word
  <2>2. CASE latched' = latched
    BY <2>1, <2>2
  <2>3. CASE latched' # latched
    <3>1. LE = 0 /\ LE' = 1 /\ pc' = "usbd_poll" /\ reg # None
      BY <1>2, <2>3 DEF spi_poll, At, Inv, FreshInv
    <3>2. latched' = Word
      BY <2>1, <3>1, NextInv DEF Inv, HighMeansLatched
    <3>3. Word # None
      BY <3>1, Sizes, NoneAssumption DEF Word, Turned, Wire, Inv, TypeOK
    <3> QED BY <2>1, <3>2, <3>3 DEF Abstract!Latch
  <2> QED BY <2>2, <2>3
<1>3. CASE UNCHANGED <<reg, latched>>
  BY <1>3 DEF Word
<1> QED
  BY <1>1, <1>2, <1>3 DEF Next, MainLoop, Callback, Hardware, vars, spi, Host, usbd_poll,
     usb_set_config_cb, ClearLE, DmaReset, DmaEnable, EnableTxDma, SetLED, SetCountdown,
     sys_tick_handler, dma1_channel3_isr, DmaTransfer, ShiftOut

(* The firmware implements the promise of the last word.                   *)
THEOREM Stm32Implements == Spec => Implements
<1>1. Init => Abstract!Init
  BY DEF Init, Abstract!Init, Word
<1> QED
  BY <1>1, InitInv, NextInv, StepImplements, PTL DEF Spec, Implements, Abstract!Spec
=============================================================================
