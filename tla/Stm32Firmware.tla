---------------------------- MODULE Stm32Firmware ----------------------------
(***************************************************************************)
(* src/firmware/stm32/stm32adf435xfw.c: the control callback starts a DMA  *)
(* transfer of the register to the SPI and returns; the main loop raises   *)
(* LE when it finds the SPI idle; two interrupt handlers tidy up after the *)
(* DMA and switch the LED off.  DMA, SPI and chip work byte by byte, in    *)
(* parallel with the code.                                                 *)
(*                                                                         *)
(* Two assumptions on time, stated by guards: an interrupt is taken before *)
(* the next step of the main loop, and the DMA answers a request of the    *)
(* SPI before a byte is shifted out (512 clocks) and before the callback   *)
(* has returned to the loop.                                               *)
(***************************************************************************)
EXTENDS Naturals

CONSTANTS Words,         \* the words a host sends
          WordBytes,     \* sizeof(reg), 4
          LED_TIMEOUT,   \* ticks, 100
          None

ASSUME WordBytesAssumption == WordBytes \in Nat \ {0}
ASSUME TimeoutAssumption == LED_TIMEOUT \in Nat \ {0}

VARIABLES
  pc, configured,        \* main loop, callback registered
  request,               \* what the host has sent and usbd_poll not yet handled
  reg,                   \* the register in memory
  LE, LED, led_countdown,
  dma, txdma,            \* channel 3, SPI_CR2 TXDMAEN
  shifting, DR,          \* the byte on the wire, the one behind it
  shift, latched         \* the chip

board == <<LED, led_countdown>>
spi == <<shifting, DR, shift>>
vars == <<pc, configured, request, reg, LE, board, dma, txdma, spi, latched>>

Positions == 0..(WordBytes - 1)
Bytes == Words \X Positions

(* A word as the host sends it, least significant byte first.              *)
Data(w) == [k \in Positions |-> <<w, k>>]
Wire == [Positions -> Bytes]

ASSUME NoneAssumption == None \notin Words \cup Bytes \cup Wire

(* The most significant byte of reg is buf[0], and a word lies in memory   *)
(* with the least significant byte first: the bytes are turned round, once *)
(* by the shifts of the callback, once more on the wire.                   *)
Turned(bytes) == [k \in Positions |-> bytes[WordBytes - 1 - k]]

(* SET_REG with the four bytes of a word, requests the firmware refuses    *)
(* (SET_REG of another length, any with an answer), SET_CONFIGURATION.     *)
Refused == {"short SET_REG", "GET_MUX"}
Requests == Words \cup Refused \cup {"SET_CONFIGURATION"}

Off == [enabled |-> FALSE, interrupt |-> FALSE, left |-> 0, complete |-> FALSE]

Interrupt == dma.complete /\ dma.interrupt
DmaDue == dma.enabled /\ txdma /\ dma.left > 0 /\ DR = None
Busy == shifting # None

Init ==
  /\ pc = "usbd_poll" /\ configured = FALSE /\ request = None
  /\ reg = None
  /\ LE = 1 /\ LED = 0 /\ led_countdown = 0
  /\ dma = Off /\ txdma = FALSE
  /\ shifting = None /\ DR = None
  /\ shift = [k \in Positions |-> None] /\ latched = None

Host ==
  /\ request = None
  /\ request' \in Requests
  /\ UNCHANGED <<pc, configured, reg, LE, board, dma, txdma, spi, latched>>

(***************************************************************************)
(* Main loop                                                               *)
(***************************************************************************)
At(here, there) == pc = here /\ ~Interrupt /\ pc' = there

(* Nothing to do, or a request the device stalls.                          *)
usbd_poll ==
  /\ At("usbd_poll", "spi_poll")
  /\ request \in Refused \cup {None} \/ (~configured /\ request \in Words)
  /\ request' = None
  /\ UNCHANGED <<configured, reg, LE, board, dma, txdma, spi, latched>>

usb_set_config_cb ==
  /\ At("usbd_poll", "spi_poll")
  /\ request = "SET_CONFIGURATION"
  /\ configured' = TRUE /\ request' = None
  /\ UNCHANGED <<reg, LE, board, dma, txdma, spi, latched>>

(* Mutant: the bytes are taken in the order they come in.                  *)
StoreWordUnturned ==
  /\ At("usbd_poll", "clear_LE")
  /\ configured /\ request \in Words
  /\ reg' = Data(request)
  /\ UNCHANGED <<configured, request, LE, board, dma, txdma, spi, latched>>

(* vendor_control_callback: the word is stored while the transfer of the   *)
(* one before may still be running.                                        *)
StoreWord ==
  /\ At("usbd_poll", "clear_LE")
  /\ configured /\ request \in Words
  /\ reg' = Turned(Data(request))
  /\ UNCHANGED <<configured, request, LE, board, dma, txdma, spi, latched>>

(* Mutant: LE is left high.                                                *)
ClearLEForgotten ==
  /\ At("clear_LE", "dma_reset")
  /\ UNCHANGED <<configured, request, reg, LE, board, dma, txdma, spi, latched>>

ClearLE ==
  /\ At("clear_LE", "dma_reset")
  /\ LE' = 0
  /\ UNCHANGED <<configured, request, reg, board, dma, txdma, spi, latched>>

DmaReset ==
  /\ At("dma_reset", "dma_enable")
  /\ dma' = Off
  /\ UNCHANGED <<configured, request, reg, LE, board, txdma, spi, latched>>

(* Mutant: one byte too many.                                              *)
DmaEnablePastEnd ==
  /\ At("dma_enable", "tx_dma")
  /\ dma' = [Off EXCEPT !.enabled = TRUE, !.interrupt = TRUE, !.left = WordBytes + 1]
  /\ UNCHANGED <<configured, request, reg, LE, board, txdma, spi, latched>>

DmaEnable ==
  /\ At("dma_enable", "tx_dma")
  /\ dma' = [Off EXCEPT !.enabled = TRUE, !.interrupt = TRUE, !.left = WordBytes]
  /\ UNCHANGED <<configured, request, reg, LE, board, txdma, spi, latched>>

(* Mutant: relies on the SPI still being set up by the transfer before.    *)
EnableTxDmaForgotten ==
  /\ At("tx_dma", "set_LED")
  /\ UNCHANGED <<configured, request, reg, LE, board, dma, txdma, spi, latched>>

EnableTxDma ==
  /\ At("tx_dma", "set_LED")
  /\ txdma' = TRUE
  /\ UNCHANGED <<configured, request, reg, LE, board, dma, spi, latched>>

SetLED ==
  /\ At("set_LED", "countdown")
  /\ LED' = 1
  /\ UNCHANGED <<configured, request, reg, LE, led_countdown, dma, txdma, spi, latched>>

(* The callback returns, usbd_poll sends the status stage.                 *)
SetCountdown ==
  /\ At("countdown", "spi_poll")
  /\ led_countdown' = LED_TIMEOUT
  /\ request' = None
  /\ UNCHANGED <<configured, reg, LE, LED, dma, txdma, spi, latched>>

(* Mutant: waits for the DMA, not for the SPI.                             *)
spi_poll_dma ==
  /\ At("spi_poll", "usbd_poll") /\ ~DmaDue
  /\ LE' = IF dma.left > 0 THEN LE ELSE 1
  /\ latched' = IF LE = 0 /\ LE' = 1 THEN shift ELSE latched
  /\ UNCHANGED <<configured, request, reg, board, dma, txdma, spi>>

(* A rising LE latches what has been shifted in.                           *)
spi_poll ==
  /\ At("spi_poll", "usbd_poll") /\ ~DmaDue
  /\ LE' = IF Busy THEN LE ELSE 1
  /\ latched' = IF LE = 0 /\ LE' = 1 THEN shift ELSE latched
  /\ UNCHANGED <<configured, request, reg, board, dma, txdma, spi>>

Callback == StoreWord \/ ClearLE \/ DmaReset \/ DmaEnable \/ EnableTxDma \/ SetLED \/ SetCountdown
MainLoop == usbd_poll \/ usb_set_config_cb \/ Callback \/ spi_poll

(***************************************************************************)
(* Interrupt handlers                                                      *)
(***************************************************************************)
(* Mutant: led_countdown-- for --led_countdown.                            *)
sys_tick_late ==
  /\ led_countdown > 0
  /\ led_countdown' = led_countdown - 1
  /\ LED' = IF led_countdown = 0 THEN 0 ELSE LED
  /\ UNCHANGED <<pc, configured, request, reg, LE, dma, txdma, spi, latched>>

sys_tick_handler ==
  /\ led_countdown > 0
  /\ led_countdown' = led_countdown - 1
  /\ LED' = IF led_countdown' = 0 THEN 0 ELSE LED
  /\ UNCHANGED <<pc, configured, request, reg, LE, dma, txdma, spi, latched>>

dma1_channel3_isr ==
  /\ Interrupt
  /\ dma' = [dma EXCEPT !.complete = FALSE, !.interrupt = FALSE, !.enabled = FALSE]
  /\ txdma' = FALSE
  /\ UNCHANGED <<pc, configured, request, reg, LE, board, spi, latched>>

(***************************************************************************)
(* DMA, SPI and the chip's shift register                                  *)
(***************************************************************************)
DmaTransfer ==
  /\ DmaDue
  /\ LET byte == reg[WordBytes - dma.left] IN
       IF Busy THEN DR' = byte /\ UNCHANGED shifting
               ELSE shifting' = byte /\ UNCHANGED DR
  /\ dma' = [dma EXCEPT !.left = @ - 1, !.complete = dma.left = 1]
  /\ UNCHANGED <<pc, configured, request, reg, LE, board, txdma, shift, latched>>

(* The bytes the chip holds before the first one was sent are None.        *)
ShiftOut ==
  /\ Busy /\ ~DmaDue
  /\ shift' = [k \in Positions |-> IF k = 0 THEN shifting ELSE shift[k - 1]]
  /\ shifting' = DR /\ DR' = None
  /\ UNCHANGED <<pc, configured, request, reg, LE, board, dma, txdma, latched>>

Hardware == DmaTransfer \/ ShiftOut

Next == Host \/ MainLoop \/ sys_tick_handler \/ dma1_channel3_isr \/ Hardware

Spec == Init /\ [][Next]_vars

(* The loop runs, the clock ticks, interrupts are served, the hardware     *)
(* works; the host owes nothing.                                           *)
FairSpec ==
  Spec /\ WF_vars(MainLoop) /\ WF_vars(sys_tick_handler) /\ WF_vars(dma1_channel3_isr)
       /\ WF_vars(DmaTransfer) /\ WF_vars(ShiftOut)

(***************************************************************************)
(* Properties                                                              *)
(***************************************************************************)
Word == IF reg = None THEN None ELSE Turned(reg)

(* Every variable holds a value of its kind; a byte waits in DR only while *)
(* another one is on the wire, the channel has completed only when nothing *)
(* is left.                                                                *)
TypeOK ==
  /\ pc \in {"usbd_poll", "clear_LE", "dma_reset", "dma_enable", "tx_dma", "set_LED",
             "countdown", "spi_poll"}
  /\ configured \in BOOLEAN /\ request \in Requests \cup {None} /\ reg \in Wire \cup {None}
  /\ LE \in {0, 1} /\ LED \in {0, 1} /\ led_countdown \in 0..LED_TIMEOUT
  /\ dma \in [enabled : BOOLEAN, interrupt : BOOLEAN, left : 0..WordBytes, complete : BOOLEAN]
  /\ txdma \in BOOLEAN
  /\ shifting \in Bytes \cup {None} /\ DR \in Bytes \cup {None}
  /\ shift \in [Positions -> Bytes \cup {None}]
  /\ latched \in [Positions -> Bytes \cup {None}] \cup {None}
  /\ DR # None => Busy
  /\ dma.complete => dma.left = 0

(* Whatever is still on its way when the next request overwrites reg and   *)
(* restarts the DMA (148-183): the chip latches whole words only, and only *)
(* the one accepted last.                                                  *)
Abstract == INSTANCE LatchedWord WITH Words <- {Data(w) : w \in Words}, accepted <- Word
Implements == Abstract!Spec

(* LE is the only sign of completion (217-221): when it is high, the word  *)
(* accepted last is in the chip, not a part of it and not the one before.  *)
HighMeansLatched == LE = 1 /\ pc # "clear_LE" => latched = Word

(* The chip takes in bits with LE low only, whichever transfer they belong *)
(* to.                                                                     *)
ClockedWhileLow == Busy => LE = 0

(* When the host pauses, the word it sent last reaches the chip, however   *)
(* the transfers before have overtaken each other.                         *)
LastWordArrives == <>[](request = None) => <>[](latched = Word)

(* The countdown is set after the LED and counted by an interrupt at any   *)
(* time (186-187, 200-204): when the host pauses the LED goes out.         *)
LedGoesOut == <>[](request = None) => <>[](LED = 0)
=============================================================================
