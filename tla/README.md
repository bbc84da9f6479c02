# A verification development for the ADF4351 controller

The repository drives an ADF4351 synthesiser through a small USB device: a
Python library and a Qt program calculate six 32-bit register words from a
frequency, send them as USB control transfers, and a firmware on the device
clocks them into the chip over three wires. These modules model that chain
from the control transfer to the latched register, and from the frequency to
the word, for each of the four firmwares in the repository; TLC checks them on
small instances, and TLAPS proves what is safety in them for all instances:
the invariants, the refinements and one action property.

All source paths below are relative to the repository.

## 1. The system

### Components, their state and operations

| Component | Source | State | Operations |
|---|---|---|---|
| FX2 firmware (current) | `firmware/fx2/main.c` | `pending_setup`, SETUPDAT, EP0 buffer and its BUSY/HSNAK/STALL bits, the register set in RAM (six words, type byte, checksum), the last page of the 24LC64 EEPROM, `init_wait` | power-on, stand-alone and immediate init, isr_SUDAV, the requests SET_REG, EE_REGS, GET_MUX, CHIP_REV, RENUMERATE |
| raw memory requests | `firmware/fx2/main.c:224-306` | address, length and chunk of the loop in work, the EEPROM page size, the memories | EEPROM_SB, EEPROM_DB, EXT_RAM, PAGE_SIZE |
| three-wire write | `firmware/fx2/main.c` `adf_set_reg` | byte pointer, bit counter, the byte being shifted, port A | one call per register |
| ADF4351 (hardware) | – | shift register, six latches, the double-buffered fields in effect | a rising CLK shifts, a rising LE latches, a write of R0 makes R1, R2 and R4 effective |
| GUI: USBCTRL | `qtgui/usbctrl.cpp` | device handle, `connected`, the values to send, the mask still to be sent, the auto-TX and MUXOUT flags | two timers, `changeReg` |
| GUI: USBIOBoard | `qtgui/usbioboard.cpp` | six register lines and their colour, auto TX, auto init, `wasConnected` | edits, buttons, check boxes, `updateGUI`, saving settings at exit |
| GUI: calculation | `qtgui/adf4351.cpp` | settings and the six words, two members never initialised | `buildRegisters` |
| Python library: calculation | `adf435x/core.py` | none, two functions of their arguments | `calculate_regs`, `make_regs` |
| evaluation example: calculation | `examples/adf4351-eval` | six unions of bit fields | `calculateFreq`, `getReg`, the range check of `main` |
| Python library: interfaces, `adf435xctl`, `adf435xinit` | `adf435x/interfaces.py` | a USB handle | one control transfer per register, one per store or read |
| older FX2 firmware | `firmware/fx2.fx2lib/fx2adf435xfw.c` | `got_sud`, `vendor_command` | interrupt, poll loop |
| STM32 firmware | `firmware/stm32/stm32adf435xfw.c` | the word, a DMA channel, LE, a LED countdown | set-configuration and control callback, DMA interrupt, `spi_poll`, tick |
| tinyADF firmware | `firmware/tinyADF/tinyADF.ino` | argument, digit counter, echo, verbose | `parse_command`, `set_register` |

### How they interact

The host (library or GUI) and the firmware meet in one control transfer at a
time: a SETUP packet raises an interrupt that only sets `pending_setup`; the
main loop parses SETUPDAT, arms EP0 and, for SET_REG, waits for BUSY to clear
before it reads the buffer. SETUPDAT and EP0BUF are memory shared with the USB
engine. The RAM register set is shared by SET_REG, EE_REGS and both start-up
inits. The EEPROM page carries a setting across a power cycle. In the GUI the
window and USBCTRL share one event loop; signals are direct calls, transfers
block it; pending work is handed over in flags that two timers consume.

The other firmwares do the same job with other means. The older FX2 firmware
acknowledges SET_REG at once and remembers it in `vendor_command` until the
data stage has gone by. The STM32 firmware gives the word to a DMA channel and
returns; its main loop raises LE whenever it finds the SPI idle, and two
interrupts tidy up. tinyADF reads characters from a serial line, on which the
driver sends eight digits and an `R`.

### What is hard

* the interrupt arriving anywhere in a handler, a flag reset early (SET_REG,
  EE_REGS) or late (the replies), and SETUPDAT overwritten under a handler;
* handlers that spin on BUSY with no timeout;
* hosts that give up in the middle, bus resets, loss of power or an EEPROM
  failure in the middle of the page write;
* two copies of the registers, one in RAM, one in the chip, written by four
  different pieces of code;
* the stand-alone init counting down while the bus may be enumerated;
* registers that take effect only when another one is written;
* in the GUI, a device that comes and goes while flags and masks wait for it,
  masks that overwrite each other, results that are ignored;
* in the raw memory loops, transfers that are given up while a loop goes on to
  arm EP0, two EEPROMs behind one request, pages that wrap round;
* in the STM32 firmware, a register and a DMA channel that the next request
  overwrites, and an idle SPI as the only sign that a word is complete;
* in the older FX2 firmware, EP0 armed and a flag cleared after the packet was
  read, when the next one may be there, and a word read from a buffer the host
  may be filling;
* in tinyADF, a counter that wraps, and digits left by whoever wrote before;
* in the calculation, floors of inexact quotients, rounding up to the modulus,
  values wider than their field, uninitialised members.

### What makes each component correct

* firmware: RAM set and chip agree; a page that was completely written
  verifies; the stand-alone init is innocent; a restored setting is in effect;
  every transfer ends, with the right answer; an acknowledged word arrives;
* raw memory: every byte goes to the address it was meant for; reads and writes
  that were reported as done are complete;
* STM32: the chip latches whole words, the last accepted one only, and LE tells;
* older FX2: a word is sent once and whole, nothing refused is reported done;
* tinyADF: an `R` writes what was typed, the driver's words always arrive;
* three-wire write: it is one atomic register write, for any contents the
  shift register had before;
* GUI: a black line tells the truth, unless its transmission was dropped or the
  device has lost its power; with the box ticked a replugged device is set up
  again; what auto TX has taken over arrives;
* calculation: decoded as the chip decodes them, the words tune the chip to
  the requested frequency, other settings unharmed, and with the VCO in range
  for the frequencies it can be in range for.

`PROJECT.json` lists every hazard at its source line with the properties that
would notice it.

## 2. The modules

```
Adf4351Chip   <- Fx2Firmware    <- Fx2FirmwareProofs
                 Fx2Firmware    <- MCFx2Firmware
RegisterWrite <- ThreeWire      <- ThreeWireProofs
                 ThreeWire      <- MCThreeWire
RegisterWrite <- TinyAdf        <- TinyAdfProofs
                 TinyAdf        <- MCTinyAdf
LatchedWord   <- Stm32Firmware  <- Stm32FirmwareProofs
                 Stm32Firmware  <- MCStm32Firmware
                 RawMemory      <- RawMemoryProofs
                 RawMemory      <- MCRawMemory
                 Fx2LibFirmware <- Fx2LibFirmwareProofs
                 Fx2LibFirmware <- MCFx2LibFirmware
                 UsbIoBoard     <- UsbIoBoardProofs
                 UsbIoBoard     <- MCUsbIoBoard
                 RegisterPlan   <- RegisterPlanProofs
                 RegisterPlan   <- MCRegisterPlan
```

### Fx2Firmware (with Adf4351Chip)

The main program is cut at the points where another party can make a
difference, and `pc` names them; the actions between two such points run as
one. `Boot` is `main` up to the loop, `StandbyTurn` a turn of the loop before
enumeration, `handle_pending_usb_setup` the head of the dispatcher (`Entry` is
its chain of `if`s). The two OUT requests then go through `ResetFlag`,
`ArmOut` and the wait for BUSY in `SetReg`, or in `Clear` / `Keep`, `AddType`
and `WritePage`: `req` points into SETUPDAT, so `wValue` is read once to
choose and a second time for the type byte, and a SETUP packet may come in
between. `Reply` and `RenumerateReply` arm EP0 first and reset the flag
afterwards, as the code does. `handle_usb_setup` is the interrupt handler and
runs with the packet, in `HostSetup`.

`reg_set` is the 32-byte structure as a record of words, type byte and
checksum; `Chksum` is a parameter, with the XOR of the code in the instance
for TLC. `synced` and `torn` are history variables: the registers that SET_REG
or an init has written since the set was last cleared, and whether the last
attempt to write the page broke off.

What the hardware and the vendored libfx2 do is written from how `main.c` uses
it: a SETUP packet clears BUSY and STALL and sets HSNAK; the data stage waits
for BUSY and clears it; the status stage waits for HSNAK; without a data stage
it takes the empty packet that `SETUP_EP0_BUF(0)` left; STALL refuses both
until the next SETUP packet. HSNAK is cleared by arming the buffer. Standard
requests are answered by the library inside the interrupt and appear only in
`Enumerate`. `Adf4351Chip` is the chip behind `adf_set_reg`.

The six words of `Adf4351Chip` are abstract values with control bits (`w % 8`),
`Tidy` says what can be in a slot of the register set: a word of this
register, a zero, or a word for no register (a blank EEPROM).

### RawMemory

The raw memory requests of the same program share the dispatcher, the flag and
the stages of a transfer with `Fx2Firmware`, and nothing else; here are their
loops: `Parse` copies address and length out of SETUPDAT and resets the flag,
`ReadChunk` waits and arms EP0, `ArmChunk` arms EP0 for the host and
`TakeChunk` stores what came, `LoopEnd` returns. `EepromFails` is the I2C error
at any of them. `Small` is the choice of the EEPROM by the end of the range;
`Target` is where a byte goes in an EEPROM that counts up within its own page
while `eeprom_write` cuts the data at the page size it was told. The copy to
external RAM takes `arg_len` bytes in every turn, as the code does, junk from
behind the buffer included.

A byte carries the address it was meant for, so that a misplaced one is
noticed wherever it is. It carries no chip: the properties do not tell whether
the right one of the two EEPROMs was chosen (section 6 has what was observed of
that choice). `clean` says of a transfer that no loop of an earlier one was at
work when it began, `given` that the host of the request in work is still
there, `harmed` collects the cells that writes may have spoilt that were given
up or that relied on a page larger than the real one. Without the first two the
properties fail, and rightly: the loop of a transfer that was given up takes
the next one's data (`main.c:261-272`).

### Fx2LibFirmware

`fx2adf435xfw_poll`, cut where the interrupt, the host or the USB engine can
come in: the test of `got_sud`, `handle_setupdata` (the vendored library calls
the handlers of this file and clears HSNAK after them), the clearing of the
flag, the switch over `vendor_command`, and `set_reg` byte by byte. The handlers
are cut once more: `handle_setupdata` chooses by the packet it finds and leaves
the command, `Respond` arms or stalls EP0, which by then may belong to another
packet (`fx2adf435xfw.c:64-70`). `cmd` is the parameter of that name. A message
of five bytes carries its own size, counted in bytes instead of bits here.

`missed` says that the SETUP packet of the present transfer came after the
choice and before `got_sud = FALSE`: EP0 does for it what the packet before
asked for. `fresh` is the message of the last data stage until it has been
sent, `astray` that it came with such a packet.

### Stm32Firmware and LatchedWord

The control callback is seven actions, from `StoreWord` to `SetCountdown`,
since the SPI may still be shifting the word before; `DmaTransfer` and
`ShiftOut` are the hardware, one byte each. Two assumptions on time are guards
of actions: an interrupt is taken before the next step of the main loop (`At`),
and the DMA answers the SPI before a byte of 512 clocks has been shifted out
and before `spi_poll` looks at BSY. Without the second, LE could rise before
the first byte; the code relies on it.

The first bytes of a word that overtakes another follow the last ones of the
other on the wire. `LatchedWord` says what survives: only whole words are
latched, and only the one accepted last. It differs from `RegisterWrite` in
that the caller does not wait, so that a word may be overtaken and lost.

### TinyAdf

One action per character of `parse_command`, and per port assignment of
`set_register`. The serial line holds what a human has typed or a killed
driver has left (`Type`), and the driver's words behind it (`set_regs`).
`typed`, `count` and `number` are history variables: what the characters mean
to somebody who counts without a byte. `Meaning` is the reference for what an
`R` writes, and `word` is the call that `RegisterWrite` implements: parser and
bits together are one atomic write of what was typed.

### ThreeWire and RegisterWrite

`ThreeWire` is `adf_set_reg` one port assignment at a time; the chip reacts to
edges. `RegisterWrite` is what the rest of the firmware takes for granted: the
word handed over is latched in one step, no other word ever is, and the call
returns only then. It is the abstraction under which `Fx2Firmware` uses one
`AdfWrite` per word. The refinement mapping sends `calling` to `reg` and
`latched` to `latched`; a bit on the wires is a stuttering step.

### UsbIoBoard

One action is one event of the Qt loop with all slots it calls: the two timers
(`pollUSB` in its three branches, `slowReadTimeout`), and what the user can do
(a setting, an edit, the buttons, the two boxes). `Plug` and `Unplug` are the
cable. `Restart` is leaving the program and starting it again: the destructor
saves the settings, pending registers are dropped, the device keeps its own.
`autoInit` is free after it, since what is saved is the box as `updateGUI` last
saw it and a frequency on the command line sets it. `handle_ok` says whether the handle that the program holds still reaches
the device: a replugged device looks alive to a program that has not noticed.
`lost` collects the registers whose transmission was dropped since the window
opened, because the mask was overwritten or a transfer failed and nobody looked
at the result; `forgot` those with a black line which the device has lost with
its power and which have not been handed over since. Both are what the code
does, and `BlackIsTrue` names them as the only lines that lie.

### RegisterPlan

`calculate_regs` and `make_regs` of the library, `buildRegisters` of the GUI
and `calculateFreq` of the evaluation program, which are three implementations
of one calculation and share the operators in which they agree. Frequencies are whole kHz. A quotient of doubles is its
exact fraction, with what binary noise can make of it: a tie rounds either
way, and in the library the floor of a whole quotient may be one lower, where
the GUI adds 1e-9. The settings that do not decide on the frequency are given
as the bits they occupy (`Others`). The two members of the GUI's class that
nothing initialises are a choice from `Garbage`. The evaluation program cuts
its fraction where the others round, and assigns to bit fields (`Layout`,
`Assigned`), so that nothing can spill over; out of range is off. The second
half of the module decodes the words of all three by that layout, which for the
library and the GUI is independent of the code that encodes.

The calculation was compared with the Python functions on about two thousand
requests: the words the library returns, or its refusal, were always one of
the results the model allows.

The evaluation program reads its frequency as a decimal, so that a whole
quotient may also come out just below: `Cut` allows for both. The cut has a
price that the model shows: with the default R counter of 250,
about half of the whole kHz frequencies come out one step of the modulus low
in the evaluation program. No doc promises more, so `Tuned` allows it one step.

## 3. What the runs check

| Run | Configuration | Question |
|---|---|---|
| `fx2_any_host` | `MCFx2AnyHost` | safety under any host, bus reset, EEPROM failure, loss of power |
| `fx2_polite_host` | `MCFx2Polite` | every register request, with a host that finishes what it starts: answers and liveness |
| `raw_memory` | `MCRawMemory` | every byte at its address, exact reads, complete writes, with aborted and failing transfers |
| `three_wire` | `MCThreeWire` | 32 bits wide: refines `RegisterWrite`, returns |
| `stm32` | `MCStm32Firmware` | refines `LatchedWord`, LE tells the truth, the last word arrives, the LED goes out |
| `fx2lib` | `MCFx2LibFirmware` | words sent once and whole, transfers end, nothing acknowledged is forgotten, with SETUP packets at any point |
| `tiny_adf` | `MCTinyAdf` | parser and bits refine `RegisterWrite`, the driver's word arrives |
| `usb_io_board` | `MCUsbIoBoard` | truth of the black lines but for dropped and forgotten ones, recovery and delivery, with unplugging, failing transfers and restarts |
| `register_plan` | `MCRegisterPlan` | the words of the three programs tune the chip |
| `fx2_store`, `plan_library`, `plan_gui` | `MCFx2Store`, `MCPlanLibrary`, `MCPlanGui` | statements of the documentation that the code does not keep (section 6) |

`fx2_any_host` checks `ShadowMatchesChip` (RAM copy and chip agree on every
register written since the last clear, through failed reads, both inits and
every interleaving), `StandbyUntouched` (while the stand-alone init is armed,
the chip is untouched and the verified page is what will be replayed),
`PageVerifies` (only an interrupted write leaves a page that does not verify)
and `RestoredInEffect` (an init leaves the setting in effect, double-buffered
registers included). The first version of `RestoredInEffect` had no condition
on R0, and TLC showed that a set stored without R0 is latched but never comes
into effect.

`fx2_polite_host` checks `AnsweredByOwnHandler`, `FlagHeldOnlyByReplies`,
`TransferFinishes` and `WordReachesChip`. The last is not obvious: SET_REG
acknowledges the transfer before it looks at the word, so the host may send
the next request while the word is still in EP0BUF.

`raw_memory`: `BytesInPlace` is about all cells outside the reach of writes
that were given up or took the page for a larger one: their damage does not
spread. `ReadIsExact` and `WriteIsComplete` about clean transfers
that the host saw end well. `WriteIsComplete` excepts a last chunk that fails
after the host has been told: the status stage of the last chunk comes before
its write. It holds although each chunk to external RAM first fills the whole
rest of the range with junk: the later chunks put it right.

`stm32`: `HighMeansLatched` is the strongest of its properties. It says that
LE, the one thing `spi_poll` decides on, is never raised early: neither before
the first byte of a new word nor between the words when one overtakes another.
`LastWordArrives` and `LedGoesOut` speak of a host that pauses.

`fx2lib`: the window of `missed` is real, and wider than the two lines at
200-203. A host gives up a GET_MUX whose handler has been chosen and sends a
SET_REG: the handler arms EP0 for it (69), the word is taken and acknowledged,
and with `vendor_command` still GET_MUX the loop drops it (217-219). TLC finds
this trace as soon as `AcknowledgedIsSent` does not except `missed`. The
properties say that this window is the only way to be lost, and that what is
sent is nevertheless a whole message, once; a request that is unknown may lend
its data to a SET_REG given up before, and `astray` says so.

`usb_io_board`: `BlackIsTrue` has two exceptions by name. Without `lost` TLC
refutes it with one button, without `forgot` when the device is pulled after
its set-up. What is left is the order of things: hand-overs whose mask, values
and moment of sending belong to different events must never leave a black line
with another value in the device. A restart clears both: the new window has to
show as red what the old one did not get through. `RestoredAfterReplug` says
what auto init does about `forgot`; without auto init nothing does.

`register_plan`: `VcoInRange` is about 34.375 to 4400 MHz. The programs accept
33 to 4500 MHz, and outside the octaves the VCO is out of range with whatever
divider; the property then asks for the last one on that side.

`tiny_adf`: `Implements` covers fewer digits than a word has, more, none at all
after each of the commands, up to the wrap of the counter, behind which only
the program's own argument has a meaning. `DriverWordArrives` is the point of
the leading zeros in the driver's format: eight digits push out whatever was
left on the line, unless the counter wraps within them.

Bounds, and why they are enough:

* Words are four values: a word of R0, a word of R1, zero and all ones. R0 and
  R1 are the two kinds that differ, direct and double-buffered; zero is what a
  clear leaves, all ones what a blank EEPROM holds and a word for no register.
  The code treats registers alike apart from that. The proofs need none of
  this.
* `InitWait` is 2 instead of 200: armed, one turn left, expired.
* `AnyRequests` are the four requests that change state in different ways, and
  the initial page is one that is restored at once; `fx2_polite_host` has all
  requests, three type bytes (0, 2, and 256, whose low byte is 0), short words,
  and a blank page, which verifies. A page of type 1 arises in `fx2_any_host`
  from EE_REGS 1 and a loss of power; so `StandbyTurn` is reached.
* `ThreeWire` runs at full width; the words have single bits at the borders of
  the bytes, all bits, none, and an irregular pattern. A call with the contents
  of another in the shift register is reached for each pair.
* `RawMemory`: buffers and pages of two bytes, one-byte addresses up to 3;
  ranges that end before, at and behind the last one, start within a page, take
  one, two and three buffers, and do not leave the memory; page sizes below and
  above the real one (`PageBytes` is 2^e in the code and in the instance). Three
  transfers (`MaxTransfers`): one given up, one it disturbs, a clean one.
* `Stm32Firmware`: words of three bytes, so that an overtaken transfer can have
  bytes in memory, in DR, on the wire and in the chip; two words that differ
  in each byte; a countdown of 2. The proofs need none of this.
* `Fx2LibFirmware`: words of two bytes, so that sending can be interrupted in
  the middle; messages that are too short, right, and carry a size below and
  above the word's; refused requests with and without data.
* `TinyAdf`: two digits of two bits for eight of four, a counter that wraps
  after four digits for 256, one character typed ahead (`RxSize`) besides a
  command of the driver. Short, full, long and wrapping numbers all occur.
* `UsbIoBoard` has two registers and two values, so that masks overlap,
  exclude and cover each other.
* `RegisterPlan`: frequencies on and next to every kind of border (device,
  divider, VCO, phase detector grid), references with a phase detector
  frequency on and off the kHz grid and with a fraction that ties (it is a
  kilohertz at least, otherwise there is no modulus), all
  combinations of doubler, divide-by-2, feedback and mode; other settings all
  zero and all ones.

CHECK_DEADLOCK is off where the system may stop: `fx2_any_host` (an unknown
request stays pending and a device whose host has gone away spins on BUSY),
`raw_memory` (the same, and the bound on transfers) and the `RegisterPlan` runs
(a calculation ends).

Fairness. In `Fx2Firmware`: the main loop keeps running, and a host that has
begun a transfer goes on with it; nothing obliges the host to begin one, to
enumerate, or to reset. `fx2_polite_host` has no faults: a host that gives up
has nothing to complain of. `RawMemory` and `Fx2LibFirmware` assume the same
two things, with hosts that do give up. In `Stm32Firmware`: the main loop runs,
the tick comes, interrupts are served, DMA and SPI go on; the host owes
nothing. In `TinyAdf`: the loop routine runs. In `ThreeWire`: a function that
was called runs.
In `UsbIoBoard`: both timers fire; strong fairness of the MUXOUT read says two
things of the world: nobody presses buttons so fast, for ever, that a mask
waits at each poll, and a device that is there does not fail for ever; and at
some start the program is left running. Nothing else is assumed of user or
cable; the properties name what they need of the cable.

## 4. What is proved

TLAPS checks these for every value of the constants, under the named
assumptions of the modules. TLC evaluates every assumption in the runs.

| Module | Assumed of the constants |
|---|---|
| `Fx2Firmware` | `Word` is a set of naturals with 0 and without `Unset`; the types include 0, 1 and 2; the checksum is a natural number and 0 for the cleared set; `InitWait` is positive; requests are well formed; the page at first power-on verifies and is tidy |
| `ThreeWire` | at least one byte; words are bit vectors |
| `Stm32Firmware` | a word has a byte, the countdown a tick; `None` is none of the values |
| `Fx2LibFirmware` | a word has more than one byte, since a message is told from an answer by its length; requests are well formed; `None` is none of the values |
| `UsbIoBoard` | `Unset` is no word |
| `RawMemory` | a buffer holds 1 to 255 bytes; the small chip holds whole pages and is not larger than the other memories; ranges end within the memory they name; a page has a byte |
| `TinyAdf` | a digit has a bit, a register a digit, and the counter does not wrap within one; `None` is no number |
| `RegisterPlan` | the phase detector has a kilohertz; the evaluation program has only frequency and R counter, and R divides the reference; other settings leave the calculated fields free |

### Fx2FirmwareProofs

* `TypesHold`: `TypeOK` is not inductive. A replay uses the low bits of
  whatever the register set holds, and pages may be torn; `TypeInv` adds that
  register set and page are `Tidy`. A mixture of two tidy sets is tidy
  (`MixType`), which carries it through interrupted reads and writes.
* `PageAlwaysVerifies`: `PageInv` adds that at `ee_write` the register set
  verifies. This holds although the type byte may be read from another
  request than the one being served (`RequestType` gives the type), because
  the checksum is taken over what was written.
* `StandbyAlwaysUntouched`: `StandbyInv` adds what holds before the first loop
  turn; every action that could interfere first clears `init_wait`, or cannot
  be enabled at `pc = "loop"` before enumeration.
* `ShadowAlwaysMatches`: inductive together with `StandbyInv`, which excludes
  an init over a set that SET_REG has changed; `ReplayEffect` says that a
  replay of a tidy set leaves each own word in its register, where the later
  words of other registers and zeros (words for R0) do not destroy it since R0
  comes last.
* `AlwaysRestoredInEffect`: the action property, from the same lemma and
  `AdfWriteR0`.
* `PoliteAnswered` and `PoliteFlagHeld` have a hypothesis, `PoliteHost`: the
  host does not give up, the bus is not reset, the EEPROM does not fail, all
  requests are known and a read asks for a byte. The power may fail. The
  instance of `fx2_polite_host` satisfies it; without it both are false, an
  unknown request or a host that gives up leaves the flag behind. `ServedInv`
  says that a handler that has not armed EP0 yet serves the transfer in work
  (`Begun`), which cannot go on without it; `FlagInv` that a request waits only
  while its host does; `ReplyInv` that the byte in EP0 is the handler's own.

### ThreeWireProofs

`TypeCorrect` and `ThreeWireImplements`, for registers of any number of bytes.
The inductive invariant has one part per `pc`: `ByteInv` says that the top
`Left` bits of `one_byte` are the next bits of the register, `Sent(b)` that the
last `b` bits in the shift register are the top `b` bits of the word. With
`bit_pos = Width` the whole shift register is the word, so LE latches it, and
this is the abstract `Latch`.

### Stm32FirmwareProofs

For words of any number of bytes and any countdown:

* `TypesHold`, which includes two facts about the hardware: DR is filled only
  behind a byte on the wire, and the DMA has completed only when nothing is
  left.
* `HighAlwaysLatched`, `AlwaysClockedLow` and `Stm32Implements` come from one
  invariant, `Inv`. `HighMeansLatched` is not inductive: `BytesInv` says that
  the bytes the DMA has handed out last, wherever they are (`Ago`: in DR, on
  the wire or in the chip), are those of the present word in order, whatever an
  overtaken transfer has left in front of them; `AskingInv` that the SPI goes
  on asking while bytes are left; `HighInv` that LE is high only with the SPI
  idle and nothing left. `spi_poll` raises LE only then, and the shift register
  is the word: this is the step `Latch` of `LatchedWord`.

### Fx2LibFirmwareProofs

`TypesHold`, `DoneAlwaysHandled` and `AlwaysSentOnceAndWhole`, for words of any
number of bytes and any requests, SETUP packets at any point included. The
invariant follows one packet. `WaitInv`: EP0 refuses both stages until the
packet has been answered, unless it is one of the `missed`. `ArmedInv`: EP0 is
armed only for a packet that was answered or for one of the missed, and until
the data has come the buffer counts no message. `AnswerInv`: what was not missed
was stalled or answered by its own handler. `MessageInv` is the heart: with SET_REG pending,
BUSY clear and the length of a message, the buffer is the message of the last
data stage, not yet sent (`Fresh`), but for the moment in which a new SET_REG
has yet to arm EP0. `SendInv` carries this through the bytes:
nothing arms EP0 while `set_reg` runs, since only the main loop does. A message
may lie about its size, and sends that many bytes; then more than a word may
have been sent, and the property speaks of what LE latches.

### RawMemoryProofs

For buffers, chunks, pages and memories of any size:

* `TypesHold` and `BytesAlwaysInPlace`. `CleanInv` says that a clean transfer
  finds no loop that would arm EP0 for it, `GivenInv` that the host of a write
  in work is where the loop is, chunk by chunk, `PlacedInv` that a loop has put
  in place what it has come past, or that all within its reach counts as
  harmed. The last is needed for the copy to external RAM, which fills the rest
  of the range with junk before it is right. `Division` and the lemmas on
  addresses say where a byte goes that is written in a page of one size with a
  page of another in mind.
* `WriteAlwaysComplete` and `ReadAlwaysExact` add, for a clean transfer, that
  the loop at work is the transfer's own: `WriteInv` that the range is replaced
  up to `arg_addr`, `ReadInv` that the loop is one buffer ahead of the host,
  what the host has is the memory's, and only the last packet is a short one.

### UsbIoBoardProofs

`TypesHold` and `BlackAlwaysTrue`, for any number of registers and values.
`BlackIsTrue` needs one fact more, `HandedOver`: USBCTRL holds the text of
every black line, so that whatever is sent later, with a mask made for another
reason, is what the line shows. The exceptions `lost` and `forgot` are part of
what is proved; the theorem says that there are no others.

### TinyAdfProofs

`TypesHold` and `TinyAdfImplements`, for any digits and registers. The
invariant is `MeaningInv`, between commands the argument is what the characters
mean to somebody who counts without a byte; `CountInv`, which ties the byte to
that count up to its wrap; and `SendInv`, whose `Sent(b)` splits the word into
the bits in the chip and those left in the argument. What `Value` computes is
shown from a least counterexample: a digit behind a full register pushes the
first one out (`ShiftedIn`), with room left it does not (`RoomLeft`). That a
power of two doubles (`PowNext`) is shown by counting subsets, since the
provers know nothing of `^`.

### RegisterPlanProofs

For every set of requests, frequencies and references of any size included:

* `VcoAlwaysInRange`: `LibraryReaches` and `GuiReaches` compare the two
  searches for the divider with the range; within 34.375 to 4400 MHz the VCO is
  in it, outside the divider is the last one.
* `SettingsAlwaysKept` and `TypesHold`: one lemma per register says that values
  that fit can be read back from the word (`ReadR0` to `ReadR5`), whatever
  settings lie between them; for the GUI the values that do not fit are the
  defect of section 6, and left out by `Representable`.
* `AlwaysTuned`: `PlansTune` and `EvalPlansTune`. A nearest number is half a
  step away (`Rounded`), one that is cut a step (`CutOff`, and `WithinBelow` for an INT one
  lower), and reducing by the
  gcd changes nothing (`Within`, `SameRatio`). That `gcd` computes the greatest
  common divisor (`GcdDef`) is shown for all pairs from a least counterexample,
  which `WFMin` gives without an induction.

The inductive invariant ties the program's steps to this: `Waiting`, between
`calculate_regs` and `make_regs` the plan is one of its request's; `Built`,
words are `Right` for request and plan; `Off`.

### Only model-checked

* Liveness, since fairness and ENABLED are out of the provers' reach:
  `TransferFinishes` of three modules, `WordReachesChip`, `Returns`,
  `LastWordArrives`, `LedGoesOut`, `AcknowledgedIsSent`, `DriverWordArrives`,
  `RestoredAfterReplug` and `AutoTxDelivers`.
* The three statements of section 6, each refuted by a counterexample.

Every invariant that a passing run checks is proved.

## 5. What is not modelled

* the serial number strings, descriptor texts, echo and help of tinyADF,
  formatting in the window: wording and layout. The widgets that feed
  `buildRegisters` are one arbitrary change of the six lines in `UsbIoBoard`;
* the look-up tables and refusals of `make_regs` for settings that do not
  decide on the frequency;
* clock, port and interrupt set-up of the firmwares, bus reset and high speed
  interrupts of the older one, which touch descriptors only;
* in the evaluation examples, option parsing and the straight-line transfers
  of `main.cpp`, `eval.cpp` and `set_100`; the other drivers of
  `interfaces.py`, which send a fixed sequence of transfers or characters;
* the time between transfers: a host may be as fast or slow as it likes. A
  length of zero in a raw memory request, which is never acknowledged, is left
  out of `TransferFinishes` by name;
* build files, udev rules, form and images: no behaviour.

libusb, the USB engine of the FX2, the EEPROM and the ADF4351 are external and
are modelled as far as the code relies on them.

## 6. Where the code and what is said of it disagree

| Run | Statement | What happens |
|---|---|---|
| `plan_library` | `README.md:50`: the code sets the output frequency | `calculate_regs(100.1)` gives 100.0984 MHz: floor of a quotient just below 32032, FRAC rounded up to MOD, both reduced to 1, MOD set to 2, FRAC left at 1: one half |
| `plan_gui` | `qtgui/README.md:14`: set initial frequency | with R counter 1, 1000.001 MHz needs a modulus of 6250, which is cut to 12 bits |
| `fx2_store` | `adf435x/interfaces.py:73`: store the current register values | after a clear the RAM copy is zero while the chip runs on; a later store saves zeros |

Observed while modelling, without a run: the default EEPROM request "detects
large address mode" (`README.md:195`) by an end that is one behind the last
address (`main.c:244-245`), so that a range that ends at 255 goes to the large
EEPROM and the last byte of the small one cannot be reached; the replies of the current firmware
reset `pending_setup` only after the data has gone (`main.c:313`, against the
comment at 198-202), so a fast host is refused once; a value typed into a
register line is not sent by auto TX (`qtgui/usbioboard.cpp:254`, against the
tooltip at 43); the band select divider and its auto flag in the GUI are
uninitialised members (`qtgui/adf4351.cpp:91`); the STM32 firmware refuses
GET_MUX, so the GUI loses it and finds it again for ever; the GUI leaves lines
black whose transmission failed, was overwritten, or whose device was
replugged without auto init; the older firmware may acknowledge a word and drop
it when a host gives up the request before.

## 7. Plan

Done, in this order: `Adf4351Chip`, `Fx2Firmware` and its proofs;
`RegisterWrite`, `ThreeWire` and the refinement; `UsbIoBoard`; `RegisterPlan`;
`LatchedWord`, `Stm32Firmware` and its proofs; `Fx2LibFirmware`; `RawMemory`;
`TinyAdf`; the evaluation program in `RegisterPlan`, `Restart` in `UsbIoBoard`;
proofs about `UsbIoBoard`, `Fx2LibFirmware`, `RawMemory`, `RegisterPlan`,
`TinyAdf` and the polite host of `Fx2Firmware`.

Next:

1. An abstract register store (six cells, a stored setting) that `Fx2Firmware`
   implements, model-checked first, then proved step by step.
2. The safety part of what the liveness properties say: that a word
   acknowledged by `Fx2Firmware` cannot be overwritten before it is read.
