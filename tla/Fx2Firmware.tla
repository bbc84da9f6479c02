----------------------------- MODULE Fx2Firmware -----------------------------
(***************************************************************************)
(* src/firmware/fx2/main.c on the EZ-USB FX2: the main loop, the SUDAV     *)
(* interrupt handler, the EP0 buffer they share with the USB host, the     *)
(* register set in RAM, the page of the 24LC64 EEPROM that holds the       *)
(* start-up setting, and the ADF4351 behind the three wires.               *)
(*                                                                         *)
(* One action is one stretch of the code in which nothing another party    *)
(* can do makes a difference: pc names the point the main program has      *)
(* reached.  The interrupt handler runs with the arrival of a SETUP        *)
(* packet.  The host is the environment: it moves through the stages of    *)
(* one control transfer and may, when Faults says so, give up at any time. *)
(***************************************************************************)
EXTENDS Adf4351Chip, FiniteSets

CONSTANTS Types,          \* the values byte 30 of the register set takes
          Chksum(_, _),   \* reg_chksum over the six registers and byte 30
          InitWait,       \* loop turns before a stand-alone init, 200 in main.c
          Requests,       \* the vendor requests the host may send
          Pages,          \* what the EEPROM page may hold at first power-on
          Faults          \* which faults occur: "abort", "reset", "power", "eeprom"

VARIABLES pc, pending_setup, setupdat, ep0, reg_set, eeprom, chip,
          init_wait, fnaddr,
          stage, xfer, got,       \* the host's side of the control transfer
          synced, torn            \* history: see Clear and PageInterrupted

device == <<pc, pending_setup, setupdat, ep0, reg_set, eeprom, chip,
            init_wait, fnaddr, synced, torn>>
host == <<stage, xfer, got>>
vars == <<device, host>>

INIT_STANDALONE == 1
INIT_ALWAYS == 2

Kinds == {"set_reg", "ee_regs", "get_mux", "chip_rev", "renumerate", "unknown"}
InKinds == {"get_mux", "chip_rev"}

NoSetup == [kind |-> "standard", wValue |-> 0, word |-> 0, len |-> 0]

RegSet == [regs : [Regs -> Word], typ : Types, chk : Nat]

ZeroSet == [regs |-> [r \in Regs |-> 0], typ |-> 0, chk |-> 0]

Valid(s) == s.chk = Chksum(s.regs, s.typ)

(* What SET_REG, a clear and a blank EEPROM leave in a slot: a word of the *)
(* slot's own register, zero (a word for R0), or one for no register.      *)
Tidy(s) == \A r \in Regs : Ctrl(s.regs[r]) \in {0, r} \/ Ctrl(s.regs[r]) \notin Regs

ASSUME WordAssumption == Word \subseteq Nat /\ 0 \in Word /\ Unset \notin Word
ASSUME TypeAssumption == {0, INIT_STANDALONE, INIT_ALWAYS} \subseteq Types
ASSUME ChksumAssumption ==
  /\ Chksum(ZeroSet.regs, 0) = 0
  /\ \A regs \in [Regs -> Word], t \in Types : Chksum(regs, t) \in Nat
ASSUME WaitAssumption == InitWait \in Nat \ {0}
ASSUME RequestAssumption ==
  /\ Requests \subseteq [kind : Kinds, wValue : Nat, word : Word, len : Nat]
  /\ \A q \in Requests : q.wValue % 256 \in Types
ASSUME PageAssumption == Pages \subseteq {s \in RegSet : Valid(s) /\ Tidy(s)}

Pcs == {"boot", "loop", "reg_flag", "reg_arm", "reg_data",
        "ee_flag", "ee_arm", "ee_test", "ee_type", "ee_write",
        "get_mux", "chip_rev", "in_flag", "rn_reply", "rn_discon", "rn_flag"}

Stages == {"none", "data", "status", "done", "stalled", "aborted"}
Idle == stage \in {"none", "done", "stalled", "aborted"}

(***************************************************************************)
(* EP0 and the macros of libfx2.  A SETUP packet ends whatever EP0 was     *)
(* doing; the host's data stage waits for BUSY, its status stage for       *)
(* HSNAK; STALL refuses both until the next SETUP packet.                  *)
(***************************************************************************)
Ep0 == [busy : BOOLEAN, hsnak : BOOLEAN, stall : BOOLEAN, bcl : Nat,
        buf : Word, reply : InKinds \cup {"none"}]

Ep0Idle == [busy |-> FALSE, hsnak |-> FALSE, stall |-> FALSE, bcl |-> 0,
            buf |-> 0, reply |-> "none"]

SETUP_EP0_BUF(e, n) == [e EXCEPT !.busy = TRUE, !.hsnak = FALSE, !.bcl = n]
STALL_EP0(e) == [e EXCEPT !.stall = TRUE]

NewSetup(e) == [e EXCEPT !.busy = FALSE, !.hsnak = TRUE, !.stall = FALSE]

(* The page or the buffer after a transfer between old and new that broke  *)
(* off: every field is still the old or already the new one.               *)
Mixes(old, new) ==
  {[regs |-> [r \in Regs |-> IF r \in done THEN new.regs[r] ELSE old.regs[r]],
    typ  |-> t, chk |-> k] :
      done \in SUBSET Regs, t \in {old.typ, new.typ}, k \in {old.chk, new.chk}}

(***************************************************************************)
(* Power-on                                                                *)
(***************************************************************************)
Init ==
  /\ pc = "boot" /\ pending_setup = FALSE /\ setupdat = NoSetup /\ ep0 = Ep0Idle
  /\ reg_set = ZeroSet /\ eeprom \in Pages /\ chip = PoweredOn
  /\ init_wait = 0 /\ fnaddr = FALSE
  /\ stage = "none" /\ xfer = NoSetup /\ got = "none"
  /\ synced = {} /\ torn = FALSE

(* Mutant: the set replayed in ascending order, R0 first.                  *)
ReplayAscending(c, s) ==
  AdfWrite(AdfWrite(AdfWrite(AdfWrite(AdfWrite(AdfWrite(c,
    s.regs[0]), s.regs[1]), s.regs[2]), s.regs[3]), s.regs[4]), s.regs[5])

(* The words of s sent R5 .. R0.                                           *)
Replay(c, s) ==
  AdfWrite(AdfWrite(AdfWrite(AdfWrite(AdfWrite(AdfWrite(c,
    s.regs[5]), s.regs[4]), s.regs[3]), s.regs[2]), s.regs[1]), s.regs[0])

(* The registers of which s holds a word with their own number.            *)
Own(s) == {r \in Regs : Ctrl(s.regs[r]) = r}

adf_reg_init(s) ==
  IF Valid(s) THEN chip' = Replay(chip, s) /\ synced' = synced \cup Own(s)
              ELSE UNCHANGED <<chip, synced>>

(* main up to the loop: read the page, decide on the init type, start USB. *)
(* A read that fails leaves what had arrived in the RAM register set.      *)
Boot ==
  /\ pc = "boot"
  /\ \E read_ok \in BOOLEAN :
       /\ read_ok \/ "eeprom" \in Faults
       /\ \E s \in IF read_ok THEN {eeprom} ELSE Mixes(ZeroSet, eeprom) :
            LET init_type == IF read_ok /\ Valid(s) THEN s.typ ELSE 0 IN
            /\ reg_set' = s
            /\ init_wait' = IF init_type = INIT_STANDALONE THEN InitWait ELSE 0
            /\ IF init_type = INIT_ALWAYS THEN adf_reg_init(s)
                                          ELSE UNCHANGED <<chip, synced>>
  /\ pc' = "loop"
  /\ UNCHANGED <<pending_setup, setupdat, ep0, eeprom, fnaddr, torn, host>>

(***************************************************************************)
(* The main loop                                                           *)
(***************************************************************************)
(* Mutant: without the test of init_wait.                                  *)
StandbyTurnUnguarded ==
  /\ pc = "loop" /\ ~fnaddr
  /\ init_wait' = init_wait - 1
  /\ IF init_wait' = 0 THEN adf_reg_init(reg_set) ELSE UNCHANGED <<chip, synced>>
  /\ UNCHANGED <<pc, pending_setup, setupdat, ep0, reg_set, eeprom, fnaddr, torn, host>>

StandbyTurn ==
  /\ pc = "loop" /\ ~fnaddr /\ init_wait > 0
  /\ init_wait' = init_wait - 1
  /\ IF init_wait' = 0 THEN adf_reg_init(reg_set) ELSE UNCHANGED <<chip, synced>>
  /\ UNCHANGED <<pc, pending_setup, setupdat, ep0, reg_set, eeprom, fnaddr, torn, host>>

(* Mutants: a handler copied without its pending_setup = false, and one    *)
(* request answered by the other's handler.                                *)
EntryFlagKept == [set_reg |-> "reg_arm", ee_regs |-> "ee_flag", get_mux |-> "get_mux",
                  chip_rev |-> "chip_rev", renumerate |-> "rn_reply",
                  unknown |-> "loop", standard |-> "loop"]
EntryWrongReply == [EntryFlagKept EXCEPT !.set_reg = "reg_flag", !.chip_rev = "get_mux"]

(* Enumerated: the stand-alone init is off, a pending request is parsed.   *)
(* An unknown request is refused and stays pending.                        *)
Entry == [set_reg |-> "reg_flag", ee_regs |-> "ee_flag", get_mux |-> "get_mux",
          chip_rev |-> "chip_rev", renumerate |-> "rn_reply",
          unknown |-> "loop", standard |-> "loop"]

(* Mutant: the stand-alone init stays armed after enumeration.             *)
handle_pending_still_armed ==
  /\ pc = "loop" /\ fnaddr
  /\ init_wait' = init_wait
  /\ IF pending_setup
       THEN /\ pc' = Entry[setupdat.kind]
            /\ ep0' = IF pc' = "loop" THEN STALL_EP0(ep0) ELSE ep0
       ELSE UNCHANGED <<pc, ep0>>
  /\ UNCHANGED <<pending_setup, setupdat, reg_set, eeprom, chip, fnaddr,
                 synced, torn, host>>

handle_pending_usb_setup ==
  /\ pc = "loop" /\ fnaddr
  /\ init_wait' = 0
  /\ IF pending_setup
       THEN /\ pc' = Entry[setupdat.kind]
            /\ ep0' = IF pc' = "loop" THEN STALL_EP0(ep0) ELSE ep0
       ELSE UNCHANGED <<pc, ep0>>
  /\ UNCHANGED <<pending_setup, setupdat, reg_set, eeprom, chip, fnaddr,
                 synced, torn, host>>

(* pending_setup = false at the head of the two register handlers, and at  *)
(* the end of the replies and of the renumeration.                         *)
AfterFlag == [reg_flag |-> "reg_arm", ee_flag |-> "ee_arm",
              in_flag |-> "loop", rn_flag |-> "loop"]

ResetFlag ==
  /\ pc \in DOMAIN AfterFlag
  /\ pending_setup' = FALSE
  /\ pc' = AfterFlag[pc]
  /\ UNCHANGED <<setupdat, ep0, reg_set, eeprom, chip, init_wait, fnaddr,
                 synced, torn, host>>

ArmOut ==
  /\ pc \in {"reg_arm", "ee_arm"}
  /\ ep0' = SETUP_EP0_BUF(ep0, 0)
  /\ pc' = IF pc = "reg_arm" THEN "reg_data" ELSE "ee_test"
  /\ UNCHANGED <<pending_setup, setupdat, reg_set, eeprom, chip, init_wait,
                 fnaddr, synced, torn, host>>

(* USB_REQ_SET_REG once BUSY is gone: a word of 4 (or 5) bytes for one of  *)
(* the six registers goes to the register set and to the chip.             *)
Accepted == ep0.bcl \in {4, 5} /\ Ctrl(ep0.buf) \in Regs

(* Mutants: the word looked at without waiting for BUSY, and stored in the *)
(* register set without being sent to the chip.                            *)
SetRegNoWait ==
  /\ pc = "reg_data"
  /\ pc' = "loop"
  /\ IF Accepted
       THEN /\ reg_set' = [reg_set EXCEPT !.regs[Ctrl(ep0.buf)] = ep0.buf]
            /\ chip' = AdfWrite(chip, ep0.buf)
            /\ synced' = synced \cup {Ctrl(ep0.buf)}
       ELSE UNCHANGED <<reg_set, chip, synced>>
  /\ UNCHANGED <<pending_setup, setupdat, ep0, eeprom, init_wait, fnaddr, torn, host>>
SetRegNotSent ==
  /\ pc = "reg_data" /\ ~ep0.busy
  /\ pc' = "loop"
  /\ IF Accepted
       THEN /\ reg_set' = [reg_set EXCEPT !.regs[Ctrl(ep0.buf)] = ep0.buf]
            /\ synced' = synced \cup {Ctrl(ep0.buf)}
       ELSE UNCHANGED <<reg_set, synced>>
  /\ UNCHANGED <<pending_setup, setupdat, ep0, eeprom, chip, init_wait, fnaddr,
                 torn, host>>

SetReg ==
  /\ pc = "reg_data" /\ ~ep0.busy
  /\ pc' = "loop"
  /\ IF Accepted
       THEN /\ reg_set' = [reg_set EXCEPT !.regs[Ctrl(ep0.buf)] = ep0.buf]
            /\ chip' = AdfWrite(chip, ep0.buf)
            /\ synced' = synced \cup {Ctrl(ep0.buf)}
       ELSE UNCHANGED <<reg_set, chip, synced>>
  /\ UNCHANGED <<pending_setup, setupdat, ep0, eeprom, init_wait, fnaddr, torn, host>>

(* USB_REQ_EE_REGS: req points into SETUPDAT, so each use of wValue is a   *)
(* fresh read.  Clear the register set (synced: the RAM copies that are    *)
(* the words the chip holds) or add the type byte and the checksum.        *)
Clear ==
  /\ pc = "ee_test" /\ ~ep0.busy /\ setupdat.wValue = 0
  /\ pc' = "ee_write" /\ reg_set' = ZeroSet /\ synced' = {}
  /\ UNCHANGED <<pending_setup, setupdat, ep0, eeprom, chip, init_wait, fnaddr,
                 torn, host>>

Keep ==
  /\ pc = "ee_test" /\ ~ep0.busy /\ setupdat.wValue # 0
  /\ pc' = "ee_type"
  /\ UNCHANGED <<pending_setup, setupdat, ep0, reg_set, eeprom, chip, init_wait,
                 fnaddr, synced, torn, host>>

(* Mutant: the type byte set after the checksum was taken.                 *)
AddTypeStaleChksum ==
  /\ pc = "ee_type"
  /\ pc' = "ee_write"
  /\ reg_set' = [reg_set EXCEPT !.typ = setupdat.wValue % 256,
                                !.chk = Chksum(reg_set.regs, reg_set.typ)]
  /\ UNCHANGED <<pending_setup, setupdat, ep0, eeprom, chip, init_wait, fnaddr,
                 synced, torn, host>>

AddType ==
  /\ pc = "ee_type"
  /\ pc' = "ee_write"
  /\ LET typ == setupdat.wValue % 256 IN
     reg_set' = [reg_set EXCEPT !.typ = typ, !.chk = Chksum(reg_set.regs, typ)]
  /\ UNCHANGED <<pending_setup, setupdat, ep0, eeprom, chip, init_wait, fnaddr,
                 synced, torn, host>>

(* torn: the last attempt to write the page broke off.                     *)
WritePage ==
  /\ pc = "ee_write"
  /\ pc' = "loop"
  /\ \/ eeprom' = reg_set /\ torn' = FALSE /\ UNCHANGED ep0
     \/ /\ "eeprom" \in Faults
        /\ eeprom' \in Mixes(eeprom, reg_set) /\ torn' = TRUE
        /\ ep0' = STALL_EP0(ep0)
  /\ UNCHANGED <<pending_setup, setupdat, reg_set, chip, init_wait, fnaddr,
                 synced, host>>

(* USB_REQ_GET_MUX and USB_REQ_CYPRESS_CHIP_REV: one byte to the host,     *)
(* here the name of the handler that wrote it.                             *)
Reply ==
  /\ pc \in InKinds /\ ~ep0.busy
  /\ ep0' = SETUP_EP0_BUF([ep0 EXCEPT !.reply = pc], 1)
  /\ pc' = "in_flag"
  /\ UNCHANGED <<pending_setup, setupdat, reg_set, eeprom, chip, init_wait,
                 fnaddr, synced, torn, host>>

(* USB_REQ_CYPRESS_RENUMERATE.  Disconnecting clears the bus address and   *)
(* ends the transfer for the host; ResetFlag stands for the reconnection.  *)
RenumerateReply ==
  /\ pc = "rn_reply" /\ ~ep0.busy
  /\ ep0' = SETUP_EP0_BUF(ep0, 0)
  /\ pc' = "rn_discon"
  /\ UNCHANGED <<pending_setup, setupdat, reg_set, eeprom, chip, init_wait,
                 fnaddr, synced, torn, host>>

Disconnect ==
  /\ pc = "rn_discon"
  /\ pc' = "rn_flag"
  /\ fnaddr' = FALSE
  /\ stage' = IF Idle THEN stage ELSE "aborted"
  /\ UNCHANGED <<pending_setup, setupdat, ep0, reg_set, eeprom, chip, init_wait,
                 xfer, got, synced, torn>>

Connected == pc \notin {"boot", "rn_flag"}

(***************************************************************************)
(* The USB host                                                            *)
(***************************************************************************)
(* Mutant: the interrupt handler takes every request.                      *)
handle_usb_setup_always ==
  /\ pending_setup' = TRUE
  /\ ep0' = NewSetup(ep0)

(* A SETUP packet and isr_SUDAV with it.                                   *)
handle_usb_setup ==
  /\ pending_setup' = TRUE
  /\ ep0' = IF pending_setup THEN STALL_EP0(NewSetup(ep0)) ELSE NewSetup(ep0)

HostSetup ==
  /\ Connected /\ fnaddr /\ Idle
  /\ \E q \in Requests :
       /\ setupdat' = q /\ xfer' = q
       /\ stage' = IF q.len = 0 THEN "status" ELSE "data"
  /\ got' = "none"
  /\ handle_usb_setup
  /\ UNCHANGED <<pc, reg_set, eeprom, chip, init_wait, fnaddr, synced, torn>>

(* The data stage; an OUT packet fills the buffer the firmware has armed.  *)
HostData ==
  /\ stage = "data" /\ ep0.busy /\ ~ep0.stall
  /\ stage' = "status"
  /\ IF xfer.kind \in InKinds
       THEN /\ ep0' = [ep0 EXCEPT !.busy = FALSE]
            /\ got' = IF ep0.bcl = 0 THEN "empty" ELSE ep0.reply
       ELSE /\ ep0' = [ep0 EXCEPT !.busy = FALSE, !.bcl = xfer.len, !.buf = xfer.word]
            /\ UNCHANGED got
  /\ UNCHANGED <<pc, pending_setup, setupdat, reg_set, eeprom, chip, init_wait,
                 fnaddr, xfer, synced, torn>>

(* The status stage; without a data stage it takes the empty packet that   *)
(* SETUP_EP0_BUF(0) left in the buffer.                                    *)
HostStatus ==
  /\ stage = "status" /\ ~ep0.hsnak /\ ~ep0.stall
  /\ stage' = "done"
  /\ ep0' = IF xfer.len = 0 THEN [ep0 EXCEPT !.busy = FALSE] ELSE ep0
  /\ UNCHANGED <<pc, pending_setup, setupdat, reg_set, eeprom, chip, init_wait,
                 fnaddr, xfer, got, synced, torn>>

HostStalled ==
  /\ ~Idle /\ ep0.stall
  /\ stage' = "stalled"
  /\ UNCHANGED <<device, xfer, got>>

(* libusb gives up: a timeout, a killed process.                           *)
HostAbort ==
  /\ "abort" \in Faults /\ ~Idle
  /\ stage' = "aborted"
  /\ UNCHANGED <<device, xfer, got>>

(* The host resets the bus, or finds the device and gives it an address.   *)
(* libfx2 answers standard requests in the interrupt; they leave a         *)
(* SETUPDAT no vendor request matches.                                     *)
BusReset ==
  /\ "reset" \in Faults /\ Connected /\ fnaddr
  /\ fnaddr' = FALSE
  /\ stage' = IF Idle THEN stage ELSE "aborted"
  /\ UNCHANGED <<pc, pending_setup, setupdat, ep0, reg_set, eeprom, chip,
                 init_wait, xfer, got, synced, torn>>

Enumerate ==
  /\ Connected /\ ~fnaddr
  /\ fnaddr' = TRUE
  /\ setupdat' = NoSetup
  /\ ep0' = [NewSetup(ep0) EXCEPT !.hsnak = FALSE]
  /\ UNCHANGED <<pc, pending_setup, reg_set, eeprom, chip, init_wait,
                 synced, torn, host>>

(* The board loses power, perhaps in the write cycle of the EEPROM page.   *)
PowerLoss ==
  /\ "power" \in Faults
  /\ \/ pc = "ee_write" /\ eeprom' \in Mixes(eeprom, reg_set) /\ torn' = TRUE
     \/ pc # "ee_write" /\ UNCHANGED <<eeprom, torn>>
  /\ pc' = "boot" /\ pending_setup' = FALSE /\ setupdat' = NoSetup /\ ep0' = Ep0Idle
  /\ reg_set' = ZeroSet /\ chip' = PoweredOn /\ init_wait' = 0 /\ fnaddr' = FALSE
  /\ stage' = "none" /\ xfer' = NoSetup /\ got' = "none" /\ synced' = {}

Firmware ==
  \/ Boot \/ StandbyTurn \/ handle_pending_usb_setup \/ ResetFlag \/ ArmOut
  \/ SetReg \/ Clear \/ Keep \/ AddType \/ WritePage
  \/ Reply \/ RenumerateReply \/ Disconnect

Transfer == HostData \/ HostStatus \/ HostStalled

Next == \/ Firmware \/ HostSetup \/ Transfer
        \/ HostAbort \/ BusReset \/ Enumerate \/ PowerLoss

Spec == Init /\ [][Next]_vars

(* The main loop keeps running, and a host keeps driving its transfer.     *)
Fairness == WF_vars(Firmware) /\ WF_vars(Transfer)

FairSpec == Spec /\ Fairness

(***************************************************************************)
(* Properties                                                              *)
(***************************************************************************)
(* Every variable holds a value of its kind; torn pages included, nothing  *)
(* but register words of the right shape reaches RAM, EEPROM and chip.     *)
TypeOK ==
  /\ pc \in Pcs /\ pending_setup \in BOOLEAN /\ setupdat \in Requests \cup {NoSetup}
  /\ ep0 \in Ep0 /\ reg_set \in RegSet /\ eeprom \in RegSet /\ chip \in Chip
  /\ init_wait \in 0..InitWait /\ fnaddr \in BOOLEAN
  /\ stage \in Stages /\ xfer \in Requests \cup {NoSetup}
  /\ got \in InKinds \cup {"none", "empty"}
  /\ synced \subseteq Regs /\ torn \in BOOLEAN

(* The RAM copy of a register that SET_REG or an init has written since    *)
(* the set was last cleared is what the chip holds: only then does storing *)
(* the RAM copy store the setting in use (main.c:343-344, 356-361).        *)
ShadowMatchesChip == \A r \in synced : reg_set.regs[r] = chip.regs[r]

(* While the stand-alone init is armed nobody has interfered: the chip is  *)
(* untouched, no request is in the works, and what will be replayed is the *)
(* verified page of type 1, however often the bus comes and goes           *)
(* (main.c:436-448).                                                       *)
StandbyUntouched ==
  init_wait > 0 =>
    /\ pc = "loop" /\ chip = PoweredOn /\ synced = {}
    /\ reg_set = eeprom /\ Valid(reg_set) /\ reg_set.typ = INIT_STANDALONE

(* Unless the last write of it broke off, the page verifies, so the next   *)
(* power-on trusts it (main.c:356-361, 403-412).                           *)
PageVerifies == ~torn => Valid(eeprom)

(* Every register s has a word for is not only latched but in effect, the  *)
(* double-buffered ones included.  (A set whose R0 slot is unused never    *)
(* completes the double buffering.)                                        *)
InEffect(s, c) ==
  0 \in Own(s) => \A r \in Own(s) : c.regs[r] = s.regs[r] /\ c.live[r] = s.regs[r]

(* After the firmware's own init, at power-on or after the stand-alone     *)
(* wait, the whole set is in effect: the order R5 .. R0 of main.c:396      *)
(* matters, R0 last.                                                       *)
RestoredInEffect ==
  [][(Boot \/ StandbyTurn) /\ chip' # chip => InEffect(reg_set', chip')]_vars

(* Nobody breaks off and no fault occurs: a reading request that completes *)
(* has been given the byte of its own handler, not an empty packet or what *)
(* another handler left in EP0BUF (main.c:309-316, 370-377).               *)
AnsweredByOwnHandler ==
  stage = "done" /\ xfer.kind \in InKinds => got = xfer.kind

(* With a transfer over for the host, the flag that refuses the next one   *)
(* is still up only in the gap between sending a reply and resetting it.   *)
FlagHeldOnlyByReplies ==
  Idle /\ pending_setup => pc \in {"in_flag", "rn_discon", "rn_flag"}

(* A control transfer always ends: no handler waits for a BUSY that nobody *)
(* clears, and no host for a HSNAK that nobody clears.                     *)
TransferFinishes == (stage \in {"data", "status"}) ~> Idle

(* A register write the host has seen acknowledged reaches the chip, even  *)
(* though the acknowledgement comes before the firmware looks at the word. *)
WordReachesChip ==
  \A w \in {v \in Word : Ctrl(v) \in Regs} :
    (/\ stage = "done" /\ xfer.kind = "set_reg" /\ xfer.word = w
     /\ xfer.len \in {4, 5})
      ~> (chip.regs[Ctrl(w)] = w)
(***************************************************************************)
(* What the comments and the documentation say, which the code does not do *)
(***************************************************************************)
(* "store the current register values into EEPROM as default setting"      *)
(* (interfaces.py:73): after a store with a type the page holds the words  *)
(* the chip holds.  After typ 0 the RAM copy is zero while the chip runs   *)
(* on, and a later store writes the zeros (main.c:351-367).                *)
StoredIsCurrent ==
  [][pc = "ee_write" /\ WritePage /\ reg_set.typ # 0
       => \A r \in Regs : chip.regs[r] # Unset => eeprom'.regs[r] = chip.regs[r]]_vars
=============================================================================
