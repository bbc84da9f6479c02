--------------------------- MODULE Fx2LibFirmware ---------------------------
(***************************************************************************)
(* src/firmware/fx2.fx2lib/fx2adf435xfw.c, the older firmware on fx2lib:   *)
(* the SUDAV interrupt leaves a flag, fx2adf435xfw_poll handles the SETUP  *)
(* packet, acknowledges the transfer at once and sends the word when its   *)
(* data stage has gone by.  handle_setupdata is fx2lib's: it calls the     *)
(* handlers of this file, stalls EP0 if they refuse, and clears HSNAK in   *)
(* any case.  A SETUP packet may come at any point of the loop, within     *)
(* these handlers too: what they do then befalls the new transfer.         *)
(***************************************************************************)
EXTENDS Naturals

CONSTANTS Words,       \* the words a host sends
          WordBytes,   \* bytes of a register, 4
          Requests,    \* what the host may ask for
          None

(* A message is told from an answer of one byte by its length.             *)
ASSUME WordBytesAssumption == WordBytes \in Nat \ {0, 1}

(* fx2lib's own requests: SET_CONFIGURATION has no data, GET_CONFIGURATION *)
(* is answered through EP0BUF.  size is the byte behind the word, in bytes *)
(* instead of bits; len the length of the data stage.                      *)
InTypes == {"GET_MUX", "GET_CONFIGURATION"}
Types == InTypes \cup {"SET_REG", "SET_CONFIGURATION", "unknown"}

ASSUME RequestAssumption ==
  Requests \subseteq [type : Types, word : Words \cup {None}, size : Nat, len : Nat]
ASSUME NoneAssumption == None \notin Words /\ None \notin Requests /\ None \notin Types

VARIABLES pc, got_sud, vendor_command, cmd, bitsize, sent,   \* main program
          setupdat, ep0,
          shift, latched,                               \* chip
          stage, xfer, got,                             \* host
          missed, fresh, astray   \* history: the SETUP packet of xfer was never looked
                          \* at; the message of the last data stage, until it is sent;
                          \* that message came behind a packet never looked at

main == <<pc, got_sud, vendor_command, cmd, bitsize, sent>>
chip == <<shift, latched>>
host == <<stage, xfer, got>>
message == <<fresh, astray>>
vars == <<main, setupdat, ep0, chip, host, missed, message>>

Positions == 0..(WordBytes - 1)
Data(w) == [k \in Positions |-> <<w, k>>]

NoSetup == [type |-> "SET_CONFIGURATION", word |-> None, size |-> 0, len |-> 0]
Answer(t) == [type |-> t, word |-> None, size |-> 0, len |-> 1]
Idle == stage \in {"none", "done", "stalled", "aborted"}

(* EP0BUF holds the message of a host or an answer; EP0BCL is its length.  *)
Ep0 == [busy : BOOLEAN, hsnak : BOOLEAN, stall : BOOLEAN, bcl : Nat,
        buf : Requests \cup {NoSetup} \cup {Answer(t) : t \in InTypes}]
Ep0Idle == [busy |-> FALSE, hsnak |-> FALSE, stall |-> FALSE, bcl |-> 0, buf |-> NoSetup]
Armed(e, n) == [e EXCEPT !.busy = TRUE, !.bcl = n]

Init ==
  /\ pc = "test" /\ got_sud = FALSE /\ vendor_command = None /\ cmd = None
  /\ bitsize = 0 /\ sent = 0
  /\ setupdat = NoSetup /\ ep0 = Ep0Idle
  /\ shift = [k \in Positions |-> None] /\ latched = None
  /\ stage = "none" /\ xfer = NoSetup /\ got = None
  /\ missed = FALSE /\ fresh = None /\ astray = FALSE

(***************************************************************************)
(* fx2adf435xfw_poll                                                       *)
(***************************************************************************)
TestSud ==
  /\ pc = "test"
  /\ pc' = IF got_sud THEN "setupdata" ELSE "command"
  /\ UNCHANGED <<got_sud, vendor_command, cmd, bitsize, sent, setupdat, ep0, chip, host, missed, message>>

(* handle_setupdata picks the handler by the packet it finds; the handler  *)
(* of a vendor request leaves the command for the loop.                    *)
handle_setupdata ==
  /\ pc = "setupdata"
  /\ pc' = "respond"
  /\ cmd' = setupdat.type
  /\ vendor_command' = IF cmd' \in {"SET_REG", "GET_MUX"} THEN cmd' ELSE vendor_command
  /\ UNCHANGED <<got_sud, bitsize, sent, setupdat, ep0, chip, host, missed, message>>

(* Mutants: a refusal that does not stall, a SET_REG that does not arm EP0. *)
HandledAlways(e) ==
  CASE cmd = "SET_REG" -> Armed(e, 0)
    [] cmd \in InTypes -> Armed([e EXCEPT !.buf = Answer(cmd)], 1)
    [] cmd \in {"SET_CONFIGURATION", "unknown"} -> e
HandledUnarmed(e) ==
  CASE cmd \in InTypes -> Armed([e EXCEPT !.buf = Answer(cmd)], 1)
    [] cmd \in {"SET_REG", "SET_CONFIGURATION"} -> e
    [] cmd = "unknown" -> [e EXCEPT !.stall = TRUE]

(* What the handler does to EP0, whatever packet is there by now.          *)
Handled(e) ==
  CASE cmd = "SET_REG" -> Armed(e, 0)
    [] cmd \in InTypes -> Armed([e EXCEPT !.buf = Answer(cmd)], 1)
    [] cmd = "SET_CONFIGURATION" -> e
    [] cmd = "unknown" -> [e EXCEPT !.stall = TRUE]

Respond ==
  /\ pc = "respond"
  /\ pc' = "handshake"
  /\ ep0' = Handled(ep0) /\ cmd' = None
  /\ UNCHANGED <<got_sud, vendor_command, bitsize, sent, setupdat, chip, host, missed, message>>

(* The end of handle_setupdata.                                            *)
Handshake ==
  /\ pc = "handshake"
  /\ pc' = "clear"
  /\ ep0' = [ep0 EXCEPT !.hsnak = FALSE]
  /\ UNCHANGED <<got_sud, vendor_command, cmd, bitsize, sent, setupdat, chip, host, missed, message>>

ClearSud ==
  /\ pc = "clear"
  /\ pc' = "command" /\ got_sud' = FALSE
  /\ UNCHANGED <<vendor_command, cmd, bitsize, sent, setupdat, ep0, chip, host, missed, message>>

(* Mutants: the command still there after it was sent, and dropped when    *)
(* the data has not come yet.                                              *)
CommandKept ==
  /\ pc = "command"
  /\ IF vendor_command = "SET_REG" /\ ~ep0.busy /\ ep0.bcl \in {WordBytes, WordBytes + 1}
       THEN /\ pc' = "set_reg"
            /\ bitsize' = IF ep0.bcl = WordBytes THEN WordBytes ELSE ep0.buf.size
       ELSE pc' = "test" /\ bitsize' = 0
  /\ sent' = 0
  /\ UNCHANGED <<got_sud, vendor_command, cmd, setupdat, ep0, chip, host, missed, message>>
CommandDropped ==
  /\ pc = "command"
  /\ vendor_command' = None
  /\ IF vendor_command = "SET_REG" /\ ~ep0.busy /\ ep0.bcl \in {WordBytes, WordBytes + 1}
       THEN /\ pc' = "set_reg"
            /\ bitsize' = IF ep0.bcl = WordBytes THEN WordBytes ELSE ep0.buf.size
       ELSE pc' = "test" /\ bitsize' = 0
  /\ sent' = 0
  /\ UNCHANGED <<got_sud, cmd, setupdat, ep0, chip, host, missed, message>>

(* The switch: wait for BUSY in the next turn, send, or drop the command.  *)
Command ==
  /\ pc = "command"
  /\ IF vendor_command = "SET_REG" /\ ep0.busy
       THEN pc' = "test" /\ UNCHANGED <<vendor_command, bitsize>>
       ELSE /\ vendor_command' = None
            /\ IF vendor_command = "SET_REG" /\ ep0.bcl \in {WordBytes, WordBytes + 1}
                 THEN /\ pc' = "set_reg"
                      /\ bitsize' = IF ep0.bcl = WordBytes THEN WordBytes ELSE ep0.buf.size
                 ELSE pc' = "test" /\ bitsize' = 0
  /\ sent' = 0
  /\ UNCHANGED <<got_sud, cmd, setupdat, ep0, chip, host, missed, message>>

(* set_reg: one byte of the live EP0BUF after the other, most significant  *)
(* first; with a size beyond the word, registers below the buffer.         *)
Fetched == IF sent < WordBytes THEN <<ep0.buf.word, WordBytes - 1 - sent>> ELSE <<None, sent>>

(* Mutant: one byte too many.                                              *)
SendBytePastEnd ==
  /\ pc = "set_reg" /\ sent <= bitsize
  /\ sent' = sent + 1
  /\ shift' = [k \in Positions |-> IF k = 0 THEN Fetched ELSE shift[k - 1]]
  /\ UNCHANGED <<pc, got_sud, vendor_command, cmd, bitsize, setupdat, ep0, latched, host, missed, message>>

SendByte ==
  /\ pc = "set_reg" /\ sent < bitsize
  /\ sent' = sent + 1
  /\ shift' = [k \in Positions |-> IF k = 0 THEN Fetched ELSE shift[k - 1]]
  /\ UNCHANGED <<pc, got_sud, vendor_command, cmd, bitsize, setupdat, ep0, latched, host, missed, message>>

PulseLE ==
  /\ pc = "set_reg" /\ sent = bitsize
  /\ pc' = "test" /\ latched' = shift
  /\ bitsize' = 0 /\ sent' = 0 /\ fresh' = None /\ astray' = FALSE
  /\ UNCHANGED <<got_sud, vendor_command, cmd, setupdat, ep0, shift, host, missed>>

Poll == TestSud \/ handle_setupdata \/ Respond \/ Handshake \/ ClearSud
        \/ Command \/ SendByte \/ PulseLE

(***************************************************************************)
(* The USB host, as in Fx2Firmware                                         *)
(***************************************************************************)
(* A SETUP packet and sudav_isr with it.  The loop will not look at it if  *)
(* it has read the one before and not yet cleared the flag.                *)
HostSetup ==
  /\ Idle
  /\ \E q \in Requests :
       /\ setupdat' = q /\ xfer' = q
       /\ stage' = IF q.len = 0 THEN "status" ELSE "data"
  /\ got_sud' = TRUE
  /\ ep0' = [ep0 EXCEPT !.busy = FALSE, !.hsnak = TRUE, !.stall = FALSE]
  /\ got' = None /\ missed' = (pc \in {"respond", "handshake", "clear"})
  /\ UNCHANGED <<pc, vendor_command, cmd, bitsize, sent, chip, message>>

HostData ==
  /\ stage = "data" /\ ep0.busy /\ ~ep0.stall
  /\ stage' = "status"
  /\ IF xfer.type \in InTypes
       THEN /\ ep0' = [ep0 EXCEPT !.busy = FALSE]
            /\ got' = (IF ep0.bcl = 0 THEN None ELSE ep0.buf.type) /\ UNCHANGED message
       ELSE /\ ep0' = [ep0 EXCEPT !.busy = FALSE, !.bcl = xfer.len, !.buf = xfer]
            /\ fresh' = xfer /\ astray' = missed /\ UNCHANGED got
  /\ UNCHANGED <<main, setupdat, chip, xfer, missed>>

HostStatus ==
  /\ stage = "status" /\ ~ep0.hsnak /\ ~ep0.stall
  /\ stage' = "done"
  /\ UNCHANGED <<main, setupdat, ep0, chip, xfer, got, missed, message>>

HostStalled ==
  /\ ~Idle /\ ep0.stall
  /\ stage' = "stalled"
  /\ UNCHANGED <<main, setupdat, ep0, chip, xfer, got, missed, message>>

HostAbort ==
  /\ ~Idle
  /\ stage' = "aborted"
  /\ UNCHANGED <<main, setupdat, ep0, chip, xfer, got, missed, message>>

Transfer == HostData \/ HostStatus \/ HostStalled

Next == Poll \/ HostSetup \/ Transfer \/ HostAbort

Spec == Init /\ [][Next]_vars

(* The loop runs for ever, a host goes on with its transfer.               *)
FairSpec == Spec /\ WF_vars(Poll) /\ WF_vars(Transfer)

(***************************************************************************)
(* Properties                                                              *)
(***************************************************************************)
(* Every variable holds a value of its kind.                               *)
TypeOK ==
  /\ pc \in {"test", "setupdata", "respond", "handshake", "clear", "command", "set_reg"}
  /\ got_sud \in BOOLEAN /\ vendor_command \in {None, "SET_REG", "GET_MUX"}
  /\ cmd \in Types \cup {None} /\ astray \in BOOLEAN
  /\ bitsize \in Nat /\ sent \in 0..bitsize /\ (pc # "set_reg" => bitsize = 0)
  /\ setupdat \in Requests \cup {NoSetup} /\ xfer \in Requests \cup {NoSetup}
  /\ ep0 \in Ep0
  /\ stage \in {"none", "data", "status", "done", "stalled", "aborted"}
  /\ got \in InTypes \cup {None} /\ missed \in BOOLEAN /\ fresh \in Requests \cup {None}

(* set_reg reads EP0BUF byte by byte while the host may start the next     *)
(* transfer (116-136): what the chip latches from a message without a size *)
(* is the word of the last data stage, whole, and no message is sent twice *)
(* or when none has come.  It is the message of a SET_REG, unless it came  *)
(* behind a SETUP packet that was never looked at, see DoneWasHandled.     *)
SentOnceAndWhole ==
  [][PulseLE => /\ fresh # None /\ (fresh.type = "SET_REG" \/ astray)
                /\ fresh.len = WordBytes => latched' = Data(fresh.word)]_vars

(* Success is reported for nothing that was refused, and an answer with a  *)
(* data stage is the one asked for, except when the SETUP packet came      *)
(* between the handler's choice by the one before and got_sud = FALSE      *)
(* (59-74, 200-203): EP0 then does for it what the other one asked for.    *)
DoneWasHandled ==
  stage = "done" /\ ~missed =>
    xfer.type # "unknown" /\ (xfer.type \in InTypes /\ xfer.len > 0 => got = xfer.type)

(* Only such a SETUP packet leaves the host without an end.                *)
TransferFinishes == (stage \in {"data", "status"}) ~> (Idle \/ missed)

(* A word the host has seen acknowledged is sent, unless the host goes on  *)
(* to its next SETUP packet before the loop has come round (208-213), or   *)
(* unless its own was such a packet never looked at: EP0 armed for another *)
(* request takes and acknowledges its word, and the loop drops it          *)
(* (67-69, 217-219).                                                       *)
AcknowledgedIsSent ==
  (stage = "done" /\ ~missed /\ fresh # None /\ fresh = xfer /\ fresh.len = WordBytes)
    ~> (fresh = None \/ stage # "done")
=============================================================================
