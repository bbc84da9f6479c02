------------------------------ MODULE RawMemory ------------------------------
(***************************************************************************)
(* The raw memory requests of src/firmware/fx2/main.c: a host reads or     *)
(* writes an EEPROM or the external RAM through EP0BUF, one buffer after   *)
(* the other.  All other requests, the flag and the stages of a transfer   *)
(* are those of Fx2Firmware; here the loops, the choice of the EEPROM and  *)
(* of its pages, and a host that gives up in the middle.                   *)
(*                                                                         *)
(* A byte is written <<tag, a>>: meant for address a, "old" if it was      *)
(* there from the start, "new" if a host has sent it.                      *)
(***************************************************************************)
EXTENDS Naturals, Sequences, FiniteSets, FiniteSetsExt

CONSTANTS EP0BUFF_SIZE,       \* 64
          SmallEnd,           \* last address of one byte, 255
          Top,                \* last address of the other memories
          EEPROM_I2C_PAGE_EXP,\* log2 of the page the code starts with, 5
          Page,               \* bytes of a page of the EEPROMs on the bus
          PageBytes(_),       \* the page libfx2 takes a logarithm for, 2^e
          Requests,           \* what the host may ask for
          MaxTransfers        \* bound: how often it asks

(* The small chip holds whole pages.                                       *)
ASSUME SizeAssumption ==
  /\ EP0BUFF_SIZE \in 1..255 /\ SmallEnd \in Nat /\ Top \in Nat /\ SmallEnd <= Top
  /\ Page \in Nat \ {0} /\ (SmallEnd + 1) % Page = 0
  /\ EEPROM_I2C_PAGE_EXP \in 0..255 /\ \A e \in 0..255 : PageBytes(e) \in Nat \ {0}

Kinds == {"EEPROM_SB", "EEPROM_DB", "EXT_RAM", "PAGE_SIZE"}
ASSUME RequestAssumption ==
  /\ Requests \subseteq [kind : Kinds, read : BOOLEAN, wValue : Nat, len : Nat]
  /\ \A q \in Requests : q.kind # "PAGE_SIZE" => q.wValue + q.len <= Top + 1

VARIABLES pc, pending_setup, ee_page_size,
          request, arg_addr, arg_len,   \* of the request in work
          ep0, buf, mem,
          stage, xfer, moved, got, transfers, \* the host
          clean, given,   \* history: no loop was at work when the transfer began;
                          \* the host is there for the request in work
          harmed          \* ... what writes may have spoilt that were given
                          \* up or relied on a page larger than the real one

work == <<request, arg_addr, arg_len>>
host == <<stage, xfer, moved, got, transfers>>
vars == <<pc, pending_setup, ee_page_size, work, ep0, buf, mem, host, clean, given, harmed>>

Cells == ({"small"} \X (0..SmallEnd)) \cup ({"large", "xram"} \X (0..Top))
Junk == <<"junk", 0>>
None == [kind |-> "PAGE_SIZE", read |-> FALSE, wValue |-> 0, len |-> 0]
Idle == stage \in {"none", "done", "stalled", "aborted"}

(* Mutant: the end of the range is not looked at.                          *)
SmallStart(r) == r.kind = "EEPROM_SB" /\ r.wValue <= SmallEnd

(* Which chip answers: one or two address bytes (arg_dbyte).               *)
Small(r) == r.kind = "EEPROM_SB" /\ r.wValue <= SmallEnd /\ r.wValue + r.len <= SmallEnd
Chip(r) == IF r.kind = "EXT_RAM" THEN "xram" ELSE IF Small(r) THEN "small" ELSE "large"

(* The small chip gets one address byte, and counts in one.                *)
Cell(r, a) == <<Chip(r), IF Chip(r) = "small" THEN a % (SmallEnd + 1) ELSE a>>

Addresses(r) == {a \in 0..Top : r.wValue <= a /\ a < r.wValue + r.len}
Span(r) == {<<Chip(r), a>> : a \in Addresses(r)}

(* With the page taken for one that does not divide the real one, a larger *)
(* one, bytes wrap round within the pages of the range.                    *)
PageFits(r) == r.kind = "EXT_RAM" \/ Page % PageBytes(ee_page_size) = 0
Reach(r) ==
  IF PageFits(r) THEN Span(r)
  ELSE {c \in Cells : c[1] = Chip(r) /\ \E a \in Addresses(r) : c[2] \div Page = a \div Page}

Init ==
  /\ pc = "loop" /\ pending_setup = FALSE /\ ee_page_size = EEPROM_I2C_PAGE_EXP
  /\ request = None /\ arg_addr = 0 /\ arg_len = 0
  /\ ep0 = [busy |-> FALSE, hsnak |-> FALSE, stall |-> FALSE, bcl |-> 0]
  /\ buf = [i \in 1..EP0BUFF_SIZE |-> Junk]
  /\ mem = [c \in Cells |-> <<"old", c[2]>>]
  /\ stage = "none" /\ xfer = None /\ moved = 0 /\ got = <<>> /\ transfers = 0
  /\ clean = TRUE /\ given = FALSE /\ harmed = {}

(***************************************************************************)
(* handle_pending_usb_setup                                                *)
(***************************************************************************)
SETUP_EP0_BUF(n) == ep0' = [ep0 EXCEPT !.busy = TRUE, !.hsnak = FALSE, !.bcl = n]

(* Mutant: the request is never acknowledged.                              *)
PageSizeNoAck ==
  /\ pc = "loop" /\ pending_setup /\ xfer.kind = "PAGE_SIZE"
  /\ ee_page_size' = xfer.wValue % 256
  /\ pending_setup' = FALSE
  /\ UNCHANGED <<pc, work, ep0, buf, mem, host, clean, given, harmed>>

PageSize ==
  /\ pc = "loop" /\ pending_setup /\ xfer.kind = "PAGE_SIZE"
  /\ ee_page_size' = xfer.wValue % 256
  /\ pending_setup' = FALSE
  /\ ep0' = [ep0 EXCEPT !.hsnak = FALSE]
  /\ UNCHANGED <<pc, work, buf, mem, host, clean, given, harmed>>

Parse ==
  /\ pc = "loop" /\ pending_setup /\ xfer.kind # "PAGE_SIZE"
  /\ request' = xfer
  /\ arg_addr' = xfer.wValue /\ arg_len' = xfer.len
  /\ pending_setup' = FALSE
  /\ pc' = IF xfer.read THEN "read" ELSE "arm"
  /\ given' = (clean /\ stage = "data")
  /\ UNCHANGED <<ee_page_size, ep0, buf, mem, host, clean, harmed>>

(* Mutant: every chunk taken for a full one.                               *)
Len1Full == EP0BUFF_SIZE

Len1 == IF arg_len < EP0BUFF_SIZE THEN arg_len ELSE EP0BUFF_SIZE

Return == pc' = "loop" /\ request' = None /\ arg_addr' = 0 /\ arg_len' = 0 /\ given' = FALSE

LoopEnd ==
  /\ pc \in {"read", "arm"} /\ arg_len = 0
  /\ Return
  /\ UNCHANGED <<pending_setup, ee_page_size, ep0, buf, mem, host, clean, harmed>>

(* Mutant: the next chunk read while the host may still be reading.        *)
ReadChunkNoWait ==
  /\ pc = "read" /\ arg_len > 0
  /\ buf' = [i \in 1..EP0BUFF_SIZE |->
               IF i <= Len1 THEN mem[Cell(request, arg_addr + i - 1)] ELSE Junk]
  /\ SETUP_EP0_BUF(Len1)
  /\ arg_len' = arg_len - Len1 /\ arg_addr' = arg_addr + Len1
  /\ UNCHANGED <<pc, pending_setup, ee_page_size, request, mem, host, clean, given, harmed>>

ReadChunk ==
  /\ pc = "read" /\ arg_len > 0 /\ ~ep0.busy
  /\ buf' = [i \in 1..EP0BUFF_SIZE |->
               IF i <= Len1 THEN mem[Cell(request, arg_addr + i - 1)] ELSE Junk]
  /\ SETUP_EP0_BUF(Len1)
  /\ arg_len' = arg_len - Len1 /\ arg_addr' = arg_addr + Len1
  /\ UNCHANGED <<pc, pending_setup, ee_page_size, request, mem, host, clean, given, harmed>>

ArmChunk ==
  /\ pc = "arm" /\ arg_len > 0
  /\ SETUP_EP0_BUF(0)
  /\ pc' = "data"
  /\ UNCHANGED <<pending_setup, ee_page_size, work, buf, mem, host, clean, given, harmed>>

(* eeprom_write sends the bytes in pieces that end where its idea of a     *)
(* page ends; in a piece the chip counts up within its own page.           *)
Target(i) ==
  LET a == arg_addr + i
      begin == a - (a % PageBytes(ee_page_size))
      piece == IF begin < arg_addr THEN arg_addr ELSE begin
  IN (piece - (piece % Page)) + (((piece % Page) + (a - piece)) % Page)

(* The bytes of a host that has gone are whatever EP0BUF happens to hold.   *)
InBuf(i) == IF given /\ i < EP0BUFF_SIZE THEN buf[i + 1] ELSE Junk

Put(at) ==
  mem' = [c \in Cells |-> LET hits == {i \in DOMAIN at : Cell(request, at[i]) = c}
                          IN IF hits = {} THEN mem[c] ELSE InBuf(Max(hits))]
Targets(n) == [i \in 0..(n - 1) |-> Target(i)]

(* xmemcpy copies arg_len bytes, what lies behind EP0BUF included.         *)
TakeRam == Put([i \in 0..(arg_len - 1) |-> arg_addr + i])
TakeEeprom == Put(Targets(Len1))

(* Mutant: the next chunk goes to the same address.                        *)
TakeChunkSame ==
  /\ pc = "data" /\ ~ep0.busy
  /\ IF request.kind = "EXT_RAM" THEN TakeRam ELSE TakeEeprom
  /\ harmed' = IF given /\ PageFits(request) THEN harmed ELSE harmed \cup Reach(request)
  /\ arg_len' = arg_len - Len1 /\ pc' = "arm"
  /\ UNCHANGED <<pending_setup, ee_page_size, request, arg_addr, ep0, buf, host, clean, given>>

TakeChunk ==
  /\ pc = "data" /\ ~ep0.busy
  /\ IF request.kind = "EXT_RAM" THEN TakeRam ELSE TakeEeprom
  /\ harmed' = IF given /\ PageFits(request) THEN harmed ELSE harmed \cup Reach(request)
  /\ arg_len' = arg_len - Len1 /\ arg_addr' = arg_addr + Len1 /\ pc' = "arm"
  /\ UNCHANGED <<pending_setup, ee_page_size, request, ep0, buf, host, clean, given>>

(* The EEPROM does not answer, perhaps in the middle of a write.           *)
EepromFails ==
  /\ request.kind \in {"EEPROM_SB", "EEPROM_DB"} /\ ~ep0.busy
  /\ \/ pc = "read" /\ arg_len > 0 /\ UNCHANGED <<mem, harmed>>
     \/ /\ pc = "data"
        /\ \E n \in 0..Len1 : Put(Targets(n))
        /\ harmed' = IF given /\ PageFits(request) THEN harmed ELSE harmed \cup Reach(request)
  /\ ep0' = [ep0 EXCEPT !.stall = TRUE]
  /\ Return
  /\ UNCHANGED <<pending_setup, ee_page_size, buf, host, clean>>

Handler == PageSize \/ Parse \/ ReadChunk \/ ArmChunk \/ TakeChunk \/ EepromFails \/ LoopEnd

(***************************************************************************)
(* The host                                                                *)
(***************************************************************************)
(* A transfer is clean if no loop at work will arm EP0 again.              *)
HostSetup ==
  /\ Idle /\ transfers < MaxTransfers
  /\ transfers' = transfers + 1
  /\ \E q \in Requests : xfer' = q /\ stage' = IF q.len = 0 THEN "status" ELSE "data"
  /\ moved' = 0 /\ got' = <<>>
  /\ pending_setup' = TRUE
  /\ ep0' = [ep0 EXCEPT !.busy = FALSE, !.hsnak = TRUE, !.stall = pending_setup]
  /\ clean' = (~pending_setup /\ (pc = "loop" \/ (pc \in {"arm", "read"} /\ arg_len = 0)
                                    \/ (pc = "data" /\ arg_len <= EP0BUFF_SIZE)))
  /\ UNCHANGED <<pc, ee_page_size, work, buf, mem, given, harmed>>

(* A packet of the data stage; a short one ends it.                        *)
Left == xfer.len - moved
HostData ==
  /\ stage = "data" /\ ep0.busy /\ ~ep0.stall
  /\ LET n == IF xfer.read THEN ep0.bcl ELSE IF Left < EP0BUFF_SIZE THEN Left ELSE EP0BUFF_SIZE IN
       /\ moved' = moved + n
       /\ stage' = IF moved' > xfer.len THEN "aborted"
                   ELSE IF moved' = xfer.len \/ n < EP0BUFF_SIZE THEN "status" ELSE "data"
       /\ IF xfer.read
            THEN got' = got \o SubSeq(buf, 1, n) /\ UNCHANGED buf
            ELSE /\ buf' = [i \in 1..EP0BUFF_SIZE |->
                              IF i <= n THEN <<"new", xfer.wValue + moved + i - 1>> ELSE Junk]
                 /\ UNCHANGED got
  /\ ep0' = [ep0 EXCEPT !.busy = FALSE]
  /\ UNCHANGED <<pc, pending_setup, ee_page_size, work, mem, xfer, transfers, clean, given, harmed>>

HostStatus ==
  /\ stage = "status" /\ ~ep0.hsnak /\ ~ep0.stall
  /\ stage' = "done"
  /\ UNCHANGED <<pc, pending_setup, ee_page_size, work, ep0, buf, mem, xfer, moved, got, transfers,
                 clean, given, harmed>>

HostStalled ==
  /\ ~Idle /\ ep0.stall
  /\ stage' = "stalled" /\ moved' = 0 /\ got' = <<>>
  /\ given' = (given /\ stage = "status")
  /\ UNCHANGED <<pc, pending_setup, ee_page_size, work, ep0, buf, mem, xfer, transfers, clean, harmed>>

HostAbort ==
  /\ ~Idle
  /\ stage' = "aborted" /\ moved' = 0 /\ got' = <<>>
  /\ given' = (given /\ stage = "status")
  /\ UNCHANGED <<pc, pending_setup, ee_page_size, work, ep0, buf, mem, xfer, transfers, clean, harmed>>

Transfer == HostData \/ HostStatus \/ HostStalled

Next == Handler \/ HostSetup \/ Transfer \/ HostAbort

Spec == Init /\ [][Next]_vars

(* The main loop keeps running, and a host drives its transfer on.         *)
FairSpec == Spec /\ WF_vars(Handler) /\ WF_vars(Transfer)

(***************************************************************************)
(* Properties                                                              *)
(***************************************************************************)
(* Every variable holds a value of its kind; no loop counts below zero.    *)
TypeOK ==
  /\ pc \in {"loop", "read", "arm", "data"} /\ pending_setup \in BOOLEAN /\ ee_page_size \in 0..255
  /\ request \in Requests \cup {None} /\ xfer \in Requests \cup {None}
  /\ arg_addr \in Nat /\ arg_len \in Nat
  /\ arg_addr + arg_len = request.wValue + request.len \/ request = None
  /\ ep0 \in [busy : BOOLEAN, hsnak : BOOLEAN, stall : BOOLEAN, bcl : 0..EP0BUFF_SIZE]
  /\ DOMAIN buf = 1..EP0BUFF_SIZE /\ DOMAIN mem = Cells /\ moved \in Nat
  /\ stage \in {"none", "data", "status", "done", "stalled", "aborted"}
  /\ clean \in BOOLEAN /\ given \in BOOLEAN /\ harmed \subseteq Cells

(* Whatever is written, read, refused or given up in between (242-306):    *)
(* outside the reach of writes that were given up or took the page for a   *)
(* larger one, and of the one in work, every byte is at the address it was *)
(* meant for.  In which of the two EEPROMs, it does not say.               *)
BytesInPlace ==
  \A c \in Cells \ (harmed \cup (IF pc = "loop" THEN {} ELSE Reach(request))) : mem[c][2] = c[2]

(* A clean read that ends well has got the bytes of the memory.            *)
ReadIsExact ==
  stage = "done" /\ clean /\ xfer.read =>
    got = [i \in 1..xfer.len |-> mem[<<Chip(xfer), xfer.wValue + i - 1>>]]

(* A clean write that ends well, the last chunk included, has replaced the *)
(* whole range, the junk that the copy to RAM brings in included (298).    *)
WriteIsComplete ==
  stage = "done" /\ clean /\ ~xfer.read /\ ~pending_setup /\ pc = "loop" /\ ~ep0.stall =>
    \A c \in Span(xfer) \ harmed : mem[c] = <<"new", c[2]>>

(* A clean transfer ends; one of length zero is never acknowledged.        *)
TransferFinishes ==
  (stage \in {"data", "status"} /\ clean /\ (xfer.len > 0 \/ xfer.kind = "PAGE_SIZE")) ~> Idle
=============================================================================
