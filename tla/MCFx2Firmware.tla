---------------------------- MODULE MCFx2Firmware ----------------------------
(***************************************************************************)
(* Small instances of Fx2Firmware.  Words are one byte wide, so that the   *)
(* checksum is the XOR of main.c:189-195 with the zero bytes left out:     *)
(* 16 and 24 (R0), 9 (R1), 0 (R0, the cleared slot) and 255 (the blank     *)
(* EEPROM; as a SET_REG word its control bits 7 name no register).         *)
(***************************************************************************)
EXTENDS Fx2Firmware, FiniteSetsExt

MCWord == {0, 9, 16, 255}
MCTypes == {0, 1, 2, 255}

(* Bit i of the XOR of bytes is the parity of their i-th bits.             *)
XorBit(i, regs, typ) ==
  (regs[0] \div 2^i + regs[1] \div 2^i + regs[2] \div 2^i + regs[3] \div 2^i
    + regs[4] \div 2^i + regs[5] \div 2^i + typ \div 2^i) % 2
XorChksum(regs, typ) == MapThenSumSet(LAMBDA i : 2^i * XorBit(i, regs, typ), 0..7)

SetRegReq(w, n) == [kind |-> "set_reg", wValue |-> 0, word |-> w, len |-> n]
EeRegsReq(v) == [kind |-> "ee_regs", wValue |-> v, word |-> 0, len |-> 0]
InReq(k) == [kind |-> k, wValue |-> 0, word |-> 0, len |-> 1]
OutReq(k) == [kind |-> k, wValue |-> 0, word |-> 0, len |-> 0]

(* The blank page: six words, byte 30 and byte 31 all ones; XOR of the 31  *)
(* bytes gives 255 again.                                                  *)
Blank == [regs |-> [r \in Regs |-> 255], typ |-> 255, chk |-> 255]
Stored(w0, w1, typ) ==
  LET regs == [ZeroSet.regs EXCEPT ![0] = w0, ![1] = w1]
  IN [regs |-> regs, typ |-> typ, chk |-> XorChksum(regs, typ)]

(* A host that misbehaves in every way, all faults.                        *)
AnyRequests == {SetRegReq(16, 4), EeRegsReq(0), EeRegsReq(1), OutReq("unknown")}
AnyPages == {Stored(0, 9, 2)}

(* A host that finishes each transfer, every request of the firmware.      *)
PoliteRequests ==
  {SetRegReq(w, n) : w \in {9, 16, 255}, n \in {2, 4}}
    \cup {EeRegsReq(v) : v \in {0, 2, 256}}
    \cup {InReq("get_mux"), InReq("chip_rev"), OutReq("renumerate")}
PolitePages == {Blank}

(* Few requests for the counterexample.                                   *)
StoreRequests == {SetRegReq(16, 4), EeRegsReq(0), EeRegsReq(2)}
=============================================================================
