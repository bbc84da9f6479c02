-------------------------- MODULE Fx2FirmwareProofs --------------------------
(***************************************************************************)
(* Proofs about Fx2Firmware for every set of words, requests, pages and    *)
(* faults, every checksum and every length of the stand-alone wait.        *)
(***************************************************************************)
EXTENDS Fx2Firmware, TLAPS

(* The control bits of a word are a number below 8.                        *)
LEMMA CtrlType ==
  ASSUME NEW w \in Word
  PROVE  Ctrl(w) \in 0..7
BY WordAssumption DEF Ctrl

(* Writing a word to the chip changes at most the register it names.       *)
LEMMA AdfWriteType ==
  ASSUME NEW c \in Chip, NEW w \in Word
  PROVE  AdfWrite(c, w) \in Chip
<1>1. Latched(c, w) \in Latch
  BY DEF Latched, Chip, Latch
<1>2. [c.live EXCEPT ![Ctrl(w)] = w] \in Latch
  BY DEF Chip, Latch
<1> QED
  BY <1>1, <1>2 DEF AdfWrite, Chip

(* The chip after one write, register by register.                         *)
LEMMA AdfWriteRegs ==
  ASSUME NEW c \in Chip, NEW w \in Word, NEW r \in Regs
  PROVE  AdfWrite(c, w).regs[r] = IF Ctrl(w) = r THEN w ELSE c.regs[r]
BY DEF AdfWrite, Latched, Chip, Latch

(* A word for R0 puts everything latched into effect.                      *)
LEMMA AdfWriteR0 ==
  ASSUME NEW c \in Chip, NEW w \in Word, Ctrl(w) = 0
  PROVE  AdfWrite(c, w).live = AdfWrite(c, w).regs
BY DEF AdfWrite, Regs

(* What broke off between two register sets is a register set, and tidy if *)
(* both were.                                                              *)
LEMMA MixType ==
  ASSUME NEW old \in RegSet, NEW new \in RegSet, NEW s \in Mixes(old, new)
  PROVE  /\ s \in RegSet
         /\ Tidy(old) /\ Tidy(new) => Tidy(s)
<1>1. PICK done \in SUBSET Regs, t \in {old.typ, new.typ}, k \in {old.chk, new.chk} :
        s = [regs |-> [r \in Regs |-> IF r \in done THEN new.regs[r] ELSE old.regs[r]],
             typ |-> t, chk |-> k]
  BY DEF Mixes
<1>2. s \in RegSet
  BY <1>1 DEF RegSet
<1>3. ASSUME Tidy(old), Tidy(new)
      PROVE  Tidy(s)
  BY <1>1, <1>3 DEF Tidy
<1> QED
  BY <1>2, <1>3

(* Replaying a tidy set leaves every register that has a word of its own   *)
(* with that word; ending with R0 it is in effect.                         *)
LEMMA ReplayEffect ==
  ASSUME NEW c \in Chip, NEW s \in RegSet, Tidy(s)
  PROVE  /\ Replay(c, s) \in Chip
         /\ \A r \in Own(s) : Replay(c, s).regs[r] = s.regs[r]
         /\ InEffect(s, Replay(c, s))
<1> DEFINE w(i) == s.regs[i]
           c5 == AdfWrite(c, w(5))
           c4 == AdfWrite(c5, w(4))
           c3 == AdfWrite(c4, w(3))
           c2 == AdfWrite(c3, w(2))
           c1 == AdfWrite(c2, w(1))
           c0 == AdfWrite(c1, w(0))
<1>1. \A i \in Regs : w(i) \in Word
  BY DEF RegSet
<1>2. 0 \in Regs /\ 1 \in Regs /\ 2 \in Regs /\ 3 \in Regs /\ 4 \in Regs /\ 5 \in Regs
  BY DEF Regs
<1>3. c5 \in Chip /\ c4 \in Chip /\ c3 \in Chip /\ c2 \in Chip /\ c1 \in Chip /\ c0 \in Chip
  <2> HIDE DEF w, c5, c4, c3, c2, c1
  <2>5. c5 \in Chip BY <1>1, <1>2, AdfWriteType DEF c5
  <2>4. c4 \in Chip BY <1>1, <1>2, <2>5, AdfWriteType DEF c4
  <2>3. c3 \in Chip BY <1>1, <1>2, <2>4, AdfWriteType DEF c3
  <2>2. c2 \in Chip BY <1>1, <1>2, <2>3, AdfWriteType DEF c2
  <2>1. c1 \in Chip BY <1>1, <1>2, <2>2, AdfWriteType DEF c1
  <2>0. c0 \in Chip BY <1>1, <1>2, <2>1, AdfWriteType
  <2> QED BY <2>5, <2>4, <2>3, <2>2, <2>1, <2>0
<1>4. Replay(c, s) = c0
  BY DEF Replay
<1>5. ASSUME NEW r \in Own(s)
      PROVE  c0.regs[r] = s.regs[r]
  <2>1. r \in Regs /\ Ctrl(w(r)) = r
    BY <1>5 DEF Own
  <2>2. /\ c5.regs[r] = IF Ctrl(w(5)) = r THEN w(5) ELSE c.regs[r]
        /\ c4.regs[r] = IF Ctrl(w(4)) = r THEN w(4) ELSE c5.regs[r]
        /\ c3.regs[r] = IF Ctrl(w(3)) = r THEN w(3) ELSE c4.regs[r]
        /\ c2.regs[r] = IF Ctrl(w(2)) = r THEN w(2) ELSE c3.regs[r]
        /\ c1.regs[r] = IF Ctrl(w(1)) = r THEN w(1) ELSE c2.regs[r]
        /\ c0.regs[r] = IF Ctrl(w(0)) = r THEN w(0) ELSE c1.regs[r]
    <3> HIDE DEF w, c5, c4, c3, c2, c1
    <3>5. c5.regs[r] = IF Ctrl(w(5)) = r THEN w(5) ELSE c.regs[r]
      BY <1>1, <1>2, <2>1, AdfWriteRegs DEF c5
    <3>4. c4.regs[r] = IF Ctrl(w(4)) = r THEN w(4) ELSE c5.regs[r]
      BY <1>1, <1>2, <1>3, <2>1, AdfWriteRegs DEF c4
    <3>3. c3.regs[r] = IF Ctrl(w(3)) = r THEN w(3) ELSE c4.regs[r]
      BY <1>1, <1>2, <1>3, <2>1, AdfWriteRegs DEF c3
    <3>2. c2.regs[r] = IF Ctrl(w(2)) = r THEN w(2) ELSE c3.regs[r]
      BY <1>1, <1>2, <1>3, <2>1, AdfWriteRegs DEF c2
    <3>1. c1.regs[r] = IF Ctrl(w(1)) = r THEN w(1) ELSE c2.regs[r]
      BY <1>1, <1>2, <1>3, <2>1, AdfWriteRegs DEF c1
    <3>0. c0.regs[r] = IF Ctrl(w(0)) = r THEN w(0) ELSE c1.regs[r]
      BY <1>1, <1>2, <1>3, <2>1, AdfWriteRegs
    <3> QED BY <3>5, <3>4, <3>3, <3>2, <3>1, <3>0
  <2>3. \A q \in Regs : Ctrl(w(q)) = r => q = r \/ r = 0
    BY <2>1 DEF Tidy
  <2> HIDE DEF w, c5, c4, c3, c2, c1, c0
  <2>4. c0.regs[r] = w(r)
    <3>1. r \in {0, 1, 2, 3, 4, 5}
      BY <2>1 DEF Regs
    <3> QED BY <3>1, <2>1, <2>2, <2>3, <1>2
  <2> QED BY <2>4 DEF w
<1>6. ASSUME 0 \in Own(s)
      PROVE  c0.live = c0.regs
  <2>1. Ctrl(w(0)) = 0 /\ w(0) \in Word
    BY <1>1, <1>2, <1>6 DEF Own
  <2> HIDE DEF w, c5, c4, c3, c2, c1
  <2> QED BY <1>3, <2>1, AdfWriteR0
<1>7. InEffect(s, c0)
  <2> HIDE DEF c0
  <2> QED BY <1>5, <1>6 DEF InEffect
<1> HIDE DEF c0
<1> QED
  BY <1>3, <1>4, <1>5, <1>7

(***************************************************************************)
(* Type correctness                                                        *)
(***************************************************************************)
(* TypeOK is inductive once the register sets in RAM and EEPROM are known  *)
(* to be tidy, which the replay of a page needs later.                     *)
TypeInv == TypeOK /\ Tidy(reg_set) /\ Tidy(eeprom)

(* The cleared set is a tidy register set with a correct checksum.         *)
LEMMA ZeroSetType == ZeroSet \in RegSet /\ Tidy(ZeroSet) /\ Valid(ZeroSet)
BY WordAssumption, TypeAssumption, ChksumAssumption
   DEF ZeroSet, RegSet, Tidy, Valid, Ctrl

(* The fields of requests that reach the state of the device.              *)
LEMMA RequestType ==
  ASSUME NEW q \in Requests \cup {NoSetup}
  PROVE  q.word \in Word /\ q.len \in Nat /\ q.wValue % 256 \in Types
<1>1. 0 % 256 = 0
  OBVIOUS
<1> QED
  BY <1>1, RequestAssumption, WordAssumption, TypeAssumption DEF NoSetup

(* The EP0 macros and a SETUP packet turn EP0 into EP0.                    *)
LEMMA Ep0Type ==
  ASSUME NEW e \in Ep0, NEW n \in Nat
  PROVE  /\ SETUP_EP0_BUF(e, n) \in Ep0
         /\ STALL_EP0(e) \in Ep0
         /\ NewSetup(e) \in Ep0
         /\ [NewSetup(e) EXCEPT !.hsnak = FALSE] \in Ep0
BY DEF Ep0, SETUP_EP0_BUF, STALL_EP0, NewSetup

(* The replay keeps the types of the chip and of the history.              *)
LEMMA InitStepType ==
  ASSUME TypeOK, NEW s \in RegSet, Tidy(s),
         adf_reg_init(s) \/ UNCHANGED <<chip, synced>>
  PROVE  chip' \in Chip /\ synced' \subseteq Regs
BY ReplayEffect DEF adf_reg_init, TypeOK, Own

(* What Boot may have read, and what it does with it.                      *)
LEMMA BootReads ==
  ASSUME TypeInv, Boot
  PROVE  \E s \in RegSet :
           /\ Tidy(s) /\ reg_set' = s
           /\ \/ init_wait' = 0
              \/ /\ init_wait' = InitWait /\ s = eeprom
                 /\ Valid(s) /\ s.typ = INIT_STANDALONE
           /\ \/ UNCHANGED <<chip, synced>>
              \/ adf_reg_init(s) /\ init_wait' = 0
<1>0. PICK read_ok \in BOOLEAN :
        \E s \in IF read_ok THEN {eeprom} ELSE Mixes(ZeroSet, eeprom) :
          LET init_type == IF read_ok /\ Valid(s) THEN s.typ ELSE 0 IN
          /\ reg_set' = s
          /\ init_wait' = IF init_type = INIT_STANDALONE THEN InitWait ELSE 0
          /\ IF init_type = INIT_ALWAYS THEN adf_reg_init(s)
                                        ELSE UNCHANGED <<chip, synced>>
  BY DEF Boot
<1>1. PICK s \in IF read_ok THEN {eeprom} ELSE Mixes(ZeroSet, eeprom) :
        LET init_type == IF read_ok /\ Valid(s) THEN s.typ ELSE 0 IN
        /\ reg_set' = s
        /\ init_wait' = IF init_type = INIT_STANDALONE THEN InitWait ELSE 0
        /\ IF init_type = INIT_ALWAYS THEN adf_reg_init(s)
                                      ELSE UNCHANGED <<chip, synced>>
  BY <1>0
<1>2. s \in RegSet /\ Tidy(s)
  BY ZeroSetType, MixType DEF TypeInv, TypeOK
<1>3. CASE read_ok /\ Valid(s)
  BY <1>1, <1>2, <1>3 DEF INIT_STANDALONE, INIT_ALWAYS
<1>4. CASE ~(read_ok /\ Valid(s))
  BY <1>1, <1>2, <1>4 DEF INIT_STANDALONE, INIT_ALWAYS
<1> QED
  BY <1>3, <1>4

(* The initial state has the types.                                        *)
LEMMA InitType == Init => TypeInv
<1> SUFFICES ASSUME Init PROVE TypeInv
  OBVIOUS
<1>1. eeprom \in RegSet /\ Tidy(eeprom)
  BY PageAssumption DEF Init
<1>2. PoweredOn \in Chip /\ Ep0Idle \in Ep0
  BY WordAssumption DEF PoweredOn, Chip, Latch, Ep0Idle, Ep0
<1>3. init_wait \in 0..InitWait
  BY WaitAssumption DEF Init
<1>4. TypeOK
  BY <1>1, <1>2, <1>3, ZeroSetType DEF Init, TypeOK, Pcs, Stages
<1> QED
  BY <1>1, <1>4, ZeroSetType DEF Init, TypeInv

(* Every step preserves the types.                                         *)
LEMMA NextType == TypeInv /\ [Next]_vars => TypeInv'
<1> SUFFICES ASSUME TypeInv, [Next]_vars PROVE TypeInv'
  OBVIOUS
<1> USE DEF TypeInv, TypeOK
<1>1. CASE Boot
  <2>1. PICK s \in RegSet :
          /\ Tidy(s) /\ reg_set' = s
          /\ init_wait' \in {0, InitWait}
          /\ adf_reg_init(s) \/ UNCHANGED <<chip, synced>>
    BY <1>1, BootReads
  <2>2. chip' \in Chip /\ synced' \subseteq Regs
    BY <2>1, InitStepType
  <2> QED BY <1>1, <2>1, <2>2, WaitAssumption DEF Boot, host, Pcs, Tidy
<1>2. CASE StandbyTurn
  <2>1. chip' \in Chip /\ synced' \subseteq Regs
    BY <1>2, InitStepType DEF StandbyTurn
  <2>2. init_wait' \in 0..InitWait
    BY <1>2, WaitAssumption DEF StandbyTurn
  <2> QED BY <1>2, <2>1, <2>2 DEF StandbyTurn, host, Tidy
<1>3. CASE handle_pending_usb_setup
  <2>1. ep0' \in Ep0
    BY <1>3, Ep0Type DEF handle_pending_usb_setup
  <2>2. pc' \in Pcs
    <3>1. setupdat.kind \in Kinds \cup {"standard"}
      BY RequestAssumption DEF NoSetup
    <3> QED BY <1>3, <3>1 DEF handle_pending_usb_setup, Entry, Kinds, Pcs
  <2> QED BY <1>3, <2>1, <2>2, WaitAssumption DEF handle_pending_usb_setup, host, Tidy
<1>4. CASE ResetFlag
  <2>1. pc' \in Pcs
    <3>1. pc \in {"reg_flag", "ee_flag", "in_flag", "rn_flag"} /\ pc' = AfterFlag[pc]
      BY <1>4 DEF ResetFlag, AfterFlag
    <3> QED BY <3>1 DEF AfterFlag, Pcs
  <2> QED BY <1>4, <2>1 DEF ResetFlag, host, Tidy
<1>5. CASE ArmOut
  BY <1>5, Ep0Type DEF ArmOut, host, Pcs, Tidy
<1>6. CASE SetReg
  <2>1. CASE Accepted
    <3> DEFINE w == ep0.buf
    <3>1. w \in Word /\ Ctrl(w) \in Regs
      BY <2>1 DEF Accepted, Ep0
    <3>2. chip' \in Chip
      BY <1>6, <2>1, <3>1, AdfWriteType DEF SetReg
    <3>3. reg_set' = [reg_set EXCEPT !.regs[Ctrl(w)] = w] /\ reg_set' \in RegSet
      BY <1>6, <2>1, <3>1 DEF SetReg, RegSet
    <3>4. Tidy(reg_set)'
      BY <3>1, <3>3 DEF Tidy, RegSet
    <3> QED BY <1>6, <2>1, <3>1, <3>2, <3>3, <3>4 DEF SetReg, host, Pcs, Tidy
  <2> QED BY <1>6, <2>1 DEF SetReg, host, Pcs, Tidy
<1>7. CASE Clear
  BY <1>7, ZeroSetType DEF Clear, host, Pcs, Tidy
<1>8. CASE Keep
  BY <1>8 DEF Keep, host, Pcs, Tidy
<1>9. CASE AddType
  <2>1. PICK t \in Types :
          reg_set' = [reg_set EXCEPT !.typ = t, !.chk = Chksum(reg_set.regs, t)]
    BY <1>9, RequestType DEF AddType
  <2>2. Chksum(reg_set.regs, t) \in Nat
    BY ChksumAssumption DEF RegSet
  <2>3. reg_set' \in RegSet /\ reg_set'.regs = reg_set.regs
    BY <2>1, <2>2 DEF RegSet
  <2> QED BY <1>9, <2>3 DEF AddType, host, Pcs, Tidy
<1>10. CASE WritePage
  <2>1. eeprom' \in RegSet /\ Tidy(eeprom)'
    <3>1. eeprom' = reg_set \/ eeprom' \in Mixes(eeprom, reg_set)
      BY <1>10 DEF WritePage
    <3>2. eeprom' \in RegSet /\ Tidy(eeprom')
      BY <3>1, MixType
    <3> QED BY <3>2 DEF Tidy
  <2>2. ep0' \in Ep0 /\ torn' \in BOOLEAN
    BY <1>10, Ep0Type DEF WritePage
  <2> QED BY <1>10, <2>1, <2>2 DEF WritePage, host, Pcs, Tidy
<1>11. CASE Reply
  <2>1. [ep0 EXCEPT !.reply = pc] \in Ep0
    BY <1>11 DEF Reply, Ep0
  <2> QED BY <1>11, <2>1, Ep0Type DEF Reply, host, Pcs, Tidy
<1>12. CASE RenumerateReply
  BY <1>12, Ep0Type DEF RenumerateReply, host, Pcs, Tidy
<1>13. CASE Disconnect
  BY <1>13 DEF Disconnect, Pcs, Stages, Tidy
<1>14. CASE HostSetup
  BY <1>14, Ep0Type DEF HostSetup, handle_usb_setup, Stages, Tidy
<1>15. CASE HostData
  <2>1. ep0' \in Ep0
    <3>1. xfer.word \in Word /\ xfer.len \in Nat
      BY RequestType
    <3> QED BY <1>15, <3>1 DEF HostData, Ep0
  <2>2. got' \in InKinds \cup {"none", "empty"}
    BY <1>15 DEF HostData, Ep0
  <2> QED BY <1>15, <2>1, <2>2 DEF HostData, Stages, Tidy
<1>16. CASE HostStatus
  BY <1>16 DEF HostStatus, Stages, Ep0, Tidy
<1>17. CASE HostStalled
  BY <1>17 DEF HostStalled, device, Stages, Tidy
<1>18. CASE HostAbort
  BY <1>18 DEF HostAbort, device, Stages, Tidy
<1>19. CASE BusReset
  BY <1>19 DEF BusReset, Stages, Tidy
<1>20. CASE Enumerate
  BY <1>20, Ep0Type DEF Enumerate, host, Tidy
<1>21. CASE PowerLoss
  <2>1. eeprom' \in RegSet /\ Tidy(eeprom')
    BY <1>21, MixType DEF PowerLoss
  <2>2. PoweredOn \in Chip /\ Ep0Idle \in Ep0 /\ torn' \in BOOLEAN
    BY <1>21, WordAssumption DEF PoweredOn, Chip, Latch, Ep0Idle, Ep0, PowerLoss
  <2>3. init_wait' \in 0..InitWait
    BY <1>21, WaitAssumption DEF PowerLoss
  <2>4. TypeOK'
    BY <1>21, <2>1, <2>2, <2>3, ZeroSetType DEF PowerLoss, Pcs, Stages
  <2>5. Tidy(reg_set)'
    BY <1>21, ZeroSetType DEF PowerLoss, Tidy
  <2> QED BY <2>1, <2>4, <2>5 DEF Tidy
<1>22. CASE UNCHANGED vars
  BY <1>22 DEF vars, device, host, Tidy
<1> QED
  BY <1>1, <1>2, <1>3, <1>4, <1>5, <1>6, <1>7, <1>8, <1>9, <1>10, <1>11, <1>12,
     <1>13, <1>14, <1>15, <1>16, <1>17, <1>18, <1>19, <1>20, <1>21, <1>22
     DEF Next, Firmware, Transfer

(* The types hold in every reachable state: whatever hosts, faults and     *)
(* power failures do, RAM, EEPROM and chip hold registers of words the     *)
(* host has sent, cleared ones, or blank ones.                             *)
THEOREM TypeCorrect == Spec => []TypeInv
BY InitType, NextType, PTL DEF Spec

(* The type invariant the runs check, for every word, request and fault.   *)
THEOREM TypesHold == Spec => []TypeOK
<1>1. TypeInv => TypeOK
  BY DEF TypeInv
<1> QED
  BY <1>1, TypeCorrect, PTL

(***************************************************************************)
(* The page in the EEPROM                                                  *)
(***************************************************************************)
(* Where the parsing of a pending request leads.                           *)
LEMMA ParseLeads ==
  ASSUME TypeInv, handle_pending_usb_setup
  PROVE  pc' \in {"loop", "reg_flag", "ee_flag", "get_mux", "chip_rev", "rn_reply"}
<1>1. setupdat.kind \in Kinds \cup {"standard"}
  BY RequestAssumption DEF TypeInv, TypeOK, NoSetup
<1> QED
  BY <1>1 DEF handle_pending_usb_setup, Entry, Kinds

(* Where the reset of the flag leads.                                      *)
LEMMA FlagLeads ==
  ASSUME ResetFlag
  PROVE  pc' \in {"reg_arm", "ee_arm", "loop"}
<1>1. pc \in {"reg_flag", "ee_flag", "in_flag", "rn_flag"} /\ pc' = AfterFlag[pc]
  BY DEF ResetFlag, AfterFlag
<1> QED
  BY <1>1 DEF AfterFlag

(* PageVerifies is inductive once the set on its way to the page is known  *)
(* to have a correct checksum.                                             *)
PageInv == PageVerifies /\ (pc = "ee_write" => Valid(reg_set))

(* The page the board comes with verifies.                                 *)
LEMMA InitPage == Init => PageInv
BY PageAssumption DEF Init, PageInv, PageVerifies

(* The checksum is added after the type byte and before the write.         *)
LEMMA NextPage == TypeInv /\ PageInv /\ [Next]_vars => PageInv'
<1> SUFFICES ASSUME TypeInv, PageInv, [Next]_vars PROVE PageInv'
  OBVIOUS
<1> USE DEF PageInv, PageVerifies
<1>0. ASSUME UNCHANGED <<eeprom, torn>>, pc' # "ee_write" PROVE PageInv'
  BY <1>0 DEF Valid
<1>1. CASE Boot
  BY <1>0, <1>1 DEF Boot
<1>2. CASE StandbyTurn
  BY <1>0, <1>2 DEF StandbyTurn
<1>3. CASE handle_pending_usb_setup
  BY <1>0, <1>3, ParseLeads DEF handle_pending_usb_setup
<1>4. CASE ResetFlag
  BY <1>0, <1>4, FlagLeads DEF ResetFlag
<1>5. CASE ArmOut
  BY <1>0, <1>5 DEF ArmOut
<1>6. CASE SetReg
  BY <1>0, <1>6 DEF SetReg
<1>7. CASE Clear
  <2>1. Valid(reg_set)'
    BY <1>7, ZeroSetType DEF Clear, Valid
  <2> QED BY <1>7, <2>1 DEF Clear, Valid
<1>8. CASE Keep
  BY <1>0, <1>8 DEF Keep
<1>9. CASE AddType
  <2>1. Valid(reg_set)'
    BY <1>9 DEF AddType, Valid, TypeInv, TypeOK, RegSet
  <2> QED BY <1>9, <2>1 DEF AddType, Valid
<1>10. CASE WritePage
  BY <1>10 DEF WritePage, Valid
<1>11. CASE Reply
  BY <1>0, <1>11 DEF Reply
<1>12. CASE RenumerateReply
  BY <1>0, <1>12 DEF RenumerateReply
<1>13. CASE Disconnect
  BY <1>0, <1>13 DEF Disconnect
<1>14. CASE HostSetup
  BY <1>14 DEF HostSetup, Valid
<1>15. CASE HostData
  BY <1>15 DEF HostData, Valid
<1>16. CASE HostStatus
  BY <1>16 DEF HostStatus, Valid
<1>17. CASE HostStalled
  BY <1>17 DEF HostStalled, device, Valid
<1>18. CASE HostAbort
  BY <1>18 DEF HostAbort, device, Valid
<1>19. CASE BusReset
  BY <1>19 DEF BusReset, Valid
<1>20. CASE Enumerate
  BY <1>20 DEF Enumerate, Valid
<1>21. CASE PowerLoss
  BY <1>21 DEF PowerLoss, Valid
<1>22. CASE UNCHANGED vars
  BY <1>22 DEF vars, device, Valid
<1> QED
  BY <1>1, <1>2, <1>3, <1>4, <1>5, <1>6, <1>7, <1>8, <1>9, <1>10, <1>11, <1>12,
     <1>13, <1>14, <1>15, <1>16, <1>17, <1>18, <1>19, <1>20, <1>21, <1>22
     DEF Next, Firmware, Transfer

(* Whatever requests and faults come, a page whose last write was not      *)
(* interrupted carries the checksum that the next power-on asks for.       *)
THEOREM PageAlwaysVerifies == Spec => []PageVerifies
<1>1. Spec => [](TypeInv /\ PageInv)
  BY InitType, InitPage, NextType, NextPage, PTL DEF Spec
<1>2. PageInv => PageVerifies
  BY DEF PageInv
<1> QED
  BY <1>1, <1>2, PTL

(***************************************************************************)
(* The stand-alone wait                                                    *)
(***************************************************************************)
(* StandbyUntouched is inductive once Boot is known to start from a chip   *)
(* nobody has written to.                                                  *)
StandbyInv == StandbyUntouched /\ (pc = "boot" => chip = PoweredOn /\ synced = {})

(* At power-on nothing is armed and the chip is untouched.                 *)
LEMMA InitStandby == Init => StandbyInv
BY DEF Init, StandbyInv, StandbyUntouched

(* Whatever leaves the loop or writes to the chip has disarmed the init.   *)
LEMMA NextStandby == TypeInv /\ StandbyInv /\ [Next]_vars => StandbyInv'
<1> SUFFICES ASSUME TypeInv, StandbyInv, [Next]_vars PROVE StandbyInv'
  OBVIOUS
<1> USE DEF StandbyInv, StandbyUntouched
<1>a. init_wait \in Nat /\ InitWait \in Nat
  BY WaitAssumption DEF TypeInv, TypeOK
<1>0. ASSUME init_wait' = 0, pc' # "boot" PROVE StandbyInv'
  BY <1>0
<1>i. pc # "loop" => init_wait = 0
  BY <1>a
<1>u. ASSUME UNCHANGED <<pc, reg_set, eeprom, chip, synced, init_wait>> PROVE StandbyInv'
  BY <1>u DEF Valid
<1>1. CASE Boot
  <2>1. PICK s \in RegSet :
           /\ reg_set' = s
           /\ \/ init_wait' = 0
              \/ s = eeprom /\ Valid(s) /\ s.typ = INIT_STANDALONE
           /\ \/ UNCHANGED <<chip, synced>>
              \/ init_wait' = 0
    BY <1>1, BootReads
  <2> QED BY <1>1, <2>1 DEF Boot, Valid
<1>2. CASE StandbyTurn
  <2>1. CASE init_wait' = 0
    BY <1>0, <1>2, <2>1 DEF StandbyTurn
  <2>2. CASE init_wait' # 0
    BY <1>2, <2>2 DEF StandbyTurn, Valid
  <2> QED BY <2>1, <2>2
<1>3. CASE handle_pending_usb_setup
  BY <1>0, <1>3, ParseLeads DEF handle_pending_usb_setup
<1>4. CASE ResetFlag
  <2>1. pc # "loop"
    BY <1>4 DEF ResetFlag, AfterFlag
  <2> QED BY <1>0, <1>i, <1>4, <2>1, FlagLeads DEF ResetFlag
<1>5. CASE ArmOut
  BY <1>0, <1>i, <1>5 DEF ArmOut
<1>6. CASE SetReg
  BY <1>0, <1>i, <1>6 DEF SetReg
<1>7. CASE Clear
  BY <1>0, <1>i, <1>7 DEF Clear
<1>8. CASE Keep
  BY <1>0, <1>i, <1>8 DEF Keep
<1>9. CASE AddType
  BY <1>0, <1>i, <1>9 DEF AddType
<1>10. CASE WritePage
  BY <1>0, <1>i, <1>10 DEF WritePage
<1>11. CASE Reply
  BY <1>0, <1>i, <1>11 DEF Reply, InKinds
<1>12. CASE RenumerateReply
  BY <1>0, <1>i, <1>12 DEF RenumerateReply
<1>13. CASE Disconnect
  BY <1>0, <1>i, <1>13 DEF Disconnect
<1>14. CASE HostSetup
  BY <1>u, <1>14 DEF HostSetup
<1>15. CASE HostData
  BY <1>u, <1>15 DEF HostData
<1>16. CASE HostStatus
  BY <1>u, <1>16 DEF HostStatus
<1>17. CASE HostStalled
  BY <1>u, <1>17 DEF HostStalled, device
<1>18. CASE HostAbort
  BY <1>u, <1>18 DEF HostAbort, device
<1>19. CASE BusReset
  BY <1>u, <1>19 DEF BusReset
<1>20. CASE Enumerate
  BY <1>u, <1>20 DEF Enumerate
<1>21. CASE PowerLoss
  BY <1>21 DEF PowerLoss
<1>22. CASE UNCHANGED vars
  BY <1>u, <1>22 DEF vars, device
<1> QED
  BY <1>1, <1>2, <1>3, <1>4, <1>5, <1>6, <1>7, <1>8, <1>9, <1>10, <1>11, <1>12,
     <1>13, <1>14, <1>15, <1>16, <1>17, <1>18, <1>19, <1>20, <1>21, <1>22
     DEF Next, Firmware, Transfer

(* However the bus comes and goes, an armed stand-alone init has a chip    *)
(* nobody has written to and will replay the verified page.                *)
THEOREM StandbyAlwaysUntouched == Spec => []StandbyUntouched
<1>1. Spec => [](TypeInv /\ StandbyInv)
  BY InitType, InitStandby, NextType, NextStandby, PTL DEF Spec
<1>2. StandbyInv => StandbyUntouched
  BY DEF StandbyInv
<1> QED
  BY <1>1, <1>2, PTL

(***************************************************************************)
(* The RAM copy and the chip                                               *)
(***************************************************************************)
(* An init replays a set nobody has written over: chip and set then agree  *)
(* on every register the set has a word of its own for.                    *)
LEMMA InitMatches ==
  ASSUME TypeInv, NEW s \in RegSet, Tidy(s), synced = {}, adf_reg_init(s)
  PROVE  \A r \in synced' : s.regs[r] = chip'.regs[r]
<1>1. CASE Valid(s)
  <2>1. chip' = Replay(chip, s) /\ synced' = Own(s)
    BY <1>1 DEF adf_reg_init
  <2> QED BY <2>1, ReplayEffect DEF TypeInv, TypeOK
<1>2. CASE ~Valid(s)
  BY <1>2 DEF adf_reg_init
<1> QED BY <1>1, <1>2

(* At power-on no register has been written.                               *)
LEMMA InitShadow == Init => ShadowMatchesChip
BY DEF Init, ShadowMatchesChip

(* Every step that writes RAM or chip writes both, or empties synced.      *)
LEMMA NextShadow ==
  TypeInv /\ StandbyInv /\ ShadowMatchesChip /\ [Next]_vars => ShadowMatchesChip'
<1> SUFFICES ASSUME TypeInv, StandbyInv, ShadowMatchesChip, [Next]_vars
             PROVE  ShadowMatchesChip'
  OBVIOUS
<1> USE DEF ShadowMatchesChip
<1>u. ASSUME UNCHANGED <<reg_set, chip, synced>> PROVE ShadowMatchesChip'
  BY <1>u
<1>1. CASE Boot
  <2>1. synced = {}
    BY <1>1 DEF Boot, StandbyInv
  <2>2. PICK s \in RegSet :
          /\ Tidy(s) /\ reg_set' = s
          /\ UNCHANGED <<chip, synced>> \/ adf_reg_init(s)
    BY <1>1, BootReads
  <2>3. CASE UNCHANGED <<chip, synced>>
    BY <2>1, <2>3
  <2>4. CASE adf_reg_init(s)
    BY <2>1, <2>2, <2>4, InitMatches
  <2> QED BY <2>2, <2>3, <2>4
<1>2. CASE StandbyTurn
  <2>1. synced = {} /\ reg_set' = reg_set
    BY <1>2 DEF StandbyTurn, StandbyInv, StandbyUntouched
  <2>2. CASE UNCHANGED <<chip, synced>>
    BY <2>1, <2>2
  <2>3. CASE adf_reg_init(reg_set)
    BY <2>1, <2>3, InitMatches DEF TypeInv, TypeOK
  <2> QED BY <1>2, <2>2, <2>3 DEF StandbyTurn
<1>3. CASE handle_pending_usb_setup
  BY <1>u, <1>3 DEF handle_pending_usb_setup
<1>4. CASE ResetFlag
  BY <1>u, <1>4 DEF ResetFlag
<1>5. CASE ArmOut
  BY <1>u, <1>5 DEF ArmOut
<1>6. CASE SetReg
  <2>1. CASE Accepted
    <3> DEFINE w == ep0.buf
               k == Ctrl(w)
    <3>1. w \in Word /\ k \in Regs
      BY <2>1 DEF Accepted, TypeInv, TypeOK, Ep0
    <3>2. /\ reg_set' = [reg_set EXCEPT !.regs[k] = w]
          /\ chip' = AdfWrite(chip, w)
          /\ synced' = synced \cup {k}
      BY <1>6, <2>1 DEF SetReg
    <3> HIDE DEF w
    <3>3. ASSUME NEW r \in synced'
          PROVE  reg_set'.regs[r] = chip'.regs[r]
      <4>1. r \in Regs
        BY <3>1, <3>2 DEF TypeInv, TypeOK
      <4>2. reg_set'.regs[r] = IF k = r THEN w ELSE reg_set.regs[r]
        BY <3>1, <3>2, <4>1 DEF TypeInv, TypeOK, RegSet
      <4>3. chip'.regs[r] = IF k = r THEN w ELSE chip.regs[r]
        BY <3>1, <3>2, <4>1, AdfWriteRegs DEF TypeInv, TypeOK
      <4> QED BY <3>2, <4>2, <4>3
    <3> QED BY <3>3
  <2> QED BY <1>6, <2>1 DEF SetReg
<1>7. CASE Clear
  BY <1>7 DEF Clear
<1>8. CASE Keep
  BY <1>u, <1>8 DEF Keep
<1>9. CASE AddType
  <2>1. reg_set'.regs = reg_set.regs
    BY <1>9 DEF AddType, TypeInv, TypeOK, RegSet
  <2> QED BY <1>9, <2>1 DEF AddType
<1>10. CASE WritePage
  BY <1>u, <1>10 DEF WritePage
<1>11. CASE Reply
  BY <1>u, <1>11 DEF Reply
<1>12. CASE RenumerateReply
  BY <1>u, <1>12 DEF RenumerateReply
<1>13. CASE Disconnect
  BY <1>u, <1>13 DEF Disconnect
<1>14. CASE HostSetup
  BY <1>u, <1>14 DEF HostSetup
<1>15. CASE HostData
  BY <1>u, <1>15 DEF HostData
<1>16. CASE HostStatus
  BY <1>u, <1>16 DEF HostStatus
<1>17. CASE HostStalled
  BY <1>u, <1>17 DEF HostStalled, device
<1>18. CASE HostAbort
  BY <1>u, <1>18 DEF HostAbort, device
<1>19. CASE BusReset
  BY <1>u, <1>19 DEF BusReset
<1>20. CASE Enumerate
  BY <1>u, <1>20 DEF Enumerate
<1>21. CASE PowerLoss
  BY <1>21 DEF PowerLoss
<1>22. CASE UNCHANGED vars
  BY <1>u, <1>22 DEF vars, device
<1> QED
  BY <1>1, <1>2, <1>3, <1>4, <1>5, <1>6, <1>7, <1>8, <1>9, <1>10, <1>11, <1>12,
     <1>13, <1>14, <1>15, <1>16, <1>17, <1>18, <1>19, <1>20, <1>21, <1>22
     DEF Next, Firmware, Transfer

(* The RAM copies of the registers written since the last clear are the    *)
(* words in the chip, in every reachable state.                            *)
THEOREM ShadowAlwaysMatches == Spec => []ShadowMatchesChip
BY InitType, InitStandby, InitShadow, NextType, NextStandby, NextShadow, PTL DEF Spec

(***************************************************************************)
(* The firmware's own init                                                 *)
(***************************************************************************)
(* Both inits leave the restored registers latched and in effect: the      *)
(* order R5 .. R0 is right for every tidy page.                            *)
LEMMA InitRestores ==
  ASSUME TypeInv, NEW s \in RegSet, Tidy(s), adf_reg_init(s), chip' # chip
  PROVE  InEffect(s, chip')
<1>1. chip' = Replay(chip, s)
  BY DEF adf_reg_init
<1> QED BY <1>1, ReplayEffect DEF TypeInv, TypeOK

(* No reachable step of the firmware's own init leaves a restored register *)
(* waiting for an R0 that does not come.                                   *)
THEOREM AlwaysRestoredInEffect == Spec => RestoredInEffect
<1>1. ASSUME TypeInv, Boot, chip' # chip
      PROVE  InEffect(reg_set', chip')
  <2>1. PICK s \in RegSet : Tidy(s) /\ reg_set' = s /\ adf_reg_init(s)
    BY <1>1, BootReads
  <2> QED BY <1>1, <2>1, InitRestores
<1>2. ASSUME TypeInv, StandbyTurn, chip' # chip
      PROVE  InEffect(reg_set', chip')
  <2>1. reg_set' = reg_set /\ adf_reg_init(reg_set)
    BY <1>2 DEF StandbyTurn
  <2> QED BY <1>2, <2>1, InitRestores DEF TypeInv, TypeOK
<1>3. TypeInv => [(Boot \/ StandbyTurn) /\ chip' # chip => InEffect(reg_set', chip')]_vars
  BY <1>1, <1>2
<1> QED
  BY <1>3, TypeCorrect, PTL DEF RestoredInEffect

(***************************************************************************)
(* A host that finishes what it starts                                     *)
(***************************************************************************)
(* Nobody gives up, the bus is not reset and the EEPROM does not fail; a   *)
(* read asks for a byte at least.  The power may fail.                     *)
PoliteHost ==
  /\ Faults \subseteq {"power"}
  /\ \A q \in Requests : q.kind # "unknown" /\ (q.kind \in InKinds => q.len > 0)

(* The request of the transfer that has just begun is the one in SETUPDAT, *)
(* and the host can go on only when its handler arms EP0.                  *)
Begun ==
  /\ setupdat = xfer /\ xfer \in Requests /\ fnaddr
  /\ stage \in {"data", "status"} /\ (stage = "status" => xfer.len = 0)
  /\ ep0.hsnak /\ ~ep0.busy /\ ~ep0.stall

(* The points of a handler before it arms EP0, and before it resets the    *)
(* flag.                                                                   *)
Unarmed == {"reg_flag", "reg_arm", "ee_flag", "ee_arm", "get_mux", "chip_rev", "rn_reply"}
Flagged == {"reg_flag", "ee_flag", "get_mux", "chip_rev", "rn_reply", "in_flag", "rn_discon", "rn_flag"}

(* A request waits only while its host does.                               *)
FlagInv ==
  /\ pc \in Flagged => pending_setup
  /\ pc \in {"boot", "reg_arm", "ee_arm"} => ~pending_setup
  /\ pending_setup /\ pc \in {"loop", "reg_data", "ee_test", "ee_type", "ee_write"} => Begun

(* A handler that has not armed EP0 yet serves the transfer in work.       *)
ServedInv ==
  pc \in Unarmed =>
    /\ Begun
    /\ pc \in InKinds => xfer.kind = pc
    /\ pc \notin InKinds => xfer.kind \notin InKinds

(* What EP0 holds for a read, and what the host has got of it, is its      *)
(* handler's byte.                                                         *)
ReplyInv ==
  xfer.kind \in InKinds =>
    /\ stage = "data" /\ ep0.busy /\ ~ep0.stall => ep0.bcl = 1 /\ ep0.reply = xfer.kind
    /\ stage \in {"status", "done"} => got = xfer.kind

PoliteInv == FlagInv /\ ServedInv /\ ReplyInv

(* They hold at power-on.                                                  *)
LEMMA InitPolite == Init => PoliteInv
BY DEF Init, PoliteInv, FlagInv, ServedInv, ReplyInv, NoSetup, InKinds, Flagged, Unarmed

(* The entries of the dispatcher.                                          *)
LEMMA EntryOf ==
  ASSUME NEW k \in Kinds \ {"unknown"}
  PROVE  /\ Entry[k] \in Unarmed \cap Flagged
         /\ Entry[k] \in InKinds => k = Entry[k]
         /\ Entry[k] \notin InKinds => k \notin InKinds
BY DEF Kinds, Entry, Unarmed, Flagged, InKinds

(* Every step keeps them.                                                  *)
LEMMA NextPolite == PoliteHost /\ TypeInv /\ PoliteInv /\ [Next]_vars => PoliteInv'
<1> SUFFICES ASSUME PoliteHost, TypeInv, PoliteInv, [Next]_vars PROVE PoliteInv'
  OBVIOUS
<1> USE DEF PoliteInv, FlagInv, ServedInv, ReplyInv, InKinds, Flagged, Unarmed
<1>1. /\ pc \in Pcs /\ pending_setup \in BOOLEAN /\ ep0 \in Ep0 /\ fnaddr \in BOOLEAN
      /\ stage \in Stages /\ xfer \in Requests \cup {NoSetup}
  BY DEF TypeInv, TypeOK
<1>2. CASE Boot
  BY <1>1, <1>2 DEF Boot, host
<1>3. CASE StandbyTurn
  BY <1>1, <1>3 DEF StandbyTurn, host, Begun
<1>4. CASE handle_pending_usb_setup
  <2>1. CASE pending_setup
    <3>1. Begun /\ pc' = Entry[xfer.kind]
      BY <1>4, <2>1 DEF handle_pending_usb_setup, Begun
    <3>2. xfer.kind \in Kinds \ {"unknown"}
      BY <3>1, RequestAssumption DEF PoliteHost, Begun
    <3>3. /\ pc' \in Unarmed \cap Flagged
          /\ pc' \in InKinds => xfer.kind = pc'
          /\ pc' \notin InKinds => xfer.kind \notin InKinds
      BY <3>1, <3>2, EntryOf
    <3>4. Begun' /\ pending_setup' /\ UNCHANGED <<ep0, stage, xfer, got>>
      BY <1>4, <2>1, <3>1, <3>3 DEF handle_pending_usb_setup, Begun, host
    <3> QED BY <2>1, <3>3, <3>4
  <2>2. CASE ~pending_setup
    BY <1>4, <2>2 DEF handle_pending_usb_setup, host
  <2> QED BY <2>1, <2>2
<1>5. CASE ResetFlag
  BY <1>1, <1>5 DEF ResetFlag, AfterFlag, host, Begun
<1>6. CASE ArmOut
  BY <1>1, <1>6 DEF ArmOut, SETUP_EP0_BUF, host, Begun
<1>7. CASE SetReg
  BY <1>1, <1>7 DEF SetReg, host, Begun
<1>8. CASE Clear \/ Keep \/ AddType
  BY <1>1, <1>8 DEF Clear, Keep, AddType, host, Begun
<1>9. CASE WritePage
  <2>1. "eeprom" \notin Faults
    BY DEF PoliteHost
  <2> QED BY <1>1, <1>9, <2>1 DEF WritePage, host, Begun
<1>10. CASE Reply
  BY <1>1, <1>10 DEF Reply, SETUP_EP0_BUF, Ep0, host, Begun
<1>11. CASE RenumerateReply
  BY <1>1, <1>11 DEF RenumerateReply, SETUP_EP0_BUF, host, Begun
<1>12. CASE Disconnect
  BY <1>1, <1>12 DEF Disconnect, Idle
<1>13. CASE HostSetup
  <2>1. PICK q \in Requests :
          /\ setupdat' = q /\ xfer' = q
          /\ stage' = IF q.len = 0 THEN "status" ELSE "data"
    BY <1>13 DEF HostSetup
  <2>2. q.kind \in InKinds => q.len # 0
    BY DEF PoliteHost
  <2>3. ~Begun
    BY <1>13 DEF HostSetup, Idle, Begun
  <2>4. /\ pc' = pc /\ fnaddr' = fnaddr /\ fnaddr /\ pending_setup' = TRUE
        /\ ep0' = IF pending_setup THEN STALL_EP0(NewSetup(ep0)) ELSE NewSetup(ep0)
        /\ pc \notin {"boot", "rn_flag"}
    BY <1>13 DEF HostSetup, handle_usb_setup, Connected
  <2>5. pc \notin Unarmed
    BY <2>3
  <2>6. ~ep0'.busy /\ ep0'.hsnak /\ (~pending_setup => ~ep0'.stall)
    BY <1>1, <2>4 DEF NewSetup, STALL_EP0, Ep0
  <2>7. ~pending_setup => Begun'
    BY <2>1, <2>4, <2>6 DEF Begun
  <2>8. FlagInv' /\ ServedInv'
    BY <2>3, <2>4, <2>5, <2>7
  <2>9. ReplyInv'
    BY <2>1, <2>2, <2>6
  <2> QED BY <2>8, <2>9
<1>14. CASE HostData
  <2>1. ~Begun
    BY <1>14 DEF HostData, Begun
  <2> QED BY <1>1, <1>14, <2>1 DEF HostData, Ep0
<1>15. CASE HostStatus
  <2>1. ~Begun
    BY <1>15 DEF HostStatus, Begun
  <2> QED BY <1>1, <1>15, <2>1 DEF HostStatus
<1>16. CASE HostStalled
  <2>1. ~Begun
    BY <1>16 DEF HostStalled, Begun
  <2> QED BY <1>1, <1>16, <2>1 DEF HostStalled, device
<1>17. CASE HostAbort \/ BusReset
  BY <1>17 DEF HostAbort, BusReset, PoliteHost
<1>18. CASE Enumerate
  <2>1. ~Begun
    BY <1>18 DEF Enumerate, Begun
  <2>2. ~ep0'.busy
    BY <1>1, <1>18 DEF Enumerate, NewSetup, Ep0
  <2> QED BY <1>1, <1>18, <2>1, <2>2 DEF Enumerate, host
<1>19. CASE PowerLoss
  BY <1>19 DEF PowerLoss, NoSetup
<1>20. CASE UNCHANGED vars
  BY <1>20 DEF vars, device, host, Begun
<1> QED
  BY <1>2, <1>3, <1>4, <1>5, <1>6, <1>7, <1>8, <1>9, <1>10, <1>11, <1>12, <1>13, <1>14,
     <1>15, <1>16, <1>17, <1>18, <1>19, <1>20 DEF Next, Firmware, Transfer

(* With a host that finishes what it starts, every read that ends well has *)
(* got the byte of its own handler, although the handlers share EP0BUF and *)
(* write it while the next request may be on its way (main.c:309-316,      *)
(* 370-377).                                                               *)
THEOREM PoliteAnswered ==
  ASSUME PoliteHost
  PROVE  Spec => []AnsweredByOwnHandler
<1>1. PoliteInv => AnsweredByOwnHandler
  BY DEF PoliteInv, ReplyInv, AnsweredByOwnHandler
<1>2. TypeInv /\ PoliteInv /\ [Next]_vars => PoliteInv'
  BY NextPolite
<1> QED
  BY <1>1, <1>2, InitType, NextType, InitPolite, PTL DEF Spec

(* With such a host the flag outlives a transfer only between a reply and  *)
(* its reset: no request is ever refused for one that was never served.    *)
THEOREM PoliteFlagHeld ==
  ASSUME PoliteHost
  PROVE  Spec => []FlagHeldOnlyByReplies
<1>1. TypeInv /\ PoliteInv => FlagHeldOnlyByReplies
  BY DEF TypeInv, TypeOK, Pcs, PoliteInv, FlagInv, ServedInv, Begun, Idle, Flagged, Unarmed,
         FlagHeldOnlyByReplies
<1>2. TypeInv /\ PoliteInv /\ [Next]_vars => PoliteInv'
  BY NextPolite
<1> QED
  BY <1>1, <1>2, InitType, NextType, InitPolite, PTL DEF Spec
=============================================================================
