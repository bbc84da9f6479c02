-------------------------- MODULE UsbIoBoardProofs --------------------------
(***************************************************************************)
(* A black register line is a lie only if its transmission was dropped or  *)
(* the device has lost it with its power, for any number of registers, any *)
(* values and any faults: the argument is that USBCTRL has the text of     *)
(* every black line, so whatever it sends for one is what the line shows.  *)
(***************************************************************************)
EXTENDS UsbIoBoard, TLAPS

(* USBCTRL holds the value of every black line (usbioboard.cpp:371-384).   *)
HandedOver == \A r \in Regs \ changed : reg[r] = line[r]

Inv == TypeOK /\ HandedOver /\ BlackIsTrue

(* The variables that the slots of a hand-over set.                        *)
SlotType ==
  /\ changed \subseteq Regs /\ regUpdatePending \subseteq Regs
  /\ lost \subseteq Regs /\ forgot \subseteq Regs
  /\ autoTxPending \in BOOLEAN /\ reg \in [Regs -> Word] \cup {NotSent}

(* Registers that were never sent are one of the values of a line.         *)
LEMMA NotSentType == NotSent \in [Regs -> Word \cup {Unset}]
BY DEF NotSent

(* The invariant holds when the program starts.                            *)
LEMMA InitInv == Init => Inv
<1> SUFFICES ASSUME Init PROVE Inv
  OBVIOUS
<1>1. TypeOK
  BY NotSentType DEF Init, TypeOK
<1>2. HandedOver
  BY DEF Init, HandedOver
<1>3. BlackIsTrue
  BY DEF Init, BlackIsTrue
<1> QED
  BY <1>1, <1>2, <1>3 DEF Inv

(* A hand-over of the lines as they are, under any mask: what it drops is  *)
(* booked as lost, what is not in the mask stays as it was.                *)
LEMMA HandOver ==
  ASSUME Inv, NEW mask \in SUBSET Regs, NEW auto \in BOOLEAN,
         updateReg(mask, line, changed, auto), UNCHANGED <<line, dev>>
  PROVE  SlotType' /\ HandedOver' /\ BlackIsTrue'
<1>1. changed' = changed \ mask /\ reg' = line
  BY DEF updateReg, changeReg
<1>2. SlotType'
  BY <1>1 DEF Inv, TypeOK, SlotType, updateReg, changeReg
<1>3. HandedOver'
  BY <1>1 DEF HandedOver
<1>4. BlackIsTrue'
  <2> SUFFICES ASSUME NEW r \in Regs, r \notin changed', r \notin lost', r \notin forgot'
               PROVE  \/ dev[r] = line[r]
                      \/ reg'[r] = line[r] /\ (r \in regUpdatePending' \/ autoTxPending')
    BY DEF BlackIsTrue
  <2>1. CASE auto
    BY <2>1, <1>1 DEF updateReg, changeReg
  <2>2. CASE ~auto /\ r \in mask
    BY <2>2, <1>1 DEF updateReg, changeReg
  <2>3. CASE ~auto /\ r \notin mask
    <3>1. r \notin changed /\ r \notin lost /\ r \notin forgot /\ r \notin regUpdatePending
      BY <2>3, <1>1 DEF updateReg, changeReg
    <3>2. autoTxPending' = autoTxPending
      BY <2>3 DEF updateReg, changeReg
    <3> QED BY <3>1, <3>2, <1>1 DEF Inv, BlackIsTrue
  <2> QED BY <2>1, <2>2, <2>3
<1> QED
  BY <1>2, <1>3, <1>4

(* No hand-over: lines may turn red, and only red ones change their text.  *)
LEMMA NoHandOver ==
  ASSUME Inv, NEW red \in SUBSET Regs, changed \subseteq red, noUpdate(red), UNCHANGED dev,
         \A r \in Regs \ red : line'[r] = line[r]
  PROVE  SlotType' /\ HandedOver' /\ BlackIsTrue'
<1>1. changed' = red /\ forgot' = forgot \ red
      /\ UNCHANGED <<reg, regUpdatePending, autoTxPending, lost>>
  BY DEF noUpdate
<1>2. SlotType'
  BY <1>1, NotSentType DEF Inv, TypeOK, SlotType, NotSent
<1> QED
  BY <1>1, <1>2 DEF Inv, HandedOver, BlackIsTrue

(* The report of a device that has come or gone.                           *)
LEMMA Report ==
  ASSUME Inv, NEW isConnected \in BOOLEAN, updateGUI(isConnected), UNCHANGED <<line, dev>>
  PROVE  SlotType' /\ HandedOver' /\ BlackIsTrue'
<1>1. CASE updateReg(Regs, line, changed, autoTX)
  BY <1>1, HandOver DEF Inv, TypeOK
<1>2. CASE noUpdate(changed)
  BY <1>2, NoHandOver DEF Inv, TypeOK
<1> QED
  BY <1>1, <1>2 DEF updateGUI

(* One step per event.                                                     *)
LEMMA NextInv == Inv /\ [Next]_vars => Inv'
<1> SUFFICES ASSUME Inv, [Next]_vars PROVE Inv'
  OBVIOUS
<1> USE DEF gui, settings, ctrl, usb, history
<1>1. CASE PollConnect
  <2>1. UNCHANGED <<line, dev>>
    BY <1>1 DEF PollConnect
  <2>2. SlotType' /\ HandedOver' /\ BlackIsTrue'
    <3>1. CASE updateGUI(TRUE)
      BY <3>1, <2>1, Report
    <3>2. CASE noUpdate(changed)
      BY <3>2, <2>1, NoHandOver DEF Inv, TypeOK
    <3> QED BY <3>1, <3>2, <1>1 DEF PollConnect
  <2> QED BY <1>1, <2>2 DEF PollConnect, updateGUI, Inv, TypeOK, SlotType
<1>2. CASE PollSend
  <2>1. PICK failed \in SUBSET regUpdatePending :
          /\ dev' = [r \in Regs |-> IF r \in regUpdatePending \ failed THEN reg[r] ELSE dev[r]]
          /\ lost' = (lost \ regUpdatePending) \cup failed
    BY <1>2 DEF PollSend
  <2>2. /\ regUpdatePending' = {} /\ forgot' = forgot \ regUpdatePending
        /\ UNCHANGED <<gui, connected, reg, autoTxPending, readMuxoutPending, plugged, handle_ok>>
    BY <1>2 DEF PollSend
  <2>3. TypeOK'
    <3>1. \A r \in Regs : reg[r] \in Word \cup {Unset}
      BY DEF Inv, TypeOK, NotSent
    <3>2. dev' \in [Regs -> Word \cup {Unset}]
      BY <2>1, <3>1 DEF Inv, TypeOK
    <3> QED BY <2>1, <2>2, <3>2 DEF Inv, TypeOK
  <2>4. HandedOver'
    BY <2>2 DEF Inv, HandedOver
  <2>5. BlackIsTrue'
    <3> SUFFICES ASSUME NEW r \in Regs, r \notin changed, r \notin lost', r \notin forgot'
                 PROVE  dev'[r] = line[r] \/ (reg[r] = line[r] /\ autoTxPending)
      BY <2>2 DEF BlackIsTrue
    <3>1. CASE r \in regUpdatePending
      BY <3>1, <2>1 DEF Inv, HandedOver
    <3>2. CASE r \notin regUpdatePending
      BY <3>2, <2>1, <2>2 DEF Inv, BlackIsTrue
    <3> QED BY <3>1, <3>2
  <2> QED BY <2>3, <2>4, <2>5 DEF Inv
<1>3. CASE PollMux
  <2>1. PICK ok \in BOOLEAN : ReadMux(ok)
    BY <1>3 DEF PollMux
  <2>2. SlotType' /\ HandedOver' /\ BlackIsTrue'
    BY <2>1, Report DEF ReadMux
  <2> QED BY <2>1, <2>2 DEF ReadMux, updateGUI, Inv, TypeOK, SlotType
<1>4. CASE slowReadTimeout
  <2>1. TypeOK'
    BY <1>4 DEF slowReadTimeout, Inv, TypeOK
  <2>2. HandedOver'
    BY <1>4 DEF slowReadTimeout, Inv, HandedOver
  <2>3. BlackIsTrue'
    BY <1>4 DEF slowReadTimeout, Inv, HandedOver, BlackIsTrue
  <2> QED BY <2>1, <2>2, <2>3 DEF Inv
<1>5. CASE ChangeSetting
  <2>1. PICK values \in [Regs -> Word] :
          /\ line' = values
          /\ IF autoTX THEN updateReg(Regs, values, changed \cup Differs(values), autoTX)
                       ELSE noUpdate(changed \cup Differs(values))
    BY <1>5 DEF ChangeSetting
  <2>2. UNCHANGED <<settings, txEnabled, wasConnected, connected, readMuxoutPending, usb>>
    BY <1>5 DEF ChangeSetting
  <2>3. CASE autoTX
    <3>1. changed' \subseteq {} /\ reg' = line' /\ autoTxPending' = TRUE /\ forgot' = {}
          /\ UNCHANGED <<regUpdatePending, lost>>
      BY <2>1, <2>3 DEF updateReg, changeReg, Differs, Inv, TypeOK
    <3>2. TypeOK'
      BY <2>1, <2>2, <3>1 DEF Inv, TypeOK
    <3> QED BY <3>1, <3>2 DEF Inv, HandedOver, BlackIsTrue
  <2>4. CASE ~autoTX
    <3>1. \A r \in Regs \ (changed \cup Differs(values)) : line'[r] = line[r]
      BY <2>1 DEF Differs
    <3>2. changed \cup Differs(values) \in SUBSET Regs
      BY DEF Inv, TypeOK, Differs
    <3>3. SlotType' /\ HandedOver' /\ BlackIsTrue'
      BY <2>1, <2>2, <2>4, <3>1, <3>2, NoHandOver
    <3> QED BY <2>1, <2>2, <3>3 DEF Inv, TypeOK, SlotType
  <2> QED BY <2>3, <2>4
<1>6. CASE EditLine
  <2>1. line' \in [Regs -> Word] /\ noUpdate(changed \cup Differs(line'))
    BY <1>6 DEF EditLine, Inv, TypeOK
  <2>2. UNCHANGED <<settings, txEnabled, wasConnected, connected, readMuxoutPending, usb>>
    BY <1>6 DEF EditLine
  <2>3. \A r \in Regs \ (changed \cup Differs(line')) : line'[r] = line[r]
    BY DEF Differs
  <2>4. changed \cup Differs(line') \in SUBSET Regs
    BY DEF Inv, TypeOK, Differs
  <2>5. SlotType' /\ HandedOver' /\ BlackIsTrue'
    BY <2>1, <2>2, <2>3, <2>4, NoHandOver
  <2> QED BY <2>1, <2>2, <2>5 DEF Inv, TypeOK, SlotType
<1>7. CASE Write
  <2>1. PICK mask \in SUBSET Regs : updateReg(mask, line, changed, autoTX)
    BY <1>7 DEF Write
  <2>2. UNCHANGED <<line, settings, txEnabled, wasConnected, connected, readMuxoutPending, usb>>
    BY <1>7 DEF Write
  <2>3. SlotType' /\ HandedOver' /\ BlackIsTrue'
    BY <2>1, <2>2, HandOver DEF Inv, TypeOK
  <2> QED BY <2>2, <2>3 DEF Inv, TypeOK, SlotType
<1>8. CASE ToggleAutoTx
  <2>1. autoTX' \in BOOLEAN /\ txEnabled' \in BOOLEAN
        /\ UNCHANGED <<line, autoInit, wasConnected, connected, readMuxoutPending, usb>>
    BY <1>8 DEF ToggleAutoTx, Inv, TypeOK
  <2>2. SlotType' /\ HandedOver' /\ BlackIsTrue'
    <3>1. CASE updateReg(Regs, line, changed, autoTX')
      BY <3>1, <2>1, HandOver DEF Inv, TypeOK
    <3>2. CASE noUpdate(changed)
      BY <3>2, <2>1, NoHandOver DEF Inv, TypeOK
    <3> QED BY <3>1, <3>2, <1>8 DEF ToggleAutoTx
  <2> QED BY <2>1, <2>2 DEF Inv, TypeOK, SlotType
<1>9. CASE ToggleAutoInit
  BY <1>9 DEF ToggleAutoInit, Inv, TypeOK, HandedOver, BlackIsTrue
<1>10. CASE Unplug
  <2>1. dev' = NotSent /\ forgot' = forgot \cup {r \in Regs \ changed : dev[r] # Unset}
        /\ UNCHANGED <<gui, ctrl, lost>>
    BY <1>10 DEF Unplug
  <2>2. TypeOK'
    BY <1>10, NotSentType DEF Unplug, Inv, TypeOK
  <2>3. HandedOver'
    BY <2>1 DEF Inv, HandedOver
  <2>4. BlackIsTrue'
    <3> SUFFICES ASSUME NEW r \in Regs, r \notin changed, r \notin lost, r \notin forgot'
                 PROVE  reg[r] = line[r] /\ (r \in regUpdatePending \/ autoTxPending)
      BY <2>1 DEF BlackIsTrue
    <3>1. r \notin forgot /\ dev[r] = Unset
      BY <2>1
    <3>2. dev[r] # line[r]
      BY <3>1, UnsetAssumption DEF Inv, TypeOK
    <3> QED BY <3>1, <3>2 DEF Inv, BlackIsTrue
  <2> QED BY <2>2, <2>3, <2>4 DEF Inv
<1>11. CASE Plug
  BY <1>11 DEF Plug, Inv, TypeOK, HandedOver, BlackIsTrue
<1>12. CASE Restart
  <2>1. TypeOK'
    BY <1>12 DEF Restart, Inv, TypeOK
  <2>2. HandedOver'
    BY <1>12 DEF Restart, HandedOver
  <2>3. BlackIsTrue'
    BY <1>12 DEF Restart, Inv, TypeOK, BlackIsTrue
  <2> QED BY <2>1, <2>2, <2>3 DEF Inv
<1>13. CASE UNCHANGED vars
  BY <1>13 DEF vars, Inv, TypeOK, HandedOver, BlackIsTrue, NotSent
<1> QED
  BY <1>1, <1>2, <1>3, <1>4, <1>5, <1>6, <1>7, <1>8, <1>9, <1>10, <1>11, <1>12, <1>13
     DEF Next, pollUSB

(* Masks never name a register that is not there, and USBCTRL holds all    *)
(* of the window's values or none.                                         *)
THEOREM TypesHold == Spec => []TypeOK
<1>1. Inv => TypeOK
  BY DEF Inv
<1> QED
  BY <1>1, InitInv, NextInv, PTL DEF Spec

(* A black line shows what the device holds or what is on its way to it,   *)
(* but for lines whose transmission was dropped since the window opened    *)
(* and those which the device lost with its power and which have not been  *)
(* handed over since (usbioboard.cpp:371-384, usbctrl.cpp:69-82, 101-109). *)
THEOREM BlackAlwaysTrue == Spec => []BlackIsTrue
<1>1. Inv => BlackIsTrue
  BY DEF Inv
<1> QED
  BY <1>1, InitInv, NextInv, PTL DEF Spec
=============================================================================
