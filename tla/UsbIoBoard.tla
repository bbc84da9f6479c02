------------------------------ MODULE UsbIoBoard ------------------------------
(***************************************************************************)
(* The graphical program: USBIOBoard (qtgui/usbioboard.cpp), the window    *)
(* with six register lines, and USBCTRL (qtgui/usbctrl.cpp), which owns    *)
(* the USB device and two timers.  Everything runs in the one event loop   *)
(* of Qt, signals between the two objects are direct calls, and a control  *)
(* transfer blocks: one action is one event, every slot it calls included. *)
(* What goes on meanwhile is the user's hand on the USB plug.  The program *)
(* may be left and started again, with the settings it has saved and a     *)
(* device that kept its registers.                                         *)
(***************************************************************************)
EXTENDS FiniteSets

CONSTANTS Regs,    \* the registers, 0..5 in the code
          Word,    \* register values the settings and the user produce
          Unset,   \* content of a register not written since power-on
          Faults   \* "unplug": the plug is pulled, "timeout": a transfer fails

ASSUME UnsetAssumption == Unset \notin Word

VARIABLES
  line, changed, autoTX, autoInit, txEnabled, wasConnected, \* USBIOBoard
  connected, reg, regUpdatePending, autoTxPending, readMuxoutPending, \* USBCTRL
  plugged, handle_ok, dev,                       \* the device and its handle
  lost,                                          \* history, see changeReg
  forgot                                         \* history, see Unplug

settings == <<autoTX, autoInit>>
gui == <<line, changed, settings, txEnabled, wasConnected>>
ctrl == <<connected, reg, regUpdatePending, autoTxPending, readMuxoutPending>>
usb == <<plugged, handle_ok, dev>>
history == <<lost, forgot>>
vars == <<gui, ctrl, usb, history>>

NotSent == [r \in Regs |-> Unset]

(***************************************************************************)
(* Slots                                                                   *)
(***************************************************************************)
(* USBCTRL::changeReg: all values are taken over, the mask replaces the    *)
(* one still waiting.  lost collects the registers that the window shows   *)
(* as transmitted and whose transmission was dropped.                      *)
changeReg(values, auto, mask) ==
  /\ reg' = values
  /\ IF auto
       THEN /\ autoTxPending' = TRUE /\ forgot' = {}
            /\ UNCHANGED <<regUpdatePending, lost>>
       ELSE /\ regUpdatePending' = mask
            /\ lost' = (lost \cup regUpdatePending) \ mask
            /\ forgot' = forgot \ mask
            /\ UNCHANGED autoTxPending

(* Mutant: every line turns black, whatever the mask.                      *)
updateRegAllBlack(mask, values, red, auto) ==
  /\ changed' = {}
  /\ changeReg(values, auto, mask)

(* USBIOBoard::updateReg: the lines go to USBCTRL, the lines in the mask   *)
(* turn black before anything is transmitted.                              *)
updateReg(mask, values, red, auto) ==
  /\ changed' = red \ mask
  /\ changeReg(values, auto, mask)

noUpdate(red) ==
  /\ changed' = red
  /\ forgot' = forgot \ red
  /\ UNCHANGED <<reg, regUpdatePending, autoTxPending, lost>>

(* Mutant: a disconnection is not remembered.                              *)
updateGUIOnce(isConnected) ==
  /\ wasConnected' = (wasConnected \/ isConnected)
  /\ IF isConnected /\ ~wasConnected /\ autoInit
       THEN updateReg(Regs, line, changed, autoTX)
       ELSE noUpdate(changed)

(* USBIOBoard::updateGUI: a device that has just appeared gets the whole   *)
(* set if the box is ticked.                                               *)
updateGUI(isConnected) ==
  /\ wasConnected' = isConnected
  /\ IF isConnected /\ ~wasConnected /\ autoInit
       THEN updateReg(Regs, line, changed, autoTX)
       ELSE noUpdate(changed)

(***************************************************************************)
(* Start: the constructor recalculates, so that all lines are filled, and  *)
(* hands them over when auto init is set; displayReg does so with auto TX. *)
(***************************************************************************)
Init ==
  /\ line \in [Regs -> Word] /\ autoTX \in BOOLEAN /\ autoInit \in BOOLEAN
  /\ txEnabled = TRUE /\ wasConnected = FALSE
  /\ connected = FALSE /\ readMuxoutPending = FALSE
  /\ autoTxPending = autoTX
  /\ regUpdatePending = IF autoInit /\ ~autoTX THEN Regs ELSE {}
  /\ reg = IF autoInit \/ autoTX THEN line ELSE NotSent
  /\ changed = IF autoInit \/ autoTX THEN {} ELSE Regs
  /\ plugged \in BOOLEAN /\ handle_ok = FALSE /\ dev = NotSent
  /\ lost = {} /\ forgot = {}

(* The program is left: the destructor saves the settings, not the lines,  *)
(* USBCTRL closes the device, and what is pending is dropped: the next     *)
(* window has to show it as not sent.  What is saved of auto init is the   *)
(* box as the last report of USBCTRL found it, perhaps not as it is, and a *)
(* frequency on the command line of the next start sets it.                *)
Restart ==
  /\ line' \in [Regs -> Word]
  /\ autoInit' \in BOOLEAN /\ UNCHANGED autoTX
  /\ txEnabled' = TRUE /\ wasConnected' = FALSE
  /\ connected' = FALSE /\ handle_ok' = FALSE /\ readMuxoutPending' = FALSE
  /\ autoTxPending' = autoTX
  /\ regUpdatePending' = IF autoInit' /\ ~autoTX THEN Regs ELSE {}
  /\ reg' = IF autoInit' \/ autoTX THEN line' ELSE NotSent
  /\ changed' = IF autoInit' \/ autoTX THEN {} ELSE Regs
  /\ lost' = {} /\ forgot' = {}
  /\ UNCHANGED <<plugged, dev>>

(***************************************************************************)
(* USBCTRL's timers                                                        *)
(***************************************************************************)
(* pollUSB without a device: open it; if its descriptor can be read, tell  *)
(* the window.                                                             *)
PollConnect ==
  /\ ~connected /\ plugged
  /\ connected' = TRUE /\ handle_ok' = TRUE
  /\ \/ updateGUI(TRUE)
     \/ "timeout" \in Faults /\ noUpdate(changed) /\ UNCHANGED wasConnected
  /\ UNCHANGED <<line, settings, txEnabled, readMuxoutPending, plugged, dev>>

(* pollUSB with a mask: each register of it is transmitted, the results    *)
(* are ignored, the mask is cleared.                                       *)
PollSend ==
  /\ connected /\ regUpdatePending # {}
  /\ \E failed \in SUBSET regUpdatePending :
       /\ ~handle_ok => failed = regUpdatePending
       /\ handle_ok /\ "timeout" \notin Faults => failed = {}
       /\ dev' = [r \in Regs |-> IF r \in regUpdatePending \ failed THEN reg[r] ELSE dev[r]]
       /\ lost' = (lost \ regUpdatePending) \cup failed
  /\ forgot' = forgot \ regUpdatePending
  /\ regUpdatePending' = {}
  /\ UNCHANGED <<gui, connected, reg, autoTxPending, readMuxoutPending,
                 plugged, handle_ok>>

(* pollUSB reading MUXOUT: a failure is how a lost device is noticed.      *)
ReadMux(ok) ==
  /\ connected /\ regUpdatePending = {} /\ readMuxoutPending
  /\ IF ok THEN handle_ok ELSE ~handle_ok \/ "timeout" \in Faults
  /\ readMuxoutPending' = ~ok /\ connected' = ok
  /\ updateGUI(ok)
  /\ UNCHANGED <<line, settings, txEnabled, usb>>

PollMux == ReadMux(TRUE) \/ ReadMux(FALSE)

pollUSB == PollConnect \/ PollSend \/ PollMux

(* Mutants: a mask one bit too long, and the flag cleared without a mask.  *)
slowReadTimeoutLong ==
  /\ readMuxoutPending' = TRUE
  /\ autoTxPending' = FALSE
  /\ regUpdatePending' = IF autoTxPending THEN Regs \cup {Cardinality(Regs)}
                                          ELSE regUpdatePending
  /\ UNCHANGED <<gui, connected, reg, usb, history>>
slowReadTimeoutForgets ==
  /\ readMuxoutPending' = TRUE
  /\ autoTxPending' = FALSE
  /\ UNCHANGED <<gui, connected, reg, regUpdatePending, usb, history>>

(* slowReadTimeout: auto TX becomes a mask of all registers.               *)
slowReadTimeout ==
  /\ readMuxoutPending' = TRUE
  /\ autoTxPending' = FALSE
  /\ regUpdatePending' = IF autoTxPending THEN Regs ELSE regUpdatePending
  /\ UNCHANGED <<gui, connected, reg, usb, history>>

(***************************************************************************)
(* The user                                                                *)
(***************************************************************************)
Differs(values) == {r \in Regs : values[r] # line[r]}

(* A setting changes: recalculate, buildRegisters, displayReg; every line  *)
(* whose text changes turns red, auto TX hands all of them over.           *)
ChangeSetting ==
  /\ \E values \in [Regs -> Word] :
       /\ line' = values
       /\ IF autoTX THEN updateReg(Regs, values, changed \cup Differs(values), autoTX)
                    ELSE noUpdate(changed \cup Differs(values))
  /\ UNCHANGED <<settings, txEnabled, wasConnected, connected, readMuxoutPending, usb>>

(* The user types into a register line.                                    *)
EditLine ==
  /\ \E r \in Regs, w \in Word :
       /\ line' = [line EXCEPT ![r] = w]
       /\ noUpdate(changed \cup Differs(line'))
  /\ UNCHANGED <<settings, txEnabled, wasConnected, connected, readMuxoutPending, usb>>

(* The buttons.  With auto TX on at start the single ones are not greyed.  *)
Write ==
  /\ \/ ~autoTX /\ updateReg(Regs, line, changed, autoTX)
     \/ txEnabled /\ \E r \in Regs : updateReg({r}, line, changed, autoTX)
  /\ UNCHANGED <<line, settings, txEnabled, wasConnected, connected, readMuxoutPending, usb>>

ToggleAutoTx ==
  /\ autoTX' = ~autoTX
  /\ txEnabled' = autoTX
  /\ IF autoTX' /\ changed # {} THEN updateReg(Regs, line, changed, autoTX')
                                ELSE noUpdate(changed)
  /\ UNCHANGED <<line, autoInit, wasConnected, connected, readMuxoutPending, usb>>

ToggleAutoInit ==
  /\ autoInit' = ~autoInit
  /\ UNCHANGED <<line, changed, autoTX, txEnabled, wasConnected, ctrl, usb, history>>

(* The power goes with the plug: the device forgets its registers, and the *)
(* window does not know.  forgot collects those with a black line.         *)
Unplug ==
  /\ "unplug" \in Faults /\ plugged
  /\ plugged' = FALSE /\ handle_ok' = FALSE /\ dev' = NotSent
  /\ forgot' = forgot \cup {r \in Regs \ changed : dev[r] # Unset}
  /\ UNCHANGED <<gui, ctrl, lost>>

Plug ==
  /\ ~plugged
  /\ plugged' = TRUE
  /\ UNCHANGED <<gui, ctrl, handle_ok, dev, history>>

Next == \/ pollUSB \/ slowReadTimeout
        \/ ChangeSetting \/ EditLine \/ Write \/ ToggleAutoTx \/ ToggleAutoInit
        \/ Unplug \/ Plug \/ Restart

Spec == Init /\ [][Next]_vars

(* Qt's timers keep firing; nobody presses a button so fast, for ever,     *)
(* that a mask is waiting at each poll, which would starve the MUXOUT read;*)
(* a device that is there does not fail that read for ever, and at some    *)
(* start the program is left running.                                      *)
Fairness == /\ WF_vars(pollUSB) /\ WF_vars(slowReadTimeout)
            /\ SF_vars(PollMux) /\ SF_vars(ReadMux(TRUE))
            /\ <>[][~Restart]_vars

FairSpec == Spec /\ Fairness

(***************************************************************************)
(* Properties                                                              *)
(***************************************************************************)
(* Every variable holds a value of its kind: masks name real registers,    *)
(* USBCTRL holds either all of the window's values or none yet             *)
(* (usbctrl.h:25-37, usbctrl.cpp:101-131).                                 *)
TypeOK ==
  /\ line \in [Regs -> Word] /\ changed \subseteq Regs
  /\ autoTX \in BOOLEAN /\ autoInit \in BOOLEAN
  /\ txEnabled \in BOOLEAN /\ wasConnected \in BOOLEAN /\ connected \in BOOLEAN
  /\ reg \in [Regs -> Word] \cup {NotSent} /\ regUpdatePending \subseteq Regs
  /\ autoTxPending \in BOOLEAN /\ readMuxoutPending \in BOOLEAN
  /\ plugged \in BOOLEAN /\ handle_ok \in BOOLEAN
  /\ dev \in [Regs -> Word \cup {Unset}] /\ lost \subseteq Regs /\ forgot \subseteq Regs

(* A black line tells the truth: the device holds the value or it is on    *)
(* its way, through all orders of edits, buttons, timers, reconnections    *)
(* and restarts (usbioboard.cpp:371-384, usbctrl.cpp:69-82, 101-109).  The *)
(* lines that do lie are named: those whose transmission was dropped since *)
(* the window opened (lost: overwritten mask, ignored result), and those   *)
(* which the device has lost with its power and nobody has handed over     *)
(* since (forgot: it stays so without auto init, usbioboard.cpp:417).      *)
BlackIsTrue ==
  \A r \in Regs \ (changed \cup lost \cup forgot) :
    \/ dev[r] = line[r]
    \/ reg[r] = line[r] /\ (r \in regUpdatePending \/ autoTxPending)

(* With the box ticked a device that is not, or no longer, connected and   *)
(* stays plugged in is noticed and set up, whatever the program believed   *)
(* meanwhile (usbctrl.cpp:83-96, usbioboard.cpp:417-418).                  *)
RestoredAfterReplug ==
  (~(connected /\ handle_ok) /\ [](plugged /\ autoInit))
    ~> (\A r \in Regs \ lost : dev[r] # Unset)

(* What auto TX has taken over is transmitted: both timers and the state   *)
(* of the connection conspire to bring it to the device, unless a program  *)
(* started anew has taken over nothing                                     *)
(* (usbctrl.cpp:101-109, 123-131, 69-82).                                  *)
AutoTxDelivers ==
  <>[]plugged =>
    (autoTxPending ~> (reg = NotSent \/ \A r \in Regs \ lost : dev[r] = reg[r]))
=============================================================================
