------------------------ MODULE Fx2LibFirmwareProofs ------------------------
(***************************************************************************)
(* The older firmware answers what it was asked and sends what it was      *)
(* given, for words of any number of bytes, any requests, and SETUP        *)
(* packets at any point of the loop.  The argument: an armed EP0 belongs   *)
(* to the SETUP packet looked at last or to one never looked at, and a     *)
(* message is sent only while EP0 is not armed, so that no data stage can  *)
(* touch the buffer.                                                       *)
(***************************************************************************)
EXTENDS Fx2LibFirmware, TLAPS

(* A SETUP packet the loop is going to answer.                             *)
Waiting == got_sud /\ ~(pc = "respond" /\ missed) /\ pc \notin {"handshake", "clear"}

(* The flag is up while its packet is looked at, and EP0 refuses both      *)
(* stages until it has been.                                               *)
FlagInv ==
  /\ pc \in {"setupdata", "respond", "handshake", "clear"} => got_sud
  /\ pc = "respond" => cmd \in Types /\ (~missed => cmd = xfer.type)
WaitInv ==
  /\ setupdat = xfer /\ (stage # "none" => xfer \in Requests)
  /\ Waiting => /\ ~missed /\ ep0.hsnak /\ ~ep0.stall
                /\ stage \in {"data", "status", "aborted"} /\ (stage = "status" => xfer.len = 0)

(* EP0 is armed for a packet that was answered and has a data stage, or    *)
(* for one never looked at; no data has come yet, so its length is that of *)
(* no message.                                                             *)
ArmedInv ==
  ep0.busy => /\ ~Waiting /\ ep0.bcl \in {0, 1} /\ (ep0.bcl = 1 => ep0.buf.type \in InTypes)
              /\ ~missed => xfer.type \in InTypes \cup {"SET_REG"}
              /\ ~missed /\ xfer.type \in InTypes => ep0.bcl = 1

(* What became of a packet that was answered.                              *)
AnswerInv ==
  ~missed /\ ~Waiting =>
    /\ xfer.type = "unknown" => ep0.stall /\ stage # "done"
    /\ xfer.type \in InTypes =>
         /\ ep0.buf.type = xfer.type
         /\ stage \in {"status", "done"} /\ xfer.len > 0 => got = xfer.type

(* The buffer holds the message of the last data stage, not yet sent, but  *)
(* for the moment in which a new SET_REG has yet to arm EP0.               *)
Fresh == /\ fresh # None /\ fresh = ep0.buf /\ (fresh.type = "SET_REG" \/ astray)
         /\ fresh.len = ep0.bcl /\ fresh.len \in {WordBytes, WordBytes + 1}
MessageInv ==
  vendor_command = "SET_REG" /\ ~ep0.busy /\ ep0.bcl \in {WordBytes, WordBytes + 1} =>
    Fresh \/ (pc = "respond" /\ cmd = "SET_REG")

(* What has been sent of it so far is in the chip.                         *)
SendInv ==
  pc = "set_reg" =>
    /\ Fresh /\ ~ep0.busy /\ vendor_command # "SET_REG"
    /\ bitsize = IF fresh.len = WordBytes THEN WordBytes ELSE fresh.size
    /\ sent <= WordBytes => \A k \in Positions :
         k < sent => shift[k] = <<fresh.word, WordBytes - sent + k>>
ShiftInv == shift = [k \in Positions |-> shift[k]]

Inv == /\ TypeOK /\ FlagInv /\ WaitInv /\ ArmedInv /\ AnswerInv
       /\ MessageInv /\ SendInv /\ ShiftInv

(* What the values that stand for nothing are not.                         *)
LEMMA NoneFacts ==
  /\ None # "SET_REG" /\ None \notin InTypes /\ None \notin Requests /\ None # NoSetup.type
  /\ NoSetup.type = "SET_CONFIGURATION" /\ NoSetup.len = 0
  /\ WordBytes \in Nat /\ WordBytes > 1 /\ WordBytes \notin {0, 1} /\ WordBytes + 1 \notin {0, 1}
BY NoneAssumption, WordBytesAssumption DEF Types, InTypes, NoSetup

(* What a host asks for, what it is answered, and what stands for neither. *)
LEMMA PacketType ==
  ASSUME NEW q \in Requests \cup {NoSetup} \cup {Answer(t) : t \in InTypes}
  PROVE  q.type \in Types /\ q.size \in Nat /\ q.len \in Nat
BY RequestAssumption DEF NoSetup, Answer, Types, InTypes

(* The handlers leave EP0 as they found it, armed or stalled.              *)
LEMMA HandledType ==
  ASSUME TypeOK, cmd \in Types
  PROVE  /\ Handled(ep0) \in Ep0
         /\ cmd = "SET_REG" => Handled(ep0) = [ep0 EXCEPT !.busy = TRUE, !.bcl = 0]
         /\ cmd \in InTypes =>
              /\ Handled(ep0) = [ep0 EXCEPT !.buf = Answer(cmd), !.busy = TRUE, !.bcl = 1]
              /\ Answer(cmd).type = cmd
         /\ cmd = "SET_CONFIGURATION" => Handled(ep0) = ep0
         /\ cmd = "unknown" => Handled(ep0) = [ep0 EXCEPT !.stall = TRUE]
<1>1. cmd = "SET_REG" => Handled(ep0) = [ep0 EXCEPT !.busy = TRUE, !.bcl = 0]
  BY DEF Handled, Armed, InTypes
<1>2. cmd \in InTypes =>
        /\ Handled(ep0) = [ep0 EXCEPT !.buf = Answer(cmd), !.busy = TRUE, !.bcl = 1]
        /\ Answer(cmd).type = cmd
  BY DEF Handled, Armed, InTypes, TypeOK, Ep0, Answer
<1>3. cmd = "SET_CONFIGURATION" => Handled(ep0) = ep0
  BY DEF Handled, InTypes
<1>4. cmd = "unknown" => Handled(ep0) = [ep0 EXCEPT !.stall = TRUE]
  BY DEF Handled, InTypes
<1>5. Handled(ep0) \in Ep0
  <2> ep0 \in Ep0
    BY DEF TypeOK
  <2>1. [ep0 EXCEPT !.busy = TRUE, !.bcl = 0] \in Ep0
    BY DEF Ep0
  <2>2. ASSUME cmd \in InTypes
        PROVE  [ep0 EXCEPT !.buf = Answer(cmd), !.busy = TRUE, !.bcl = 1] \in Ep0
    <3>1. Answer(cmd) \in {Answer(t) : t \in InTypes}
      BY <2>2
    <3> HIDE DEF Answer
    <3> QED BY <3>1 DEF Ep0
  <2>3. [ep0 EXCEPT !.stall = TRUE] \in Ep0
    BY DEF Ep0
  <2> QED BY <1>1, <1>2, <1>3, <1>4, <2>1, <2>2, <2>3 DEF Types
<1> QED
  BY <1>1, <1>2, <1>3, <1>4, <1>5

(* The invariant holds before the first transfer.                          *)
LEMMA InitInv == Init => Inv
<1> SUFFICES ASSUME Init PROVE Inv
  OBVIOUS
<1> USE NoneFacts DEF Init
<1>1. TypeOK
  <2>1. ep0 \in Ep0
    BY DEF Ep0Idle, Ep0
  <2>2. got_sud \in BOOLEAN /\ missed \in BOOLEAN /\ astray \in BOOLEAN
    OBVIOUS
  <2>3. bitsize \in Nat /\ sent \in 0..bitsize
    OBVIOUS
  <2> QED BY <2>1, <2>2, <2>3 DEF TypeOK
<1>2. FlagInv /\ WaitInv /\ ArmedInv
  BY DEF FlagInv, WaitInv, ArmedInv, Waiting, Ep0Idle
<1>3. AnswerInv
  BY DEF AnswerInv, Waiting, Ep0Idle, NoSetup, InTypes
<1>4. MessageInv /\ SendInv /\ ShiftInv
  BY DEF MessageInv, SendInv, ShiftInv
<1> QED
  BY <1>1, <1>2, <1>3, <1>4 DEF Inv

(* A step that leaves EP0 and the packets alone keeps what is known about  *)
(* them, as long as it turns no packet into one looked at or the reverse.  *)
LEMMA LoopStep ==
  ASSUME Inv, UNCHANGED <<got_sud, setupdat, ep0, host, missed>>, Waiting' = Waiting
  PROVE  WaitInv' /\ ArmedInv' /\ AnswerInv'
BY DEF Inv, WaitInv, ArmedInv, AnswerInv, host

(* One step per stretch of the loop.                                       *)
LEMMA PollInv == Inv /\ Poll => Inv'
<1> SUFFICES ASSUME Inv, Poll PROVE Inv'
  OBVIOUS
<1> USE NoneFacts DEF Inv, chip, host, main, message
<1>1. CASE TestSud
  <2> USE <1>1 DEF TestSud
  <2>1. WaitInv' /\ ArmedInv' /\ AnswerInv'
    BY LoopStep DEF Waiting
  <2>2. TypeOK' /\ FlagInv'
    BY DEF TypeOK, Ep0, FlagInv
  <2>3. MessageInv' /\ SendInv' /\ ShiftInv'
    BY DEF MessageInv, SendInv, ShiftInv, Fresh
  <2> QED BY <2>1, <2>2, <2>3
<1>2. CASE handle_setupdata
  <2> USE <1>2 DEF handle_setupdata
  <2>1. setupdat = xfer /\ setupdat.type \in Types /\ cmd' = setupdat.type
    BY PacketType DEF TypeOK, Ep0, WaitInv
  <2>2. Waiting /\ Waiting' /\ ~missed
    BY DEF Waiting, FlagInv, WaitInv
  <2>3. TypeOK' /\ FlagInv'
    BY <2>1 DEF TypeOK, FlagInv
  <2>4. WaitInv' /\ ArmedInv' /\ AnswerInv'
    BY <2>2, LoopStep
  <2>5. MessageInv' /\ SendInv' /\ ShiftInv'
    BY <2>1 DEF MessageInv, SendInv, ShiftInv, Fresh
  <2> QED BY <2>3, <2>4, <2>5
<1>8. CASE Respond
  <2> USE <1>8 DEF Respond
  <2>1. cmd \in Types /\ ~Waiting' /\ missed' = missed
    BY DEF Waiting, FlagInv
  <2>2. ~missed => Waiting /\ cmd = xfer.type /\ ~ep0.busy
    BY DEF Waiting, FlagInv, ArmedInv
  <2>3. TypeOK' /\ FlagInv'
    BY <2>1, HandledType DEF TypeOK, FlagInv
  <2>4. WaitInv' /\ ArmedInv'
    <3>1. WaitInv'
      BY <2>1 DEF WaitInv
    <3>2. CASE cmd = "SET_REG"
      <4>1. ep0'.bcl = 0 /\ (~missed => xfer.type = "SET_REG") /\ "SET_REG" \notin InTypes
        BY <2>1, <2>2, <3>2, HandledType DEF TypeOK, Ep0, InTypes
      <4> QED BY <2>1, <3>1, <4>1 DEF ArmedInv
    <3>3. CASE cmd \in InTypes
      <4>1. ep0' = [ep0 EXCEPT !.buf = Answer(cmd), !.busy = TRUE, !.bcl = 1]
            /\ Answer(cmd).type \in InTypes
        BY <2>1, <3>3, HandledType
      <4>2. ep0'.bcl = 1 /\ ep0'.buf.type \in InTypes
        BY <4>1 DEF TypeOK, Ep0
      <4> QED BY <2>1, <2>2, <3>1, <3>3, <4>2 DEF ArmedInv
    <3>4. CASE cmd \in {"SET_CONFIGURATION", "unknown"}
      <4>1. ep0'.busy = ep0.busy /\ ep0'.bcl = ep0.bcl /\ ep0'.buf = ep0.buf
        BY <2>1, <3>4, HandledType DEF TypeOK, Ep0
      <4> QED BY <2>1, <3>1, <4>1 DEF ArmedInv
    <3> QED BY <2>1, <3>1, <3>2, <3>3, <3>4 DEF Types
  <2>5. AnswerInv'
    <3> SUFFICES ASSUME ~missed PROVE AnswerInv'
      BY DEF AnswerInv
    <3>1. xfer.type = "unknown" => ep0'.stall /\ stage # "done"
      BY <2>2, HandledType DEF WaitInv, TypeOK, Ep0, Types
    <3>2. xfer.type \in InTypes => ep0'.buf.type = xfer.type
      BY <2>1, <2>2, HandledType DEF TypeOK, Ep0
    <3>3. stage \in {"status", "done"} /\ xfer.len > 0 => FALSE
      BY <2>2 DEF WaitInv
    <3> QED BY <3>1, <3>2, <3>3 DEF AnswerInv
  <2>6. MessageInv'
    <3>1. CASE cmd \in {"SET_REG"} \cup InTypes
      BY <2>1, <3>1, HandledType DEF MessageInv, TypeOK, Ep0
    <3>2. CASE cmd \in {"SET_CONFIGURATION", "unknown"}
      BY <2>1, <3>2, HandledType DEF MessageInv, TypeOK, Ep0, Fresh
    <3> QED BY <2>1, <3>1, <3>2 DEF Types
  <2>7. SendInv' /\ ShiftInv'
    BY DEF SendInv, ShiftInv
  <2> QED BY <2>3, <2>4, <2>5, <2>6, <2>7
<1>3. CASE Handshake
  <2> USE <1>3 DEF Handshake
  <2>1. ~Waiting /\ ~Waiting'
    BY DEF Waiting
  <2>2. TypeOK' /\ FlagInv'
    BY DEF TypeOK, Ep0, FlagInv
  <2>3. WaitInv' /\ ArmedInv' /\ AnswerInv'
    BY <2>1 DEF WaitInv, ArmedInv, AnswerInv, TypeOK, Ep0
  <2>4. MessageInv' /\ SendInv' /\ ShiftInv'
    BY DEF MessageInv, SendInv, ShiftInv, Fresh, TypeOK, Ep0
  <2> QED BY <2>2, <2>3, <2>4
<1>4. CASE ClearSud
  <2> USE <1>4 DEF ClearSud
  <2>1. ~Waiting /\ ~Waiting'
    BY DEF Waiting
  <2>2. TypeOK' /\ FlagInv'
    <3>1. got_sud' \in BOOLEAN
      OBVIOUS
    <3> QED BY <3>1 DEF TypeOK, FlagInv
  <2>3. WaitInv' /\ ArmedInv' /\ AnswerInv'
    BY <2>1 DEF WaitInv, ArmedInv, AnswerInv
  <2>4. MessageInv' /\ SendInv' /\ ShiftInv'
    BY DEF MessageInv, SendInv, ShiftInv, Fresh
  <2> QED BY <2>2, <2>3, <2>4
<1>5. CASE Command
  <2> USE <1>5 DEF Command
  <2>1. pc' \in {"test", "set_reg"}
    OBVIOUS
  <2>2. WaitInv' /\ ArmedInv' /\ AnswerInv'
    BY <2>1, LoopStep DEF Waiting
  <2>3. TypeOK' /\ FlagInv'
    <3>1. ep0.buf.size \in Nat
      BY PacketType DEF TypeOK, Ep0
    <3>2. bitsize' \in Nat /\ (pc' # "set_reg" => bitsize' = 0)
      BY <3>1 DEF TypeOK, Ep0
    <3> QED BY <2>1, <3>2 DEF TypeOK, Ep0, FlagInv
  <2>4. MessageInv'
    BY DEF MessageInv, Fresh
  <2>5. SendInv'
    <3> SUFFICES ASSUME pc' = "set_reg" PROVE SendInv'
      BY DEF SendInv
    <3>1. vendor_command = "SET_REG" /\ ~ep0.busy /\ ep0.bcl \in {WordBytes, WordBytes + 1}
      OBVIOUS
    <3>2. Fresh /\ Fresh'
      BY <3>1 DEF MessageInv, Fresh
    <3>3. bitsize' = IF fresh'.len = WordBytes THEN WordBytes ELSE fresh'.size
      BY <3>1, <3>2 DEF Fresh
    <3>4. \A k \in Positions : ~(k < sent')
      BY DEF Positions
    <3> QED BY <3>1, <3>2, <3>3, <3>4 DEF SendInv
  <2>6. ShiftInv'
    BY DEF ShiftInv
  <2> QED BY <2>2, <2>3, <2>4, <2>5, <2>6
<1>6. CASE SendByte
  <2> USE <1>6 DEF SendByte
  <2>1. WaitInv' /\ ArmedInv' /\ AnswerInv'
    BY LoopStep DEF Waiting
  <2>2. TypeOK' /\ FlagInv'
    BY DEF TypeOK, Ep0, FlagInv
  <2>3. MessageInv' /\ ShiftInv'
    BY DEF MessageInv, ShiftInv, Fresh
  <2>4. SendInv'
    <3>1. Fresh' /\ ~ep0'.busy /\ vendor_command' # "SET_REG"
          /\ bitsize' = IF fresh'.len = WordBytes THEN WordBytes ELSE fresh'.size
      BY DEF SendInv, Fresh
    <3>2. ASSUME sent' <= WordBytes, NEW k \in Positions, k < sent'
          PROVE  shift'[k] = <<fresh'.word, WordBytes - sent' + k>>
      <4>1. sent \in Nat /\ sent < WordBytes /\ sent' = sent + 1 /\ fresh = ep0.buf
        BY <3>2 DEF TypeOK, Ep0, SendInv, Fresh
      <4>2. CASE k = 0
        BY <4>1, <4>2 DEF Fetched
      <4>3. CASE k # 0
        <5>1. k - 1 \in Positions /\ k - 1 < sent
          BY <3>2, <4>1, <4>3 DEF Positions
        <5>2. shift[k - 1] = <<fresh.word, WordBytes - sent + (k - 1)>>
          BY <4>1, <5>1 DEF SendInv
        <5>3. WordBytes - sent + (k - 1) = WordBytes - sent' + k
          BY <4>1, <5>1 DEF Positions
        <5> QED BY <3>2, <4>3, <5>2, <5>3
      <4> QED BY <4>2, <4>3
    <3> QED BY <3>1, <3>2 DEF SendInv
  <2> QED BY <2>1, <2>2, <2>3, <2>4
<1>7. CASE PulseLE
  <2> USE <1>7 DEF PulseLE
  <2>1. WaitInv' /\ ArmedInv' /\ AnswerInv'
    BY LoopStep DEF Waiting
  <2>2. TypeOK' /\ FlagInv'
    <3>1. astray' \in BOOLEAN
      OBVIOUS
    <3> QED BY <3>1 DEF TypeOK, Ep0, FlagInv
  <2>3. MessageInv' /\ SendInv' /\ ShiftInv'
    BY DEF MessageInv, SendInv, ShiftInv
  <2> QED BY <2>1, <2>2, <2>3
<1> QED
  BY <1>1, <1>2, <1>3, <1>4, <1>5, <1>6, <1>7, <1>8 DEF Poll

(* One step per stage of a transfer: a data stage finds EP0 armed, so no   *)
(* message is being sent; the end of a transfer changes no buffer.         *)
LEMMA HostInv == Inv /\ (HostSetup \/ Transfer \/ HostAbort) => Inv'
<1> SUFFICES ASSUME Inv, HostSetup \/ Transfer \/ HostAbort PROVE Inv'
  OBVIOUS
<1> USE NoneFacts DEF Inv, chip, host, main, message
<1>1. CASE HostSetup
  <2> USE <1>1 DEF HostSetup
  <2>1. PICK q \in Requests : /\ setupdat' = q /\ xfer' = q
                              /\ stage' = IF q.len = 0 THEN "status" ELSE "data"
    OBVIOUS
  <2>2. TypeOK' /\ FlagInv' /\ ShiftInv'
    <3>1. missed' \in BOOLEAN /\ stage' \in {"status", "data"}
      BY <2>1
    <3>2. ep0' \in Ep0
      BY DEF TypeOK, Ep0
    <3> QED BY <2>1, <3>1, <3>2 DEF TypeOK, FlagInv, ShiftInv
  <2>3. WaitInv' /\ ArmedInv'
    BY <2>1 DEF WaitInv, ArmedInv, Waiting, TypeOK, Ep0
  <2>4. AnswerInv'
    BY DEF AnswerInv, Waiting
  <2>5. MessageInv'
    BY DEF MessageInv, ArmedInv, TypeOK, Ep0, Fresh
  <2>6. SendInv'
    BY DEF SendInv, TypeOK, Ep0, Fresh
  <2> QED BY <2>2, <2>3, <2>4, <2>5, <2>6
<1>2. CASE HostData
  <2> USE <1>2 DEF HostData
  <2>1. ~Waiting /\ ~Waiting' /\ pc # "set_reg" /\ ep0.bcl \in {0, 1}
        /\ (~missed => xfer.type \in InTypes \cup {"SET_REG"})
    BY DEF ArmedInv, SendInv, Waiting
  <2>2. CASE xfer.type \in InTypes
    <3>1. ep0' = [ep0 EXCEPT !.busy = FALSE] /\ UNCHANGED message
      BY <2>2
    <3>2. got' \in InTypes \cup {None} /\ (~missed => got' = xfer.type)
      BY <2>1, <2>2 DEF ArmedInv, AnswerInv
    <3>3. TypeOK' /\ FlagInv' /\ WaitInv' /\ ArmedInv'
      BY <2>1, <2>2, <3>1, <3>2 DEF TypeOK, Ep0, FlagInv, WaitInv, ArmedInv
    <3>4. AnswerInv'
      BY <2>1, <2>2, <3>1, <3>2 DEF AnswerInv, TypeOK, Ep0, InTypes
    <3>5. MessageInv' /\ SendInv' /\ ShiftInv'
      BY <2>1, <3>1 DEF MessageInv, SendInv, ShiftInv, TypeOK, Ep0
    <3> QED BY <3>3, <3>4, <3>5
  <2>3. CASE xfer.type \notin InTypes
    <3>1. ep0' = [ep0 EXCEPT !.busy = FALSE, !.bcl = xfer.len, !.buf = xfer]
          /\ fresh' = xfer /\ astray' = missed /\ got' = got
          /\ (~missed => xfer.type = "SET_REG")
      BY <2>1, <2>3
    <3>2. xfer \in Requests /\ xfer.len \in Nat
      BY PacketType DEF WaitInv
    <3>3. TypeOK' /\ FlagInv' /\ WaitInv' /\ ArmedInv'
      BY <2>1, <3>1, <3>2 DEF TypeOK, Ep0, FlagInv, WaitInv, ArmedInv
    <3>4. AnswerInv'
      BY <2>1, <2>3, <3>1 DEF AnswerInv
    <3>5. MessageInv' /\ SendInv' /\ ShiftInv'
      BY <2>1, <3>1, <3>2 DEF MessageInv, SendInv, ShiftInv, TypeOK, Ep0, Fresh
    <3> QED BY <3>3, <3>4, <3>5
  <2> QED BY <2>2, <2>3
<1>3. CASE HostStatus
  <2> USE <1>3 DEF HostStatus
  <2>1. ~Waiting /\ ~Waiting'
    BY DEF Waiting, WaitInv
  <2>2. TypeOK' /\ FlagInv' /\ WaitInv' /\ ArmedInv' /\ AnswerInv'
    BY <2>1 DEF TypeOK, Ep0, FlagInv, WaitInv, ArmedInv, AnswerInv
  <2>3. MessageInv' /\ SendInv' /\ ShiftInv'
    BY DEF MessageInv, SendInv, ShiftInv, Fresh
  <2> QED BY <2>2, <2>3
<1>4. CASE HostStalled \/ HostAbort
  <2>1. stage' \in {"stalled", "aborted"} /\ ~(Waiting /\ HostStalled) /\ stage # "none"
        /\ UNCHANGED <<main, setupdat, ep0, chip, xfer, got, missed, message>>
    BY <1>4 DEF HostStalled, HostAbort, WaitInv, Idle
  <2>2. stage' = "stalled" => ~Waiting
    BY <1>4, <2>1 DEF HostStalled, HostAbort
  <2>3. Waiting' = Waiting
    BY <2>1 DEF Waiting
  <2>4. TypeOK' /\ FlagInv' /\ WaitInv' /\ ArmedInv' /\ AnswerInv'
    BY <2>1, <2>2, <2>3 DEF TypeOK, Ep0, FlagInv, WaitInv, ArmedInv, AnswerInv
  <2>5. MessageInv' /\ SendInv' /\ ShiftInv'
    BY <2>1 DEF MessageInv, SendInv, ShiftInv, Fresh
  <2> QED BY <2>4, <2>5
<1> QED
  BY <1>1, <1>2, <1>3, <1>4 DEF Transfer

(* Every step keeps it.                                                    *)
LEMMA NextInv == Inv /\ [Next]_vars => Inv'
<1>1. Inv /\ UNCHANGED vars => Inv'
  BY DEF Inv, TypeOK, FlagInv, WaitInv, ArmedInv, AnswerInv, MessageInv, SendInv, ShiftInv,
         Fresh, Waiting, vars, main, chip, host, message
<1> QED
  BY <1>1, PollInv, HostInv DEF Next

(* Every state that is reached satisfies it.                               *)
LEMMA Invariant == Spec => []Inv
BY InitInv, NextInv, PTL DEF Spec

(* Every variable keeps to its type; the bytes sent never outrun the size  *)
(* of the message (fx2adf435xfw.c:116-136).                                *)
THEOREM TypesHold == Spec => []TypeOK
<1>1. Inv => TypeOK
  BY DEF Inv
<1> QED
  BY <1>1, Invariant, PTL

(* A transfer that ended well was looked at: nothing refused, every answer *)
(* the one asked for, but for a packet that came between the choice of the *)
(* handler by the one before and got_sud = FALSE (fx2adf435xfw.c:59-74,    *)
(* 200-203).                                                               *)
THEOREM DoneAlwaysHandled == Spec => []DoneWasHandled
<1>1. Inv => DoneWasHandled
  BY DEF Inv, WaitInv, AnswerInv, DoneWasHandled
<1> QED
  BY <1>1, Invariant, PTL

(* LE latches a message that has come since the last time it did, that of  *)
(* a SET_REG unless its packet was never looked at, and its word from the  *)
(* first byte to the last (fx2adf435xfw.c:116-136).                        *)
THEOREM AlwaysSentOnceAndWhole == Spec => SentOnceAndWhole
<1>1. ASSUME Inv, PulseLE
      PROVE  /\ fresh # None /\ (fresh.type = "SET_REG" \/ astray)
             /\ fresh.len = WordBytes => latched' = Data(fresh.word)
  <2>1. Fresh /\ pc = "set_reg" /\ sent = bitsize /\ latched' = shift
    BY <1>1 DEF Inv, SendInv, PulseLE
  <2>2. ASSUME fresh.len = WordBytes PROVE shift = Data(fresh.word)
    <3>1. sent = WordBytes
      BY <1>1, <2>1, <2>2 DEF Inv, SendInv
    <3>2. \A k \in Positions : shift[k] = <<fresh.word, k>>
      BY <1>1, <2>1, <3>1, NoneFacts DEF Inv, SendInv, Positions
    <3> QED BY <1>1, <3>2 DEF Inv, ShiftInv, Data
  <2> QED BY <2>1, <2>2 DEF Fresh
<1> QED
  BY <1>1, Invariant, PTL DEF SentOnceAndWhole
=============================================================================
