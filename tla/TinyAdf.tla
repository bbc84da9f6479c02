------------------------------ MODULE TinyAdf ------------------------------
(***************************************************************************)
(* src/firmware/tinyADF/tinyADF.ino: characters from the serial line build *)
(* up a number, a letter ends it and uses it; R shifts it out over three   *)
(* wires of port B.  The host writes on while this goes on, is killed in   *)
(* the middle of a word, or is a human with a terminal.  What is echoed    *)
(* and printed is left out: the driver throws it away (interfaces.py:255). *)
(***************************************************************************)
EXTENDS Naturals, Sequences, FiniteSets

CONSTANTS DIGIT_BITS,    \* bits of a digit, 4
          WordDigits,    \* digits of a register, 8
          DigitsWrap,    \* values of the counter of digits, 256
          Digits, Words, \* what is typed, what the driver sends
          RxSize,        \* bound: characters typed ahead
          None

Width == DIGIT_BITS * WordDigits

ASSUME SizeAssumption ==
  /\ DIGIT_BITS \in Nat \ {0} /\ WordDigits \in Nat \ {0}
  /\ DigitsWrap \in Nat /\ WordDigits < DigitsWrap
ASSUME DataAssumption == Digits \subseteq 0..(2^DIGIT_BITS - 1) /\ Words \subseteq 0..(2^Width - 1)
ASSUME NoneAssumption == None \notin Nat

(* A character is a digit with its value or a letter: "other" is any that  *)
(* no case names, " " any that is ignored.                                 *)
Letters == {"R", "T", "V", "?", "other", " "}
Chars(values) == ({"digit"} \X values) \cup (Letters \X {0})

VARIABLES pc, argument, digits, echo, verbose, iii,  \* the program
          PORTB, shift, latched,                     \* wires and chip
          rx,                                        \* the serial buffer
          typed, count,   \* history: the last digits since the last letter,
          number,         \* how many there were; the number before them
          word,           \* ... what R was typed behind
          due             \* ... the word of the driver on its way, or None

line == <<echo, verbose>>
history == <<typed, count, number>>
chip == <<PORTB, shift, latched>>
vars == <<pc, argument, digits, line, iii, chip, rx, history, word, due>>

Low == [DATA |-> 0, LE |-> 0, CLK |-> 0]

(* A rising CLK shifts DATA in, a rising LE latches.                       *)
Drive(wires) ==
  /\ PORTB' = wires
  /\ shift' = IF PORTB.CLK = 0 /\ wires.CLK = 1 THEN (2 * shift + wires.DATA) % 2^Width ELSE shift
  /\ latched' = IF PORTB.LE = 0 /\ wires.LE = 1 THEN shift ELSE latched

Init ==
  /\ pc = "loop" /\ argument = 0 /\ digits = 0 /\ echo = TRUE /\ verbose = FALSE /\ iii = 0
  /\ PORTB = Low /\ shift = 0 /\ latched = None
  /\ rx = <<>>
  /\ typed = <<>> /\ count = 0 /\ number = 0 /\ word = None /\ due = None

(***************************************************************************)
(* parse_command                                                           *)
(***************************************************************************)
Take(c) == pc = "loop" /\ rx # <<>> /\ Head(rx) = c /\ rx' = Tail(rx)
Read(letter) == Take(<<letter, 0>>)

Typed(d) ==
  /\ typed' = Append(IF Len(typed) < WordDigits THEN typed ELSE Tail(typed), d)
  /\ count' = IF count > DigitsWrap THEN count ELSE count + 1
  /\ number' = 0

(* Mutant: a number goes on where the last one ended.                      *)
DigitKept(d) ==
  /\ Take(<<"digit", d>>)
  /\ argument' = (argument * 2^DIGIT_BITS + d) % 2^Width
  /\ digits' = (digits + 1) % DigitsWrap
  /\ Typed(d)
  /\ UNCHANGED <<pc, line, iii, chip, word, due>>

(* The first digit erases the argument, the others shift it; the count is  *)
(* a byte.                                                                 *)
Digit(d) ==
  /\ Take(<<"digit", d>>)
  /\ argument' = ((IF digits = 0 THEN 0 ELSE argument * 2^DIGIT_BITS) + d) % 2^Width
  /\ digits' = (digits + 1) % DigitsWrap
  /\ Typed(d)
  /\ UNCHANGED <<pc, line, iii, chip, word, due>>

(* What the digits mean: the last of them, WordDigits at most, or, without *)
(* any, the number before.  More than the counter holds have none.         *)
Value(s) ==
  LET v[k \in 0..Len(s)] == IF k = 0 THEN 0 ELSE v[k - 1] * 2^DIGIT_BITS + s[k]
  IN v[Len(s)]
Meaning == CASE count = 0 -> number
             [] count \in 1..DigitsWrap -> Value(typed)
             [] OTHER -> argument

(* Mutant: the count goes on.                                              *)
EndNumberCounts == typed' = <<>> /\ count' = 0 /\ UNCHANGED digits
EndNumber == digits' = 0 /\ typed' = <<>> /\ count' = 0

Setting ==
  /\ \/ Read("T") /\ echo' = (argument # 0) /\ UNCHANGED verbose
     \/ Read("V") /\ verbose' = (argument # 0) /\ UNCHANGED echo
     \/ (Read("?") \/ Read("other")) /\ UNCHANGED line
  /\ EndNumber /\ number' = Meaning
  /\ UNCHANGED <<pc, argument, iii, chip, word, due>>

Blank == Read(" ") /\ UNCHANGED <<pc, argument, digits, line, iii, chip, history, word, due>>

(***************************************************************************)
(* set_register                                                            *)
(***************************************************************************)
set_register ==
  /\ Read("R")
  /\ EndNumber /\ number' = 0 /\ word' = Meaning
  /\ Drive([PORTB EXCEPT !.LE = 0, !.CLK = 0])
  /\ iii' = Width /\ pc' = "data"
  /\ UNCHANGED <<argument, line, due>>

DataBit ==
  /\ pc = "data" /\ iii > 0
  /\ Drive([PORTB EXCEPT !.DATA = argument \div 2^(Width - 1)])
  /\ pc' = "clk"
  /\ UNCHANGED <<argument, digits, line, iii, rx, history, word, due>>

(* Mutant: the shift keeps what falls off the top.                         *)
ClkHighWide ==
  /\ pc = "clk"
  /\ Drive([PORTB EXCEPT !.CLK = 1])
  /\ argument' = 2 * argument
  /\ iii' = iii - 1 /\ pc' = "shift"
  /\ UNCHANGED <<digits, line, rx, history, word, due>>

ClkHigh ==
  /\ pc = "clk"
  /\ Drive([PORTB EXCEPT !.CLK = 1])
  /\ argument' = (2 * argument) % 2^Width
  /\ iii' = iii - 1 /\ pc' = "shift"
  /\ UNCHANGED <<digits, line, rx, history, word, due>>

ClkLow ==
  /\ pc = "shift"
  /\ Drive([PORTB EXCEPT !.CLK = 0])
  /\ pc' = "data"
  /\ UNCHANGED <<argument, digits, line, iii, rx, history, word, due>>

LeHigh ==
  /\ pc = "data" /\ iii = 0
  /\ Drive([PORTB EXCEPT !.LE = 1])
  /\ pc' = "le"
  /\ due' = IF due = latched' THEN None ELSE due
  /\ UNCHANGED <<argument, digits, line, iii, rx, history, word>>

LeLow ==
  /\ pc = "le"
  /\ Drive(Low)
  /\ pc' = "loop" /\ word' = None
  /\ UNCHANGED <<argument, digits, line, iii, rx, history, due>>

loop == \/ \E d \in 0..(2^DIGIT_BITS - 1) : Digit(d)
        \/ Setting \/ Blank \/ set_register
        \/ DataBit \/ ClkHigh \/ ClkLow \/ LeHigh \/ LeLow

(***************************************************************************)
(* The host                                                                *)
(***************************************************************************)
(* A human, or what a driver had sent when it was killed.                  *)
Type ==
  /\ Len(rx) < RxSize
  /\ \E c \in Chars(Digits) : rx' = Append(rx, c)
  /\ UNCHANGED <<pc, argument, digits, line, iii, chip, history, word, due>>

(* The driver's f'{reg:08X}R', behind whatever has been typed.  Its word   *)
(* is due unless the digits before it make the counter wrap within it.     *)
Command(w) == [k \in 1..(WordDigits + 1) |->
                 IF k > WordDigits THEN <<"R", 0>>
                 ELSE <<"digit", (w \div 2^(DIGIT_BITS * (WordDigits - k))) % 2^DIGIT_BITS>>]
set_regs ==
  /\ due = None /\ Len(rx) < RxSize
  /\ \E w \in Words :
       /\ rx' = rx \o Command(w)
       /\ due' = IF count + Len(rx) + WordDigits <= DigitsWrap THEN w ELSE None
  /\ UNCHANGED <<pc, argument, digits, line, iii, chip, history, word>>

Next == loop \/ Type \/ set_regs

Spec == Init /\ [][Next]_vars

(* The loop routine runs over and over again.                              *)
FairSpec == Spec /\ WF_vars(loop)

(***************************************************************************)
(* Properties                                                              *)
(***************************************************************************)
(* Every variable holds a value of its kind; the argument keeps to its 32  *)
(* bits, the count of digits to its byte (tinyADF.ino:39, 59, 131-142).    *)
TypeOK ==
  /\ pc \in {"loop", "data", "clk", "shift", "le"}
  /\ argument \in 0..(2^Width - 1) /\ digits \in 0..(DigitsWrap - 1) /\ iii \in 0..Width
  /\ echo \in BOOLEAN /\ verbose \in BOOLEAN
  /\ PORTB \in [DATA : {0, 1}, LE : {0, 1}, CLK : {0, 1}]
  /\ shift \in 0..(2^Width - 1) /\ latched \in 0..(2^Width - 1) \cup {None}
  /\ \A k \in DOMAIN rx : rx[k] \in Chars(0..(2^DIGIT_BITS - 1))
  /\ count \in 0..(DigitsWrap + 1) /\ Len(typed) <= WordDigits

(* Parser and bit banging together are one atomic register write of what   *)
(* was typed before the R: the last eight digits, fewer taken as the low   *)
(* ones; without a digit the number of the T or V before, zero after an R, *)
(* which has shifted its own out (tinyADF.ino:58-109, 125-146).            *)
Abstract == INSTANCE RegisterWrite WITH Words <- 0..(2^Width - 1), calling <- word
Implements == Abstract!Spec

(* Whatever a human or a driver killed in the middle has left behind, the  *)
(* driver's next word reaches the chip (interfaces.py:247-256), but for a  *)
(* counter that wraps within it.                                           *)
DriverWordArrives == \A w \in Words : (due = w) ~> (latched = w)
=============================================================================
