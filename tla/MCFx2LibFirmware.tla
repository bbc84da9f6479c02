-------------------------- MODULE MCFx2LibFirmware --------------------------
(* Two words of two bytes: sending them can be interrupted after every     *)
(* byte.  Messages of the right length, too short, and with a size that is *)
(* less and more than the word's; a request fx2lib answers through the     *)
(* same buffer, one without data, refused ones without and with data of a  *)
(* word's length.                                                          *)
EXTENDS Fx2LibFirmware

SetReg(w, n, s) == [type |-> "SET_REG", word |-> w, size |-> s, len |-> n]
Other(t, n) == [type |-> t, word |-> None, size |-> 0, len |-> n]

OneWord == CHOOSE w \in Words : TRUE

MCRequests ==
  {SetReg(w, WordBytes, 0) : w \in Words}
    \cup {SetReg(OneWord, WordBytes + 1, s) : s \in {WordBytes - 1, WordBytes + 1}}
    \cup {SetReg(OneWord, WordBytes - 1, 0)}
    \cup {Other("GET_MUX", 1), Other("GET_CONFIGURATION", 1), Other("GET_CONFIGURATION", 0)}
    \cup {Other("SET_CONFIGURATION", 0), Other("unknown", 0), Other("unknown", WordBytes)}
=============================================================================
