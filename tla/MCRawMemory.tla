----------------------------- MODULE MCRawMemory -----------------------------
(* Buffers of two bytes, pages of two, one-byte addresses up to 3.  Ranges *)
(* that end before, at and behind the last one-byte address, that start    *)
(* within a page, that take one, two and three buffers; no bytes at all;   *)
(* a page size below and one above the real one.  Three transfers: one     *)
(* given up, one it disturbs, a clean one after them.                      *)
EXTENDS RawMemory

MCPageBytes(e) == IF e < 16 THEN 2^e ELSE 2^16

Access(k, read, a, n) == [kind |-> k, read |-> read, wValue |-> a, len |-> n]

MCRequests ==
  {Access("EEPROM_SB", FALSE, 1, 2), Access("EEPROM_SB", FALSE, 2, 2), Access("EEPROM_SB", FALSE, 3, 2),
   Access("EEPROM_SB", TRUE, 1, 2),
   Access("EEPROM_DB", FALSE, 1, 4), Access("EEPROM_DB", TRUE, 1, 3),
   Access("EXT_RAM", FALSE, 0, 5), Access("EXT_RAM", TRUE, 0, 4), Access("EXT_RAM", FALSE, 0, 0),
   Access("PAGE_SIZE", FALSE, 256, 0), Access("PAGE_SIZE", FALSE, 2, 0)}
=============================================================================
