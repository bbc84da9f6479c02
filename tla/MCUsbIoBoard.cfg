SPECIFICATION FairSpec
CONSTANTS
  Regs <- MCRegs
  Word <- MCWord
  Unset = Unset
  Faults = {"unplug", "timeout"}
INVARIANTS
  TypeOK
  BlackIsTrue
PROPERTIES
  RestoredAfterReplug
  AutoTxDelivers
