SPECIFICATION Spec
CONSTANTS
  Word <- MCWord
  Unset = Unset
  Types <- MCTypes
  Chksum <- XorChksum
  InitWait = 2
  Requests <- AnyRequests
  Pages <- AnyPages
  Faults = {"abort", "reset", "power", "eeprom"}
INVARIANTS
  TypeOK
  ShadowMatchesChip
  StandbyUntouched
  PageVerifies
PROPERTIES
  RestoredInEffect
CHECK_DEADLOCK FALSE
