SPECIFICATION FairSpec
CONSTANTS
  Word <- MCWord
  Unset = Unset
  Types <- MCTypes
  Chksum <- XorChksum
  InitWait = 2
  Requests <- PoliteRequests
  Pages <- PolitePages
  Faults = {}
INVARIANTS
  AnsweredByOwnHandler
  FlagHeldOnlyByReplies
PROPERTIES
  TransferFinishes
  WordReachesChip
