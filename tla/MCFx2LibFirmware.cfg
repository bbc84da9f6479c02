SPECIFICATION FairSpec
CONSTANTS
  Words = {w1, w2}
  WordBytes = 2
  Requests <- MCRequests
  None = None
INVARIANTS
  TypeOK
  DoneWasHandled
PROPERTIES
  SentOnceAndWhole
  TransferFinishes
  AcknowledgedIsSent
