SPECIFICATION Spec
CONSTANTS
  Word <- MCWord
  Unset = Unset
  Types <- MCTypes
  Chksum <- XorChksum
  InitWait = 2
  Requests <- StoreRequests
  Pages <- PolitePages
  Faults = {}
PROPERTY
  StoredIsCurrent
