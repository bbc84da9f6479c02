SPECIFICATION Spec
CONSTANTS
  Requests <- GuiRequests
  Others <- NoOthers
  Garbage = {}
INVARIANT
  GuiSetsFrequency
CHECK_DEADLOCK FALSE
