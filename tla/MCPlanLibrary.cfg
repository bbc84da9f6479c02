SPECIFICATION Spec
CONSTANTS
  Requests <- LibraryRequests
  Others <- NoOthers
  Garbage = {}
INVARIANT
  LibrarySetsFrequency
CHECK_DEADLOCK FALSE
