SPECIFICATION Spec
CONSTANTS
  Requests <- PlanRequests
  Others <- PlanOthers
  Garbage <- PlanGarbage
INVARIANTS
  TypeOK
  Tuned
  VcoInRange
  SettingsKept
CHECK_DEADLOCK FALSE
