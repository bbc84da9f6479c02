SPECIFICATION FairSpec
CONSTANTS
  Words = {w1, w2}
  WordBytes = 3
  LED_TIMEOUT = 2
  None = None
INVARIANTS
  TypeOK
  HighMeansLatched
  ClockedWhileLow
PROPERTIES
  Implements
  LastWordArrives
  LedGoesOut
