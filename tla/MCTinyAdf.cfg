SPECIFICATION FairSpec
CONSTANTS
  DIGIT_BITS = 2
  WordDigits = 2
  DigitsWrap = 4
  Digits <- MCDigits
  Words <- MCWords
  RxSize = 1
  None = None
INVARIANT
  TypeOK
PROPERTIES
  Implements
  DriverWordArrives
