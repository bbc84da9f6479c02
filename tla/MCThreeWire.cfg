SPECIFICATION FairSpec
CONSTANTS
  Bytes = 4
  Words <- MCWords
  None = None
INVARIANT
  TypeOK
PROPERTIES
  Implements
  Returns
