SPECIFICATION FairSpec
CONSTANTS
  EP0BUFF_SIZE = 2
  SmallEnd = 3
  Top = 4
  MaxTransfers = 3
  EEPROM_I2C_PAGE_EXP = 1
  Page = 2
  PageBytes <- MCPageBytes
  Requests <- MCRequests
INVARIANTS
  TypeOK
  BytesInPlace
  ReadIsExact
  
CHECK_DEADLOCK FALSE
PROPERTY
  TransferFinishes
