SPECIFICATION FairSpec
CONSTANTS
  BUFSIZ = 2
  SPSIZ = 8
  QUOTE = 35
  QBIN = 38
  Chars <- SomeChars
  MaxRecords = 2
  DiskFills = TRUE
INVARIANT TypeOK
INVARIANT PacketFits
INVARIANT FileArrives
PROPERTY Ends
CHECK_DEADLOCK FALSE
