SPECIFICATION FairSpec
CONSTANTS
  PKTMOD = 6
  MAXTRY = 3
  IMXTRY = 2
  FileLen <- TwoFiles
  Lossy <- Both
  MaxFaults = 2
  Timers <- Both
  MaxEarly = 1
  Keys = {"C"}
  MaxKeys = 1
  Echo = {}
  DiskFills = TRUE
INVARIANT TypeOK
INVARIANT FilesAreBeginnings
INVARIANT KeptIsWhole
INVARIANT NumbersTogether
INVARIANT SenderDoneMeansAllDone
PROPERTY BothStop
CHECK_DEADLOCK FALSE
