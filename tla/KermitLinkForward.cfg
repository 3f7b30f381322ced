SPECIFICATION FairSpec
CONSTANTS
  PKTMOD = 8
  MAXTRY = 4
  IMXTRY = 4
  FileLen <- TwoFiles
  Lossy = {"rcv"}
  MaxFaults = 3
  Timers = {"snd"}
  MaxEarly = 0
  Keys = {}
  MaxKeys = 0
  Echo = {}
  DiskFills = FALSE
PROPERTY ErrorFree
CHECK_DEADLOCK FALSE
