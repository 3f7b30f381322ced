SPECIFICATION Spec
CONSTANTS
  PKTMOD = 64
  MAXTRY = 5
  IMXTRY = 16
  FileLen <- TwoFiles
  Lossy = {}
  MaxFaults = 0
  Timers = {}
  MaxEarly = 0
  Keys = {"X"}
  MaxKeys = 1
  Echo = {}
  DiskFills = FALSE
PROPERTY DiscardIsObeyed
CHECK_DEADLOCK FALSE
