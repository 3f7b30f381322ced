SPECIFICATION Spec
CONSTANTS
  PKTMOD = 8
  MAXTRY = 2
  IMXTRY = 2
  FileLen <- ShortFiles
  Lossy <- Both
  MaxFaults = 1
  Timers <- Both
  MaxEarly = 0
  Keys = {"X", "Z"}
  MaxKeys = 2
  Echo <- Both
  DiskFills = FALSE
PROPERTY ReceiverInterrupt
CHECK_DEADLOCK FALSE
