SPECIFICATION Spec
CONSTANTS
  Keys = {k1, k2, k3}
  Vals = {small, large, huge}
  NoVal = NoVal
  k1 = k1
  k2 = k2
  k3 = k3
  small = small
  large = large
  huge = huge
  Hash <- CrashHash
  Size <- MCSize
  PBLKSIZ = 1024
  DBLKBITS = 2
  MaxDepth = 3
  InitPages <- FullPage
  InitBits <- OneBit
  Modes = {TRUE, FALSE}
  Scans = FALSE
  MaxFaults = 1
  MaxCrashes = 2
PROPERTY DamageIsLocal
INVARIANT BufferIsPage
INVARIANT DirectoryAgrees
CHECK_DEADLOCK FALSE
