SPECIFICATION Spec
CONSTANTS
  Keys = {k1, k2, k3}
  Vals = {small, large, huge}
  NoVal = NoVal
  k1 = k1
  k2 = k2
  k3 = k3
  small = small
  large = large
  huge = huge
  Hash <- ScanHash
  Size <- MCSize
  PBLKSIZ = 1024
  DBLKBITS = 2
  MaxDepth = 2
  InitPages <- OnePage
  InitBits = {}
  Modes = {FALSE}
  Scans = TRUE
  MaxFaults = 0
  MaxCrashes = 0
PROPERTY ScanIsExact
INVARIANT TypeOK
INVARIANT PairsInPlace
PROPERTY IsMap
