SPECIFICATION Spec
CONSTANTS
  d1 = d1
  d2 = d2
  d3 = d3
  b1 = b1
  b2 = b2
  b3 = b3
  bn = bn
  torn = torn
  nowhere = nowhere
  Path <- MCPath
  Bytes <- MCBytes
  Torn <- torn
  Nowhere <- nowhere
  Under <- MCUnder
  MaxOps = 3
  AtomicReplace = TRUE
  InitTrees <- ClaimTrees
  Staged <- ClaimStaged
  MaxSets = 1
  MaxFaults = 1
  MaxCrashes = 0
INVARIANT PlainErrorClearsJournal
CHECK_DEADLOCK FALSE
