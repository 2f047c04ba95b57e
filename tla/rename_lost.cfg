SPECIFICATION Spec
CONSTANTS
  d1 = d1
  d2 = d2
  d3 = d3
  b1 = b1
  b2 = b2
  b3 = b3
  bn = bn
  torn = torn
  nowhere = nowhere
  Path <- MCPath
  Bytes <- MCBytes
  Torn <- torn
  Nowhere <- nowhere
  Under <- MCUnder
  MaxOps = 3
  AtomicReplace = TRUE
  InitTrees <- ClaimTrees
  Staged <- MoveDirectory
  MaxSets = 1
  MaxFaults = 0
  MaxCrashes = 1
INVARIANT RenameSidesSurvive
CHECK_DEADLOCK FALSE
