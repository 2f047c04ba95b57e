SPECIFICATION FairSpec
CONSTANTS
  d1 = d1
  d2 = d2
  d3 = d3
  b1 = b1
  b2 = b2
  b3 = b3
  bn = bn
  torn = torn
  nowhere = nowhere
  Path <- MCPath
  Bytes <- MCBytes
  Torn <- torn
  Nowhere <- nowhere
  Under <- MCUnder
  MaxOps = 3
  AtomicReplace = TRUE
  InitTrees <- MCInitTrees
  Staged <- MCStaged
  MaxSets = 2
  MaxFaults = 2
  MaxCrashes = 1
INVARIANTS
  AsidesAccounted
  HistoryExact
  ReplayAccounted
PROPERTIES
  IntentKept
  KeepsPromise
  RecoveryResolves
CHECK_DEADLOCK FALSE
