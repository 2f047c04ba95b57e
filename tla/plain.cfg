SPECIFICATION Spec
CONSTANTS
  d1 = d1
  d2 = d2
  b1 = b1
  b2 = b2
  bn = bn
  torn = torn
  nowhere = nowhere
  Path <- MCPath
  Bytes <- MCBytes
  Torn <- torn
  Nowhere <- nowhere
  Under <- MCUnder
  MaxOps = 2
  AtomicReplace = FALSE
  InitTrees <- PlainInitTrees
  Staged <- PlainStaged
  MaxSets = 1
  MaxFaults = 2
  MaxCrashes = 2
CHECK_DEADLOCK FALSE
INVARIANTS
  RollbackRestores
  AllOrNothing
  CutShortMeansUntouched
  OkMeansApplied
  AlwaysReplayable
  ReplayCanProceed
  NoOrphanAside
