SPECIFICATION Spec
CONSTANTS
  d1 = d1
  d2 = d2
  b1 = b1
  b2 = b2
  bn = bn
  torn = torn
  nowhere = nowhere
  Path <- MCPath
  Bytes <- MCBytes
  Torn <- torn
  Nowhere <- nowhere
  Under <- MCUnder
  MaxOps = 2
  AtomicReplace = TRUE
  InitTrees <- MCInitTrees
  Staged <- MCStaged
  MaxSets = 1
  MaxFaults = 2
  MaxCrashes = 2
CHECK_DEADLOCK FALSE
INVARIANTS
  TypeOK
  RollbackRestores
  UndoCanProceed
  AllOrNothing
  OkMeansApplied
  AlwaysReplayable
  ReplayCanProceed
  NoOrphanAside
  ReplayAccounted
PROPERTIES
  JournalCovers
