SPECIFICATION DurableSpec
CONSTANTS
  d1 = d1
  d2 = d2
  b1 = b1
  b2 = b2
  bn = bn
  torn = torn
  nowhere = nowhere
  Path <- MCPath
  Bytes <- MCBytes
  Torn <- torn
  Nowhere <- nowhere
  Under <- MCUnder
  MaxOps = 2
  AtomicReplace = TRUE
  InitTrees <- MCInitTrees
  Staged <- MCStaged
  MaxSets = 2
  MaxFaults = 0
  MaxCrashes = 0
  Root = root
  folder = folder
  Attic = attic
  Home = home
  InRoot = inroot
  InHome = inhome
  HomeName = homename
  Places = {inhome}
  Orders = {TRUE}
  Pool <- MCPool
  HomePool <- MCHomePool
  Inodes <- MCInodes
  DirOf <- MCDirOf
  Device <- MCDevice
  HomedSets = 2
  MaxCuts = 1
CHECK_DEADLOCK FALSE
INVARIANTS
  OkSurvives
