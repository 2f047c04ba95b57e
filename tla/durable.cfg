SPECIFICATION DurableSpec
CONSTANTS
  d1 = d1
  d2 = d2
  b1 = b1
  b2 = b2
  bn = bn
  torn = torn
  nowhere = nowhere
  Path <- MCPath
  Bytes <- MCBytes
  Torn <- torn
  Nowhere <- nowhere
  Under <- MCUnder
  MaxOps = 2
  AtomicReplace = TRUE
  InitTrees <- MCInitTrees
  Staged <- MCStaged
  MaxSets = 2
  MaxFaults = 1
  MaxCrashes = 1
  Root = root
  folder = folder
  Attic = attic
  Home = home
  InRoot = inroot
  InHome = inhome
  HomeName = homename
  Places = {inroot, inhome}
  Orders = {TRUE, FALSE}
  Pool <- MCPool
  HomePool <- MCHomePool
  Inodes <- MCInodes
  DirOf <- MCDirOf
  Device <- MCDevice
  HomedSets = 1
  MaxCuts = 1
CONSTRAINT OneTrouble
CHECK_DEADLOCK FALSE
INVARIANTS
  DiskShowsTree
  IntentSurvives
  CutAllOrNothing
  CertifiedSurvives
  NoResurrection
  AbortSurvives
  NoOrphanComesBack
