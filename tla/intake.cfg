SPECIFICATION IntakeSpec
CONSTANTS
  da = da
  db = db
  dc = dc
  nameA = nameA
  nameB = nameB
  Path <- MCPath
  Key <- MCKey
  Under <- MCUnder
  Sets <- MCSets
  Orders <- MCOrders
  Bytes = {}
  Torn = torn
  Nowhere = nowhere
  MaxOps = 3
  AtomicReplace = TRUE
  Component <- MCComponent
  Routes <- MCRoutes
  Limit = 16
  Stamp = 11
  OldStamp = 12
  BitXor <- MCXor
  NonText = {15}
  Journals <- MCJournals
  Rot = {"whole", "legacy", "flipped", "cut", "grown", "forged"}
  Crafted <- MCCrafted
CHECK_DEADLOCK FALSE
INVARIANTS
  SweepIsPairwise
  GuardFollowsWalk
  KeptIsNormal
  RoundTrip
  OneReading
  RotIsFound
