SPECIFICATION Spec
CONSTANTS
  outer = outer
  inner = inner
  blob = blob
  record = record
  head = head
  c1 = c1
  c2 = c2
  c3 = c3
  Root = root
  Files <- MCFiles
  Folders <- MCFolders
  DirOf <- MCDirOf
  Device <- MCDevice
  Chain <- MCChain
  Payloads <- MCPayloads
  Batches <- MCBatches
  Torn = torn
  Inodes <- MCPool
  Backends = {TRUE}
  Grades = {"Durable"}
  MaxCalls = 2
  MaxFaults = 1
  MaxCuts = 0
CHECK_DEADLOCK FALSE
INVARIANTS
  BatchSurvives
