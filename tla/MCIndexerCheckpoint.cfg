SPECIFICATION Spec
CONSTANTS
  h1 = h1
  h2 = h2
  s1 = s1
  s2 = s2
  Ops <- TwoOps
  HasPostOp <- TwoOps
  lookbackBlocks = 1
  maxBlockRange = 1
  retentionMax = 8
  TailLines = 8
  Syncs <- OneSync
  MaxHead = 3
  MaxLines = 3
  MaxFaults = 0
  MaxCrashes = 1
  MaxMishaps = 1
INVARIANTS
  IndexedIsOnDisk
SYMMETRY OpSymmetry
CHECK_DEADLOCK FALSE
