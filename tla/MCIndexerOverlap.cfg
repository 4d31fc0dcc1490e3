SPECIFICATION Spec
CONSTANTS
  h1 = h1
  h2 = h2
  s1 = s1
  s2 = s2
  Ops <- TwoOps
  HasPostOp <- TwoOps
  lookbackBlocks = 1
  maxBlockRange = 1
  retentionMax = 1
  TailLines = 8
  Syncs <- TwoSyncs
  MaxHead = 3
  MaxLines = 2
  MaxFaults = 1
  MaxCrashes = 1
  MaxMishaps = 1
INVARIANTS
  NoBlockSkipped
  StoreMatchesFiles
SYMMETRY SyncSymmetry
CHECK_DEADLOCK FALSE
