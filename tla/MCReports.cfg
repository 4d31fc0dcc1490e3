SPECIFICATION MCSpec
CONSTANTS
  h1 = h1
  h2 = h2
  Ops <- TwoOps
  HasPostOp <- Sponsored
  lookbackBlocks = 2
  maxBlockRange = 1
  retentionMax = 8
  TailLines = 8
  Syncs = {1}
  MaxHead = 3
  MaxLines = 3
  MaxFaults = 1
  MaxCrashes = 1
  MaxMishaps = 2
  Op <- MCOp
  MaxListed = 2
  MinWindow = 1
  MaxWindow = 9
  Attempts = 3
INVARIANTS
  PartialMeansLost
  ReportsAgree
  SoakIsJust
PROPERTIES
  EveryOpIsFiled
CHECK_DEADLOCK FALSE
