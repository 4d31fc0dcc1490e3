SPECIFICATION FairSpec
CONSTANTS
  Ops <- TwoOps
  autoBundleMempoolSize = 2
  HasTimer = TRUE
  Strict = TRUE
  MaxBundleOps = 25
  Lossy = TRUE
  MaxNow = 0
  MaxCalls = 3
  MaxRestarts = 1
PROPERTIES
  ImplementsService
  EveryOpLeavesPool
CHECK_DEADLOCK FALSE
