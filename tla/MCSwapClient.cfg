SPECIFICATION FairSpec
CONSTANTS
  Bundlers = 2
  Ttl = 2
  Timeout = 2
  ResendEvery = 1
  MaxNow = 6
  MaxSwaps = 2
  MaxPaid = 1
  Patient = FALSE
INVARIANTS
  VerdictIsTrue
  OneSwapPerClick
PROPERTIES
  SwapEnds
CHECK_DEADLOCK FALSE
