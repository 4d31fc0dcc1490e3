SPECIFICATION RpcSpec
CONSTANTS
  Ops <- MCOps
  autoBundleMempoolSize = 2
  HasTimer = TRUE
  Strict = FALSE
  MaxBundleOps = 25
  Lossy = TRUE
  MaxNow = 0
  MaxCalls = 2
  MaxRestarts = 1
  UserOp <- MCUserOp
  Emits <- MCEmits
  AccountData <- MCAccountData
  PaymasterData <- MCPaymasterData
  Bytes <- MCBytes
  Pad = 4
  AggregatorMod = 2
  TimeMod = 8
INVARIANTS
  OneTxPerEntry
  ReceiptHasItsLogs
  ByHashIsTheOp
  ExecutedIsFound
  EstimateIsUsable
CHECK_DEADLOCK FALSE
