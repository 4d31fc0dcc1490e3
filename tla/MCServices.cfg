SPECIFICATION MCSpec
CONSTANTS
  p1 = p1
  p2 = p2
  o1 = o1
  o2 = o2
  w1 = w1
  w2 = w2
  w3 = w3
  NoOne = NoOne
  Pages <- TwoPages
  AdminPages = {p2}
  SessionOf <- OneBrowser
  Owners <- TwoOwners
  AccountOf <- Accounts
  devPrivateKey = FALSE
  Executed <- Ops
  Window = 3
  MaxTime = 5
  MaxChanges = 3
  Wallets <- ThreeWallets
  Workers = {1, 2}
  WalletsMax = 2
  EvictBatch = 1
  MaxBlock = 3
  MaxLookupsLost = 1
  FeeUnits = 2
  MaxSafe = 0
  HasTokens = TRUE
  MaxSponsored = 2
  MaxPolicy = 1
  Keys = {1, 2, 3}
  GoodTokens = {1, 2}
  MaxFlights = 2
  MaxVersion = 2
  MaxVisits = 2
  MaxErrors = 1
  Loops = {1, 2}
  Timer = 1
  Symbols <- TwoSymbols
  FetchedPrice <- TwoPrices
  OtherPrices = {50}
  OracleUnit = 10
  Requests = {"q1"}
  AmountsIn = {39}
  Slippages = {470}
  quoteTtlSec = 1
  MaxLogs = 2
  MaxClock = 3
  MaxByHand = 1
  MaxFaults = 1
  s1 = s1
  s2 = s2
  OpSenders <- TwoSenders
  Delays = {0, 1}
  Selections <- Selectable
  Bundles <- TwoOps
  Configured = TRUE
  MaxMoves = 2
INVARIANTS
  CountsArePages
  UsersAgree
  WalletsAreCurrent
  StatusAddsUp
  ServedIsSponsored
  BlameIsFair
  RefusalIsExplained
PROPERTIES
  ViewsConverge
  PricesComeBack
CHECK_DEADLOCK FALSE
