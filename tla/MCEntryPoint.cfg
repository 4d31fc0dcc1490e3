SPECIFICATION MCSpec
CONSTANTS
  a1 = a1
  a2 = a2
  trader = trader
  POOL = POOL
  PAYMASTER = PAYMASTER
  ROUTER = ROUTER
  Users <- MCUsers
  Accounts = {a1, a2}
  Traders = {trader}
  FeeBps = 300
  Amounts = {1, 2, 5, 40}
  Deadlines = {4}
  MaxClock = 4
  MaxSupply = 35
  MaxDirect = 40
  OracleUnit = 10
  TsMod = 8
  Policies <- MCPolicies
  Prices = {0, 6}
  UserOps <- MCUserOps
  MaxBundle = 2
  Values = {2}
  MaxFunded = 4
INVARIANTS
  FeesHeld
  SponsorshipSolvent
  AtMostOnce
  DeadlineWindow
  CooldownAcrossBundles
  ValidatedOpRuns
PROPERTIES
  ProductKept
CHECK_DEADLOCK FALSE
