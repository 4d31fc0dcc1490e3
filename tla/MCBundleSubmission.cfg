SPECIFICATION SubmissionSpec
CONSTANTS
  s1 = s1
  s2 = s2
  OpSenders <- Senders
  Delays = {0}
  Selections <- NewAccounts
  Bundles <- PageAuthorizes
  Configured = TRUE
  MaxMoves = 1
INVARIANTS
  AuthorizedIsType4
CHECK_DEADLOCK FALSE
