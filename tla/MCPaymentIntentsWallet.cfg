SPECIFICATION MCSpec
CONSTANTS
  MaxIntents = 2
  MaxSessions = 2
  Total = 2
  Asks = {1, 2}
  AllowPartial = TRUE
  Expires = TRUE
  HasWallet = TRUE
  MaxTries = 2
  j1 = j1
  j2 = j2
  Jobs = {j1, j2}
  MaxCrashes = 1
CHECK_DEADLOCK FALSE
INVARIANTS
  BookedWasTaken
