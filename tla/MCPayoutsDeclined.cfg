SPECIFICATION FairPayoutSpec
CONSTANTS
  Withdrawals = {w1, w2}
  Settlements = {}
  ClientKey <- MCClientKey
  NoKey = NoKey
  Amount <- MCAmount
  Opening = 3
  MerchantOpening = 0
  Staff = {}
  Nobody = Nobody
  NoPayout = NoPayout
  Jobs = {j1, j2}
  GatewayAnswers = {"accepts", "declines"}
  MaxCrashes = 0
  w1 = w1
  w2 = w2
  k = k
CHECK_DEADLOCK FALSE
INVARIANTS
  FailedIsReversed
