SPECIFICATION FairMCSpec
CONSTANTS
  Withdrawals = {}
  Settlements = {s1, s2}
  ClientKey <- MCClientKey
  NoKey = NoKey
  Amount <- MCAmount
  Opening = 0
  MerchantOpening = 4
  Staff = {ada, bola}
  Nobody = Nobody
  NoPayout = NoPayout
  Jobs = {j1, j2}
  w1 = w1
  w2 = w2
  w3 = w3
  k = k
  s1 = s1
  ada = ada
  bola = bola
  s2 = s2
  GatewayAnswers = {"accepts"}
  MaxCrashes = 0
  Fee = 1
  Reserve = 1
  ReserveDays = 7
  DualApproval = {}
  Asks = {3}
  MaxCancels = 2
  PlainRoute = FALSE
  Scenes = {"overlap", "approval"}
CHECK_DEADLOCK FALSE
INVARIANTS
  NeverDoubleCounted
