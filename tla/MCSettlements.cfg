SPECIFICATION FairMCSpec
CONSTANTS
  Withdrawals = {w1, w2, w3}
  Settlements = {s1, s2}
  ClientKey <- MCClientKey
  NoKey = NoKey
  Amount <- MCAmount
  Opening = 2
  MerchantOpening = 3
  Staff = {ada, bola}
  Nobody = Nobody
  NoPayout = NoPayout
  Jobs = {j1, j2}
  w1 = w1
  w2 = w2
  w3 = w3
  k = k
  s1 = s1
  ada = ada
  bola = bola
  s2 = s2
  GatewayAnswers = {"accepts", "pays", "declines", "errors", "times out"}
  MaxCrashes = 1
  Fee = 1
  Reserve = 1
  ReserveDays = 7
  DualApproval = {s1}
  Asks = {3}
  MaxCancels = 1
  PlainRoute = TRUE
  Scenes = {"cash-outs", "overlap", "approval"}
CHECK_DEADLOCK FALSE
INVARIANTS
  BooksMatchBank
  RefundedWasNotPaid
  FailedWasReversed
  MoveIsRecorded
  OneTransferPerKey
  NoDoubleCount
  TwoApprovers
PROPERTIES
  DisbursesAsPromised
  ReferencedPayoutResolves
  ReserveReturned
