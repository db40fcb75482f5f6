SPECIFICATION FairMCSpec
CONSTANTS
  Wallets <- MCWallets
  WalletIds <- MCWalletIds
  Buckets <- MCBuckets
  NegativeAllowed = {clearing}
  Frozen = {frozen}
  Currencies = {NGN, USD}
  CurrencyOf <- MCCurrencyOf
  Keys = {k1, k2}
  NoKey = NoKey
  Nobody = Nobody
  OpeningBalance <- MCOpening
  user = user
  merchant = merchant
  fees = fees
  clearing = clearing
  dollars = dollars
  frozen = frozen
  ghost = ghost
  k1 = k1
  k2 = k2
  NGN = NGN
  USD = USD
  Requests <- MCRequests
  Calls = {c1, c2, c3}
  c1 = c1
  c2 = c2
  c3 = c3
INVARIANTS
  TypeOK
  NoOverdraft
  LockStep
  KeyBookedOnce
  SameKeySameAnswer
  Conserved
PROPERTIES
  EveryCallAnswers
  PostsAtomically
