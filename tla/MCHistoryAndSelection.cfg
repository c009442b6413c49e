SPECIFICATION EitherSpec
CONSTANTS
  None = None
  r1 = r1  r2 = r2
  Requests = {r1, r2}
  MaxTx = 3
  Hidden = {2}
  Limit = 2
  MaxFaults = 1
  Wallets <- SomeCoins
  Asked <- Questions
  Samples <- SomeSamples
  FeeLevels <- TwoLevels
  Fallback = 1
  AddressType = "P2PKH"
  RequiredSignatures = 1
  WalletN = 1
  MinOutput = 5000
  DustAmount = 546
  MaxTxFee = 10000000
  MaxTxSize = 850
  MinFeePerKb = 0
  MaxFeePerKb = 10000000
  BigFactor = 2
  ShareDivisor = 2
  FeeDivisor = 20
  SingleFactor = 2
  BackoffOffset = 3
  BackoffTime = 600
  Items <- SmallItems
  Callers = {r1, r2}
  MaxHeight = 2
  MaxMisses = 1
SYMMETRY Symmetric
CHECK_DEADLOCK FALSE
INVARIANTS
  RowsInPlace
  AnswerIsPage
  ItemsTrue
  ProposalPays
  FundsFound
  MaxIsMost
