SPECIFICATION SelectionSpec
CONSTANTS
  Wallets <- SomeCoins
  Asked <- Questions
  Samples <- SomeSamples
  FeeLevels <- TwoLevels
  Fallback = 1
  AddressType = "P2PKH"
  RequiredSignatures = 1
  WalletN = 1
  MinOutput = 5000
  DustAmount = 546
  MaxTxFee = 10000000
  MaxTxSize = 850
  MinFeePerKb = 0
  MaxFeePerKb = 10000000
  BigFactor = 2
  ShareDivisor = 2
  FeeDivisor = 20
  SingleFactor = 2
  BackoffOffset = 3
  BackoffTime = 600
CHECK_DEADLOCK FALSE
INVARIANTS
  ChangeAboveMinimum
