SPECIFICATION FairSpec
CONSTANTS
  w1 = w1  w2 = w2
  a = a  b = b
  t1 = t1  t2 = t2
  alice = alice
  None = None
  Wallets = {w1, w2}
  Copayers = {alice}
  Addresses = {a, b}
  Txids = {t1, t2}
  WalletOf <- OwnerOf
  Change = {}
  Subscription <- OneWaits
  Coin = "eth"
  Chain <- Blocks
  Events <- ChainEvents
  MaxAtWork = 2
  MaxFaults = 2
  Faults = {"crash", "database", "explorer", "lag"}
CHECK_DEADLOCK FALSE
INVARIANTS
  RowsRight
  BalancesRight
  BlocksOnce
PROPERTIES
  CatchesUp
