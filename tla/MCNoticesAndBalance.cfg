SPECIFICATION EitherSpec
CONSTANTS
  w1 = w1  w2 = w2
  a1 = a1  a2 = a2  c1 = c1  b1 = b1
  t = t  u = u
  alice = alice  bob = bob
  None = None
  Wallets = {w1, w2}
  Copayers = {alice, bob}
  Addresses = {a1, a2, c1, b1}
  Txids = {t, u}
  WalletOf <- OwnerOf
  Change = {c1}
  Pays <- TwoWallets
  Blocks = {{t}}
  Subscription <- BothWait
  Events = {1, 2}
  MaxEvents = 2
  MaxFaults = 2
  Faults = {"crash", "database", "explorer"}
  old1 = old1  old2 = old2  new1 = new1  r1 = r1
  Held = {old1, old2, new1}
  Recent = {new1}
  Many = 2
  Askers = {r1}
  Nobody = Nobody
  MaxChanges = 1
  MaxUpsets = 1
CHECK_DEADLOCK FALSE
INVARIANTS
  PaymentsTold
  ConfirmationsTold
  BalanceWasTrue
PROPERTIES
  ClientLearns
