SPECIFICATION EventsSpec
CONSTANTS
  w1 = w1  w2 = w2
  a1 = a1  a2 = a2  c1 = c1  b1 = b1
  t = t  u = u
  alice = alice  bob = bob
  None = None
  Wallets = {w1, w2}
  Copayers = {alice, bob}
  Addresses = {a1, a2, c1, b1}
  Txids = {t, u}
  WalletOf <- OwnerOf
  Change = {c1}
  Pays <- TwoWallets
  Blocks = {{t}}
  Subscription <- BothWait
  Events = {1}
  MaxEvents = 1
  MaxFaults = 0
  Faults = {}
CHECK_DEADLOCK FALSE
INVARIANTS
  EverySubscriberTold
