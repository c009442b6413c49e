SPECIFICATION Spec
CONSTANTS
  w1 = w1  w2 = w2  net = net
  alice = alice  bob = bob  carol = carol  dave = dave
  prop = prop  conf = conf  block = block  pay = pay  other = other
  s1 = s1  s2 = s2
  None = None
  Notes = {prop, pay, conf, block, other}
  Network = net
  Wallets = {w1, w2}
  Copayers = {alice, bob, carol, dave}
  Emails = {"x", "y"}
  Tokens = {"tok"}
  Mailers = {s1, s2}
  Pusher = "push"
  Polled = w1
  Client = "client"
  Scenes <- AllScenes
  TypeOf <- TypesOf
  WalletOf <- WalletsOf
  Creator <- Creators
  Ticker <- Tickers
  MemberOf <- OwnersOf
  Signatures <- Quorums
  MaxClock = 2
  MaxChanges = 1
  MaxFaults = 2
  Faults = {"unstored", "crash", "lost", "busy", "database", "mailer", "expiry"}
CHECK_DEADLOCK FALSE
INVARIANTS
  MailedOnce
  MailReaches
  PushReaches
  NothingMissed
