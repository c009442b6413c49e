SPECIFICATION EitherSpec
\* Three calls on two tokens, with and without the wait timer; the holding limit is
\* always set, as lib/lock.js does.
CONSTANTS
  Tokens = {k1, k2}
  Tasks = {t1, t2, t3}
  NoToken = NoToken
  WaitOptions = {TRUE, FALSE}
  MaxOptions = {TRUE}
  a = a
  b = b
  None = None
  Own = {a, b}
  Chain <- Payments
  MaxFaults = 2
  Faults = {"crash", "explorer", "truncated", "database", "totals", "update"}
INVARIANTS
  OverlapOnlyAfterTimeout
  UtxoRight
  HistoryRight
PROPERTIES
  CalledOnce
  ImplementsWalletLock
  Answered
  BlocksInOrder
  CatchesUp
