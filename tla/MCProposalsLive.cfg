\* Liveness: the lock and the lookups never leave a request without an answer.
SPECIFICATION FairSpec
CONSTANTS
  Copayers = {c1, c2}
  M = 2
  Ids = {p1}
  Utxos = {u1}
  AccountCoin = FALSE
  NoTx = NoTx
  Tasks = {t1, t2}
  None = None
  Ops = {"create", "publish", "removeOld", "sign", "broadcast", "list"}
  Apart = {}
  Faults = {"explorer"}
PROPERTIES
  EveryRequestAnswered
