\* A test of removePendingTx: what another copayer has approved is not removed.
\* A vote may come while a removal is under way.
SPECIFICATION Spec
SYMMETRY Symmetric
CONSTANTS
  Copayers = {c1, c2}
  M = 2
  Ids = {p1}
  Utxos = {u1}
  AccountCoin = FALSE
  NoTx = NoTx
  Tasks = {t1, t2}
  None = None
  Ops = {"create", "publish", "remove", "sign"}
  Apart = {}
  Faults = {}
PROPERTIES
  ApprovedNotRemovedEarly
