\* Everything at once: two requests of any kind in flight, crashes, a lock that
\* expires, a lagging explorer, the monitor and a client that broadcasts.
SPECIFICATION Spec
SYMMETRY Symmetric
CONSTANTS
  Copayers = {c1, c2}
  M = 2
  Ids = {p1}
  Utxos = {u1}
  AccountCoin = FALSE
  NoTx = NoTx
  Tasks = {t1, t2}
  None = None
  Ops = {"create", "publish", "remove", "removeOld", "sign", "reject", "broadcast", "list"}
  Apart = {}
  Faults = {"expiry", "crash", "explorer", "monitor", "outsider"}
INVARIANTS
  RecordsConsistent
  OneVoteEach
  QuorumBehindChain
  BroadcastedIsInChain
