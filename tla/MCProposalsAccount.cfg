\* An eth or try wallet of three: no inputs to verify, signatures not verified, and
\* an accepted proposal still takes the vote of the third copayer.
SPECIFICATION Spec
SYMMETRY Symmetric
CONSTANTS
  Copayers = {c1, c2, c3}
  M = 2
  Ids = {p1}
  Utxos = {u1}
  AccountCoin = TRUE
  NoTx = NoTx
  Tasks = {t1, t2}
  None = None
  Ops = {"create", "publish", "sign", "reject", "broadcast"}
  Apart = {}
  Faults = {"explorer"}
INVARIANTS
  QuorumBehindChain
