\* The comment of publishTx: publishing locks the inputs.  Votes may overlap.
SPECIFICATION Spec
SYMMETRY Symmetric
CONSTANTS
  Copayers = {c1, c2}
  M = 2
  Ids = {p1, p2}
  Utxos = {u1}
  AccountCoin = FALSE
  NoTx = NoTx
  Tasks = {t1, t2}
  None = None
  Ops = {"create", "publish", "sign", "reject"}
  Apart = {}
  Faults = {}
INVARIANTS
  InputsExclusive
