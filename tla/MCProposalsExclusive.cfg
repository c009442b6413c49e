\* Two proposals after the same input; votes come one at a time, everything
\* else at once.
SPECIFICATION Spec
SYMMETRY Symmetric
CONSTANTS
  Copayers = {c1, c2}
  M = 2
  Ids = {p1, p2}
  Utxos = {u1}
  AccountCoin = FALSE
  NoTx = NoTx
  Tasks = {t1, t2}
  None = None
  Ops = {"create", "publish", "sign", "reject", "broadcast", "list"}
  Apart <- VotesApart
  Faults = {"explorer", "monitor", "outsider"}
INVARIANTS
  InputsExclusive
PROPERTIES
  ImplementsAgreement
