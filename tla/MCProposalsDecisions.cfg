\* Two proposals after the same input.  Votes come one at a time and removals on
\* their own, everything else at once.
SPECIFICATION Spec
SYMMETRY Symmetric
CONSTANTS
  Copayers = {c1, c2}
  M = 2
  Ids = {p1, p2}
  Utxos = {u1}
  AccountCoin = FALSE
  NoTx = NoTx
  Tasks = {t1, t2}
  None = None
  Ops = {"create", "publish", "remove", "removeOld", "sign", "reject", "broadcast", "list"}
  Apart <- RemovalsApart
  Faults = {"explorer", "outsider"}
INVARIANTS
  InputsExclusive
PROPERTIES
  ImplementsAgreement
