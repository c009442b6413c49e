\* Every request on one wallet, with a lock that expires, processes that die and
\* wallets that are created twice: what none of this can break, and what holds
\* until a certain mishap.
SPECIFICATION Spec
SYMMETRY Symmetric
CONSTANTS
  Wallets = {w1}
  Copayers = {c1, c2, c3}
  Keys = {k1, k2}
  JoinKeys = {k1}
  Tasks = {t1, t2}
  None = None
  N = 2
  MaxKeys = 1
  Ops = {"createWallet", "joinWallet", "addAccess"}
  Faults = {"expiry", "crash", "early", "twice"}
INVARIANTS
  WalletsSound
  LookupSettled
PROPERTIES
  RewritesKept
