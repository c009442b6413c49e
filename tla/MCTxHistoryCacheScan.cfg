SPECIFICATION Spec
CONSTANTS
  None = None
  r1 = r1  r2 = r2
  Requests = {r1, r2}
  MaxTx = 3
  Hidden = {2}
  Limit = 2
  MaxFaults = 1
SYMMETRY Symmetric
CHECK_DEADLOCK FALSE
INVARIANTS

  AnswerIsAlwaysPage
