SPECIFICATION Spec
CONSTANTS
  a = a
  b = b
  None = None
  Own = {a, b}
  Chain <- Payments
  MaxFaults = 1
  Faults = {"restored"}
INVARIANTS
  UtxoRight
