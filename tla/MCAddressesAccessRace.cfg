\* addAccess writes back the wallet it read before an address was created.
SPECIFICATION Spec
SYMMETRY Symmetric
CONSTANTS
  Tasks = {t1, t2}
  None = None
  MaxGap = 2
  ScanGap = 2
  Payable <- FirstOnly
  MaxRows = 4
  Ops = {"create", "access"}
  Faults = {}
INVARIANTS
  NoAddressTwice
