\* Every request and every fault: what no overwritten wallet record and no death
\* between two writes can break.
SPECIFICATION Spec
SYMMETRY Symmetric
CONSTANTS
  Tasks = {t1, t2}
  None = None
  MaxGap = 1
  ScanGap = 2
  Payable <- FirstOnly
  MaxRows = 2
  Ops = {"create", "createIgnoringGap", "change", "changeTo", "scan", "access"}
  Faults = {"expiry", "crash", "explorer", "payments"}
INVARIANTS
  IndexBehindRows
