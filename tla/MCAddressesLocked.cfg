\* Only requests that take the lock, which nobody loses: the rows are exactly the
\* addresses before the index, whatever fails, a scan finds what is used, and
\* everybody is answered.
SPECIFICATION FairSpec
CONSTANTS
  Tasks = {t1, t2}
  None = None
  MaxGap = 2
  ScanGap = 2
  Payable <- Scattered
  MaxRows = 4
  Ops = {"create", "change", "scan"}
  Faults = {"explorer"}
INVARIANTS
  SettledRows
PROPERTIES
  ScanFindsAll
  EveryRequestAnswered
