SPECIFICATION Spec
CONSTANTS
  r1 = r1
  r2 = r2
  Record = {r1}
  Ranged = {r1}
  Left <- Nothing
  MaxEvents = 2
INVARIANTS OneAnalysis RequestedOnce DownloadHasThread
PROPERTIES EndedStaysEnded
CHECK_DEADLOCK FALSE
