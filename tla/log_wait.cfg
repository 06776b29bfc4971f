SPECIFICATION FairSpec
CONSTANTS
  r1 = r1
  r2 = r2
  Record = {r1, r2}
  Ranged = {}
  Left <- BeforeAndAfter
  MaxEvents = 1
PROPERTIES WaitEnds
CHECK_DEADLOCK FALSE
