SPECIFICATION FairSpec
CONSTANTS
  Run = {r1, r2}
  Agent = {a}
  NoAgent = NoAgent
  Stages = 2
  Steps = 3
  StageOf <- TwoAndOne
  WriteStages <- None
  NeedsShot <- None
  Disabled = {2}
  Identified = {r1}
  Manual <- None
  Continue = TRUE
  MaxRuns = 1
  InFlight = 2
  MaxStops = 0
  MaxLost = 1
  MaxRetries = 1
  MaxCrashes = 1
CHECK_DEADLOCK FALSE
INVARIANTS StageSuccessMeansItsSteps RecoveredRunIsClosed
PROPERTIES StageVerdictsStand RunEnds
