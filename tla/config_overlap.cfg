SPECIFICATION Spec
CONSTANTS
  Run = {r1, r2}
  Agent = {a}
  NoAgent = NoAgent
  Stages = 1
  Steps = 1
  StageOf <- OneStep
  WriteStages <- None
  NeedsShot <- None
  Disabled = {1}
  Identified = {r1, r2}
  Manual <- None
  Continue = FALSE
  MaxRuns = 2
  InFlight = 1
  MaxStops = 1
  MaxLost = 0
  MaxRetries = 0
  MaxCrashes = 1
CHECK_DEADLOCK FALSE
INVARIANTS OneRunPerAgent
