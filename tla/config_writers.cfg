SPECIFICATION Spec
CONSTANTS
  Run = {r1, r2}
  Agent = {a}
  NoAgent = NoAgent
  Stages = 2
  Steps = 2
  StageOf <- StepEach
  WriteStages <- Last
  NeedsShot <- Last
  Disabled = {}
  Identified = {r1}
  Manual = {r2}
  Continue = FALSE
  MaxRuns = 1
  InFlight = 2
  MaxStops = 1
  MaxLost = 0
  MaxRetries = 1
  MaxCrashes = 0
CHECK_DEADLOCK FALSE
INVARIANTS TypeOK SuccessMeansExecuted EvidenceNotOverstated OutcomeIsCoherent ApprovalIsFresh
