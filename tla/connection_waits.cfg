SPECIFICATION FairSpec
CONSTANTS
  Request = {q1}
  Connections = 2
INVARIANTS TypeOK PendingHasEndpoint AnswerKept
PROPERTIES LossEndsWaits
CHECK_DEADLOCK FALSE
