SPECIFICATION FairSpec
CONSTANTS
  a = a  b = b  d = d
  NoCall = NoCall
  Call = {a, b}
  Request = {a, b}
  RequestOf <- Repeated
  MaxConcurrent = 1
  RequeueLimit = 1
  MaxCrashes = 1
  LockMayExpire = TRUE
  MayEvict = TRUE
INVARIANTS NoSlotLeak ResultBeforeCompleted
PROPERTIES EveryCallReturns
CHECK_DEADLOCK FALSE
