SPECIFICATION FairSpec
CONSTANTS
  a = a  b = b  d = d
  NoCall = NoCall
  Call = {a, b}
  Request = {a, b}
  RequestOf <- Distinct
  MaxConcurrent = 1
  RequeueLimit = 2
  MaxCrashes = 1
  LockMayExpire = FALSE
  MayEvict = FALSE
INVARIANTS TypeOK AdmissionIsSerial ConcurrencyLimit
PROPERTIES ImplementsSlots AbandonedHeadIsDropped
CHECK_DEADLOCK FALSE
