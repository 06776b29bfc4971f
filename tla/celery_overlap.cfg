SPECIFICATION Spec
CONSTANTS
  once = once  cron = cron
  d1 = d1  d2 = d2  d3 = d3
  Job = {once}
  NoJob = NoJob
  Delivery = {d1, d2}
  Once = {once}
  Concurrent <- None
  LockMayExpire = FALSE
  MaxKills = 0
  MaxRequests = 1
SYMMETRY Interchangeable
INVARIANT OneInstance
CHECK_DEADLOCK FALSE
