SPECIFICATION Spec
CONSTANTS
  once = once  cron = cron
  d1 = d1  d2 = d2  d3 = d3
  Job = {once, cron}
  NoJob = NoJob
  Delivery = {d1, d2}
  Once = {once}
  Concurrent = {cron}
  LockMayExpire = TRUE
  MaxKills = 1
  MaxRequests = 1
SYMMETRY Interchangeable
INVARIANTS TypeOK ConsumedIsSubmitted
PROPERTY SkipIsJustified
CHECK_DEADLOCK FALSE
