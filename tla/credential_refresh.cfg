SPECIFICATION Spec
CONSTANTS
  Nobody = Nobody
  Refresher = {r1, r2}
  Editor = {u}
  CanLogin = TRUE
  MaxRevision = 3
  MaxSession = 3
INVARIANTS TypeOK SavedChangesStay
PROPERTIES ImplementsSecret CallsEnd
CHECK_DEADLOCK FALSE
