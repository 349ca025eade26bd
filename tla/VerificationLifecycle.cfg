SPECIFICATION Spec
CHECK_DEADLOCK FALSE
CONSTANTS
  Tasks = {t1, t2}
  Backups = {b1}
  MaxEdits = 1
  MaxUnrecorded = 1
  Codes = {internal}
  InternalError = internal
  Passwords = {p1}
  RetryLimit = 2
  StorageFails = TRUE
  MaxRestarts = 1
  None = None
SYMMETRY Symmetry
INVARIANTS
  TypeOK
  SingleFlight
  RetriesBounded
  ChecksAreNeeded
  StoreMatchesMemory
