SPECIFICATION FairSpec
CONSTANTS
  Copies = 2
  DatabaseCheck = TRUE
  MaxChecks = 1
  MaxCancels = 2
INVARIANTS
  TypeOK
  VerdictIsTrue
  StagedWhileRead
  LeftoversReported
  CancelIsHeeded
PROPERTIES
  Fallback
  EveryCheckEnds
CHECK_DEADLOCK FALSE
