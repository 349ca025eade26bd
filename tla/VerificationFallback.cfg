SPECIFICATION Spec
CONSTANTS
  Copies = 2
  DatabaseCheck = TRUE
  MaxChecks = 1
  MaxCancels = 0
INVARIANT
  AgentFailureFallsBack
CHECK_DEADLOCK FALSE
