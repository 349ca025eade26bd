SPECIFICATION Spec
CONSTANTS
  None = None
  Agents <- MCAgents
  ClassOf <- MCClassOf
  Backups <- MCBackups
  Domains <- MCDomains
  IssuesEnabled = TRUE
  Readings <- MCReadings
  MaxAge = 1
  MinLocations = 2
  MaxDrop = 50
  Tolerance = 5
  DatabaseCheck = FALSE
  Dependencies = {"network_storage"}
  Outcomes = {"valid_with_warnings", "corrupt", "internal_error"}
  ReviewDays = 0
  RestoreValidity = 0
  RestoreTests <- MCRestoreTests
  DependencyStatuses = {"unprotected"}
  Horizon = 1
  CheckLimit = 2
  EditLimit = 1
INVARIANT IssuesMatchProblems
PROPERTIES EvidenceIsReal OutageHidesNothing
CHECK_DEADLOCK FALSE
