SPECIFICATION LiveSpec
CHECK_DEADLOCK FALSE
CONSTANTS
  Tasks = {t1, t2, t3}
  Backups = {b1, b2}
  MaxEdits = 1
  MaxUnrecorded = 0
  Codes = {internal}
  InternalError = internal
  Passwords = {}
  RetryLimit = 1
  StorageFails = FALSE
  MaxRestarts = 0
  None = None
PROPERTY NewestIsVerified
