SPECIFICATION Spec
CONSTANTS
  None = None
  ErrorThreshold = 2
  EventLimit = 2
PROPERTIES ShutdownDiesOut PollingCatchesUp
CHECK_DEADLOCK FALSE
