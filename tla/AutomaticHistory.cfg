SPECIFICATION Spec
CONSTANTS
  MaxTime = 6
  Grace = 1
  Tolerance = 1
  Retention = 3
  Window = 2
INVARIANTS
  TypeOK
  StreakIsReal
  NewestIsJudgedRight
