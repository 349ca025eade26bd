SPECIFICATION LiveSpec
CONSTANTS
  Problems = {a, b}
  Devices = {d1, d2}
  Confirm = 2
  MaxRestarts = 2
INVARIANTS
  TypeOK
  ProblemsAreConfirmed
  RecoveryFollowsProblem
PROPERTY StableStateIsReported
