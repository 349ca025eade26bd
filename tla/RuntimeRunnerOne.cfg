SPECIFICATION LiveSpec
CONSTANTS
  Runs = {r1}
  Handlers = {h1, h2}
  NoRun = NoRun
INVARIANTS
  TypeOK
  TerminalEvidence
  SecretsCleared
  UploadsAreExclusive
  PipelineTruthful
PROPERTIES
  TerminalFrozen
  ExecutionsEnd
  AbandonedRunsReaped
