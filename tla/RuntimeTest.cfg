SPECIFICATION Spec
CONSTANTS
  None = None
  Newest = 2
  Checksums = {x}
  MaxTests = 2
INVARIANTS
  TypeOK
  ProofIsReal
  ViewHonest
  OutcomeIsTruthful
  NoInventedSteps
  RunningJobIsOwned
