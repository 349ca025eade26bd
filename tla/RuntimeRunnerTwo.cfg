SPECIFICATION Spec
CONSTANTS
  Runs = {r1, r2}
  Handlers = {h1, h2}
  NoRun = NoRun
SYMMETRY Symmetry
CONSTRAINT Overlapping
INVARIANTS
  OneUnfinishedRun
