SPECIFICATION Spec
CONSTANTS
  Runs = {r1, r2}
  Traced = {r1, r2}
  MaxConcurrent = 1
  MaxLog = 1
  MaxRestarts = 1
SYMMETRY Symmetry
CHECK_DEADLOCK FALSE
INVARIANT LiveWithinCap
PROPERTY RecordSpec
