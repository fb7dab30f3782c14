SPECIFICATION Spec
SYMMETRY WorkerSymmetry
CONSTANTS
  Keys = {1, 2}
  LastCursor <- Last21
  MaxRuns = 3
  Workers = {w1, w2}
  Ordered = TRUE
  Moves = TRUE
INVARIANTS
  LandedAsAudited
CHECK_DEADLOCK FALSE
