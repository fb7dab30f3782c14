SPECIFICATION LiveSpec
CONSTANTS
  Keys = {1, 2}
  LastCursor <- Last22
  MaxRuns = 2
  Workers = {"w1"}
  Ordered = TRUE
  Moves = TRUE
INVARIANTS
  OneWindowPerVersion
  LandedAsAudited
PROPERTIES
  ImplementsLoad
  LandedUnlessStarved
