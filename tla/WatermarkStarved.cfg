SPECIFICATION LiveSpec
CONSTANTS
  Keys = {1, 2}
  LastCursor <- Last21
  MaxRuns = 2
  Workers = {"w1"}
  Ordered = TRUE
  Moves = TRUE
PROPERTIES
  EverythingLanded
