SPECIFICATION Spec
CONSTANTS
  Procs = {"c1"}
  MaxVersion = 5
INVARIANT
  NothingBeforeStart
