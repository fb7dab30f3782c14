SPECIFICATION LiveSpec
CONSTANTS
  NoFile = NoFile
  Files = {1, 2}
  Contents <- MCContents
  Rewrites <- MCRewrites
  Landings <- MCLandings
  MaxLong = 2
  MaxRewrites = 1
  Lists <- MCLists
  Normalizers = {"n1"}
  Keys = {"k1"}
  SnapshotKeys = {"k1"}
  Policies = {"HARD"}
  Bootstrap = Bootstrap
  NoRow = NoRow
  NoRecord = NoRecord
  Mergers = {"m1"}
INVARIANTS
  TypeOK
  RecoverableFromFile
  Reconciled
  GroupingIndependent
  OnlyContradictionsRefused
PROPERTIES
  
  ImplementsMerge
  CurrentUnlessTainted
