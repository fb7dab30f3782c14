SPECIFICATION Spec
CONSTANTS
  Keys <- MCKeys
  Tables <- MCTables
  TableOf <- MCTableOf
  EventIds <- LowerEventIds
  Fingerprints = {"f", "g"}
  Events <- LowerEvents
  Unconvertible = {}
  ProcIds = {"p1", "p2"}
  Submissions <- LowerSubmissions
  Policies = {"HARD", "SOFT"}
  SnapshotKeys <- MCSnapshotKeys
  AllowOverwrite = FALSE
  Runners = {"r1"}
  Bootstrap = Bootstrap
  NoRow = NoRow
  NoRecord = NoRecord
INVARIANTS
  TargetAgreesWithLedger
