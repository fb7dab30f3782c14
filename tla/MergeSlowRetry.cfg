SPECIFICATION Spec
CONSTANTS
  Keys <- MCKeys
  Tables <- MCTables
  TableOf <- MCTableOf
  EventIds <- RetryEventIds
  Fingerprints = {"f", "g"}
  Events <- RetryEvents
  Unconvertible = {}
  ProcIds = {"p1"}
  Submissions <- RetrySubmissions
  Policies = {"SOFT"}
  SnapshotKeys <- MCSnapshotKeys
  AllowOverwrite = FALSE
  Runners = {"r1", "r2"}
  Bootstrap = Bootstrap
  NoRow = NoRow
  NoRecord = NoRecord
PROPERTIES
  NoStaleOverwrite
