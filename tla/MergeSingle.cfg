SPECIFICATION LiveSpec
CONSTANTS
  Keys <- MCKeys
  Tables <- MCTables
  TableOf <- MCTableOf
  EventIds <- MCEventIds
  Fingerprints = {"f", "g"}
  Events <- MCEvents
  Unconvertible <- MCUnconvertible
  ProcIds = {"p1", "p2", "p3", "p4", "p5", "p6"}
  Submissions <- MCSubmissions
  Policies = {"HARD", "SOFT"}
  SnapshotKeys <- MCSnapshotKeys
  AllowOverwrite = FALSE
  Runners = {"r1"}
  Bootstrap = Bootstrap
  NoRow = NoRow
  NoRecord = NoRecord
INVARIANTS
  TypeOK
  SinglePendingOwner
  RetryAdmitted
  TargetAgreesWithLedger
  IntentBeforeMutation
PROPERTIES
  LedgerImmutable
  EffectivelyOnce
  ImplementsCurrentState
  PendingResolved
