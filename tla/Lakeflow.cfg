SPECIFICATION LiveSpec
CONSTANTS
  Tables = {"accounts", "subscriptions"}
  Keys = {"A", "S"}
  TableOf <- MCTableOf
  Values = {"v", "w"}
  Null = Null
  Files <- MCFiles
  Backlog <- MCBacklog
  SnapshotKeys = {"A"}
  Bootstrap = Bootstrap
  NoRow = NoRow
  MaxLong = 5
INVARIANTS
  TypeOK
  CurrentIsLatest
PROPERTIES
  Converges
CHECK_DEADLOCK FALSE
