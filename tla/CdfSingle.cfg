SPECIFICATION LiveSpec
CONSTANTS
  Procs = {"c1"}
  MaxVersion = 7
INVARIANTS
  TypeOK
  ArchiveComplete
  NoDuplicates
PROPERTIES
  ImplementsLoad
  ArchivePermanent
  CheckpointForward
  ArchiveCatchesUp
