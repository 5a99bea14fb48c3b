SPECIFICATION Spec
CONSTANTS
  Starts <- TwoStarts
  SourceVersions <- Held
  Targets = {}
  ConflictDetection = TRUE
  MaxInits = 2
  MaxBlocks = 2
  MaxFaults = 0
  MaxCrashes = 0
INVARIANTS
  SnapshotNeverMutated
