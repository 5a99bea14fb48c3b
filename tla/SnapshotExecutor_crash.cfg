SPECIFICATION Spec
CONSTANTS
  Starts <- ManyStarts
  SourceVersions <- Held
  Targets <- ManyTargets
  ConflictDetection = TRUE
  MaxInits = 4
  MaxBlocks = 2
  MaxFaults = 1
  MaxCrashes = 3
INVARIANTS
  NothingHeld
  CopiesPinned
PROPERTIES
  PrestateKept
  ImplementsContract
