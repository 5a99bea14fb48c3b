SPECIFICATION Spec
CONSTANTS
  Blocks <- LongBlocks
  Signers <- TwoSigners
  HookMode = "posthoc"
  OracleWorkers = 0
  ConflictDetection = TRUE
  MaxStores = 1
  MaxBlocks = 1
  MaxFaults = 0
INVARIANTS
  WriteSetsCaptured
