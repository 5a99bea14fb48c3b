SPECIFICATION FairSpec
CONSTANTS
  Blocks <- InlineBlocks
  Signers <- TwoSigners
  HookMode = "inline"
  OracleWorkers = 0
  ConflictDetection = TRUE
  MaxStores = 1
  MaxBlocks = 2
  MaxFaults = 1
INVARIANTS
  OutOfKVReported
  NoSilentDrift
  WriteSetsCaptured
  CtxWritesAttributed
PROPERTIES
  RunBlockReturns
