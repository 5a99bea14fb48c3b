SPECIFICATION Spec
CONSTANTS
  Blocks <- FaultyBlocks
  Signers <- TwoSigners
  HookMode = "posthoc"
  OracleWorkers = 2
  ConflictDetection = TRUE
  MaxStores = 2
  MaxBlocks = 3
  MaxFaults = 2
INVARIANTS
  TypeOK
  HooksScoped
  HeightsInStep
  FindingsFromCurrentOracle
  SequencesInStep
  HotKeysOfOwnProbe
  NoFalseDivergence
PROPERTIES
  ImplementsContract
