SPECIFICATION Spec
CONSTANTS
  Probes = 3
  BlockSize = 2
  Responses <- SomeResponses
  MaxStores = 2
  MaxBlocks = 2
  MaxFaults = 2
INVARIANTS
  AllPairsCompared
  BlameIsExact
  SequencesInStep
  AppsSettled
PROPERTIES
  ImplementsContract
