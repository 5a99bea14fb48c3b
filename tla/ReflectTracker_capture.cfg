SPECIFICATION Spec
CONSTANTS
  Keepers <- SomeKeepers
  DenyPkgs <- Denied
  TxCount = 1
  MaxCallbacks = 1
  MaxMutations = 2
PROPERTIES
  BlockCaptureExact
