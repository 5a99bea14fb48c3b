SPECIFICATION Spec
CONSTANTS
  MaxVarintLen = 3
  Strings <- TagLikeStrings
  Ints <- EdgeInts
  Unknown <- LaterFields
INVARIANTS
  BufferExact
  RoundTrip
  NothingInvented
  UnmarshalEnds
