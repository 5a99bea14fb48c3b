SPECIFICATION Spec
CONSTANTS
  MaxVarintLen = 3
  Strings <- TagLikeStrings
  Ints <- SmallInts
  Unknown <- NoFields
INVARIANTS
  MatchesGogoOutput
