SPECIFICATION HashingSpec
CONSTANTS
  Len <- MCLen
  WordSize = 16
  BitAnd <- MCBitAnd
  Layout <- MCLayout
  Samples = 3
INVARIANTS
  ReadsInBounds
  EveryByteFed
  SlotsDisjoint
  LengthTold
  ProbesAreRemainders
  ReachFollowsGcd
  ReportConsistent
