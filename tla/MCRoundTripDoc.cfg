SPECIFICATION ConfigSpec
CONSTANTS
  Capacity = {0, 5}
  Bits = {0, 9}
  HashCount = {0, 3}
  MinBits = {0, 128}
  MaxK = {0, 2}
  Width = {0, 2, 48}
  Hash <- MCHash
  MaxCalls = 4
INVARIANT FilterConfigRoundTrips
CHECK_DEADLOCK FALSE
