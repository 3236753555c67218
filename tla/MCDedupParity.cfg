SPECIFICATION ParitySpec
CONSTANTS
  Key <- MCKey
  NoKey = NoKey
  M = 9
  K = 3
  Width = {8}
  CounterMax <- MCLowMax
  Probe <- MCProbe
  Opts <- MCOpts
  MaxLines = 6
  Line <- MCLine
  KeyOf <- MCKeyOf
INVARIANTS SameVerdicts SameOccupancy BitsAreProbed
PROPERTY FilterKeepsPromise
CHECK_DEADLOCK FALSE
