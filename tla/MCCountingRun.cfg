SPECIFICATION RunSpec
CONSTANTS
  Key <- MCKey
  NoKey = NoKey
  M <- MCM
  K <- MCK
  Width = {2, 8}
  CounterMax <- MCLowMax
  Probe <- MCProbe
  Opts <- MCOpts
  MaxLines = 5
  Line <- MCLine
  Prefixed <- MCPrefixed
  KeyOf <- MCKeyOf
  RestOf <- MCRestOf
INVARIANTS InsertedOnce CountFollowsTally OutputMatchesTally InsertedStaysFound
PROPERTIES LossNeedsSharedCounter
CHECK_DEADLOCK FALSE
