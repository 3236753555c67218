SPECIFICATION RunSpec
CONSTANTS
  Key <- MCKey
  NoKey = NoKey
  M <- MCM
  K <- MCK
  Width = {2, 8}
  CounterMax <- MCLowMax
  Probe <- MCProbe
  Opts <- MCOneOpt
  MaxLines = 5
  Line <- MCLine
  Prefixed <- MCPrefixed
  KeyOf <- MCKeyOf
  RestOf <- MCRestOf
INVARIANT WindowStaysFound
CHECK_DEADLOCK FALSE
