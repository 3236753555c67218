SPECIFICATION LoopSpec
CONSTANTS
  Key <- MCKey
  NoKey = NoKey
  M = 7
  K = 3
  Width = {2, 4, 8}
  CounterMax <- MCCounterMax
  Probe <- MCProbe
PROPERTIES ImplementsFilter OneCounterPerStep CallsReturn
