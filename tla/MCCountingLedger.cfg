SPECIFICATION LedgerSpec
CONSTANTS
  Key <- MCKey
  NoKey = NoKey
  M <- MCM
  K <- MCK
  Width = {2, 8}
  CounterMax <- MCWidthMax
  Probe <- MCProbe
INVARIANTS LedgerTypeOK Accounting NoFalseNegative CountIsLive
PROPERTIES HeadroomHonoured KeepsPromise
