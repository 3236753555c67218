SPECIFICATION BenchSpec
CONSTANTS
  BenchFlags <- MCBenchFlags
  Key <- MCKey
  NoKey = NoKey
  M <- MCM
  K <- MCK
  CounterMax <- MCMax
  Probe <- MCProbe
  Tens <- MCTens
INVARIANT SizeSweepMeasuresCount
