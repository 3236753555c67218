SPECIFICATION ToolsSpec
CONSTANTS
  Seed = {1, 2, 3}
  Mix <- MCMix
  Ladder <- MCLadder
  Flags <- MCFlags
  Chi = {0, 4, 5}
  Penalty = {0, 4}
  Ns = {1, 2}
  DefaultSamples = 4
  MaxFloat = 1000
  BenchFlags <- MCBenchFlags
  Key <- MCKey
  NoKey = NoKey
  M <- MCM
  K <- MCK
  CounterMax <- MCMax
  Probe <- MCProbe
  Tens <- MCTens
  Lower <- MCLower
  Name = {"a", "A", "b", "s:"}
  ColonName = {"s:"}
  Param <- MCParam
  Encode <- MCEncode
  Nested = {"url", "http://"}
  Tracking = {"utm", "fbclid"}
  Malformed = {"bad"}
  Calls <- MCCalls
  Lines <- MCLines
INVARIANTS
  EveryKeyProbed
  RankingAgreesWithTuning
  LadderComplete
  RecommendationUnbeaten
  StreamAccounted
  LookupsInterleaved
  RemovalDrains
  RowsMatchLabels
  
  KeysAreResources
  ReadsItsInput
