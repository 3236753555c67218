--------------------------- MODULE StrideMeasure ----------------------------
(***************************************************************************)
(* bloom.MeasureDoubleHashStride (bloom/hash_stride.go): for a layout of m *)
(* positions and k probes it samples keys, and tells how many distinct     *)
(* positions the probes of a key reach.  What a hasher derives from the    *)
(* sampled key may be any two words; the loops of gcdUint64 and of         *)
(* reachableProbeCount take one turn per step.                             *)
(***************************************************************************)
EXTENDS DoubleHash, FiniteSets

CONSTANTS
  Layout,    \* the pairs <<m, k>> measured
  Samples    \* how many keys are sampled

VARIABLES
  m, k,        \* the layout
  i,           \* the loop variable of the measurement
  phase,       \* before a key ("sample"), in gcdUint64 ("gcd"), after it ("probe")
  h1, h2,      \* what the sampled key derives to
  a, b,        \* gcdUint64's; a is what it returns
  probe, seen, \* reachableProbeCount's loop variable and set
  gcdBad, short, minReach, maxReach, sumReach, seenSamples

layout == <<m, k>>
ofSample == <<h1, h2, a, b, probe, seen>>
tallies == <<short, minReach, maxReach, sumReach, seenSamples>>
strideVars == <<layout, i, phase, ofSample, gcdBad, tallies>>

ASSUME LayoutAssumption ==
  /\ \A l \in Layout : l[1] \in Word \ {0} /\ l[2] \in Word \ {0}
  /\ Samples \in Nat \ {0}

\* No more probes are wanted than there are positions.
want == IF k > m THEN m ELSE k

g == a
reachable == Cardinality(seen)
maxCycle == IF m \div g > want THEN want ELSE m \div g

StrideInit ==
  /\ \E l \in Layout : m = l[1] /\ k = l[2]
  /\ i = 0 /\ seenSamples = 0
  /\ phase = "sample"
  /\ h1 = 0 /\ h2 = 1 /\ a = 1 /\ b = 0
  /\ probe = 0 /\ seen = {}
  /\ gcdBad = 0 /\ short = 0
  /\ minReach = want /\ maxReach = 0 /\ sumReach = 0

\* keyFor gives no key: the sample is skipped.
SkipSample ==
  /\ phase = "sample" /\ i < Samples /\ i' = i + 1
  /\ UNCHANGED <<layout, phase, ofSample, gcdBad, tallies>>

\* A key is sampled, and gcdUint64(h2, m) called.
TakeSample(lo, hi) ==
  /\ phase = "sample" /\ i < Samples
  /\ h1' = splitDoubleHashPair(lo, hi)[1] /\ h2' = splitDoubleHashPair(lo, hi)[2]
  /\ a' = h2' /\ b' = m
  /\ phase' = "gcd"
  /\ UNCHANGED <<layout, i, probe, seen, gcdBad, tallies>>

GcdTurn ==
  /\ phase = "gcd" /\ b # 0
  /\ a' = b /\ b' = a % b
  /\ UNCHANGED <<layout, i, phase, h1, h2, probe, seen, gcdBad, tallies>>

GcdReturn ==
  /\ phase = "gcd" /\ b = 0
  /\ gcdBad' = gcdBad + (IF g > 1 THEN 1 ELSE 0)
  /\ phase' = "probe"
  /\ UNCHANGED <<layout, i, ofSample, tallies>>

ProbeTurn ==
  /\ phase = "probe" /\ probe < k
  /\ seen' = seen \cup {bitIndex(h1, h2, m, probe)}
  /\ probe' = probe + 1
  /\ UNCHANGED <<layout, i, phase, h1, h2, a, b, gcdBad, tallies>>

\* The sample is measured: on to the next one, with fresh loop variables.
NextSample ==
  /\ phase = "probe" /\ probe = k
  /\ i' = i + 1 /\ phase' = "sample"
  /\ h1' = 0 /\ h2' = 1 /\ a' = 1 /\ b' = 0
  /\ probe' = 0 /\ seen' = {}
  /\ sumReach' = sumReach + reachable
  /\ seenSamples' = seenSamples + 1
  /\ UNCHANGED <<layout, gcdBad>>

\* Variant: the smallest reach is only looked at when the largest does not grow.
MeasureSampleElse ==
  /\ NextSample
  /\ short' = short + (IF g > 1 /\ reachable < maxCycle THEN 1 ELSE 0)
  /\ maxReach' = IF reachable > maxReach THEN reachable ELSE maxReach
  /\ minReach' = IF reachable <= maxReach /\ reachable < minReach THEN reachable ELSE minReach

MeasureSample ==
  /\ NextSample
  /\ short' = short + (IF g > 1 /\ reachable < maxCycle THEN 1 ELSE 0)
  /\ minReach' = IF reachable < minReach THEN reachable ELSE minReach
  /\ maxReach' = IF reachable > maxReach THEN reachable ELSE maxReach

StrideNext ==
  \/ SkipSample
  \/ \E lo, hi \in Word : TakeSample(lo, hi)
  \/ GcdTurn \/ GcdReturn
  \/ ProbeTurn
  \/ MeasureSample

StrideSpec == StrideInit /\ [][StrideNext]_strideVars

-----------------------------------------------------------------------------

\* None of the sums h1 + i*h2 passes the largest word.
NoWrap == h1 + (k-1) * h2 < WordSize

\* The probes are the remainders of the wrapped sums: the mask taken when m is a
\* power of two gives what the remainder would (hash.go:119-125).
ProbesAreRemainders ==
  seen = {((h1 + j * h2) % WordSize) % m : j \in 0 .. probe-1}

\* How many positions the probes reach follows from what gcdUint64 returned, as
\* long as the sums do not wrap or m is a power of two, when wrapping is harmless
\* (hash_stride.go:43-52).
ReachFollowsGcd ==
  phase = "probe" /\ probe = k /\ (NoWrap \/ PowerOfTwo(m)) =>
    reachable = IF m \div g < k THEN m \div g ELSE k

\* The report is consistent: the least and the most positions reached enclose the
\* mean, a short cycle is only ever counted for a stride with a common divisor,
\* and never when m is a power of two (hash_stride.go:44-63).
ReportConsistent ==
  /\ phase = "sample" => short <= gcdBad /\ gcdBad <= seenSamples
  /\ PowerOfTwo(m) => short = 0
  /\ seenSamples > 0 =>
       /\ 1 <= minReach /\ maxReach <= want
       /\ minReach * seenSamples <= sumReach /\ sumReach <= maxReach * seenSamples
=============================================================================
