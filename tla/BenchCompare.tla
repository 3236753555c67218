---------------------------- MODULE BenchCompare ----------------------------
(***************************************************************************)
(* The benchmark (benchcompare/measure.go and its sweeps) as the           *)
(* benchcompare command runs it: parse the sweep's values, then measure    *)
(* one row per scenario or per value, filter and hash set side by side.    *)
(* A loop that a property depends on is an action for each turn.           *)
(*                                                                         *)
(* The filters are those of BloomFilter and CountingFilter.  Times, bytes  *)
(* and allocations are left out, but for what they are divided by.  Ratios *)
(* and rates are counted in quarters.                                      *)
(***************************************************************************)
EXTENDS Integers, Sequences, SequencesExt, FiniteSets, FiniteSetsExt

CONSTANTS
  BenchFlags,          \* what the command may be given
  Key, NoKey, M, K, CounterMax, Probe,  \* the filters, as in CountingFilter
  Tens                 \* 10, 100, ...: the powers of ten that the numbers reach

\* A part of a list of values that is blank, one that is no number, and the
\* number that strconv.ParseFloat reads from "NaN".
Blank == -100
Junk == -101
NaN == -102

Sweeps == <<"keylen", "mix", "fpr", "hash", "size">>

ASSUME BenchAssumption ==
  /\ BenchFlags \subseteq
       [valid : BOOLEAN,              \* the filter flags build a configuration
        explicit : BOOLEAN,           \* with -m
        capacity : Nat \ {0},         \* ExpectedCapacity
        rate : 1..3 \cup {NaN},       \* FalsePositiveRate
        ratio : Int,                  \* -hit-ratio
        nanCount : Int,               \* int(NaN), and whether as many bits as
        nanFits : BOOLEAN,            \* uint64(NaN) fit: the machine's choice
        repeats : Int,
        sweeps : SUBSET ToSet(Sweeps),
        values : Seq(Int)]            \* the parts of the list of values
  /\ M \in Nat \ {0} /\ K \in Nat \ {0} /\ Probe \in [Key -> [0..K-1 -> 0..M-1]]
  /\ \A f \in BenchFlags : f.sweeps = {} =>
       \A i \in 0 .. f.capacity-1 : <<"key", i>> \in Key /\ <<"stream", i>> \in Key
  /\ Tens \subseteq Nat /\ IsFiniteSet(Tens)

VARIABLES
  cfg,      \* the flags, and what became of them
  sweep,    \* the sweep that runs, or "none" for all scenarios
  values,   \* its values
  rows,     \* the comparisons made so far
  index,    \* the loop variable
  work,     \* what the loop has come to
  bpc

benchVars == <<cfg, sweep, values, rows, index, work, bpc>>

BF == INSTANCE BloomFilter WITH bits <- {}, inserts <- 0, answer <- <<>>, added <- <<>>
CF == INSTANCE CountingFilter WITH
  Width <- DOMAIN CounterMax, cells <- {}, width <- 8, n <- 0, last <- <<>>

BenchStart ==
  /\ sweep = "none" /\ values = <<>> /\ rows = <<>>
  /\ index = 0 /\ work = <<>>
  /\ bpc = "flags"

BenchInit == cfg \in BenchFlags /\ BenchStart

-----------------------------------------------------------------------------
(* The keys *)

makeKeys(n) == [i \in 1..n |-> <<"key", i - 1>>]

\* The first half once, then again until there are n; undefined for n = 1.
makeMixedStream(n) ==
  LET half == n \div 2
  IN  [i \in 1..n |-> <<"stream", IF i <= half THEN i - 1 ELSE (i - 1) % half>>]

\* A count above n is cut to n.
HitCount(n, ratio) ==
  LET count == IF ratio = NaN THEN cfg.nanCount ELSE (n * ratio) \div 4
  IN  IF count > n THEN n ELSE count

\* Variant: all hits first.
targetHitsAtOnce(i, n, hitCount) == hitCount

\* After key i, (i + 1) * hitCount / n are hits; of a negative count none are,
\* whether or not the product wraps.
targetHits(i, n, hitCount) == ((i + 1) * hitCount) \div n

NoLookups == [keys |-> <<>>, hitIdx |-> 0, missIdx |-> 0]

\* Key i of the lookup keys is the next hit, or the next miss.
LookupAdded(w, i, n, hitCount) ==
  IF w.hitIdx < targetHits(i, n, hitCount)
    THEN [keys |-> Append(w.keys, <<"key", w.hitIdx>>), hitIdx |-> w.hitIdx + 1, missIdx |-> w.missIdx]
    ELSE [keys |-> Append(w.keys, <<"miss", w.missIdx>>), hitIdx |-> w.hitIdx, missIdx |-> w.missIdx + 1]

\* The check that closes makeMixedLookupKeys.
MixedCountsAgree(w, n, hitCount) == w.hitIdx = hitCount /\ w.missIdx = n - hitCount

\* How many decimal digits a number has.
digits(i) == 1 + Cardinality({t \in Tens : t <= i})

\* Variant: the dash is forgotten.
minKeyLenShort(n) == digits(n - 1) + 3

\* The shortest length CompareKeyLengthSweep lets through.
minKeyLen(n) == digits(n - 1) + 4

\* makeKeysWithLength panics at a key its length is too short for.
KeysFit(n, keyLen) == \A i \in 0..n-1 : 4 + digits(i) <= keyLen

-----------------------------------------------------------------------------
(* The workloads *)

NoBits == [b \in BF!Byte |-> {}]
NoCounts == [c \in 0..M-1 |-> 0]

NoStream == [bits |-> NoBits, count |-> 0, bloomFP |-> 0, set |-> {}, hashFP |-> 0]

\* Variant: a key the filter has is added all the same.
BloomSeesAlways(w, key) ==
  [bits |-> BF!SetProbed(w.bits, key), count |-> w.count + 1,
   bloomFP |-> IF BF!Has(w.bits, key) THEN w.bloomFP + 1 ELSE w.bloomFP,
   set |-> w.set, hashFP |-> w.hashFP]

\* A key the filter has is counted, another is added.
BloomSees(w, key) ==
  IF BF!Has(w.bits, key)
    THEN [bits |-> w.bits, count |-> w.count, bloomFP |-> w.bloomFP + 1, set |-> w.set, hashFP |-> w.hashFP]
    ELSE [bits |-> BF!SetProbed(w.bits, key), count |-> w.count + 1, bloomFP |-> w.bloomFP,
          set |-> w.set, hashFP |-> w.hashFP]

HashSees(w, key) ==
  IF key \in w.set
    THEN [bits |-> w.bits, count |-> w.count, bloomFP |-> w.bloomFP, set |-> w.set, hashFP |-> w.hashFP + 1]
    ELSE [bits |-> w.bits, count |-> w.count, bloomFP |-> w.bloomFP, set |-> w.set \cup {key}, hashFP |-> w.hashFP]

-----------------------------------------------------------------------------
(* One row *)

\* ops divides the times, items the bytes.
Row(scenario, label, n, ops, items, detail) ==
  [scenario |-> scenario, label |-> label, n |-> n, ops |-> ops, items |-> items, detail |-> detail]

\* The comparisons let through a NaN.
RatioAccepted(ratio) == ratio = NaN \/ ratio \in 0..4
RateAccepted(rate) == rate = NaN \/ rate \in 1..3

\* Every scenario builds a filter first, whose bits are allocated.
Sizable(c) == c.explicit \/ c.rate # NaN \/ c.nanFits

compareAdd(c, label, keyLen) ==
  Row("add", label, c.capacity, c.capacity, c.capacity, [rate |-> c.rate, keyLen |-> keyLen])

\* What the lookups return is dropped.
compareContains(scenario) == Row(scenario, 0, cfg.capacity, cfg.capacity * cfg.repeats, cfg.capacity, <<>>)

compareContainsMixed(ratio, keys) ==
  Row("contains_mixed", ratio, cfg.capacity, Len(keys) * cfg.repeats, cfg.capacity, keys)

compareMixedStream ==
  Row("mixed_stream", 0, cfg.capacity, cfg.capacity, work.count,
      [bloomFP |-> work.bloomFP, hashFP |-> work.hashFP, distinct |-> Cardinality(work.set)])

compareRemove == Row("remove", 0, cfg.capacity, cfg.capacity, cfg.capacity, work)

-----------------------------------------------------------------------------
(* The command *)

Stop(outcome) ==
  /\ bpc' = outcome /\ rows' = <<>> /\ index' = 0 /\ work' = <<>>
  /\ UNCHANGED <<cfg, sweep, values>>

Compared(row) ==
  /\ rows' = Append(rows, row) /\ index' = 0 /\ work' = <<>> /\ bpc' = "run"
  /\ UNCHANGED <<cfg, sweep, values>>

\* A loop over n keys starts, makes its next turn, has made them all.
Enter(loop, w) ==
  /\ bpc' = loop /\ index' = 0 /\ work' = w
  /\ UNCHANGED <<cfg, sweep, values, rows>>

Turning(loop) == bpc = loop /\ index < cfg.capacity

Turn(w) ==
  /\ index' = index + 1 /\ work' = w
  /\ UNCHANGED <<cfg, sweep, values, rows, bpc>>

Through(loop) == bpc = loop /\ index = cfg.capacity

\* The first sweep asked for, in the order main looks.
firstSweep ==
  IF cfg.sweeps = {} THEN "none"
  ELSE Sweeps[Min({i \in DOMAIN Sweeps : Sweeps[i] \in cfg.sweeps})]

FlagsFail == bpc = "flags" /\ ~cfg.valid /\ Stop("failed")

StartSweep ==
  /\ bpc = "flags" /\ cfg.valid /\ cfg.sweeps # {}
  /\ sweep' = firstSweep /\ bpc' = "parse"
  /\ UNCHANGED <<cfg, values, rows, index, work>>

Parsing == bpc = "parse" /\ index < Len(cfg.values)

part == cfg.values[index + 1]

\* A size has no sign, and NaN is a ratio or a rate.
IsNumber ==
  /\ part # Junk /\ (sweep = "size" => part \in Nat)
  /\ part = NaN => sweep \in {"mix", "fpr"}

ParseBlank ==
  /\ Parsing /\ part = Blank
  /\ index' = index + 1
  /\ UNCHANGED <<cfg, sweep, values, rows, work, bpc>>

ParseValue ==
  /\ Parsing /\ part # Blank /\ IsNumber
  /\ values' = Append(values, part) /\ index' = index + 1
  /\ UNCHANGED <<cfg, sweep, rows, work, bpc>>

\* A part is no number, or there is none.
ParseFails ==
  /\ bpc = "parse"
  /\ \/ Parsing /\ part # Blank /\ ~IsNumber
     \/ index = Len(cfg.values) /\ values = <<>>
  /\ Stop("failed")

Parsed ==
  /\ bpc = "parse" /\ index = Len(cfg.values) /\ values # <<>>
  /\ bpc' = "run" /\ index' = 0
  /\ UNCHANGED <<cfg, sweep, values, rows, work>>

\* Compare raises a lookup count that is not positive to 1; no sweep does.
StartCompare ==
  /\ bpc = "flags" /\ cfg.valid /\ cfg.sweeps = {}
  /\ cfg' = [cfg EXCEPT !.repeats = IF @ <= 0 THEN 1 ELSE @]
  /\ bpc' = "run"
  /\ UNCHANGED <<sweep, values, rows, index, work>>

\* The n-th scenario of AllScenarios is next.
Scenario(j) == bpc = "run" /\ sweep = "none" /\ Len(rows) = j - 1

AddRow == Scenario(1) /\ Sizable(cfg) /\ Compared(compareAdd(cfg, 0, 0))
HitRow == Scenario(2) /\ Compared(compareContains("contains_hit"))
MissRow == Scenario(3) /\ Compared(compareContains("contains_miss"))

RatioRefused == Scenario(4) /\ ~RatioAccepted(cfg.ratio) /\ Stop("failed")

StreamStart == Scenario(5) /\ cfg.capacity # 1 /\ Enter("bloom", NoStream)
StreamBloom == Turning("bloom") /\ Turn(BloomSees(work, makeMixedStream(cfg.capacity)[index + 1]))
StreamHash == Through("bloom") /\ Enter("hash", work)
StreamSet == Turning("hash") /\ Turn(HashSees(work, makeMixedStream(cfg.capacity)[index + 1]))
StreamRow == Through("hash") /\ Compared(compareMixedStream)

RemoveStart == Scenario(6) /\ Enter("fill", NoCounts)

indexed == makeKeys(cfg.capacity)[index + 1]

Fill == Turning("fill") /\ CF!Fits(work, indexed, K) /\ Turn(CF!Raised(work, indexed, K))

\* ErrCounterOverflow: Compare gives up, and returns no row.
FillOverflows == Turning("fill") /\ ~CF!Fits(work, indexed, K) /\ Stop("failed")

\* Then every key is removed again, whether or not Remove returns true.
Filled == Through("fill") /\ Enter("drain", work)
Drain == Turning("drain") /\ Turn(IF CF!Contains(work, indexed) THEN CF!Lowered(work, indexed) ELSE work)
RemoveRow == Through("drain") /\ Compared(compareRemove)

-----------------------------------------------------------------------------
(* The sweeps *)

Sweeping(s) == bpc = "run" /\ sweep = s /\ Len(rows) < Len(values)

value == values[Len(rows) + 1]

\* WithExpectedCapacity and WithFalsePositiveRate: without effect on an
\* explicit configuration.
WithExpectedCapacity(n) == IF cfg.explicit THEN cfg ELSE [cfg EXCEPT !.capacity = n]
WithFalsePositiveRate(p) == IF cfg.explicit THEN cfg ELSE [cfg EXCEPT !.rate = p]

KeyLengthRow ==
  /\ Sweeping("keylen") /\ value >= minKeyLen(cfg.capacity) /\ KeysFit(cfg.capacity, value)
  /\ Sizable(cfg) /\ Compared(compareAdd(cfg, value, value))

\* The share of hits that compareContainsMixed is given.
hitRatio == IF sweep = "mix" THEN value ELSE cfg.ratio

hitCount == HitCount(cfg.capacity, hitRatio)

MixStart ==
  /\ Scenario(4) \/ Sweeping("mix")
  /\ RatioAccepted(hitRatio) /\ Sizable(cfg) /\ Enter("mix", NoLookups)

MixKey == Turning("mix") /\ Turn(LookupAdded(work, index, cfg.capacity, hitCount))

MixRow ==
  /\ Through("mix") /\ MixedCountsAgree(work, cfg.capacity, hitCount)
  /\ Compared(compareContainsMixed(hitRatio, work.keys))

FPRRow ==
  /\ Sweeping("fpr") /\ RateAccepted(value) /\ Sizable(WithFalsePositiveRate(value))
  /\ Compared(compareAdd(WithFalsePositiveRate(value), value, 0))

HashRow == Sweeping("hash") /\ Sizable(cfg) /\ Compared(compareAdd(cfg, value, 0))

SizeRow ==
  /\ Sweeping("size") /\ value # 0 /\ Sizable(WithExpectedCapacity(value))
  /\ Compared(compareAdd(WithExpectedCapacity(value), value, 0))

Refused ==
  \/ sweep = "keylen" /\ value < minKeyLen(cfg.capacity)
  \/ sweep = "mix" /\ ~RatioAccepted(value)
  \/ sweep = "fpr" /\ ~RateAccepted(value)
  \/ sweep = "size" /\ value = 0

\* Variant: a value out of range is passed over.
ValueSkipped ==
  /\ Sweeping(sweep) /\ Refused
  /\ values' = SelectSeq(values, LAMBDA v : v # value) /\ UNCHANGED <<cfg, sweep, rows, index, work, bpc>>

\* A value out of range ends the sweep, and the rows before it are not returned.
ValueRefused == Sweeping(sweep) /\ Refused /\ Stop("failed")

\* i % half with half = 0, the panics of the key generators, and a slice of more
\* bytes than there can be.
Panics ==
  \/ Scenario(5) /\ cfg.capacity = 1
  \/ Through("mix") /\ ~MixedCountsAgree(work, cfg.capacity, hitCount)
  \/ Sweeping("keylen") /\ value >= minKeyLen(cfg.capacity) /\ ~KeysFit(cfg.capacity, value)
  \/ Scenario(1) /\ ~Sizable(cfg)
  \/ /\ Sweeping(sweep) /\ ~Refused
     /\ ~Sizable(IF sweep = "fpr" THEN WithFalsePositiveRate(value) ELSE cfg)

Panic == Panics /\ Stop("panicked")

Report ==
  /\ bpc = "run" /\ Len(rows) = IF sweep = "none" THEN 6 ELSE Len(values)
  /\ bpc' = "done" /\ UNCHANGED <<cfg, sweep, values, rows, index, work>>

Ended == bpc \in {"done", "failed", "panicked"} /\ UNCHANGED benchVars

BenchNext ==
  \/ FlagsFail \/ StartSweep \/ ParseBlank \/ ParseValue \/ ParseFails \/ Parsed \/ StartCompare
  \/ AddRow \/ HitRow \/ MissRow \/ RatioRefused
  \/ StreamStart \/ StreamBloom \/ StreamHash \/ StreamSet \/ StreamRow
  \/ RemoveStart \/ Fill \/ FillOverflows \/ Filled \/ Drain \/ RemoveRow
  \/ MixStart \/ MixKey \/ MixRow
  \/ KeyLengthRow \/ FPRRow \/ HashRow \/ SizeRow \/ ValueRefused
  \/ Panic \/ Report \/ Ended

BenchSpec == BenchInit /\ [][BenchNext]_benchVars

-----------------------------------------------------------------------------
\* Of the stream the hash set counts exactly the repeats, and the filter those
\* and the first sights it takes for repeats: what it counts too much is what it
\* never inserted, so that the count the bytes are divided by is never zero
\* (measure.go:323-395).
StreamAccounted ==
  \A i \in DOMAIN rows : rows[i].scenario = "mixed_stream" =>
    LET row == rows[i]
    IN  /\ row.detail.hashFP = row.n - (row.n \div 2)
        /\ row.detail.bloomFP - row.detail.hashFP = row.detail.distinct - row.items
        /\ row.detail.bloomFP >= row.detail.hashFP /\ row.items > 0

\* In any stretch of the lookup keys, hits come as often as in the whole, to
\* within one; the whole has the share of hits it was asked for (of NaN, the
\* count the machine makes of it), all different and all in the set
\* (measure.go:522-550).
LookupsInterleaved ==
  \A i \in DOMAIN rows : rows[i].scenario = "contains_mixed" =>
    LET n == rows[i].n
        keys == rows[i].detail
        hits == HitCount(n, rows[i].label)
        Hits(a, b) == {j \in a..b : keys[j][1] = "key"}
    IN  /\ Len(keys) = n
        /\ {keys[j] : j \in Hits(1, n)} \subseteq ToSet(makeKeys(n))
        /\ \A j, k \in 1..n : keys[j] = keys[k] => j = k
        /\ \A a \in 1..n : \A b \in a..n :
             LET miss == Cardinality(Hits(a, b)) * n - (b - a + 1) * hits
             IN  -n < miss /\ miss < n

\* The counting filter ends with every counter at zero: keys that share counters,
\* or are found before they are added, are removed as often as they were added
\* (measure.go:397-470).
RemovalDrains ==
  \A i \in DOMAIN rows : rows[i].scenario = "remove" => rows[i].detail = NoCounts

\* What hangs on the value a sweep's row is labelled with was measured with that
\* value.
LabelHolds(row) ==
  CASE sweep = "size" -> row.n = row.label
    [] sweep = "fpr" -> row.detail.rate = row.label
    [] sweep = "keylen" -> row.detail.keyLen = row.label /\ KeysFit(row.n, row.label)
    [] OTHER -> TRUE

\* A finished sweep has one row for each part of the list that is not blank, in
\* their order, which is how report.go labels them, measured with it; only a sweep
\* over sizes or rates of an explicit configuration is not (size_sweep.go:16-34,
\* sweep.go:13-31).
RowsMatchLabels ==
  bpc = "done" /\ sweep # "none" =>
    /\ \E place \in [DOMAIN rows -> DOMAIN cfg.values] :
         /\ \A i, j \in DOMAIN rows : i < j => place[i] < place[j]
         /\ {place[i] : i \in DOMAIN rows} = {p \in DOMAIN cfg.values : cfg.values[p] # Blank}
         /\ \A i \in DOMAIN rows : rows[i].label = cfg.values[place[i]]
    /\ \A i \in DOMAIN rows : LabelHolds(rows[i]) \/ (cfg.explicit /\ sweep \in {"size", "fpr"})

\* size_sweep.go:13 says that CompareSizeSweep "runs ScenarioAdd at each item
\* count": a row of a finished sweep is labelled with the count it ran at.
SizeSweepMeasuresCount ==
  bpc = "done" /\ sweep = "size" => \A i \in DOMAIN rows : LabelHolds(rows[i])

AskedRatios ==
  CASE sweep = "none" -> {cfg.ratio} [] sweep = "mix" -> ToSet(values) [] OTHER -> {}

AskedRates == {cfg.rate} \cup (IF sweep = "fpr" THEN ToSet(values) ELSE {})

\* The benchmark panics only on a stream of one key and where it was asked for
\* NaN: as a ratio on a machine that makes a negative count of it, or as a rate
\* that its filters are sized by on a machine that makes too many bits of it.
\* Whatever else it is given, the generators' own panics are never reached, and
\* a time is divided by zero only in a sweep over hit ratios, with a count of
\* lookups that is not positive (measure.go:486-550, keylength_sweep.go:26-30).
PanicsOnlyAtOneOrNaN ==
  /\ bpc = "panicked" =>
       \/ sweep = "none" /\ cfg.capacity = 1
       \/ NaN \in AskedRatios /\ cfg.nanCount < 0
       \/ NaN \in AskedRates /\ ~cfg.explicit /\ ~cfg.nanFits
  /\ \A i \in DOMAIN rows : rows[i].ops > 0 \/ (sweep = "mix" /\ cfg.repeats <= 0)
=============================================================================
