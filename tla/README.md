# TLA+ models of bloomlab

bloomlab is a Go library of Bloom filters (`bloom/`), a stream deduplicator built on them
(`dedup/`), command-line tools (`cmd/`) and a benchmark harness (`benchcompare/`). This
directory models its stateful core and the control of its tools, checks the models with TLC on small
instances, and proves the main results with TLAPS for every size, hasher, width and set of keys.
File and line references below are relative to the repository root; `bloom/counting.go` is meant
where a comment in a filter module says `counting.go`, and other comments name the file alone.

## The system

| Component | State | Operations | What makes it correct |
|---|---|---|---|
| Counting filter `bloom/counting.go` | counters, width, insert count `n` | Add, Remove, Contains, Clear, MaxCounter, CounterHeadroom | a key added more often than removed is found; the counters are exactly what the live keys explain; `n` counts live insertions and cannot wrap; headroom is honest |
| Counter stores `bloom/counters.go` | bytes holding 4, 2 or 1 counters, or wider words | at, inc, dec, clear, max | a counter access disturbs no neighbour |
| Classic filter `bloom/bloom.go` | bytes of bits, insert count | Add, Contains, FillRatio | added keys are found; no bit is set that no added key probes |
| Double hashing `bloom/hash.go`, `hash_derive128.go` | none | Derive, bitIndex | probes are positions, also when sums wrap at 2^64 |
| Hash families `bloom/hash_{fnv,murmur3,xxhash,wyhash,siphash,highway}.go` | the walk over one key | Derive | every byte is read once, none past the end, the length is told; the mixing agrees with published test vectors |
| Stride measurement `bloom/hash_stride.go` | tallies of one measurement | MeasureDoubleHashStride | the report is consistent |
| Quality and tuning `bloom/hash_{quality,seeds,seed_score,tune,keys,measure}.go` | a ranking, a seed ladder, a leader | CompareSeeds, TuneSeed, RecommendHasher | every key of a file is probed; ranking and tuning agree; no admitted candidate beats the recommendation |
| Configuration `bloom/{config,filter_config,sizing}.go`, `bloom/setup`, `cmd/internal/filterflags` | a configuration in a flat, a structured and a builder form | options, copy helpers, Validate, Size, conversions | the forms make the same filter or fail alike; converting and tuning lose nothing |
| False positive theory `bloom/fpr*.go` | none | formulas | numeric |
| Classifiers `dedup/{classifier,counting,key}.go` | a filter, tallies `novel`, `dup`, `removed` | Classify, Remove | a key is inserted once; tallies, filter count and verdicts agree |
| Stream runs `dedup/stream.go` | a reader, a writer, options | Run, RunCounting | what is written agrees with the tallies, also when a write, a read or an Add fails |
| Input `dedup/{input,samples}.go` | a chosen reader | OpenInput, SampleReader | a run reads what its arguments name, to the end, or fails |
| URL keys `cmd/internal/urldedup` | none | Key | two lines have one key exactly if they name one resource under the options |
| Flags and commands `cmd/...` | parsed flags | main | flags that conflict are refused before anything is read |
| Benchmark comparison `benchcompare/` | the rows measured | scenarios, sweeps, reports | key streams have the hits, misses and repeats they claim; a row is measured with what labels it |

Interactions are calls. A command parses flags through `filterflags` into a `setup.Builder`, gets a
`FilterConfig` or `CountingConfig`, makes a filter from it, wraps the filter in a classifier, and
hands the classifier and a reader to `Run` or `RunCounting`. A configuration may call the tuner,
which measures hashers on the configuration's own layout. Nothing in the repository starts a
goroutine, keeps a lock or writes a file: the hard behaviour is not concurrency but

* calls that fail half-way and leave their effects (`Add` on overflow, a write that fails after the
  filter took the line),
* long series of legal calls (false positives that are removed later; a classifier that is run again
  after a failure; options that change the mode a configuration infers),
* shared storage (counters of several keys, several counters in one byte),
* numeric edges (counters at their limit, an unsigned count, sums that wrap, NaN),
* code that is written twice and must agree (two classifiers, three configuration forms).

`PROJECT.json` lists each of these hazards at its line with the properties that watch it.

## The modules

    ApproxBag            what a filter promises, without bits or hashes
      ^ refines                     ^ refines
    CountingLedger            BloomFilter          StreamOutput
      | EXTENDS                 |      \____________/    |
    CountingFilter <- refines - | -- CountingLoop  |      |
      |  |                      |        ClassifierRun    |
      |  \______________________|______________|______ CountingRun
      |                         |          DedupParity (ClassifierRun, CountingFilter)
    BenchCompare (both filters)

    DoubleHash <- StrideMeasure     HashReads      ConfigForms
    HashTune                        UrlKeys <- DedupCommands

The `...Proofs` modules extend the module they are named after; **DedupParityProofs** also holds the
proofs about BloomFilter, and **ToolProofs** those about HashTune, UrlKeys, DedupCommands and
BenchCompare.

**CountingFilter** - `bloom.CountingFilter`, one call per step. `cells` are the counters, `width` the
counter width, `n` the insert count, `last` the last call with its answer. `Add`, `AddOverflow` (the
early return at probe `j`, whose earlier increments stay), `Remove`, `RemoveAbsent`, `Lookup` and
`Clear` are the calls. `Hits(key, j, c)` says how many of the first `j` probes land on counter `c`,
so that keys whose probes repeat a counter are covered. The hasher is the constant `Probe`.

**CountingLedger** - the same filter with the ledger of a caller who keeps the rule of
`bloom/counting.go:97` (remove only what was added). `live` counts the insertions not yet removed,
`residue` what failed Adds left in each counter.

**ApproxBag** - the abstract specification: a bag of keys and a set of admitted keys. Inserting admits
and never withdraws, deleting withdraws nothing that is still in the bag.

**CountingLoop** - the probe loops of Add, Contains and Remove, one counter access per step, over the
stores of `bloom/counters.go`: four 2-bit counters or two 4-bit counters to a byte, with the shifts
written as place values, or one counter per element. `op`, `key` and `i` are the running loop;
`before` remembers the counters the running call began with.

**BloomFilter** - `bloom.Filter`; a byte is the set of its bits that are 1.

**StreamOutput** - what Run and RunCounting share: the options that decide which results are written,
the write that may fail, the read error, the end of input, and the next run of the same classifier.
`pc` is where the run is, `pending` the result about to be written.

**ClassifierRun** - Run with `dedup.Classifier` over BloomFilter. **CountingRun** - RunCounting with
`dedup.CountingClassifier` over CountingFilter: classify, remove-prefix lines, overflow. A line is
known by the key of its text and the key of its remainder after the prefix. History variables hold
what the code does not keep: which keys are in the filter, which were classified since their last
removal. **DedupParity** - both side by side on the same lines.

**HashReads** - how each of the six hashes walks a key: one action per block, word, tail and finish of
`bloom/hash_*.go`. `off` is the slice offset, `fed1` and `fed2` say which byte of the key went into
which slot of which word of either half of the digest, `told` the length mixed in. A fall-through
tail, overlapping reads (wyhash) and packed buffers (highway) are what their slices and shifts make
of them; the arithmetic that mixes a word is left out.

**DoubleHash** - `bitIndex` and its neighbours over words of a size that is a parameter. Go's `&` is the
constant `BitAnd`, which `AndAssumption` fixes bit by bit, so that the module can be reasoned about;
the runs give it the community module's `&`.
**StrideMeasure** - `MeasureDoubleHashStride`, any two words for each sample. `gcdUint64` (`GcdTurn`,
`GcdReturn`) and `reachableProbeCount` (`ProbeTurn`) take one turn of their loops per step; `a` and `b`
are those of `gcdUint64`, `probe` and `seen` the loop variable and the set of `reachableProbeCount`,
all fresh for each sample. `MeasureSample` is what follows the two calls.

**ConfigForms** - the flat `Config`, the structured `CountingConfig` and the `setup.Builder` taken
through the same calls: constructors or flags, then options, copy helpers, two round trips to the
other form, and hash tuning (whose route through the flat form and back is followed). There are two
pairs of conversions: `Config.CountingConfig` and `CountingConfig.Config` carry the counter width
(`Structured`, `Legacy`, the call `RoundTrip`), `Config.FilterConfig` and `FilterConfig.Config` drop
it (`StructuredFilter`, `FlatFilter`, the call `FilterRoundTrip`). A layout is
known by what the sizing formulas are given, a rate by where it lies (zero, inside (0,1), one or
more, NaN). `incomplete` and `forked` are histories: an explicit sizing without a bit count was
given, and a copy helper the builder does not have was used.

**HashTune** - `hashtune` with the tuning code of `bloom/`: loading or generating the probe keys,
expanding the seed ladder one SplitMix64 step at a time (`state` is the seed to add next, `step` its
distance from its base seed), `CompareSeeds` as an insertion sort one seed at a time, `TuneSeed`, the
scoring of each strategy (seeded ones over the ladder, others once), and the pick under `PreferSpeed`
and its margin. What measuring a hasher yields is any pair of a chi-squared and a penalty, the same
each time it is measured; `Mix`, for SplitMix64, is any permutation.

**BenchCompare** - `benchcompare` with the library behind it: the sweep's list of values parsed part by
part, the key generators, each scenario over the operators of BloomFilter and CountingFilter, the five
sweeps row by row, and the panics. The loops that decide a row are actions, one for each turn: the
lookup keys (`mix`), the stream through the filter and through the hash set (`bloom`, `hash`), and the
keys added to and removed from the counting filter (`fill`, `drain`). `index` is the loop variable of
whichever runs, `work` what it has come to. Loops whose results are dropped are not modelled. A ratio
or rate may be NaN, which the range checks let through; what a NaN becomes as an integer Go leaves to
the implementation, so the number of hits (`nanCount`) and whether the bits fit into memory
(`nanFits`) are choices of the machine, made along with the flags.

**UrlKeys** - `urldedup.Key`: parsing with its three ways to find a host (after a scheme, after `//`, or
at the start of a line that has neither a port after it nor `://` anywhere, `HasMark`; other lines
without a scheme stay texts), `canonicalize`, tracking
parameters, default ports, `hostKey`. A URL is its parts; `net/url` is external and modelled by what
these functions get from it (`String` with `RawPath`, `Query` and `Encode`, `Hostname`). Which names,
parameters and spellings there are, which of them hold `://` (`Nested`) or end in a colon, so that two
slashes after them make one (`ColonName`), and what lower case and encoding make of them, are
constants. `TrimKey` and `IgnoreCaseKey` are the keys of lines that are no URLs to the command.

**DedupCommands** - the five deduplication commands over UrlKeys: conflicting flags, building the
filter, `OpenInput`, the sample, the lines read under the command's key function, the exit status.

**FilterInstance** and the **MC** modules hold the small instances; **MCHashing** runs HashReads or
StrideMeasure, and **MCTools** one of HashTune, BenchCompare and DedupCommands, while the variables of
the others rest. Definitions marked "Variant" are faulty versions of the definition below them; no
specification uses them, and substituting one for the original makes TLC report the property it is
paired with in `PROJECT.json`.

## The runs

| Run | Question | Instance |
|---|---|---|
| `counting_ledger` | does the filter serve callers that remove only what they added? | 3 keys, 4 counters, 3 probes, limits 3 (width 2) and 4 |
| `counting_loop` | do the loops over packed bytes do what one call is said to do, keep the count from wrapping, and end? | 2 keys, 7 counters, widths 2 and 4 at their real limits, and unpacked |
| `counting_run` | do filter, tallies and output stay in step over failing and repeated runs, and who can lose a key? | 6 lines over 3 keys, 5 option sets, limits 3 (width 2) and 2, 5 lines read |
| `window_doc` (violation) | may a window remove exactly the lines it classified? | the same, 1 option set |
| `dedup_parity` | do the two deduplicators judge alike, and does the classic filter keep its promise? | 5 keys, 9 positions in two bytes, limit 2, 6 lines |
| `hashing` | does each hash read the whole key and nothing else? are probes positions, and is the stride report consistent? | key lengths 0 to 98, 127 to 146, 254 to 258; 4-bit words, 8 layouts, 3 samples, all pairs of words |
| `config_forms` | do the three configuration forms agree? | two values per argument, 4 calls |
| `roundtrip_doc` (violation) | does the round trip through `FilterConfig` keep the counter settings? | the same |
| `tools` | do the tools do what their flags say, from their flags to their exit? | see below |
| `sweep_doc` (violation) | does a size sweep measure the counts its rows are labelled with? | the benchmark half of `tools` |
| `terminal_doc` (violation) | do the stream commands read stdin without arguments? | the command half of `tools` |
| `slash_doc` (violation) | does `-normalize` make trailing slashes equal? | the same |

Bounds, and why they are enough. The keys of `FilterInstance` were chosen for their probes: one key
repeats a counter, and one is a false positive once another is in, so every interaction between
two keys' counters occurs; limits 3 and 4 let counters fill, overflow at each probe, and be drained
again. The ledger run needs no bound on the number of calls: the counters bound it. In
`counting_loop` the last byte of a packed store is partly used and the probed counters are
neighbours in a byte. `counting_run` and `dedup_parity` bound the lines over all runs (`MaxLines`):
five lines suffice to insert a key, make another a false positive, remove it, fail and run again (at
limit 3 two keys are in the filter together, at limit 2 the second overflows); six to bring
`dedup_parity` to an overflow. Width 8 stands for all unpacked stores with its limit scaled down,
since their code is the same at each limit. In `hashing`, the lengths give every tail after no, one
and two blocks of the widest loop (wyhash's, of 64 bytes; where a block loop stands after two, it
stands after more, which the theorems confirm), and wrap the length byte of siphash at 256; words of four bits wrap often, as 64-bit words with random strides do. In
`config_forms` each argument has its zero value, which the code treats specially, and one other; four
calls after construction reach every change of mode.

`tools` varies one thing at a time, exhaustively. *hashtune*: every way to come by the probe keys
(none, fewer and more of them than the sample count, zero meaning the default), every ladder (empty,
with a repeated seed, expanded), and every choice between two strategies (three margins, speed or
quality), with three seeds, three chi-squared values (zero, which a score replaces by one, among
them), two penalties and two times; ladders grow by 0 to 2 steps, over a mixer that leads one seed
into another's sequence, and 1000 (`MaxFloat`) is above all that is measured. *benchcompare*: scenarios at capacities 1 to 6 and every hit ratio
from below 0 to above 1 in quarters, and NaN as ratio or rate where it becomes a negative number,
zero or one above every count, sweeps at capacities 3 and 11 over every kind of value list
(blank parts, junk, zero), target and explicit sizing; 9 positions, 2 probes and a counter limit of 3
make false positives and an overflow occur, and the powers of ten up to 100 (`Tens`) are all that
numbers of keys reach. *Deduplication*: all pairs of lines within a family (forms,
schemes, hosts and ports; paths with and without trailing and escaped slashes; queries with tracking,
malformed and empty parameters; `://` in path, query or fragment) under each of the 32 combinations of URL options that leaves the
family something to tell apart, and two spellings of one URL under every combination of flags, and of
arguments, kind of stdin and sample, for each command.

Fairness is assumed in one place: `CountingLoop` has weak fairness on the steps of a call that has
begun, because the goroutine that made the call executes its loop to the end. No step waits for
another party. Nothing is assumed of callers: they may never call again.

Deadlock checking is off where a run may end: streams stop at `MaxLines` and configurations after
`MaxCalls`. In `hashing` and `tools` it is on: what has ended stutters in a state of its own, so that
a walk or a tool that stops elsewhere is reported.

### What the violation runs show

* `window_doc`: a line judged a duplicate by a false positive is not inserted, yet a removal line for
  it drains the counters of a key that is. `README.md:408` offers the classifier for sliding windows.
* `roundtrip_doc`: `README.md:509` says that `cfg.FilterConfig()` and `fc.Config()` round-trip the counter
  settings; a `FilterConfig` has none, and the width comes back as the default of 8.
  `ConversionsKeepFilter` states what the two pairs of conversions do keep.
* `sweep_doc`: a size sweep of an explicit configuration (`benchcompare -m -k -sweep-size`) adds the same
  number of keys for every count of its list, because `WithExpectedCapacity` leaves explicit sizing
  alone; the rows are labelled with the counts. A rate sweep has the same defect, in
  `WithFalsePositiveRate`. `RowsMatchLabels` states what holds.
* `terminal_doc`: the stream commands drop `sampleNeeded`; at a terminal without a file they come to
  their run with a nil reader, where `dedup/input.go:16` treats zero arguments as stdin.
* `slash_doc`: `canonicalize` trims `Path` and not `RawPath`; after an escaped slash the trailing slash
  changes the key, which `cmd/internal/urldedup/options.go:5-6` says it does not. When the path ends
  in the escaped slash itself, it is that one that is trimmed, and two resources get one key;
  `KeysAreResources` sets both kinds of path apart.

Two more disagreements have no run of their own, because a property of the passing runs says exactly what
the code does instead:

* A target rate of NaN passes both comparisons of `TargetSpec.Validate` (`bloom/sizing.go:71`), and a hit
  ratio of NaN, from `-hit-ratio` or a sweep's list, those of `benchcompare/measure.go:248` and
  `lookup_mix_sweep.go:22`, although the errors beside them require a rate in (0, 1) and a ratio in
  [0, 1]. As an int the ratio's number of hits is the least one on amd64, and the key generator panics
  (`measure.go:543`); on arm64 it is 0, and where it is the greatest all lookups are hits. In the same
  way the rate may become a number of bits that no slice has. `PanicsOnlyAtOneOrNaN` states that nothing
  but these and a stream of one key leads to a panic.
* `parseURL` tries a scheme before a line only if the line has no `://` anywhere
  (`cmd/internal/urldedup/normalize.go:13`): `h/a?u=http://x` is no URL to it, keeps the query that
  `cmd/internal/urldedup/options.go:8` says `-strip-query` removes, and is skipped under `-domain-only`.
  `KeysAreResources` takes such lines for texts.

Two comments are looser than the code and have no run of their own: `bloom/counting.go:94-95` (Remove
returns false when all k probed counters are zero; one is enough) and `bloom/hash_stride.go:6` (a
common divisor of stride and m shortens the cycle; not once a sum wraps and m has an odd factor, as
`ReachFollowsGcd` states). Hence `ShortCycleKeys` never counts a stride for its divisor: `ShortNeedsWrap`
shows that a cycle is only short where a sum wraps and m is no power of two.

## The proofs

Eight modules, checked by TLAPS from the named assumptions of the modules they extend: at least one
counter and one probe, probes within the counters, a positive limit for each width (3 and 15 for the
packed ones), keys and lines any sets, infinite included; key lengths naturals; the zero value among
each configuration argument; words of a whole number of bits, with `&` what its bits say.

**CountingFilterProofs, CountingLedgerProofs.** `FilterTypeCorrect`, `LossOnlyByRemove` (a key stops
being found only by Clear, or by a Remove that drains a counter both keys probe), `LedgerInvariant`
with `LedgerTypeCorrect`, `CountersAccounted`, `CountExact` and `FoundWhileLive`, then `HeadroomKept`
and `LedgerKeepsPromise`, the refinement of ApproxBag. `NoFalseNegative` is not inductive: after a
Remove of one key, nothing in it says how high the counters of another are. The strengthening is
`Accounting`: each counter is exactly the number of *marks* of the live insertions on it, plus what
failed Adds left. A mark is a triple (key, which insertion, which probe), so that the sum over keys is
the cardinality of one set and needs no induction over data. `Accounting` makes every decrement of a
disciplined Remove meet a counter that is high enough, so that none is lost at the floor.

**CountingLoopProofs.** `LoopsAreCalls`: `LoopSpec => ImplementsFilter`, the refinement of
CountingFilter by the loops over packed bytes, for every m, k and width; and `NeighboursUntouched`:
`LoopSpec => OneCounterPerStep`. The argument has two halves. In a byte, a write at one place value
leaves the values at the others (`QuarterWritten` and `NibbleWritten`, one case per pair of places), and
two counters of one element have different places (`SlotPlaces`); so `WriteOneSlot` lets the counters
be thought of one by one. And `LoopInv` says what a loop has done after `i` probes: raised or lowered
each counter by the hits of the first `i` (`HitsOfProbes` counts one probe more), or found no zero. A
returning loop then maps to the call of CountingFilter with that outcome, any other step to a stutter.
`LoopTypeCorrect` says that the insert count does not wrap: what failed Adds leave in shared counters
lets Remove succeed more often than Add did, and only the guard of `bloom/counting.go:108` stops the
count at zero.

**DedupParityProofs.** For the classic filter, `BitsExact`: `BitsAreProbed` needs that position and
(byte, bit) determine each other; and `FilterIsABag`, the refinement of ApproxBag by a filter that
never withdraws. For the two deduplicators, `VerdictsAgree` and `OccupancyAgrees`. Neither property is
inductive alone: that verdicts agree rests on the occupied positions, and these stay the same only
because the verdicts agree. `ParityInv` joins them, and adds where the runs stand after an overflow:
the counting one has failed and the other has not, so that neither takes a further line.

**CountingRunProofs.** `NeverInsertedTwice`, `InsertedIsFound` and `OutputExact`. A run may break the
rule of the ledger, so its exact account does not carry over; `InsideInv` is a lower bound instead:
until a key never inserted is removed, every counter is at least the probes of the keys inside, which
what a failed Add leaves can only help. `OutputInv` adds to `OutputMatchesTally` that a result is due
exactly while the run is about to write it. `RunIsFilter` shows that a run uses the filter by its
calls, so that the filter's own theorems hold of it. `CountBetween` is about the tallies: the filter's
count is at least what they say, backed by k increments for each key, and exactly what they say until
a key never inserted is removed. The counters are summed as the size of a set of *units*, one for each
increment, and `CountInv` follows that set through an Add that adds k of them, one that fails and
leaves some, and a Remove that takes as many as it finds.

**ConfigFormsProofs.** `FormsAlwaysAgree`, `ConvertingKeepsFilter`, `TuningIsLayoutFree` and
`ModeStaysPut`. `Pure` says that a structured form carries nothing of the mode it is not in, so that
the flat form loses nothing of it but a mode it can infer again; `Together` that the structured form
is the conversion of the flat one. Each option preserves both; so do both round trips, since what
the one without the width drops, both forms lose.

**HashingProofs**, on the key walks: `NoReadPastTheKey`, `NoByteLeftOut`, `NoTwoBytesInOneSlot` and `LengthAlwaysTold`, for
keys of every length. `HashInv` says that what was fed is a prefix of the key, packed into whole words
that lie before the next one; the tails then feed what is left.

**HashingProofs**, on the stride: `MaskIsHarmless`, `ReachIsTold` and `ReportIsConsistent`, for words of
any number of bits, any layouts and any derived words. The mask is taken apart from its lowest bit: a
power of two above 1 is even and twice a power of two (`HalfPower`), so that the least m whose mask
were not the remainder would have a smaller one (`MaskIsRemainder`); in the same way a power of two
divides the word size, and a wrap is harmless (`WrapHarmless`). `ReachFollowsGcd` is not inductive, nor
does the result of `gcdUint64` by itself say which probes meet. `Euclid` keeps that the numbers of its
loop are sums of multiples of h2 and m and share no divisor but theirs, so that what it returns is a
divisor of both *and* such a sum (`GreatestDivisor`). From the two it follows that two probes meet
exactly if m over the divisor divides their distance (`ProbesMeet`): the first probes, as many as that
quotient, are all different, and the others repeat them (`ReachCount`). `Tallies` is
`ReportConsistent` with what holds while a sample is under way. Three more follow: `GcdReturned` (what
is returned is the greatest common divisor), `ShortNeedsWrap`, and `MeasurementAdvances`: each step
brings one of the loops closer to its end, the turns of `gcdUint64` by making b smaller.

**ToolProofs**, on hashtune: `KeysAreProbed`. `LadderIsComplete` rests on `LadderInv`: the base seeds the
loop is through with have all their followers, the present one has those up to `step`, and `state`
follows the last of them; a seed already there is not added again but its followers still are, which is
why the invariant speaks of followers by their places and not of the seeds last added. `RankingAgrees`
rests on `MeasureInv`: both the head of the insertion sort and the seed tuning keeps are the *first*
of the least scores so far (`Lead`), and a hasher measured before measures the same. From any such
ladder and measurements `RecommendationIsUnbeaten` follows by `PickInv`, which says of the strategies
passed so far what the property says of all (also that nothing was picked while none was within the
margin, when the first of the list stays); the margin is a fraction, and products replace quotients.

On the deduplication commands: `InputIsRead` rests on `ReadInv`, by which the lines read and the lines
unread are, put together, the chosen input. `KeysNameResources` compares the key, which a line is
rewritten to option by option, with what names the resource, which leaves out what the options ignore.
It is proved part by part: scheme, host and port, then the path, where trimming the decoded path and
keeping or losing the escaped one is where the work is, then the query.

On the benchmark: `BenchTypeInv` says which loop a sweep runs and what each loop works on. `MixInv` says
that after i lookups `i * hits \div n` were hits; the rest of `LookupsAreInterleaved` is arithmetic
about rounded-down shares (`QuotaGrows`, `QuotaEven`). `StreamInv` says
that whatever is past the first half was seen before, since a filter keeps what it has (`SeenStays`).
`RemoveInv` remembers the counters after each of the keys was added (`Levels`), and says that when i
keys are removed again, the counters and what i keys had added are what all keys had: so every removal
is found and no decrement is lost. `PanicInv` with `MixInv` shows that the generators' own checks hold
(`CountsAgree`, `LongEnough`) unless a NaN became a negative number of hits; `AskedForPanic` goes through
the ways to panic, and `PanicOnlyAtOneKeyOrNaN` follows. `LabelInv` keeps, while the list is parsed, the increasing map from
values to the parts that are not blank.

The other theorems in `PROJECT.json` are the invariants these rest on and type correctness.

Assumptions for the tools: seeds any set with any permutation as the mixer, scores natural numbers
below `MaxFloat`; for URLs, that lower case and the encoding of parameters do what `net/url` and
`strings` promise (lower case is idempotent, the encoding of a set of parameters has those and only
those); for the benchmark, capacities at least one, a NaN
that becomes any integer, and `Tens` a finite set of naturals. That it holds
powers of ten is what makes `digits` count digits; the proofs need only that longer numbers have no
fewer.

What is only model-checked: liveness (`CallsReturn`), since the prover handles neither fairness nor
ENABLED. What of it does not need them is proved: `CallsRunDown`, by which each step of a running call
leaves fewer steps to go.

## Not modelled

The mixing arithmetic of the hash families; the false positive formulas and their derivation
(`bloom/fpr*.go`); the statistics and timings behind a score and behind a benchmark row (chi-squared,
collisions, correlation, allocations); the layout of reports and error texts; flag registration and
defaults; String methods. They are pure functions of floating point or text, without state or
order, and TLC has no reals. `bloomdemo`, `countingdemo` and `fprcalc` print fixed calls or formulas.
The sizing formulas are functions of their inputs; their rounding is not modelled. Memory exhaustion
and the width of 64-bit lengths (`bloom/bloom.go:24`) are out of the model: a slice that long cannot
be made. `PROJECT.json` gives the reason per component.

## Plan

*Done*: the counting filter, its ledger, the abstract bag; packed stores and their refinement; the
classic filter; streams and parity; hash walks, double hashing and stride; configuration forms; the
tools; proofs of all of these.

*Left*: the hazard of `PROJECT.json` that no property covers, `(m+7)/8` at `bloom/bloom.go:24`, which
needs a slice that cannot be made.
