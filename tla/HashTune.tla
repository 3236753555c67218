------------------------------ MODULE HashTune ------------------------------
(***************************************************************************)
(* Hash tuning (bloom/hash_tune.go, hash_seeds.go, hash_seed_score.go) as  *)
(* the hashtune command runs it (cmd/hashtune/main.go): load the probe     *)
(* keys, resolve the seed ladder, rank the seeds of the first strategy,    *)
(* tune each strategy, and recommend one.                                  *)
(*                                                                         *)
(* What the measurements of a strategy and a seed come to is any pair of a *)
(* chi-squared and a penalty, the same each time it is measured; how long  *)
(* a Derive takes is any time.  A chi-squared is counted in a unit of its  *)
(* own, a score in quarters of that unit.                                  *)
(***************************************************************************)
EXTENDS Integers, Sequences, SequencesExt

CONSTANTS
  Seed,
  Mix,          \* splitMix64, a permutation of the seeds
  Ladder,       \* DefaultTuneSeeds
  Flags,        \* what the command may be given
  Chi, Penalty, Ns,
  DefaultSamples,
  MaxFloat      \* math.MaxFloat64: above whatever is measured

NoFile == -1

ASSUME TuneAssumption ==
  /\ Mix \in [Seed -> Seed] /\ \A s, t \in Seed : Mix[s] = Mix[t] => s = t
  /\ Ladder \in Seq(Seed) /\ Ladder # <<>>
  /\ \A f \in Flags :
       /\ f.samples \in Int
       /\ f.keyFile \in Nat \cup {NoFile}     \* the non-empty lines of the key file
       /\ f.fromSamples \in BOOLEAN           \* -key-dist samples
       /\ f.layout \in BOOLEAN                \* the filter flags can be sized
       /\ f.base \in Seq(Seed)                 \* what -seeds names, if anything
       /\ f.expand \in Int
       /\ f.strategies \in Seq(STRING) /\ f.strategies # <<>>
       /\ \A i \in DOMAIN f.strategies : f.strategies[i] # "none"
       /\ f.only \in BOOLEAN                  \* -strategy
       /\ f.preferSpeed \in BOOLEAN
       /\ f.margin[1] \in Int /\ f.margin[2] \in Nat \ {0}   \* -chi-margin num/den
  /\ Chi \subseteq Nat /\ Penalty \subseteq Nat /\ Ns \subseteq Nat
  /\ DefaultSamples \in Nat \ {0}
  /\ MaxFloat \in Nat /\ \A x \in Chi \cup Ns : x < MaxFloat
  /\ \A chi \in Chi, penalty \in Penalty : (IF chi <= 0 THEN 1 ELSE chi) * (4 + penalty) < MaxFloat

VARIABLES
  flags,        \* what the command was given
  samples, keys,\* TuneOptions.Samples, and the keys loaded from the file
  seeds,        \* the resolved ladder
  state, step,  \* ExpandTuneSeeds: the seed to add next, and its place after its base seed
  quality,      \* what each strategy and seed measured so far came to
  at, seedAt,   \* the loop variables over the strategies and over the seeds
  candidates,   \* report.Candidates
  tuned,        \* TuneSeed's best
  scores,       \* report.Strategies
  bestChi, bestRank, best,
  pc

tuneVars == <<flags, samples, keys, seeds, state, step, quality, at, seedAt,
              candidates, tuned, scores, bestChi, bestRank, best, pc>>

\* No recommendation.
NoScore == [strategy |-> "none", seed |-> 0, chi |-> 0, ns |-> 0]

strategies == flags.strategies

\* The seeds to start from: those asked for, or the default ones.
base == IF flags.base = <<>> THEN Ladder ELSE flags.base

TuneStart ==
  /\ samples = 0 /\ keys = 0 /\ seeds = <<>>
  /\ state = 0 /\ step = 0
  /\ quality = <<>>
  /\ at = 1 /\ seedAt = 1
  /\ candidates = <<>> /\ tuned = NoScore /\ scores = <<>>
  /\ bestChi = MaxFloat /\ bestRank = MaxFloat /\ best = NoScore
  /\ pc = "load"

TuneInit == flags \in Flags /\ TuneStart

-----------------------------------------------------------------------------
(* The probe keys and the layout *)

\* LoadKeyFile reads at most this many keys.
MaxKeys == IF flags.samples <= 0 THEN DefaultSamples ELSE flags.samples

Fail ==
  /\ pc' = "failed"
  /\ UNCHANGED <<flags, samples, keys, seeds, state, step, quality, at, seedAt,
                 candidates, tuned, scores, bestChi, bestRank, best>>

\* A key file with no line, samples asked for with no key file, or a layout
\* that cannot be sized: the command exits 1.
LoadFails ==
  /\ pc = "load"
  /\ \/ flags.keyFile = 0
     \/ flags.keyFile = NoFile /\ flags.fromSamples
     \/ ~flags.layout
  /\ Fail

\* Variant: the sample count has another default.
SamplesDefaultHalf ==
  IF flags.samples <= 0 THEN DefaultSamples \div 2 ELSE flags.samples

Samples == IF flags.samples <= 0 THEN DefaultSamples ELSE flags.samples

Load ==
  /\ pc = "load"
  /\ flags.keyFile # 0 /\ (flags.fromSamples => flags.keyFile > 0) /\ flags.layout
  /\ keys' = IF flags.keyFile = NoFile THEN 0 ELSE IF flags.keyFile < MaxKeys THEN flags.keyFile ELSE MaxKeys
  /\ samples' = Samples
  /\ seeds' = IF flags.expand > 0 THEN <<>> ELSE base
  /\ state' = base[1]
  /\ pc' = IF flags.expand > 0 THEN "expand" ELSE "compare"
  /\ UNCHANGED <<flags, step, quality, at, seedAt, candidates, tuned, scores, bestChi, bestRank, best>>

-----------------------------------------------------------------------------
(* ExpandTuneSeeds *)

\* Variant: a seed seen before is added again.
AddSeedAlways(out, seed) == Append(out, seed)

AddSeed(out, seed) == IF \E j \in DOMAIN out : out[j] = seed THEN out ELSE Append(out, seed)

\* A base seed, or one of those that follow it in the SplitMix64 sequence.
ExpandSeed ==
  /\ pc = "expand" /\ seedAt <= Len(base)
  /\ seeds' = AddSeed(seeds, state)
  /\ IF step < flags.expand
     THEN step' = step + 1 /\ state' = Mix[state] /\ UNCHANGED seedAt
     ELSE /\ step' = 0 /\ seedAt' = seedAt + 1
          /\ state' = IF seedAt < Len(base) THEN base[seedAt+1] ELSE state
  /\ UNCHANGED <<flags, samples, keys, quality, at, candidates, tuned, scores, bestChi, bestRank, best, pc>>

SeedsExpanded ==
  /\ pc = "expand" /\ seedAt > Len(base)
  /\ seedAt' = 1 /\ pc' = "compare"
  /\ UNCHANGED <<flags, samples, keys, seeds, state, step, quality, at,
                 candidates, tuned, scores, bestChi, bestRank, best>>

-----------------------------------------------------------------------------
(* Measuring *)

\* fnv takes no seed.
Hasher(strategy, seed) == <<strategy, IF strategy = "fnv" THEN 0 ELSE seed>>

SeedQualityScore(chi, penalty) == (IF chi <= 0 THEN 1 ELSE chi) * (4 + penalty)

Measured(strategy, seed) ==
  LET h == Hasher(strategy, seed)
  IN  IF h \in DOMAIN quality THEN {quality[h]}
      ELSE [chi : Chi, penalty : Penalty]

\* evaluateSeedCandidate
Candidate(seed, q) ==
  [seed |-> seed, chi |-> q.chi, score |-> SeedQualityScore(q.chi, q.penalty)]

Remember(strategy, seed, q) ==
  LET h == Hasher(strategy, seed)
  IN  quality' = [x \in DOMAIN quality \cup {h} |-> IF x = h THEN q ELSE quality[x]]

-----------------------------------------------------------------------------
(* CompareSeeds *)

\* Variant: a candidate also moves ahead of those with its own score.
InsertedAhead(ranked, c) ==
  LET place == CHOOSE p \in 1 .. Len(ranked)+1 :
                 /\ \A j \in p .. Len(ranked) : ranked[j].score >= c.score
                 /\ p > 1 => ranked[p-1].score < c.score
  IN  InsertAt(ranked, place, c)

\* The insertion sort moves a candidate from the end ahead of those that score
\* worse, as far as the first that does not.
Inserted(ranked, c) ==
  LET place == CHOOSE p \in 1 .. Len(ranked)+1 :
                 /\ \A j \in p .. Len(ranked) : ranked[j].score > c.score
                 /\ p > 1 => ranked[p-1].score <= c.score
  IN  InsertAt(ranked, place, c)

CompareSeed ==
  /\ pc = "compare" /\ seedAt <= Len(seeds)
  /\ \E q \in Measured(strategies[1], seeds[seedAt]) :
       /\ Remember(strategies[1], seeds[seedAt], q)
       /\ candidates' = Inserted(candidates, Candidate(seeds[seedAt], q))
  /\ seedAt' = seedAt + 1
  /\ UNCHANGED <<flags, samples, keys, seeds, state, step, at, tuned, scores, bestChi, bestRank, best, pc>>

\* -strategy: the best seed is the recommendation.
StrategyOnly ==
  /\ pc = "compare" /\ seedAt > Len(seeds) /\ flags.only
  /\ best' = [strategy |-> strategies[1], seed |-> candidates[1].seed,
              chi |-> candidates[1].chi, ns |-> 0]
  /\ pc' = "done"
  /\ UNCHANGED <<flags, samples, keys, seeds, state, step, quality, at, seedAt, candidates, tuned, scores, bestChi, bestRank>>

\* TuneSeed starts from a candidate that every other one beats.
NotTuned == [seed |-> seeds[1], chi |-> 0, score |-> MaxFloat]

StartTuning ==
  /\ pc = "compare" /\ seedAt > Len(seeds) /\ ~flags.only
  /\ seedAt' = 1 /\ tuned' = NotTuned /\ pc' = "tune"
  /\ UNCHANGED <<flags, samples, keys, seeds, state, step, quality, at, candidates, scores, bestChi, bestRank, best>>

-----------------------------------------------------------------------------
(* RecommendHasher *)

\* TuneSeed: one candidate.
TuneSeed ==
  /\ pc = "tune" /\ seedAt <= Len(seeds)
  /\ \E q \in Measured(strategies[at], seeds[seedAt]) :
       /\ Remember(strategies[at], seeds[seedAt], q)
       /\ tuned' = LET c == Candidate(seeds[seedAt], q)
                   IN  IF c.score < tuned.score THEN c ELSE tuned
  /\ seedAt' = seedAt + 1
  /\ UNCHANGED <<flags, samples, keys, seeds, state, step, at, candidates, scores, bestChi, bestRank, best, pc>>

\* Variant: the best chi-squared is the last strategy's.
ScoreStrategyLastChi ==
  /\ pc = "tune" /\ seedAt > Len(seeds)
  /\ \E ns \in Ns :
       scores' = Append(scores, [strategy |-> strategies[at], seed |-> tuned.seed, chi |-> tuned.chi, ns |-> ns])
  /\ bestChi' = tuned.chi
  /\ at' = IF at = Len(strategies) THEN 1 ELSE at + 1
  /\ pc' = IF at = Len(strategies) THEN "pick" ELSE "tune"
  /\ seedAt' = 1 /\ tuned' = NotTuned
  /\ UNCHANGED <<flags, samples, keys, seeds, state, step, quality, candidates, bestRank, best>>

ScoreStrategy ==
  /\ pc = "tune" /\ seedAt > Len(seeds)
  /\ \E ns \in Ns :
       scores' = Append(scores, [strategy |-> strategies[at], seed |-> tuned.seed, chi |-> tuned.chi, ns |-> ns])
  /\ bestChi' = IF tuned.chi < bestChi THEN tuned.chi ELSE bestChi
  /\ at' = IF at = Len(strategies) THEN 1 ELSE at + 1
  /\ pc' = IF at = Len(strategies) THEN "pick" ELSE "tune"
  /\ seedAt' = 1 /\ tuned' = NotTuned
  /\ UNCHANGED <<flags, samples, keys, seeds, state, step, quality, candidates, bestRank, best>>

\* A chi margin that is not positive is 1.15.
margin == IF flags.margin[1] <= 0 THEN <<23, 20>> ELSE flags.margin

WithinMargin(score) == score.chi * margin[2] <= bestChi * margin[1]

Rank(score) == IF flags.preferSpeed THEN score.ns ELSE score.chi

\* A strategy takes the lead, or does not.
PickStrategy ==
  /\ pc = "pick" /\ at <= Len(scores)
  /\ IF (flags.preferSpeed => WithinMargin(scores[at])) /\ Rank(scores[at]) < bestRank
     THEN bestRank' = Rank(scores[at]) /\ best' = scores[at]
     ELSE UNCHANGED <<bestRank, best>>
  /\ at' = at + 1
  /\ UNCHANGED <<flags, samples, keys, seeds, state, step, quality, seedAt, candidates, tuned, scores, bestChi, pc>>

Recommend ==
  /\ pc = "pick" /\ at > Len(scores)
  /\ best' = IF best = NoScore THEN scores[1] ELSE best
  /\ pc' = "done"
  /\ UNCHANGED <<flags, samples, keys, seeds, state, step, quality, at, seedAt, candidates, tuned, scores, bestChi, bestRank>>

Exit == pc \in {"done", "failed"} /\ UNCHANGED tuneVars

TuneNext ==
  \/ LoadFails \/ Load \/ ExpandSeed \/ SeedsExpanded
  \/ CompareSeed \/ StrategyOnly \/ StartTuning
  \/ TuneSeed \/ ScoreStrategy \/ PickStrategy \/ Recommend
  \/ Exit

TuneSpec == TuneInit /\ [][TuneNext]_tuneVars

-----------------------------------------------------------------------------
\* No key of the file goes unprobed: the cap LoadKeyFile reads to and the count
\* of probes agree, their defaults included (hash_keys.go:91, hash_tune.go:124).
EveryKeyProbed == pc \notin {"load", "failed"} => keys <= samples

\* The seed shown as best for the first strategy, by the stable ranking of
\* CompareSeeds, is the one TuneSeed then uses for it, ties included
\* (hash_tune.go:68-100).
RankingAgreesWithTuning ==
  scores # <<>> => scores[1].seed = candidates[1].seed

\* An expanded ladder has no seed twice; it has every seed asked for, each with the
\* ones that follow it, as many as asked for, also where they are seeds asked for or
\* followers of others; and it has no others (hash_seeds.go:13-40).
LadderComplete ==
  flags.expand > 0 /\ pc \notin {"load", "failed", "expand"} =>
    /\ \A i, j \in DOMAIN seeds : seeds[i] = seeds[j] => i = j
    /\ \A b \in DOMAIN base : \E place \in [0 .. flags.expand -> DOMAIN seeds] :
         /\ seeds[place[0]] = base[b]
         /\ \A t \in 1 .. flags.expand : seeds[place[t]] = Mix[seeds[place[t-1]]]
    /\ \A j \in DOMAIN seeds : \/ \E b \in DOMAIN base : seeds[j] = base[b]
                              \/ \E i \in DOMAIN seeds : seeds[j] = Mix[seeds[i]]

\* The scores within the margin of every chi-squared, the best included: with a
\* margin below 1 there may be none.
Eligible ==
  {i \in DOMAIN scores :
     \A j \in DOMAIN scores : scores[i].chi * margin[2] <= scores[j].chi * margin[1]}

\* The recommendation is a strategy that was scored; without -prefer-speed none
\* has a smaller chi-squared, and with it none within the margin of the best
\* chi-squared is faster.  A margin that no strategy is within makes the first one
\* the recommendation, however slow or uneven it is (hash_tune.go:361-388).
RecommendationUnbeaten ==
  pc = "done" /\ ~flags.only =>
    /\ \E i \in DOMAIN scores : best = scores[i]
    /\ ~flags.preferSpeed => \A i \in DOMAIN scores : best.chi <= scores[i].chi
    /\ flags.preferSpeed =>
         IF Eligible = {} THEN best = scores[1]
         ELSE \E b \in Eligible : best = scores[b] /\ \A i \in Eligible : best.ns <= scores[i].ns
=============================================================================
