----------------------------- MODULE ToolProofs -----------------------------
(***************************************************************************)
(* Theorems about the command-line tools that MCTools runs side by side:   *)
(* hash tuning, for every list of keys, ladder, list of strategies and     *)
(* outcome of every measurement; the deduplication commands, for every     *)
(* input and set of lines; and the benchmark, for every capacity, filter,  *)
(* hasher, ratio and list of values.                                       *)
(***************************************************************************)
EXTENDS
  HashTune, BenchCompare, DedupCommands,
  TLAPS, FiniteSetTheorems, SequenceTheorems, WellFoundedInduction

-----------------------------------------------------------------------------
(* hashtune: the probe keys.                                               *)

\* Both caps come from the same flag and the same default, so a loaded key is
\* always one that is probed.
THEOREM KeysAreProbed == TuneSpec => []EveryKeyProbed
<1>1. TuneInit => EveryKeyProbed
  BY DEF TuneInit, TuneStart, EveryKeyProbed
<1>2. flags \in Flags /\ EveryKeyProbed /\ [TuneNext]_tuneVars => (flags \in Flags /\ EveryKeyProbed)'
  <2> SUFFICES ASSUME flags \in Flags, EveryKeyProbed, [TuneNext]_tuneVars
               PROVE  flags' \in Flags /\ EveryKeyProbed'
    OBVIOUS
  <2>1. CASE LoadFails
    BY <2>1 DEF LoadFails, Fail, EveryKeyProbed
  <2>2. CASE Load
    <3>1. flags.samples \in Int /\ flags.keyFile \in Nat \cup {NoFile} /\ DefaultSamples \in Nat \ {0}
      BY TuneAssumption
    <3>2. keys' <= samples' /\ flags' = flags
      BY <2>2, <3>1 DEF Load, MaxKeys, Samples, NoFile
    <3> QED BY <3>2 DEF EveryKeyProbed
  <2>3. CASE ExpandSeed \/ SeedsExpanded
    BY <2>3 DEF ExpandSeed, SeedsExpanded, EveryKeyProbed
  <2>4. CASE CompareSeed \/ StrategyOnly \/ StartTuning
    BY <2>4 DEF CompareSeed, StrategyOnly, StartTuning, EveryKeyProbed
  <2>5. CASE TuneSeed \/ ScoreStrategy
    BY <2>5 DEF TuneSeed, ScoreStrategy, EveryKeyProbed
  <2>6. CASE PickStrategy \/ Recommend
    BY <2>6 DEF PickStrategy, Recommend, EveryKeyProbed
  <2>7. CASE Exit \/ UNCHANGED tuneVars
    BY <2>7 DEF Exit, tuneVars, EveryKeyProbed
  <2> QED BY <2>1, <2>2, <2>3, <2>4, <2>5, <2>6, <2>7 DEF TuneNext
<1>3. TuneInit => flags \in Flags
  BY DEF TuneInit
<1> QED BY <1>1, <1>2, <1>3, PTL DEF TuneSpec

-----------------------------------------------------------------------------
(* hashtune: the ladder.                                                   *)

\* Sequences that repeat no seed.
Distinct(s) == \A i, j \in DOMAIN s : s[i] = s[j] => i = j

\* Seeds of s that are a base seed b and those that follow it, up to the t-th,
\* which is last.
FollowedTo(s, b, t, last) ==
  \E place \in [0 .. t -> DOMAIN s] :
    /\ s[place[0]] = base[b]
    /\ \A u \in 1 .. t : s[place[u]] = Mix[s[place[u-1]]]
    /\ s[place[t]] = last

OnlyFollowers(s) ==
  \A j \in DOMAIN s : \/ \E b \in DOMAIN base : s[j] = base[b]
                      \/ \E i \in DOMAIN s : s[j] = Mix[s[i]]

\* The seed to add next is the one that the base seed and the steps taken call for.
NextDue ==
  IF step = 0 THEN state = base[seedAt]
  ELSE \E prev \in Seed : FollowedTo(seeds, seedAt, step-1, prev) /\ state = Mix[prev]

SeedsInv ==
  /\ flags \in Flags
  /\ seeds \in Seq(Seed)
  /\ pc \notin {"load", "failed", "expand"} => seeds # <<>>

LadderInv ==
  /\ SeedsInv
  /\ seedAt \in Nat \ {0} /\ step \in Nat
  /\ pc = "load" => seedAt = 1 /\ step = 0
  /\ flags.expand > 0 /\ pc \notin {"load", "failed"} => Distinct(seeds) /\ OnlyFollowers(seeds)
  /\ pc = "expand" =>
       /\ flags.expand > 0 /\ seedAt <= Len(base)+1 /\ step <= flags.expand
       /\ \A b \in 1 .. seedAt-1 : \E last \in Seed : FollowedTo(seeds, b, flags.expand, last)
       /\ seedAt <= Len(base) => state \in Seed /\ NextDue
  /\ pc \notin {"load", "failed", "expand"} /\ flags.expand > 0 =>
       \A b \in DOMAIN base : \E last \in Seed : FollowedTo(seeds, b, flags.expand, last)

\* The base seeds of a command, and its count of followers.
LEMMA BaseSeeds ==
  ASSUME flags \in Flags
  PROVE  base \in Seq(Seed) /\ base # <<>> /\ Len(base) \in Nat \ {0} /\ flags.expand \in Int
<1>1. flags.base \in Seq(Seed) /\ Ladder \in Seq(Seed) /\ Ladder # <<>> /\ flags.expand \in Int
  BY TuneAssumption
<1>2. base \in Seq(Seed) /\ base # <<>>
  BY <1>1 DEF base
<1> QED BY <1>1, <1>2, EmptySeq

\* Adding a seed keeps the sequence free of repeats and what is in it, and puts
\* the seed in.
LEMMA SeedAdded ==
  ASSUME NEW s \in Seq(Seed), NEW x \in Seed, Distinct(s)
  PROVE  /\ AddSeed(s, x) \in Seq(Seed) /\ AddSeed(s, x) # <<>>
         /\ Distinct(AddSeed(s, x))
         /\ DOMAIN s \subseteq DOMAIN AddSeed(s, x)
         /\ \A j \in DOMAIN s : AddSeed(s, x)[j] = s[j]
         /\ \E j \in DOMAIN AddSeed(s, x) : AddSeed(s, x)[j] = x
         /\ \A j \in DOMAIN AddSeed(s, x) : j \in DOMAIN s \/ AddSeed(s, x)[j] = x
<1>0. DOMAIN s = 1 .. Len(s) /\ Len(s) \in Nat
  BY LenProperties
<1>1. CASE \E j \in DOMAIN s : s[j] = x
  <2>1. AddSeed(s, x) = s
    BY <1>1 DEF AddSeed
  <2>2. s # <<>>
    BY <1>0, <1>1
  <2> QED BY <1>1, <2>1, <2>2
<1>2. CASE ~\E j \in DOMAIN s : s[j] = x
  <2> DEFINE r == Append(s, x)
  <2>1. AddSeed(s, x) = r
    BY <1>2 DEF AddSeed
  <2>2. /\ r \in Seq(Seed) /\ r # <<>> /\ Len(r) = Len(s)+1
        /\ \A i \in 1 .. Len(s) : r[i] = s[i]
        /\ r[Len(s)+1] = x
    BY AppendProperties
  <2>3. DOMAIN r = 1 .. Len(s)+1
    BY <2>2, LenProperties
  <2> HIDE DEF r
  <2>4. Distinct(r)
    BY <1>0, <1>2, <2>2, <2>3 DEF Distinct
  <2>5. DOMAIN s \subseteq DOMAIN r /\ Len(s)+1 \in DOMAIN r /\ \A j \in DOMAIN r : j \in DOMAIN s \/ r[j] = x
    BY <1>0, <2>2, <2>3
  <2> QED BY <1>0, <2>1, <2>2, <2>4, <2>5
<1> QED BY <1>1, <1>2

\* What follows a base seed stays where it was put.
LEMMA FollowersStay ==
  ASSUME NEW s, NEW r, DOMAIN s \subseteq DOMAIN r, \A j \in DOMAIN s : r[j] = s[j],
         NEW b, NEW t \in Nat, NEW last, FollowedTo(s, b, t, last)
  PROVE  FollowedTo(r, b, t, last)
<1>1. PICK place \in [0 .. t -> DOMAIN s] :
        /\ s[place[0]] = base[b]
        /\ \A u \in 1 .. t : s[place[u]] = Mix[s[place[u-1]]]
        /\ s[place[t]] = last
  BY DEF FollowedTo
<1>2. place \in [0 .. t -> DOMAIN r]
  OBVIOUS
<1>3. \A u \in 0 .. t : r[place[u]] = s[place[u]]
  OBVIOUS
<1>4. \A u \in 1 .. t : r[place[u]] = Mix[r[place[u-1]]]
  <2>1. \A u \in 1 .. t : u \in 0 .. t /\ u-1 \in 0 .. t
    OBVIOUS
  <2> QED BY <1>1, <1>3, <2>1
<1>5. r[place[0]] = base[b] /\ r[place[t]] = last
  BY <1>1, <1>3
<1> QED BY <1>2, <1>4, <1>5 DEF FollowedTo

\* One more follower, wherever the sequence has it.
LEMMA OneMoreFollower ==
  ASSUME NEW s, NEW b, NEW t \in Nat, NEW prev, FollowedTo(s, b, t, prev),
         NEW k \in DOMAIN s, s[k] = Mix[prev]
  PROVE  FollowedTo(s, b, t+1, s[k])
<1>1. PICK place \in [0 .. t -> DOMAIN s] :
        /\ s[place[0]] = base[b]
        /\ \A u \in 1 .. t : s[place[u]] = Mix[s[place[u-1]]]
        /\ s[place[t]] = prev
  BY DEF FollowedTo
<1> DEFINE next == [u \in 0 .. t+1 |-> IF u = t+1 THEN k ELSE place[u]]
<1>2. next \in [0 .. t+1 -> DOMAIN s] /\ next[t+1] = k /\ \A u \in 0 .. t : next[u] = place[u]
  OBVIOUS
<1> HIDE DEF next
<1>3. \A u \in 1 .. t+1 : s[next[u]] = Mix[s[next[u-1]]]
  <2> SUFFICES ASSUME NEW u \in 1 .. t+1 PROVE s[next[u]] = Mix[s[next[u-1]]]
    OBVIOUS
  <2>1. CASE u = t+1
    BY <1>1, <1>2, <2>1
  <2>2. CASE u # t+1
    <3>1. u \in 1 .. t /\ u \in 0 .. t /\ u-1 \in 0 .. t
      BY <2>2
    <3> QED BY <1>1, <1>2, <3>1
  <2> QED BY <2>1, <2>2
<1>4. s[next[0]] = base[b] /\ s[next[t+1]] = s[k]
  BY <1>1, <1>2
<1> QED BY <1>2, <1>3, <1>4 DEF FollowedTo

\* Loading fixes the base seeds and starts with the first of them.
LEMMA LoadLadder == ASSUME LadderInv, Load PROVE LadderInv'
<1>1. /\ base \in Seq(Seed) /\ base # <<>> /\ Len(base) \in Nat \ {0} /\ flags.expand \in Int
      /\ flags \in Flags /\ flags' = flags /\ base' = base /\ seedAt' = 1 /\ step' = 0 /\ state' = base[1]
      /\ seeds' = IF flags.expand > 0 THEN <<>> ELSE base
      /\ pc' = IF flags.expand > 0 THEN "expand" ELSE "compare"
  BY BaseSeeds DEF LadderInv, SeedsInv, Load, base
<1>2. base[1] \in Seed /\ <<>> \in Seq(Seed)
  BY <1>1, ElementOfSeq, EmptySeq
<1>3. Distinct(<<>>) /\ OnlyFollowers(<<>>)
  BY DEF Distinct, OnlyFollowers
<1>4. CASE flags.expand > 0
  <2>1. seeds' = <<>> /\ pc' = "expand"
    BY <1>1, <1>4
  <2>2. Distinct(seeds)' /\ OnlyFollowers(seeds)'
    BY <1>1, <1>3, <2>1 DEF Distinct, OnlyFollowers
  <2>3. NextDue' /\ state' \in Seed
    BY <1>1, <1>2 DEF NextDue
  <2>4. step' <= flags'.expand /\ seedAt' <= Len(base')+1 /\ 1 .. seedAt'-1 = {} /\ flags'.expand > 0
    BY <1>1, <1>4
  <2> QED BY <1>1, <1>2, <2>1, <2>2, <2>3, <2>4 DEF LadderInv, SeedsInv
<1>5. CASE ~(flags.expand > 0)
  BY <1>1, <1>5 DEF LadderInv, SeedsInv
<1> QED BY <1>4, <1>5

\* A step of the expansion adds the seed that is due and moves to the next one.
LEMMA ExpandLadder == ASSUME LadderInv, ExpandSeed PROVE LadderInv'
<1> DEFINE r == AddSeed(seeds, state)
<1>1. /\ flags \in Flags /\ flags' = flags /\ base' = base /\ pc = "expand" /\ pc' = "expand"
      /\ seeds \in Seq(Seed) /\ seedAt \in Nat \ {0} /\ step \in Nat /\ flags.expand \in Int
      /\ flags.expand > 0 /\ seedAt <= Len(base) /\ step <= flags.expand
      /\ Distinct(seeds) /\ OnlyFollowers(seeds) /\ state \in Seed /\ NextDue
      /\ \A b \in 1 .. seedAt-1 : \E last \in Seed : FollowedTo(seeds, b, flags.expand, last)
      /\ seeds' = r
  BY BaseSeeds DEF LadderInv, SeedsInv, ExpandSeed, base
<1>2. /\ r \in Seq(Seed) /\ r # <<>> /\ Distinct(r) /\ DOMAIN seeds \subseteq DOMAIN r
      /\ \A j \in DOMAIN seeds : r[j] = seeds[j]
      /\ \E j \in DOMAIN r : r[j] = state
      /\ \A j \in DOMAIN r : j \in DOMAIN seeds \/ r[j] = state
  BY <1>1, SeedAdded
<1> HIDE DEF r
<1>3. Len(base) \in Nat /\ base \in Seq(Seed) /\ DOMAIN base = 1 .. Len(base) /\ seedAt \in DOMAIN base
  BY <1>1, BaseSeeds, LenProperties
<1>4. PICK k \in DOMAIN r : r[k] = state
  BY <1>2
<1>5. FollowedTo(r, seedAt, step, state)
  <2>1. CASE step = 0
    <3> DEFINE place == [u \in 0 .. 0 |-> k]
    <3>1. place \in [0 .. 0 -> DOMAIN r] /\ place[0] = k /\ 1 .. 0 = {}
      OBVIOUS
    <3>2. r[k] = base[seedAt]
      BY <1>1, <1>4, <2>1 DEF NextDue
    <3> HIDE DEF place
    <3> QED BY <1>4, <2>1, <3>1, <3>2 DEF FollowedTo
  <2>2. CASE step # 0
    <3>1. PICK prev \in Seed : FollowedTo(seeds, seedAt, step-1, prev) /\ state = Mix[prev]
      BY <1>1, <2>2 DEF NextDue
    <3>2. step-1 \in Nat /\ (step-1)+1 = step
      BY <1>1, <2>2
    <3>3. FollowedTo(r, seedAt, step-1, prev)
      BY <1>2, <3>1, <3>2, FollowersStay
    <3>4. FollowedTo(r, seedAt, (step-1)+1, r[k])
      BY <1>4, <3>1, <3>2, <3>3, OneMoreFollower
    <3> QED BY <1>4, <3>2, <3>4
  <2> QED BY <2>1, <2>2
<1>6. ASSUME NEW b \in 1 .. seedAt-1 PROVE \E last \in Seed : FollowedTo(r, b, flags.expand, last)
  <2>1. PICK last \in Seed : FollowedTo(seeds, b, flags.expand, last)
    BY <1>1
  <2>2. flags.expand \in Nat
    BY <1>1
  <2>3. FollowedTo(r, b, flags.expand, last)
    BY <1>2, <2>1, <2>2, FollowersStay
  <2> QED BY <2>3
<1>7. OnlyFollowers(r)
  <2>1. state = base[seedAt] \/ \E i \in DOMAIN r : state = Mix[r[i]]
    <3>1. CASE step = 0
      BY <1>1, <3>1 DEF NextDue
    <3>2. CASE step # 0
      <4>1. PICK prev \in Seed : FollowedTo(seeds, seedAt, step-1, prev) /\ state = Mix[prev]
        BY <1>1, <3>2 DEF NextDue
      <4>2. step-1 \in 0 .. step-1
        BY <1>1, <3>2
      <4>3. \E i \in DOMAIN seeds : seeds[i] = prev
        BY <4>1, <4>2 DEF FollowedTo
      <4> QED BY <1>2, <4>1, <4>3
    <3> QED BY <3>1, <3>2
  <2> SUFFICES ASSUME NEW j \in DOMAIN r
               PROVE  (\E b \in DOMAIN base : r[j] = base[b]) \/ (\E i \in DOMAIN r : r[j] = Mix[r[i]])
    BY DEF OnlyFollowers
  <2>2. CASE j \in DOMAIN seeds
    BY <1>1, <1>2, <2>2 DEF OnlyFollowers
  <2>3. CASE j \notin DOMAIN seeds
    BY <1>2, <1>3, <2>1, <2>3
  <2> QED BY <2>2, <2>3
<1>8. Distinct(seeds)' /\ OnlyFollowers(seeds)' /\ SeedsInv'
  BY <1>1, <1>2, <1>7 DEF Distinct, OnlyFollowers, SeedsInv
<1>9. \A b, t, last : FollowedTo(r, b, t, last) <=> FollowedTo(seeds, b, t, last)'
  BY <1>1 DEF FollowedTo
<1>10. CASE step < flags.expand
  <2>1. step' = step+1 /\ state' = Mix[state] /\ seedAt' = seedAt
    BY <1>10 DEF ExpandSeed
  <2>2. step' \in Nat /\ step' # 0 /\ step'-1 = step /\ step' <= flags.expand /\ state' \in Seed
    BY <1>1, <1>10, <2>1, TuneAssumption
  <2>3. NextDue'
    <3>1. PICK prev \in Seed : prev = state
      BY <1>1
    <3>2. FollowedTo(seeds, seedAt, step-1, prev)'
      BY <1>1, <1>5, <2>1, <2>2, <3>1 DEF FollowedTo
    <3>3. state' = Mix[prev]
      BY <2>1, <3>1
    <3> QED BY <2>2, <3>2, <3>3 DEF NextDue
  <2>4. \A b \in 1 .. seedAt'-1 : \E last \in Seed : FollowedTo(seeds, b, flags.expand, last)'
    BY <1>1, <1>6, <1>9, <2>1
  <2> QED BY <1>1, <1>3, <1>8, <2>1, <2>2, <2>3, <2>4 DEF LadderInv
<1>11. CASE ~(step < flags.expand)
  <2>1. step' = 0 /\ seedAt' = seedAt+1 /\ state' = IF seedAt < Len(base) THEN base[seedAt+1] ELSE state
    BY <1>11 DEF ExpandSeed
  <2>2. step = flags.expand
    BY <1>1, <1>11
  <2>3. \A b \in 1 .. seedAt'-1 : \E last \in Seed : FollowedTo(seeds, b, flags.expand, last)'
    <3>1. \A b \in 1 .. seedAt : \E last \in Seed : FollowedTo(r, b, flags.expand, last)
      <4>1. \A b \in 1 .. seedAt : b \in 1 .. seedAt-1 \/ b = seedAt
        BY <1>1
      <4> QED BY <1>1, <1>5, <1>6, <2>2, <4>1
    <3>2. 1 .. seedAt'-1 = 1 .. seedAt
      BY <1>1, <2>1
    <3> QED BY <1>1, <1>9, <3>1, <3>2
  <2>4. seedAt' <= Len(base') => state' \in Seed /\ NextDue'
    <3> SUFFICES ASSUME seedAt' <= Len(base') PROVE state' \in Seed /\ NextDue'
      OBVIOUS
    <3>1. seedAt < Len(base) /\ seedAt+1 \in 1 .. Len(base)
      BY <1>1, <1>3, <2>1
    <3>2. state' = base[seedAt+1] /\ base[seedAt+1] \in Seed
      BY <1>3, <2>1, <3>1, ElementOfSeq
    <3> QED BY <1>1, <2>1, <3>2 DEF NextDue
  <2>5. seedAt' \in Nat \ {0} /\ step' \in Nat /\ seedAt' <= Len(base')+1 /\ step' <= flags'.expand
    BY <1>1, <1>3, <2>1
  <2> QED BY <1>1, <1>8, <2>3, <2>4, <2>5 DEF LadderInv
<1> QED BY <1>10, <1>11

\* A step that leaves the ladder alone.
LEMMA LadderRests ==
  ASSUME LadderInv, pc \notin {"load", "failed"}, UNCHANGED <<flags, seeds, state, step>>,
         seedAt' \in Nat \ {0}, pc' \notin {"load", "failed", "expand"},
         pc = "expand" => seedAt > Len(base)
  PROVE  LadderInv'
<1>1. base' = base /\ flags \in Flags /\ seeds \in Seq(Seed) /\ step \in Nat
  BY DEF base, LadderInv, SeedsInv
<1>2. Distinct(seeds)' <=> Distinct(seeds)
  BY DEF Distinct
<1>3. OnlyFollowers(seeds)' <=> OnlyFollowers(seeds)
  BY <1>1 DEF OnlyFollowers
<1>4. \A b, t, last : FollowedTo(seeds, b, t, last)' <=> FollowedTo(seeds, b, t, last)
  BY <1>1 DEF FollowedTo
<1>5. flags.expand > 0 =>
        \A b \in DOMAIN base : \E last \in Seed : FollowedTo(seeds, b, flags.expand, last)
  <2>1. CASE pc = "expand"
    <3>1. DOMAIN base = 1 .. Len(base) /\ Len(base) \in Nat /\ seedAt = Len(base)+1
      BY <1>1, <2>1, BaseSeeds, LenProperties DEF LadderInv
    <3>2. DOMAIN base = 1 .. seedAt-1
      BY <3>1
    <3> QED BY <2>1, <3>2 DEF LadderInv
  <2>2. CASE pc # "expand"
    BY <2>2 DEF LadderInv
  <2> QED BY <2>1, <2>2
<1>6. seeds # <<>>
  <2>1. CASE pc = "expand"
    <3>1. 1 \in DOMAIN base /\ flags.expand > 0 /\ flags.expand \in Int
      BY <1>1, <2>1, BaseSeeds, LenProperties DEF LadderInv
    <3>2. PICK last \in Seed : FollowedTo(seeds, 1, flags.expand, last)
      BY <1>5, <3>1
    <3>3. DOMAIN seeds # {}
      BY <3>1, <3>2 DEF FollowedTo
    <3> QED BY <3>3
  <2>2. CASE pc # "expand"
    BY <2>2 DEF LadderInv, SeedsInv
  <2> QED BY <2>1, <2>2
<1>7. flags.expand > 0 => Distinct(seeds) /\ OnlyFollowers(seeds)
  BY DEF LadderInv
<1> QED BY <1>1, <1>2, <1>3, <1>4, <1>5, <1>6, <1>7 DEF LadderInv, SeedsInv

\* The seeds are the ladder's from when it is complete.
LEMMA LadderStep == LadderInv /\ [TuneNext]_tuneVars => LadderInv'
<1> SUFFICES ASSUME LadderInv, [TuneNext]_tuneVars PROVE LadderInv'
  OBVIOUS
<1>t. seedAt \in Nat \ {0} /\ seedAt+1 \in Nat \ {0}
  BY DEF LadderInv
<1>1. CASE LoadFails
  BY <1>1 DEF LoadFails, Fail, LadderInv, SeedsInv
<1>2. CASE SeedsExpanded
  BY <1>2, LadderRests DEF SeedsExpanded
<1>3. CASE CompareSeed \/ StrategyOnly \/ StartTuning
  BY <1>3, <1>t, LadderRests DEF CompareSeed, StrategyOnly, StartTuning
<1>4. CASE TuneSeed \/ ScoreStrategy
  BY <1>4, <1>t, LadderRests DEF TuneSeed, ScoreStrategy
<1>5. CASE PickStrategy \/ Recommend
  BY <1>5, <1>t, LadderRests DEF PickStrategy, Recommend
<1>6. CASE Exit \/ UNCHANGED tuneVars
  <2>1. UNCHANGED <<flags, seeds, state, step, seedAt, pc>> /\ base' = base
    BY <1>6 DEF Exit, tuneVars, base
  <2>2. (Distinct(seeds)' <=> Distinct(seeds)) /\ (OnlyFollowers(seeds)' <=> OnlyFollowers(seeds))
    BY <2>1 DEF Distinct, OnlyFollowers
  <2>3. \A b, t, last : FollowedTo(seeds, b, t, last)' <=> FollowedTo(seeds, b, t, last)
    BY <2>1 DEF FollowedTo
  <2>4. NextDue' <=> NextDue
    BY <2>1, <2>3 DEF NextDue, FollowedTo
  <2> QED BY <2>1, <2>2, <2>3, <2>4 DEF LadderInv, SeedsInv
<1> QED BY <1>1, <1>2, <1>3, <1>4, <1>5, <1>6, LoadLadder, ExpandLadder DEF TuneNext

LEMMA LadderStart == TuneInit => LadderInv
BY EmptySeq DEF TuneInit, TuneStart, LadderInv, SeedsInv

THEOREM LadderInvariant == TuneSpec => []LadderInv
BY LadderStart, LadderStep, PTL DEF TuneSpec

\* The expanded ladder repeats no seed, has every base seed with all its followers,
\* and nothing else, whatever the permutation, repeats and overlaps
\* (hash_seeds.go:13-40).
THEOREM LadderIsComplete == TuneSpec => []LadderComplete
<1>1. LadderInv => LadderComplete
  BY DEF LadderInv, LadderComplete, Distinct, OnlyFollowers, FollowedTo
<1> QED BY <1>1, LadderInvariant, PTL

-----------------------------------------------------------------------------
(* hashtune: the ranking and the tuned seed.                               *)

Scored == [seed : Seed, chi : Chi, score : {x \in Nat : x < MaxFloat}]

\* There is a place to insert at: after the last candidate that is not worse.
LEMMA PlaceExists ==
  ASSUME NEW ranked \in Seq(Scored), NEW c \in Scored
  PROVE  \E p \in 1 .. Len(ranked)+1 :
           /\ \A j \in p .. Len(ranked) : ranked[j].score > c.score
           /\ p > 1 => ranked[p-1].score <= c.score
<1> DEFINE N == Len(ranked)
           S == {p \in 1 .. N+1 : \A j \in p .. N : ranked[j].score > c.score}
<1>1. N \in Nat /\ \A j \in 1 .. N : ranked[j] \in Scored
  BY LenProperties, ElementOfSeq
<1>2. S \subseteq Nat /\ N+1 \in S
  BY <1>1
<1>3. PICK p \in S : \A q \in S : p <= q
  <2> HIDE DEF S
  <2> DEFINE R == {x \in Nat \X Nat : x[1] < x[2]}
  <2>1. IsWellFoundedOn(R, Nat)
    BY NatLessThanWellFounded DEF OpToRel
  <2>2. \E p \in S : \A q \in S : ~ (<<q, p>> \in R)
    <3> HIDE DEF R
    <3> QED BY <1>2, <2>1, WFMin
  <2>3. \A p, q \in Nat : ~ (<<q, p>> \in R) => p <= q
    OBVIOUS
  <2> HIDE DEF R
  <2> QED BY <1>2, <2>2, <2>3
<1>4. p > 1 => ranked[p-1].score <= c.score
  <2> SUFFICES ASSUME p > 1, ranked[p-1].score > c.score PROVE FALSE
    BY <1>1, <1>3 DEF Scored
  <2>1. p-1 \in 1 .. N+1 /\ \A j \in p-1 .. N : j = p-1 \/ j \in p .. N
    BY <1>1, <1>3
  <2>2. p-1 \in S
    BY <1>3, <2>1
  <2> QED BY <1>3, <2>2
<1> QED BY <1>3, <1>4

\* An insertion keeps the ranking's head unless the candidate is better than it,
\* and then the candidate is the head; the ranking has the candidate and all it
\* had before.
LEMMA InsertedHead ==
  ASSUME NEW ranked \in Seq(Scored), NEW c \in Scored,
         \A i \in 1 .. Len(ranked) : ranked[1].score <= ranked[i].score
  PROVE  /\ Inserted(ranked, c) \in Seq(Scored) /\ Inserted(ranked, c) # <<>>
         /\ Inserted(ranked, c)[1] = IF ranked = <<>> \/ c.score < ranked[1].score THEN c ELSE ranked[1]
         /\ \A i \in 1 .. Len(Inserted(ranked, c)) :
              Inserted(ranked, c)[1].score <= Inserted(ranked, c)[i].score
<1> DEFINE N == Len(ranked)
           Fit(p) == /\ \A j \in p .. Len(ranked) : ranked[j].score > c.score
                     /\ p > 1 => ranked[p-1].score <= c.score
           place == CHOOSE p \in 1 .. Len(ranked)+1 : Fit(p)
           front == SubSeq(ranked, 1, place-1)
           back == SubSeq(ranked, place, Len(ranked))
           upto == front \o <<c>>
           r == upto \o back
<1>1. Inserted(ranked, c) = r
  BY DEF Inserted, InsertAt
<1>2. place \in 1 .. N+1 /\ Fit(place)
  BY PlaceExists
<1>3. N \in Nat /\ \A j \in 1 .. N : ranked[j] \in Scored
  BY LenProperties, ElementOfSeq
<1> HIDE DEF place
<1>4. /\ front \in Seq(Scored) /\ Len(front) = place-1
      /\ \A i \in 1 .. place-1 : front[i] = ranked[i]
  <2>1. \A i \in 1 .. place-1 : ranked[i] \in Scored
    BY <1>2, <1>3
  <2>2. /\ front \in Seq(Scored) /\ Len(front) = IF 1 <= place-1 THEN (place-1)-1+1 ELSE 0
        /\ \A i \in 1 .. (place-1)-1+1 : front[i] = ranked[1+i-1]
    BY <1>2, <1>3, <2>1, SubSeqProperties
  <2> HIDE DEF front
  <2> QED BY <1>2, <1>3, <2>2
<1>5. /\ back \in Seq(Scored) /\ Len(back) = N-place+1
      /\ \A i \in 1 .. N-place+1 : back[i] = ranked[place+i-1]
  <2>1. \A i \in place .. N : ranked[i] \in Scored
    BY <1>2, <1>3
  <2>2. /\ back \in Seq(Scored) /\ Len(back) = IF place <= N THEN N-place+1 ELSE 0
        /\ \A i \in 1 .. N-place+1 : back[i] = ranked[place+i-1]
    BY <1>2, <1>3, <2>1, SubSeqProperties
  <2> HIDE DEF back
  <2> QED BY <1>2, <1>3, <2>2
<1> HIDE DEF front, back
<1>6. <<c>> \in Seq(Scored) /\ Len(<<c>>) = 1 /\ <<c>>[1] = c
  OBVIOUS
<1>7. /\ upto \in Seq(Scored) /\ Len(upto) = place
      /\ \A i \in 1 .. place : upto[i] = IF i <= place-1 THEN ranked[i] ELSE c
  <2>1. /\ upto \in Seq(Scored) /\ Len(upto) = Len(front) + Len(<<c>>)
        /\ \A i \in 1 .. Len(front) + Len(<<c>>) :
             upto[i] = IF i <= Len(front) THEN front[i] ELSE <<c>>[i - Len(front)]
    BY <1>4, <1>6, ConcatProperties
  <2> HIDE DEF upto
  <2>2. Len(front) = place-1 /\ place \in Nat
    BY <1>2, <1>3, <1>4
  <2>3. upto \in Seq(Scored) /\ Len(upto) = place
    BY <1>6, <2>1, <2>2
  <2>4. ASSUME NEW i \in 1 .. place
        PROVE  upto[i] = IF i <= place-1 THEN ranked[i] ELSE c
    <3>1. upto[i] = IF i <= place-1 THEN front[i] ELSE <<c>>[i - (place-1)]
      BY <1>6, <2>1, <2>2
    <3>2. CASE i <= place-1
      <4>1. i \in 1 .. place-1
        BY <2>2, <3>2
      <4> QED BY <1>4, <3>1, <3>2, <4>1
    <3>3. CASE ~(i <= place-1)
      <4>1. i - (place-1) = 1
        BY <2>2, <3>3
      <4> QED BY <1>6, <3>1, <3>3, <4>1
    <3> QED BY <3>2, <3>3
  <2> QED BY <2>3, <2>4
<1> HIDE DEF upto
<1>8. /\ r \in Seq(Scored) /\ Len(r) = N+1
      /\ \A i \in 1 .. N+1 : r[i] = IF i < place THEN ranked[i] ELSE IF i = place THEN c ELSE ranked[i-1]
  <2>1. /\ r \in Seq(Scored) /\ Len(r) = Len(upto) + Len(back)
        /\ \A i \in 1 .. Len(upto) + Len(back) :
             r[i] = IF i <= Len(upto) THEN upto[i] ELSE back[i - Len(upto)]
    BY <1>5, <1>7, ConcatProperties
  <2> HIDE DEF r
  <2>2. Len(r) = N+1 /\ Len(upto) + Len(back) = N+1
    <3> HIDE DEF N
    <3> QED BY <1>2, <1>3, <1>5, <1>7, <2>1
  <2>3. ASSUME NEW i \in 1 .. N+1
        PROVE  r[i] = IF i < place THEN ranked[i] ELSE IF i = place THEN c ELSE ranked[i-1]
    <3>1. r[i] = IF i <= place THEN upto[i] ELSE back[i - place]
      BY <1>7, <2>1, <2>2
    <3>2. CASE i <= place
      BY <1>2, <1>3, <1>7, <3>1, <3>2
    <3>3. CASE ~(i <= place)
      <4>1. i - place \in 1 .. N-place+1 /\ place+(i-place)-1 = i-1
        BY <1>2, <1>3, <3>3
      <4> QED BY <1>2, <1>3, <1>5, <3>1, <3>3, <4>1
    <3> QED BY <3>2, <3>3
  <2> QED BY <2>1, <2>2, <2>3
<1> HIDE DEF r
<1>9. 1 \in 1 .. N+1 /\ r[1] = IF place = 1 THEN c ELSE ranked[1]
  BY <1>2, <1>3, <1>8
<1>10. (ranked = <<>>) <=> N = 0
  BY <1>3, EmptySeq
<1>11. \A d \in Scored : d.score \in Nat
  BY DEF Scored
<1>12. place = 1 <=> (ranked = <<>> \/ c.score < ranked[1].score)
  <2>1. CASE N = 0
    BY <1>2, <1>10, <2>1
  <2>2. CASE N # 0
    <3>1. 1 \in 1 .. N /\ ranked[1].score \in Nat /\ c.score \in Nat
      BY <1>3, <1>11, <2>2
    <3>2. CASE place = 1
      BY <1>2, <3>1, <3>2
    <3>3. CASE place # 1
      <4>1. place-1 \in 1 .. N /\ ranked[place-1].score <= c.score /\ ranked[place-1].score \in Nat
        BY <1>2, <1>3, <1>11, <3>3
      <4> QED BY <1>10, <2>2, <3>1, <3>3, <4>1
    <3> QED BY <3>2, <3>3
  <2> QED BY <2>1, <2>2
<1>13. r[1] = IF ranked = <<>> \/ c.score < ranked[1].score THEN c ELSE ranked[1]
  BY <1>9, <1>12
<1>14. \A i \in 1 .. N+1 : r[1].score <= r[i].score
  <2> SUFFICES ASSUME NEW i \in 1 .. N+1 PROVE r[1].score <= r[i].score
    OBVIOUS
  <2>1. r[i] = c \/ \E j \in 1 .. N : r[i] = ranked[j]
    BY <1>2, <1>3, <1>8
  <2>2. CASE ranked = <<>>
    BY <1>3, <1>10, <1>11, <1>13, <2>1, <2>2
  <2>3. CASE ranked # <<>>
    <3>1. 1 \in 1 .. N /\ ranked[1].score \in Nat /\ c.score \in Nat /\ \A j \in 1 .. N : ranked[j].score \in Nat
      BY <1>3, <1>10, <1>11, <2>3
    <3>2. r[1].score <= c.score /\ r[1].score <= ranked[1].score /\ r[1].score \in Nat
      BY <1>13, <2>3, <3>1
    <3> QED BY <2>1, <3>1, <3>2
  <2> QED BY <2>2, <2>3
<1>15. r # <<>>
  BY <1>3, <1>8, EmptySeq
<1> QED BY <1>1, <1>8, <1>13, <1>14, <1>15

\* The first best of f[1], ..., f[N].
Lead(f, N, c) ==
  \E b \in 1 .. N : /\ c = f[b]
                    /\ \A j \in 1 .. N : f[b].score <= f[j].score
                    /\ \A j \in 1 .. b-1 : f[b].score < f[j].score

\* It is the same whatever comes after, and there is only one.
LEMMA LeadSame ==
  ASSUME NEW f, NEW g, NEW N \in Nat, NEW c, \A j \in 1 .. N : g[j] = f[j], Lead(f, N, c)
  PROVE  Lead(g, N, c)
<1>1. PICK b \in 1 .. N : /\ c = f[b]
                          /\ \A j \in 1 .. N : f[b].score <= f[j].score
                          /\ \A j \in 1 .. b-1 : f[b].score < f[j].score
  BY DEF Lead
<1>2. \A j \in 1 .. b-1 : j \in 1 .. N
  OBVIOUS
<1> QED BY <1>1, <1>2 DEF Lead

LEMMA LeadUnique ==
  ASSUME NEW f, NEW N \in Nat, \A j \in 1 .. N : f[j] \in Scored,
         NEW c, Lead(f, N, c), NEW d, Lead(f, N, d)
  PROVE  c = d
<1>1. PICK b \in 1 .. N : /\ c = f[b]
                          /\ \A j \in 1 .. N : f[b].score <= f[j].score
                          /\ \A j \in 1 .. b-1 : f[b].score < f[j].score
  BY DEF Lead
<1>2. PICK e \in 1 .. N : /\ d = f[e]
                          /\ \A j \in 1 .. N : f[e].score <= f[j].score
                          /\ \A j \in 1 .. e-1 : f[e].score < f[j].score
  BY DEF Lead
<1>3. f[b].score \in Nat /\ f[e].score \in Nat
  BY DEF Scored
<1>4. ~(b < e) /\ ~(e < b)
  <2>1. b < e => b \in 1 .. e-1
    OBVIOUS
  <2>2. e < b => e \in 1 .. b-1
    OBVIOUS
  <2> QED BY <1>1, <1>2, <1>3, <2>1, <2>2
<1> QED BY <1>1, <1>2, <1>4

\* One more takes the lead when it is better than the one that has it.
LEMMA LeadNext ==
  ASSUME NEW f, NEW N \in Nat \ {0}, \A j \in 1 .. N+1 : f[j] \in Scored, NEW c, Lead(f, N, c)
  PROVE  Lead(f, N+1, IF f[N+1].score < c.score THEN f[N+1] ELSE c)
<1>1. PICK b \in 1 .. N : /\ c = f[b]
                          /\ \A j \in 1 .. N : f[b].score <= f[j].score
                          /\ \A j \in 1 .. b-1 : f[b].score < f[j].score
  BY DEF Lead
<1>2. \A j \in 1 .. N+1 : f[j].score \in Nat /\ (j = N+1 \/ j \in 1 .. N)
  BY DEF Scored
<1>3. CASE f[N+1].score < c.score
  <2>1. N+1 \in 1 .. N+1 /\ \A j \in 1 .. (N+1)-1 : j \in 1 .. N
    OBVIOUS
  <2>2. \A j \in 1 .. N : f[N+1].score < f[j].score
    <3>1. b \in 1 .. N+1 /\ \A j \in 1 .. N : j \in 1 .. N+1
      OBVIOUS
    <3> QED BY <1>1, <1>2, <1>3, <2>1, <3>1
  <2>3. \A j \in 1 .. N+1 : f[N+1].score <= f[j].score
    BY <1>2, <2>1, <2>2
  <2> QED BY <1>3, <2>1, <2>2, <2>3 DEF Lead
<1>4. CASE ~(f[N+1].score < c.score)
  <2>1. b \in 1 .. N+1 /\ N+1 \in 1 .. N+1
    OBVIOUS
  <2>2. f[b].score <= f[N+1].score
    BY <1>1, <1>2, <1>4, <2>1
  <2>3. \A j \in 1 .. N+1 : f[b].score <= f[j].score
    BY <1>1, <1>2, <2>2
  <2> QED BY <1>1, <1>4, <2>1, <2>3 DEF Lead
<1> QED BY <1>3, <1>4

LEMMA LeadOne ==
  ASSUME NEW f, f[1] \in Scored PROVE Lead(f, 1, f[1])
<1>1. f[1].score \in Nat /\ 1 .. 1-1 = {} /\ \A j \in 1 .. 1 : j = 1
  BY DEF Scored
<1> QED BY <1>1 DEF Lead

-----------------------------------------------------------------------------
Quality == [chi : Chi, penalty : Penalty]
ScoreType == [strategy : STRING, seed : Seed, chi : Chi, ns : Ns]

\* What the seeds come to for the first strategy, as far as they are measured.
Known(j) == Hasher(strategies[1], seeds[j]) \in DOMAIN quality
Firsts == [j \in 1 .. Len(seeds) |-> Candidate(seeds[j], quality[Hasher(strategies[1], seeds[j])])]

\* Until RecommendHasher has started, and what the ranking and TuneSeed have come to
\* from then on.
MeasureInv ==
  /\ \A h \in DOMAIN quality : quality[h] \in Quality
  /\ candidates \in Seq(Scored)
  /\ \A i \in 1 .. Len(candidates) : candidates[1].score <= candidates[i].score
  /\ scores \in Seq(ScoreType)
  /\ pc \in {"load", "expand", "compare"} => at = 1 /\ scores = <<>>
  /\ pc \in {"load", "expand"} => candidates = <<>>
  /\ pc = "compare" =>
       /\ seedAt <= Len(seeds)+1
       /\ \A j \in 1 .. seedAt-1 : Known(j)
       /\ IF seedAt = 1 THEN candidates = <<>>
          ELSE candidates # <<>> /\ Lead(Firsts, seedAt-1, candidates[1])
  /\ pc = "tune" =>
       /\ seedAt <= Len(seeds)+1 /\ at = Len(scores)+1 /\ at <= Len(strategies)
       /\ \A j \in 1 .. Len(seeds) : Known(j)
       /\ candidates # <<>> /\ Lead(Firsts, Len(seeds), candidates[1])
       /\ IF seedAt = 1 THEN tuned = NotTuned ELSE tuned \in Scored
       /\ at = 1 /\ seedAt > 1 => Lead(Firsts, seedAt-1, tuned)
  /\ scores # <<>> => scores[1].seed = candidates[1].seed

\* A measurement is remembered, and measured again it comes to the same.
LEMMA Remembered ==
  ASSUME \A h \in DOMAIN quality : quality[h] \in Quality,
         NEW strategy, NEW seed, NEW q \in Measured(strategy, seed), Remember(strategy, seed, q)
  PROVE  /\ q \in Quality
         /\ DOMAIN quality \subseteq DOMAIN quality' /\ Hasher(strategy, seed) \in DOMAIN quality'
         /\ \A h \in DOMAIN quality : quality'[h] = quality[h]
         /\ quality'[Hasher(strategy, seed)] = q
         /\ \A h \in DOMAIN quality' : quality'[h] \in Quality
<1> DEFINE h == Hasher(strategy, seed)
<1>1. q \in Quality /\ (h \in DOMAIN quality => q = quality[h])
  BY DEF Measured, Quality
<1>2. quality' = [x \in DOMAIN quality \cup {h} |-> IF x = h THEN q ELSE quality[x]]
  BY DEF Remember
<1> HIDE DEF h
<1>3. /\ DOMAIN quality' = DOMAIN quality \cup {h} /\ quality'[h] = q
      /\ \A x \in DOMAIN quality : quality'[x] = quality[x]
  BY <1>1, <1>2
<1> QED BY <1>1, <1>3 DEF h

LEMMA CandidateScored ==
  ASSUME NEW seed \in Seed, NEW q \in Quality PROVE Candidate(seed, q) \in Scored
<1>1. q.chi \in Chi /\ q.penalty \in Penalty /\ q.chi \in Nat /\ q.penalty \in Nat
  BY TuneAssumption DEF Quality
<1> DEFINE x == IF q.chi <= 0 THEN 1 ELSE q.chi
           y == 4 + q.penalty
<1>2. x \in Nat /\ y \in Nat
  BY <1>1
<1>3. x * y < MaxFloat
  BY <1>1, TuneAssumption
<1>4. SeedQualityScore(q.chi, q.penalty) = x * y
  BY DEF SeedQualityScore
<1> HIDE DEF x, y
<1>5. x * y \in Nat
  BY <1>2
<1> QED BY <1>1, <1>3, <1>4, <1>5 DEF Candidate, Scored

\* What the known seeds come to does not change.
LEMMA FirstsKept ==
  ASSUME UNCHANGED <<flags, seeds>>, DOMAIN quality \subseteq DOMAIN quality',
         \A h \in DOMAIN quality : quality'[h] = quality[h],
         NEW j \in 1 .. Len(seeds), Known(j)
  PROVE  Known(j)' /\ Firsts'[j] = Firsts[j]
BY DEF Known, Firsts, strategies, Hasher, Candidate

LEMMA FirstsScored ==
  ASSUME seeds \in Seq(Seed), \A h \in DOMAIN quality : quality[h] \in Quality,
         NEW j \in 1 .. Len(seeds), Known(j)
  PROVE  Firsts[j] \in Scored
<1>1. seeds[j] \in Seed /\ quality[Hasher(strategies[1], seeds[j])] \in Quality
  BY ElementOfSeq DEF Known
<1> QED BY <1>1, CandidateScored DEF Firsts

-----------------------------------------------------------------------------
\* What holds before the first seed is measured.
LEMMA MeasureStart ==
  ASSUME MeasureInv, pc \in {"load", "expand"}, pc' \in {"failed", "expand", "compare"},
         UNCHANGED <<flags, quality, candidates, scores, at>>,
         pc' = "compare" => seedAt' = 1 /\ Len(seeds') \in Nat
  PROVE  MeasureInv'
<1>1. candidates = <<>> /\ scores = <<>> /\ at = 1
  BY DEF MeasureInv
<1>2. 1 .. 1-1 = {}
  OBVIOUS
<1> QED BY <1>1, <1>2 DEF MeasureInv

\* CompareSeeds: the head of the ranking is the first best seed so far.
LEMMA CompareMeasured ==
  ASSUME LadderInv, MeasureInv, CompareSeed
  PROVE  MeasureInv'
<1> DEFINE h == Hasher(strategies[1], seeds[seedAt])
           N == seedAt - 1
<1>1. PICK q \in Measured(strategies[1], seeds[seedAt]) :
        /\ Remember(strategies[1], seeds[seedAt], q)
        /\ candidates' = Inserted(candidates, Candidate(seeds[seedAt], q))
  BY DEF CompareSeed
<1>2. /\ pc = "compare" /\ pc' = "compare" /\ seedAt' = seedAt + 1 /\ seedAt <= Len(seeds)
      /\ UNCHANGED <<flags, seeds, at, scores>> /\ at = 1 /\ scores = <<>>
      /\ strategies' = strategies
  BY DEF CompareSeed, MeasureInv, strategies
<1>3. seeds \in Seq(Seed) /\ seedAt \in Nat \ {0} /\ Len(seeds) \in Nat /\ seedAt \in 1 .. Len(seeds) /\ seeds[seedAt] \in Seed
  BY <1>2, LenProperties, ElementOfSeq DEF LadderInv, SeedsInv
<1>4. /\ q \in Quality /\ DOMAIN quality \subseteq DOMAIN quality'
      /\ \A x \in DOMAIN quality : quality'[x] = quality[x]
      /\ h \in DOMAIN quality' /\ quality'[h] = q
      /\ \A x \in DOMAIN quality' : quality'[x] \in Quality
  BY <1>1, Remembered DEF MeasureInv
<1> DEFINE c == Candidate(seeds[seedAt], q)
<1>5. c \in Scored
  BY <1>3, <1>4, CandidateScored
<1>6. \A j \in 1 .. seedAt : j = seedAt => Known(j)' /\ Firsts'[j] = c
  <2> SUFFICES ASSUME NEW j, j = seedAt PROVE Known(j)' /\ Firsts'[j] = c
    OBVIOUS
  <2>1. Len(seeds') = Len(seeds) /\ j \in 1 .. Len(seeds')
    BY <1>2, <1>3
  <2>2. Hasher(strategies[1], seeds[j])' = h
    BY <1>2 DEF Hasher
  <2> HIDE DEF h
  <2>3. Firsts' = [i \in 1 .. Len(seeds') |-> Candidate(seeds'[i], quality'[Hasher(strategies[1], seeds[i])'])]
    BY DEF Firsts, Candidate
  <2>4. Firsts'[j] = Candidate(seeds'[j], q)
    BY <1>4, <2>1, <2>2, <2>3
  <2> QED BY <1>2, <1>4, <2>2, <2>4 DEF Known
<1>6a. Firsts'[seedAt] = c
  BY <1>3, <1>6
<1>7. ASSUME NEW j \in 1 .. N PROVE Known(j) /\ Known(j)' /\ Firsts'[j] = Firsts[j] /\ Firsts'[j] \in Scored
  <2>1. j \in 1 .. Len(seeds) /\ Known(j) /\ j \in 1 .. seedAt-1
    BY <1>2, <1>3 DEF MeasureInv
  <2>2. Known(j)' /\ Firsts'[j] = Firsts[j]
    BY <1>2, <1>4, <2>1, FirstsKept
  <2>3. Firsts[j] \in Scored
    BY <1>3, <2>1, FirstsScored DEF MeasureInv
  <2> QED BY <2>1, <2>2, <2>3
<1>8. /\ candidates' \in Seq(Scored) /\ candidates' # <<>>
      /\ candidates'[1] = IF candidates = <<>> \/ c.score < candidates[1].score THEN c ELSE candidates[1]
      /\ \A i \in 1 .. Len(candidates') : candidates'[1].score <= candidates'[i].score
  <2>1. candidates \in Seq(Scored) /\ \A i \in 1 .. Len(candidates) : candidates[1].score <= candidates[i].score
    BY DEF MeasureInv
  <2> HIDE DEF c
  <2> QED BY <1>1, <1>5, <2>1, InsertedHead DEF c
<1> HIDE DEF c, h
<1>9. Lead(Firsts', seedAt, candidates'[1])
  <2>1. CASE seedAt = 1
    <3>1. candidates = <<>>
      BY <1>2, <2>1 DEF MeasureInv
    <3> QED BY <1>5, <1>6a, <1>8, <2>1, <3>1, LeadOne
  <2>2. CASE seedAt # 1
    <3>1. candidates # <<>> /\ Lead(Firsts, N, candidates[1])
      BY <1>2, <2>2 DEF MeasureInv
    <3>2. N \in Nat \ {0} /\ N+1 = seedAt
      BY <1>3, <2>2
    <3>3. Lead(Firsts', N, candidates[1])
      BY <1>7, <3>1, <3>2, LeadSame
    <3>4. \A j \in 1 .. N+1 : Firsts'[j] \in Scored
      <4>1. \A j \in 1 .. N+1 : j \in 1 .. N \/ j = seedAt
        BY <3>2
      <4> QED BY <1>5, <1>6a, <1>7, <4>1
    <3> HIDE DEF N
    <3>5. Lead(Firsts', N+1, IF Firsts'[N+1].score < candidates[1].score THEN Firsts'[N+1] ELSE candidates[1])
      BY <3>2, <3>3, <3>4, LeadNext
    <3> QED BY <1>6a, <1>8, <3>1, <3>2, <3>5
  <2> QED BY <2>1, <2>2
<1>10. seedAt' # 1 /\ seedAt'-1 = seedAt /\ seedAt' <= Len(seeds')+1
  BY <1>2, <1>3
<1>11. \A j \in 1 .. seedAt : Known(j)'
  <2>1. \A j \in 1 .. seedAt : j \in 1 .. N \/ j = seedAt
    BY <1>3
  <2> QED BY <1>6, <1>7, <2>1
<1> QED BY <1>2, <1>4, <1>8, <1>9, <1>10, <1>11 DEF MeasureInv

\* TuneSeed: for the first strategy what it keeps is the first best seed so far too.
LEMMA TuneMeasured ==
  ASSUME LadderInv, MeasureInv, TuneSeed
  PROVE  MeasureInv'
<1> DEFINE h == Hasher(strategies[at], seeds[seedAt])
           N == seedAt - 1
           all == Len(seeds)
<1>1. PICK q \in Measured(strategies[at], seeds[seedAt]) :
        /\ Remember(strategies[at], seeds[seedAt], q)
        /\ tuned' = IF Candidate(seeds[seedAt], q).score < tuned.score THEN Candidate(seeds[seedAt], q) ELSE tuned
  BY DEF TuneSeed
<1>2. /\ pc = "tune" /\ pc' = "tune" /\ seedAt' = seedAt + 1 /\ seedAt <= Len(seeds)
      /\ UNCHANGED <<flags, seeds, at, scores, candidates>>
      /\ strategies' = strategies
  BY DEF TuneSeed, strategies
<1>3. seeds \in Seq(Seed) /\ seedAt \in Nat \ {0} /\ all \in Nat /\ seedAt \in 1 .. all /\ seeds[seedAt] \in Seed
  BY <1>2, LenProperties, ElementOfSeq DEF LadderInv, SeedsInv
<1>4. /\ q \in Quality /\ DOMAIN quality \subseteq DOMAIN quality'
      /\ \A x \in DOMAIN quality : quality'[x] = quality[x]
      /\ h \in DOMAIN quality' /\ quality'[h] = q
      /\ \A x \in DOMAIN quality' : quality'[x] \in Quality
  BY <1>1, Remembered DEF MeasureInv
<1> DEFINE c == Candidate(seeds[seedAt], q)
<1>5. c \in Scored
  BY <1>3, <1>4, CandidateScored
<1>6. \A j \in 1 .. all : Known(j) /\ Known(j)' /\ Firsts'[j] = Firsts[j] /\ Firsts[j] \in Scored
  <2> SUFFICES ASSUME NEW j \in 1 .. all PROVE Known(j) /\ Known(j)' /\ Firsts'[j] = Firsts[j] /\ Firsts[j] \in Scored
    OBVIOUS
  <2>1. Known(j)
    BY <1>2 DEF MeasureInv
  <2> QED BY <1>2, <1>3, <1>4, <2>1, FirstsKept, FirstsScored DEF MeasureInv
<1>7. tuned' = IF c.score < tuned.score THEN c ELSE tuned
  BY <1>1
<1>8. tuned' \in Scored /\ (seedAt = 1 => tuned' = c)
  <2>1. c.score \in Nat /\ c.score < MaxFloat
    BY <1>5 DEF Scored
  <2>2. CASE seedAt = 1
    <3>1. tuned.score = MaxFloat
      BY <1>2, <2>2 DEF MeasureInv, NotTuned
    <3> HIDE DEF c
    <3> QED BY <1>5, <1>7, <2>1, <2>2, <3>1
  <2>3. CASE seedAt # 1
    <3> HIDE DEF c
    <3> QED BY <1>2, <1>5, <1>7, <2>3 DEF MeasureInv
  <2> QED BY <2>2, <2>3
<1>9. at = 1 => Firsts[seedAt] = c
  <2> SUFFICES ASSUME at = 1 PROVE Firsts[seedAt] = c
    OBVIOUS
  <2>1. Known(seedAt) /\ h = Hasher(strategies[1], seeds[seedAt])
    BY <1>3, <1>6
  <2>2. quality[h] = q
    BY <1>4, <2>1 DEF Known
  <2> QED BY <1>3, <2>1, <2>2 DEF Firsts
<1> HIDE DEF c, h
<1>10. Lead(Firsts', all, candidates'[1])
  BY <1>2, <1>3, <1>6, LeadSame DEF MeasureInv
<1>11. ASSUME at = 1 PROVE Lead(Firsts', seedAt, tuned')
  <2>0. \A j \in 1 .. seedAt : j \in 1 .. all
    BY <1>3
  <2>1. CASE seedAt = 1
    <3>1. Lead(Firsts, 1, Firsts[1])
      BY <1>6, <2>0, <2>1, LeadOne
    <3>2. Lead(Firsts', 1, Firsts[1])
      BY <1>6, <2>0, <2>1, <3>1, LeadSame
    <3> QED BY <1>8, <1>9, <1>11, <2>1, <3>2
  <2>2. CASE seedAt # 1
    <3>1. N \in Nat \ {0} /\ N+1 = seedAt /\ seedAt > 1
      BY <1>3, <2>2
    <3>2. Lead(Firsts, N, tuned)
      BY <1>2, <1>11, <3>1 DEF MeasureInv
    <3>3. \A j \in 1 .. N+1 : Firsts[j] \in Scored
      BY <1>6, <2>0, <3>1
    <3> HIDE DEF N
    <3>4. Lead(Firsts, N+1, IF Firsts[N+1].score < tuned.score THEN Firsts[N+1] ELSE tuned)
      BY <3>1, <3>2, <3>3, LeadNext
    <3>5. Lead(Firsts, seedAt, tuned')
      BY <1>7, <1>9, <1>11, <3>1, <3>4
    <3> QED BY <1>3, <1>6, <2>0, <3>5, LeadSame
  <2> QED BY <2>1, <2>2
<1>12. seedAt' # 1 /\ seedAt'-1 = seedAt /\ seedAt' <= Len(seeds')+1 /\ Len(seeds') = all
  BY <1>2, <1>3
<1>13. at = Len(scores)+1 /\ at <= Len(strategies) /\ candidates # <<>>
  BY <1>2 DEF MeasureInv
<1>14. \A j \in 1 .. Len(seeds') : Known(j)'
  BY <1>6, <1>12
<1> QED BY <1>2, <1>4, <1>8, <1>10, <1>11, <1>12, <1>13, <1>14 DEF MeasureInv

\* A strategy is scored with its best seed, which for the first one is the
\* ranking's.
LEMMA ScoreMeasured ==
  ASSUME LadderInv, MeasureInv, ScoreStrategy
  PROVE  /\ MeasureInv'
         /\ \E s \in ScoreType : s.chi = tuned.chi /\ scores' = Append(scores, s)
<1>1. PICK ns \in Ns :
        scores' = Append(scores, [strategy |-> strategies[at], seed |-> tuned.seed, chi |-> tuned.chi, ns |-> ns])
  BY DEF ScoreStrategy
<1>2. /\ pc = "tune" /\ pc' = (IF at = Len(strategies) THEN "pick" ELSE "tune")
      /\ at' = (IF at = Len(strategies) THEN 1 ELSE at + 1) /\ seedAt' = 1 /\ tuned' = NotTuned
      /\ seedAt > Len(seeds) /\ UNCHANGED <<flags, seeds, quality, candidates>>
      /\ strategies' = strategies /\ NotTuned' = NotTuned
  BY DEF ScoreStrategy, strategies, NotTuned
<1>3. /\ seeds \in Seq(Seed) /\ seeds # <<>> /\ Len(seeds) \in Nat /\ Len(seeds) >= 1
      /\ seedAt \in Nat \ {0} /\ flags \in Flags
  BY <1>2, EmptySeq DEF LadderInv, SeedsInv
<1>4. seedAt-1 = Len(seeds) /\ seedAt > 1 /\ seedAt # 1 /\ at = Len(scores)+1 /\ at <= Len(strategies)
  BY <1>2, <1>3 DEF MeasureInv
<1>5. scores \in Seq(ScoreType) /\ Len(scores) \in Nat /\ tuned \in Scored
  BY <1>2, <1>4, LenProperties DEF MeasureInv
<1>6. strategies[at] \in STRING /\ Len(strategies) \in Nat
  <2>1. strategies \in Seq(STRING)
    BY <1>3, TuneAssumption DEF strategies
  <2>2. at \in 1 .. Len(strategies) /\ Len(strategies) \in Nat
    BY <1>4, <1>5, <2>1, LenProperties
  <2> QED BY <2>1, <2>2, ElementOfSeq
<1> DEFINE s == [strategy |-> strategies[at], seed |-> tuned.seed, chi |-> tuned.chi, ns |-> ns]
<1>7. s \in ScoreType /\ s.chi = tuned.chi /\ s.seed = tuned.seed
  BY <1>5, <1>6 DEF Scored, ScoreType
<1>8. scores' = Append(scores, s)
  BY <1>1
<1> HIDE DEF s
<1>9. /\ scores' \in Seq(ScoreType) /\ scores' # <<>> /\ Len(scores') = Len(scores)+1
      /\ \A i \in 1 .. Len(scores) : scores'[i] = scores[i]
      /\ scores'[Len(scores)+1] = s
  BY <1>5, <1>7, <1>8, AppendProperties
<1>10. Firsts' = Firsts /\ \A j : Known(j)' <=> Known(j)
  BY <1>2 DEF Firsts, Known, Hasher, Candidate
<1>11. Lead(Firsts, Len(seeds), candidates[1]) /\ candidates # <<>> /\ \A j \in 1 .. Len(seeds) : Known(j)
  BY <1>2 DEF MeasureInv
<1>12. scores'[1].seed = candidates[1].seed
  <2>1. CASE at = 1
    <3>1. Lead(Firsts, Len(seeds), tuned)
      BY <1>2, <1>4, <2>1 DEF MeasureInv
    <3>2. \A j \in 1 .. Len(seeds) : Firsts[j] \in Scored
      BY <1>3, <1>11, FirstsScored DEF MeasureInv
    <3>3. tuned = candidates[1]
      BY <1>3, <1>11, <3>1, <3>2, LeadUnique
    <3>4. Len(scores)+1 = 1
      BY <1>4, <2>1
    <3> QED BY <1>7, <1>9, <3>3, <3>4
  <2>2. CASE at # 1
    <3>1. 1 \in 1 .. Len(scores)
      BY <1>4, <1>5, <2>2
    <3>2. scores # <<>>
      BY <3>1, EmptySeq
    <3> QED BY <1>9, <3>1, <3>2 DEF MeasureInv
  <2> QED BY <2>1, <2>2
<1>13. pc' = "tune" => at' = Len(scores')+1 /\ at' <= Len(strategies')
  BY <1>2, <1>4, <1>5, <1>6, <1>9
<1>14. MeasureInv'
  <2>1. seedAt' = 1 /\ seedAt' <= Len(seeds')+1 /\ ~(seedAt' > 1)
    BY <1>2, <1>3
  <2>2. pc' \in {"tune", "pick"}
    BY <1>2
  <2>3. Lead(Firsts', Len(seeds'), candidates'[1]) /\ \A j \in 1 .. Len(seeds') : Known(j)'
    BY <1>2, <1>10, <1>11
  <2> QED BY <1>2, <1>9, <1>11, <1>12, <1>13, <2>1, <2>2, <2>3 DEF MeasureInv
<1> QED BY <1>7, <1>8, <1>14

\* The ranking and TuneSeed do not part at any step.
LEMMA MeasureStep == LadderInv /\ MeasureInv /\ [TuneNext]_tuneVars => MeasureInv'
<1> SUFFICES ASSUME LadderInv, MeasureInv, [TuneNext]_tuneVars PROVE MeasureInv'
  OBVIOUS
<1>1. CASE LoadFails
  BY <1>1, MeasureStart DEF LoadFails, Fail
<1>2. CASE Load
  <2>1. seedAt' = 1 /\ Len(seeds') \in Nat
    <3>1. flags \in Flags /\ seedAt = 1 /\ seedAt' = seedAt
      BY <1>2 DEF Load, LadderInv, SeedsInv
    <3> QED BY <1>2, <3>1, BaseSeeds, EmptySeq DEF Load
  <2> QED BY <1>2, <2>1, MeasureStart DEF Load
<1>3. CASE ExpandSeed
  BY <1>3, MeasureStart DEF ExpandSeed
<1>4. CASE SeedsExpanded
  <2>1. Len(seeds') \in Nat
    BY <1>4, LenProperties DEF SeedsExpanded, LadderInv, SeedsInv
  <2> QED BY <1>4, <2>1, MeasureStart DEF SeedsExpanded
<1>5. CASE StrategyOnly
  BY <1>5 DEF StrategyOnly, MeasureInv
<1>6. CASE StartTuning
  <2>1. /\ pc = "compare" /\ pc' = "tune" /\ seedAt > Len(seeds) /\ seedAt' = 1 /\ tuned' = NotTuned
        /\ UNCHANGED <<flags, seeds, quality, at, candidates, scores>> /\ NotTuned' = NotTuned
        /\ strategies' = strategies
    BY <1>6 DEF StartTuning, NotTuned, strategies
  <2>2. Len(seeds) \in Nat /\ Len(seeds) >= 1 /\ seedAt \in Nat \ {0} /\ flags \in Flags
    BY <2>1, EmptySeq DEF LadderInv, SeedsInv
  <2>3. seedAt-1 = Len(seeds) /\ seedAt # 1 /\ at = 1 /\ scores = <<>>
    BY <2>1, <2>2 DEF MeasureInv
  <2>4. Firsts' = Firsts /\ \A j : Known(j)' <=> Known(j)
    BY <2>1 DEF Firsts, Known, Hasher, Candidate
  <2>5. Lead(Firsts, Len(seeds), candidates[1]) /\ candidates # <<>> /\ \A j \in 1 .. Len(seeds) : Known(j)
    BY <2>1, <2>3 DEF MeasureInv
  <2>6. at' = Len(scores')+1 /\ at' <= Len(strategies')
    <3>1. strategies \in Seq(STRING) /\ strategies # <<>>
      BY <2>2, TuneAssumption DEF strategies
    <3>2. Len(strategies) \in Nat \ {0} /\ Len(scores) = 0
      BY <2>3, <3>1, EmptySeq
    <3> QED BY <2>1, <2>3, <3>2
  <2>7. seedAt' <= Len(seeds')+1 /\ ~(seedAt' > 1)
    BY <2>1, <2>2
  <2> QED BY <2>1, <2>3, <2>4, <2>5, <2>6, <2>7 DEF MeasureInv
<1>7. CASE PickStrategy
  BY <1>7 DEF PickStrategy, MeasureInv
<1>8. CASE Recommend
  BY <1>8 DEF Recommend, MeasureInv
<1>9. CASE Exit \/ UNCHANGED tuneVars
  <2>1. UNCHANGED <<flags, seeds, quality, seedAt, at, candidates, tuned, scores, pc>>
    BY <1>9 DEF Exit, tuneVars
  <2>2. Firsts' = Firsts /\ (\A j : Known(j)' <=> Known(j)) /\ NotTuned' = NotTuned /\ strategies' = strategies
    BY <2>1 DEF Firsts, Known, Hasher, Candidate, NotTuned, strategies
  <2> QED BY <2>1, <2>2 DEF MeasureInv
<1> QED BY <1>1, <1>2, <1>3, <1>4, <1>5, <1>6, <1>7, <1>8, <1>9, CompareMeasured, TuneMeasured, ScoreMeasured
    DEF TuneNext

LEMMA MeasureInit == TuneInit => MeasureInv
<1> SUFFICES ASSUME TuneInit PROVE MeasureInv
  OBVIOUS
<1>1. pc = "load" /\ quality = <<>> /\ candidates = <<>> /\ scores = <<>> /\ at = 1
  BY DEF TuneInit, TuneStart
<1>2. <<>> \in Seq(Scored) /\ <<>> \in Seq(ScoreType) /\ 1 .. Len(<<>>) = {} /\ DOMAIN <<>> = {}
  BY EmptySeq
<1> QED BY <1>1, <1>2 DEF MeasureInv

THEOREM MeasureInvariant == TuneSpec => []MeasureInv
BY MeasureInit, MeasureStep, LadderInvariant, PTL DEF TuneSpec

\* The seed the ranking shows first is the one TuneSeed settles on for the first
\* strategy, for every list of seeds with repeats and every tie of their scores
\* (hash_tune.go:68-100).
THEOREM RankingAgrees == TuneSpec => []RankingAgreesWithTuning
<1>1. MeasureInv => RankingAgreesWithTuning
  BY DEF MeasureInv, RankingAgreesWithTuning
<1> QED BY <1>1, MeasureInvariant, PTL

-----------------------------------------------------------------------------
(* hashtune: the recommendation.                                           *)

\* A strategy that may be recommended.
Admitted(i) == flags.preferSpeed => WithinMargin(scores[i])

BestChi ==
  /\ scores # <<>>
  /\ \A i \in 1 .. Len(scores) : bestChi <= scores[i].chi
  /\ \E i \in 1 .. Len(scores) : bestChi = scores[i].chi

\* What the loop over the scores has come to after the first N of them.
PickedOf(N) ==
  \/ best = NoScore /\ bestRank = MaxFloat /\ \A j \in 1 .. N : ~Admitted(j)
  \/ \E b \in 1 .. N : /\ best = scores[b] /\ Admitted(b) /\ bestRank = Rank(scores[b])
                       /\ \A j \in 1 .. N : Admitted(j) => bestRank <= Rank(scores[j])

PickInv ==
  /\ \A i \in 1 .. Len(scores) : scores[i].strategy # "none"
  /\ pc \in {"load", "expand", "compare", "tune"} =>
       best = NoScore /\ bestRank = MaxFloat /\ (scores = <<>> => bestChi = MaxFloat)
  /\ pc = "tune" /\ scores # <<>> => BestChi
  /\ pc = "pick" => BestChi /\ at \in 1 .. Len(scores)+1 /\ PickedOf(at-1)
  /\ RecommendationUnbeaten

LEMMA RankNat ==
  ASSUME MeasureInv, NEW i \in 1 .. Len(scores)
  PROVE  Rank(scores[i]) \in Nat /\ Rank(scores[i]) < MaxFloat /\ scores[i].chi \in Nat /\ MaxFloat \in Nat
<1>1. scores[i] \in ScoreType
  BY ElementOfSeq DEF MeasureInv
<1>2. scores[i].chi \in Chi /\ scores[i].ns \in Ns
  BY <1>1 DEF ScoreType
<1> QED BY <1>2, TuneAssumption DEF Rank

\* The margin is a positive fraction.
LEMMA MarginPositive ==
  ASSUME flags \in Flags PROVE margin[1] \in Nat \ {0} /\ margin[2] \in Nat \ {0}
<1>1. flags.margin[1] \in Int /\ flags.margin[2] \in Nat \ {0}
  BY TuneAssumption
<1> QED BY <1>1 DEF margin

\* After ScoreStrategy the best chi-squared is still the least of the scores'.
LEMMA ScorePicked ==
  ASSUME LadderInv, MeasureInv, PickInv, ScoreStrategy
  PROVE  PickInv'
<1>1. PICK s \in ScoreType : s.chi = tuned.chi /\ scores' = Append(scores, s)
  BY ScoreMeasured
<1>2. /\ pc = "tune" /\ pc' \in {"pick", "tune"} /\ at' = (IF at = Len(strategies) THEN 1 ELSE at + 1)
      /\ pc' = "pick" => at = Len(strategies)
      /\ bestChi' = (IF tuned.chi < bestChi THEN tuned.chi ELSE bestChi)
      /\ UNCHANGED <<flags, bestRank, best>>
  BY DEF ScoreStrategy
<1>3. scores \in Seq(ScoreType) /\ Len(scores) \in Nat /\ s.chi \in Nat /\ s.chi < MaxFloat
  <2>1. s.chi \in Chi
    BY DEF ScoreType
  <2> QED BY <2>1, LenProperties, TuneAssumption DEF MeasureInv
<1>4. /\ scores' # <<>> /\ Len(scores') = Len(scores)+1 /\ scores'[Len(scores)+1] = s
      /\ \A i \in 1 .. Len(scores) : scores'[i] = scores[i]
  BY <1>1, <1>3, AppendProperties
<1>5. BestChi'
  <2>1. CASE scores = <<>>
    <3>1. Len(scores) = 0 /\ bestChi = MaxFloat
      BY <1>2, <2>1, EmptySeq DEF PickInv
    <3>2. bestChi' = s.chi /\ 1 .. Len(scores') = {1} /\ scores'[1] = s
      BY <1>1, <1>2, <1>3, <1>4, <3>1
    <3> QED BY <1>3, <1>4, <3>2 DEF BestChi
  <2>2. CASE scores # <<>>
    <3>1. /\ \A i \in 1 .. Len(scores) : bestChi <= scores[i].chi
          /\ \E i \in 1 .. Len(scores) : bestChi = scores[i].chi
      BY <1>2, <2>2 DEF PickInv, BestChi
    <3>2. \A i \in 1 .. Len(scores) : scores[i].chi \in Nat
      BY RankNat
    <3>3. bestChi \in Nat /\ bestChi' = IF s.chi < bestChi THEN s.chi ELSE bestChi
      BY <1>1, <1>2, <3>1, <3>2
    <3>4. \A i \in 1 .. Len(scores') : i \in 1 .. Len(scores) \/ i = Len(scores)+1
      BY <1>3, <1>4
    <3>5. \A i \in 1 .. Len(scores') : bestChi' <= scores'[i].chi
      BY <1>3, <1>4, <3>1, <3>2, <3>3, <3>4
    <3>6. \E i \in 1 .. Len(scores') : bestChi' = scores'[i].chi
      <4>1. CASE s.chi < bestChi
        BY <1>3, <1>4, <3>3, <4>1
      <4>2. CASE ~(s.chi < bestChi)
        <5>1. PICK i \in 1 .. Len(scores) : bestChi = scores[i].chi
          BY <3>1
        <5>2. i \in 1 .. Len(scores') /\ scores'[i] = scores[i]
          BY <1>3, <1>4
        <5> QED BY <3>3, <4>2, <5>1, <5>2
      <4> QED BY <4>1, <4>2
    <3> QED BY <1>4, <3>5, <3>6 DEF BestChi
  <2> QED BY <2>1, <2>2
<1>6. \A i \in 1 .. Len(scores') : scores'[i].strategy # "none"
  <2>1. \A i \in 1 .. Len(scores') : i \in 1 .. Len(scores) \/ i = Len(scores)+1
    BY <1>3, <1>4
  <2>2. s.strategy # "none"
    <3>1. strategies[at] # "none"
      <4>1. flags \in Flags /\ at \in Nat /\ at >= 1 /\ at <= Len(strategies)
        BY <1>2, <1>3 DEF LadderInv, SeedsInv, MeasureInv
      <4>2. strategies \in Seq(STRING) /\ \A i \in DOMAIN strategies : strategies[i] # "none"
        BY <4>1, TuneAssumption DEF strategies
      <4>3. at \in DOMAIN strategies
        BY <4>1, <4>2, LenProperties
      <4> QED BY <4>2, <4>3
    <3>2. PICK ns \in Ns : scores' = Append(scores,
            [strategy |-> strategies[at], seed |-> tuned.seed, chi |-> tuned.chi, ns |-> ns])
      BY DEF ScoreStrategy
    <3> DEFINE t == [strategy |-> strategies[at], seed |-> tuned.seed, chi |-> tuned.chi, ns |-> ns]
    <3>3. t.strategy = strategies[at]
      OBVIOUS
    <3>4. Append(scores, t) = Append(scores, s)
      BY <1>1, <3>2
    <3> HIDE DEF t
    <3>5. Append(scores, t)[Len(scores)+1] = t
      BY <1>3
    <3> QED BY <1>1, <1>4, <3>1, <3>3, <3>4, <3>5
  <2> QED BY <1>4, <2>1, <2>2 DEF PickInv
<1>7. best = NoScore /\ bestRank = MaxFloat
  BY <1>2 DEF PickInv
<1>8. pc' = "pick" => at' = 1 /\ at' \in 1 .. Len(scores')+1 /\ PickedOf(at-1)'
  <2> SUFFICES ASSUME pc' = "pick" PROVE at' = 1 /\ at' \in 1 .. Len(scores')+1 /\ PickedOf(at-1)'
    OBVIOUS
  <2>1. at' = 1 /\ 1 .. at'-1 = {}
    BY <1>2
  <2> QED BY <1>2, <1>3, <1>4, <1>7, <2>1 DEF PickedOf, NoScore
<1>9. RecommendationUnbeaten'
  BY <1>2 DEF RecommendationUnbeaten
<1> QED BY <1>2, <1>4, <1>5, <1>6, <1>7, <1>8, <1>9 DEF PickInv, NoScore

\* The loop over the scores keeps the first admitted one of the best rank.
LEMMA StrategyPicked ==
  ASSUME MeasureInv, PickInv, PickStrategy
  PROVE  PickInv'
<1>1. /\ pc = "pick" /\ pc' = "pick" /\ at' = at+1 /\ at <= Len(scores)
      /\ UNCHANGED <<flags, scores, bestChi>>
      /\ IF (flags.preferSpeed => WithinMargin(scores[at])) /\ Rank(scores[at]) < bestRank
         THEN bestRank' = Rank(scores[at]) /\ best' = scores[at]
         ELSE UNCHANGED <<bestRank, best>>
  BY DEF PickStrategy
<1>2. BestChi /\ at \in 1 .. Len(scores)+1 /\ PickedOf(at-1)
  BY <1>1 DEF PickInv
<1>3. Len(scores) \in Nat /\ at \in 1 .. Len(scores)
  <2>1. Len(scores) \in Nat
    BY LenProperties DEF MeasureInv
  <2> QED BY <1>1, <1>2, <2>1
<1>4. \A i \in 1 .. Len(scores) : Rank(scores[i]) \in Nat /\ Rank(scores[i]) < MaxFloat /\ MaxFloat \in Nat
  BY RankNat
<1>5. \A i : (Admitted(i)' <=> Admitted(i)) /\ Rank(scores[i])' = Rank(scores[i])
  BY <1>1 DEF Admitted, WithinMargin, margin, Rank
<1>6. \A j \in 1 .. at : j \in 1 .. at-1 \/ j = at
  BY <1>3
<1>7. PickedOf(at-1)'
  <2>1. CASE Admitted(at) /\ Rank(scores[at]) < bestRank
    <3>1. bestRank' = Rank(scores[at]) /\ best' = scores[at]
      BY <1>1, <2>1 DEF Admitted
    <3>2. \A j \in 1 .. at-1 : Admitted(j) => Rank(scores[at]) <= Rank(scores[j])
      <4> SUFFICES ASSUME NEW j \in 1 .. at-1, Admitted(j) PROVE Rank(scores[at]) <= Rank(scores[j])
        OBVIOUS
      <4>1. bestRank <= Rank(scores[j]) /\ bestRank \in Nat
        <5>1. PICK b \in 1 .. at-1 : bestRank = Rank(scores[b]) /\ \A i \in 1 .. at-1 : Admitted(i) => bestRank <= Rank(scores[i])
          BY <1>2 DEF PickedOf
        <5>2. b \in 1 .. Len(scores)
          BY <1>3
        <5> QED BY <1>4, <5>1, <5>2
      <4>2. j \in 1 .. Len(scores)
        BY <1>3
      <4> QED BY <1>3, <1>4, <2>1, <4>1, <4>2
    <3>3. Rank(scores[at]) <= Rank(scores[at])
      BY <1>3, <1>4
    <3>4. \A j \in 1 .. at : Admitted(j) => bestRank' <= Rank(scores[j])
      BY <1>6, <3>1, <3>2, <3>3
    <3>5. at'-1 = at /\ at \in 1 .. at /\ scores' = scores
      BY <1>1, <1>3
    <3>6. /\ best' = scores'[at] /\ bestRank' = Rank(scores[at])
          /\ \A j \in 1 .. at : Admitted(j) => bestRank' <= Rank(scores[j])
      BY <3>1, <3>4, <3>5
    <3>7. \E b \in 1 .. at : /\ best' = scores'[b] /\ Admitted(b) /\ bestRank' = Rank(scores[b])
                             /\ \A j \in 1 .. at : Admitted(j) => bestRank' <= Rank(scores[j])
      BY <2>1, <3>5, <3>6
    <3>8. \E b \in 1 .. at'-1 :
            /\ best' = scores'[b] /\ Admitted(b)' /\ bestRank' = Rank(scores[b])'
            /\ \A j \in 1 .. at'-1 : Admitted(j)' => bestRank' <= Rank(scores[j])'
      BY <1>5, <3>5, <3>7
    <3> QED BY <3>8 DEF PickedOf
  <2>2. CASE ~(Admitted(at) /\ Rank(scores[at]) < bestRank)
    <3>1. bestRank' = bestRank /\ best' = best
      BY <1>1, <2>2 DEF Admitted
    <3>2. at'-1 = at /\ scores' = scores
      BY <1>1, <1>3
    <3>3. CASE best = NoScore /\ bestRank = MaxFloat /\ \A j \in 1 .. at-1 : ~Admitted(j)
      <4>1. ~Admitted(at)
        BY <1>3, <1>4, <2>2, <3>3
      <4>2. \A j \in 1 .. at'-1 : ~Admitted(j)'
        BY <1>5, <1>6, <3>2, <3>3, <4>1
      <4>3. best' = NoScore' /\ bestRank' = MaxFloat
        BY <3>1, <3>3 DEF NoScore
      <4> QED BY <4>2, <4>3 DEF PickedOf
    <3>4. CASE \E b \in 1 .. at-1 : /\ best = scores[b] /\ Admitted(b) /\ bestRank = Rank(scores[b])
                                    /\ \A j \in 1 .. at-1 : Admitted(j) => bestRank <= Rank(scores[j])
      <4>1. PICK b \in 1 .. at-1 : /\ best = scores[b] /\ Admitted(b) /\ bestRank = Rank(scores[b])
                                   /\ \A j \in 1 .. at-1 : Admitted(j) => bestRank <= Rank(scores[j])
        BY <3>4
      <4>2. b \in 1 .. at /\ b \in 1 .. Len(scores)
        BY <1>3
      <4>3. Admitted(at) => bestRank <= Rank(scores[at])
        BY <1>3, <1>4, <2>2, <4>1, <4>2
      <4>4. \A j \in 1 .. at : Admitted(j) => bestRank <= Rank(scores[j])
        BY <1>6, <4>1, <4>3
      <4>5. \E e \in 1 .. at'-1 :
              /\ best' = scores'[e] /\ Admitted(e)' /\ bestRank' = Rank(scores[e])'
              /\ \A j \in 1 .. at'-1 : Admitted(j)' => bestRank' <= Rank(scores[j])'
        BY <1>5, <3>1, <3>2, <4>1, <4>2, <4>4
      <4> QED BY <4>5 DEF PickedOf
    <3> QED BY <1>2, <3>3, <3>4 DEF PickedOf
  <2> QED BY <2>1, <2>2
<1>8. BestChi' /\ at' \in 1 .. Len(scores')+1
  BY <1>1, <1>2, <1>3 DEF BestChi
<1>9. RecommendationUnbeaten'
  BY <1>1 DEF RecommendationUnbeaten
<1> QED BY <1>1, <1>7, <1>8, <1>9 DEF PickInv

\* Multiplying keeps the order.
LEMMA ScaledOrder ==
  ASSUME NEW a \in Nat, NEW b \in Nat, NEW m \in Nat, a <= b
  PROVE  a * m <= b * m
OBVIOUS

LEMMA ProductInt ==
  ASSUME NEW a \in Nat, NEW m \in Nat
  PROVE  a * m \in Int
OBVIOUS

\* What is recommended was scored; no admitted strategy has a better rank, and if
\* none is admitted it is the first.
LEMMA RecommendPicks ==
  ASSUME MeasureInv, PickInv, Recommend
  PROVE  \E k \in 1 .. Len(scores) :
           /\ best' = scores[k]
           /\ \/ Admitted(k) /\ \A j \in 1 .. Len(scores) : Admitted(j) => Rank(scores[k]) <= Rank(scores[j])
              \/ k = 1 /\ \A j \in 1 .. Len(scores) : ~Admitted(j)
<1>1. /\ pc = "pick" /\ at > Len(scores)
      /\ best' = (IF best = NoScore THEN scores[1] ELSE best)
  BY DEF Recommend
<1>2. BestChi /\ at \in 1 .. Len(scores)+1 /\ PickedOf(at-1) /\ Len(scores) \in Nat
  BY <1>1, LenProperties DEF PickInv, MeasureInv
<1>3. at-1 = Len(scores)
  BY <1>1, <1>2
<1>4. CASE best = NoScore /\ \A j \in 1 .. Len(scores) : ~Admitted(j)
  <2>1. 1 \in 1 .. Len(scores)
    BY <1>2 DEF BestChi
  <2> QED BY <1>1, <1>4, <2>1
<1>5. CASE \E b \in 1 .. Len(scores) :
             /\ best = scores[b] /\ Admitted(b) /\ bestRank = Rank(scores[b])
             /\ \A j \in 1 .. Len(scores) : Admitted(j) => bestRank <= Rank(scores[j])
  <2>1. PICK b \in 1 .. Len(scores) :
             /\ best = scores[b] /\ Admitted(b) /\ bestRank = Rank(scores[b])
             /\ \A j \in 1 .. Len(scores) : Admitted(j) => bestRank <= Rank(scores[j])
    BY <1>5
  <2>2. best # NoScore
    BY <2>1 DEF PickInv, NoScore
  <2> QED BY <1>1, <2>1, <2>2
<1> QED BY <1>2, <1>3, <1>4, <1>5 DEF PickedOf

\* With -prefer-speed, the strategies admitted by the best chi-squared are those
\* within the margin of every one.
LEMMA AdmittedEligible ==
  ASSUME flags \in Flags, MeasureInv, BestChi, flags.preferSpeed
  PROVE  /\ Eligible \subseteq 1 .. Len(scores)
         /\ \A i \in 1 .. Len(scores) : Admitted(i) <=> i \in Eligible
<1>1. DOMAIN scores = 1 .. Len(scores)
  BY LenProperties DEF MeasureInv
<1>2. /\ margin[1] \in Nat /\ margin[2] \in Nat
      /\ \A i \in 1 .. Len(scores) : scores[i].chi \in Nat
  BY RankNat, MarginPositive
<1>3. PICK c \in 1 .. Len(scores) : bestChi = scores[c].chi /\ \A i \in 1 .. Len(scores) : bestChi <= scores[i].chi
  BY DEF BestChi
<1>4. ASSUME NEW i \in 1 .. Len(scores), Admitted(i), NEW j \in 1 .. Len(scores)
      PROVE  scores[i].chi * margin[2] <= scores[j].chi * margin[1]
  <2>1. scores[i].chi * margin[2] <= bestChi * margin[1]
    BY <1>4 DEF Admitted, WithinMargin
  <2>2. bestChi \in Nat /\ bestChi <= scores[j].chi /\ scores[j].chi \in Nat /\ margin[1] \in Nat
    BY <1>2, <1>3
  <2>3. bestChi * margin[1] <= scores[j].chi * margin[1]
    BY <2>2, ScaledOrder
  <2>4. scores[i].chi * margin[2] \in Int /\ bestChi * margin[1] \in Int /\ scores[j].chi * margin[1] \in Int
    <3>1. scores[i].chi \in Nat /\ margin[2] \in Nat
      BY <1>2
    <3> QED BY <2>2, <3>1, ProductInt
  <2> QED BY <2>1, <2>3, <2>4
<1>5. ASSUME NEW i \in 1 .. Len(scores),
             \A j \in 1 .. Len(scores) : scores[i].chi * margin[2] <= scores[j].chi * margin[1]
      PROVE  Admitted(i)
  BY <1>3, <1>5 DEF Admitted, WithinMargin
<1> QED BY <1>1, <1>4, <1>5 DEF Eligible

LEMMA Recommended ==
  ASSUME flags \in Flags, MeasureInv, PickInv, Recommend
  PROVE  PickInv'
<1>1. pc = "pick" /\ pc' = "done" /\ UNCHANGED <<flags, at, scores, bestChi, bestRank>>
  BY DEF Recommend
<1>2. PICK k \in 1 .. Len(scores) :
           /\ best' = scores[k]
           /\ \/ Admitted(k) /\ \A j \in 1 .. Len(scores) : Admitted(j) => Rank(scores[k]) <= Rank(scores[j])
              \/ k = 1 /\ \A j \in 1 .. Len(scores) : ~Admitted(j)
  BY RecommendPicks
<1>3. BestChi /\ DOMAIN scores = 1 .. Len(scores)
  BY <1>1, LenProperties DEF PickInv, MeasureInv
<1>4. ~flags.preferSpeed => \A i \in 1 .. Len(scores) : scores[k].chi <= scores[i].chi
  BY <1>2 DEF Admitted, Rank
<1>5. ASSUME flags.preferSpeed
      PROVE  IF Eligible = {} THEN scores[k] = scores[1]
             ELSE \E b \in Eligible : scores[k] = scores[b] /\ \A i \in Eligible : scores[k].ns <= scores[i].ns
  <2>1. /\ Eligible \subseteq 1 .. Len(scores)
        /\ \A i \in 1 .. Len(scores) : Admitted(i) <=> i \in Eligible
    BY <1>3, <1>5, AdmittedEligible
  <2>2. CASE k = 1 /\ \A j \in 1 .. Len(scores) : ~Admitted(j)
    BY <2>1, <2>2
  <2>3. CASE Admitted(k) /\ \A j \in 1 .. Len(scores) : Admitted(j) => Rank(scores[k]) <= Rank(scores[j])
    BY <1>5, <2>1, <2>3 DEF Rank
  <2> QED BY <1>2, <2>2, <2>3
<1>6. RecommendationUnbeaten'
  <2>1. /\ margin' = margin /\ flags' = flags /\ scores' = scores /\ best' = scores[k] /\ k \in DOMAIN scores
        /\ Eligible' = Eligible
    BY <1>1, <1>2, <1>3 DEF margin, Eligible
  <2> QED BY <1>3, <1>4, <1>5, <2>1 DEF RecommendationUnbeaten
<1>7. \A i \in 1 .. Len(scores') : scores'[i].strategy # "none"
  BY <1>1 DEF PickInv
<1> QED BY <1>1, <1>6, <1>7 DEF PickInv

\* A step that leaves the scores and the choice alone.
LEMMA PickRests ==
  ASSUME PickInv, UNCHANGED <<flags, scores, bestChi, bestRank, best>>,
         pc \in {"load", "expand", "compare", "tune"},
         pc' \in {"load", "expand", "compare", "tune", "failed"},
         pc' = "tune" => pc = "tune" \/ scores = <<>>
  PROVE  PickInv'
<1>1. BestChi' <=> BestChi
  BY DEF BestChi
<1>2. NoScore' = NoScore
  BY DEF NoScore
<1> QED BY <1>1, <1>2 DEF PickInv, RecommendationUnbeaten

LEMMA PickStep == LadderInv /\ MeasureInv /\ PickInv /\ [TuneNext]_tuneVars => PickInv'
<1> SUFFICES ASSUME LadderInv, MeasureInv, PickInv, [TuneNext]_tuneVars PROVE PickInv'
  OBVIOUS
<1>1. flags \in Flags
  BY DEF LadderInv, SeedsInv
<1>2. CASE LoadFails \/ Load \/ ExpandSeed \/ SeedsExpanded
  BY <1>2, PickRests DEF LoadFails, Fail, Load, ExpandSeed, SeedsExpanded
<1>3. CASE CompareSeed
  BY <1>3, PickRests DEF CompareSeed
<1>4. CASE StrategyOnly
  BY <1>4 DEF StrategyOnly, PickInv, RecommendationUnbeaten
<1>5. CASE StartTuning
  <2>1. scores = <<>>
    BY <1>5 DEF StartTuning, MeasureInv
  <2> QED BY <1>5, <2>1, PickRests DEF StartTuning
<1>6. CASE TuneSeed
  BY <1>6, PickRests DEF TuneSeed
<1>7. CASE Exit \/ UNCHANGED tuneVars
  <2>1. UNCHANGED <<flags, scores, bestChi, bestRank, best, at, pc>>
    BY <1>7 DEF Exit, tuneVars
  <2>2. /\ BestChi' <=> BestChi
        /\ \A i : (Admitted(i)' <=> Admitted(i)) /\ Rank(scores[i])' = Rank(scores[i])
    BY <2>1 DEF BestChi, Admitted, WithinMargin, Rank, margin
  <2>4. RecommendationUnbeaten'
    <3>1. Eligible' = Eligible
      BY <2>1 DEF Eligible, margin
    <3> QED BY <2>1, <3>1 DEF PickInv, RecommendationUnbeaten
  <2>3. PickedOf(at-1)' <=> PickedOf(at-1)
    BY <2>1, <2>2 DEF PickedOf, NoScore
  <2> QED BY <2>1, <2>2, <2>3, <2>4 DEF PickInv, NoScore
<1> QED BY <1>1, <1>2, <1>3, <1>4, <1>5, <1>6, <1>7, ScorePicked, StrategyPicked, Recommended DEF TuneNext

\* The recommendation was scored and no strategy that may be recommended beats
\* it, for every list of strategies, their measurements and the flags
\* (hash_tune.go:322-390).
THEOREM RecommendationIsUnbeaten == TuneSpec => []RecommendationUnbeaten
<1>1. TuneInit => PickInv
  <2> SUFFICES ASSUME TuneInit PROVE PickInv
    OBVIOUS
  <2>1. pc = "load" /\ scores = <<>> /\ best = NoScore /\ bestRank = MaxFloat /\ bestChi = MaxFloat
    BY DEF TuneInit, TuneStart
  <2>2. 1 .. Len(<<>>) = {}
    BY EmptySeq
  <2> QED BY <2>1, <2>2 DEF PickInv, RecommendationUnbeaten
<1>2. PickInv => RecommendationUnbeaten
  BY DEF PickInv
<1> QED BY <1>1, <1>2, PickStep, LadderInvariant, MeasureInvariant, PTL DEF TuneSpec

-----------------------------------------------------------------------------
(* The deduplication commands: every line is read.                         *)

Content == IF ToStdin /\ call.stdin = "terminal" THEN SampleLines(SampleKind) ELSE given

\* The lines of the entries read.
LinesOf(s) == [i \in DOMAIN s |-> s[i].line]

Keys ==
  {UrlKey(line, o) : line \in UrlLines, o \in Options}
    \cup {TrimKey(line) : line \in UrlLines} \cup {IgnoreCaseKey(line) : line \in UrlLines}

Entry == [line : UrlLines, key : Keys]

\* What the reader still holds follows what was read, whatever it is that is
\* read; where there is no reader there is nothing to read.
ReadInv ==
  /\ call \in Calls /\ given \in Seq(UrlLines)
  /\ dpc \in {"validate", "open", "sample", "run", "done"}
  /\ dpc \in {"validate", "open", "sample"} => outcome = "running" /\ keyed = <<>>
  /\ dpc = "sample" => FromLines /\ ToStdin /\ call.stdin = "terminal"
  /\ dpc = "run" => outcome = "running"
  /\ keyed \in Seq(Entry) /\ unread \in Seq(UrlLines)
  /\ \A i \in 1 .. Len(keyed) : keyed[i].key = KeyFunc(keyed[i].line)
  /\ dpc = "run" \/ outcome \in {"0", "panic"} =>
       IF ToStdin /\ call.stdin = "terminal" /\ ~FromLines
         THEN reader = "nil" /\ outcome # "0" /\ keyed = <<>> /\ unread = <<>>
         ELSE /\ reader # "nil" /\ outcome # "panic"
              /\ LinesOf(keyed) \o unread = Content
              /\ outcome = "0" => unread = <<>>

\* Moving a line from the unread to the read keeps their concatenation.
LEMMA LineMoved ==
  ASSUME NEW S, NEW T, NEW s \in Seq(S), NEW u \in Seq(T), u # <<>>,
         NEW e \in S, e.line = Head(u), \A x \in S : x.line \in T
  PROVE  LinesOf(Append(s, e)) \o Tail(u) = LinesOf(s) \o u
<1> DEFINE a == Append(s, e)
<1>1. /\ a \in Seq(S) /\ Len(a) = Len(s)+1 /\ a[Len(s)+1] = e
      /\ \A i \in 1 .. Len(s) : a[i] = s[i]
  BY AppendProperties
<1>2. /\ Tail(u) \in Seq(T) /\ Len(Tail(u)) = Len(u)-1 /\ Head(u) = u[1]
      /\ \A i \in 1 .. Len(Tail(u)) : Tail(u)[i] = u[i+1]
  BY HeadTailProperties
<1>3. Len(s) \in Nat /\ Len(u) \in Nat /\ DOMAIN s = 1 .. Len(s) /\ DOMAIN a = 1 .. Len(s)+1 /\ Len(u) >= 1
  BY <1>1, LenProperties, EmptySeq
<1> HIDE DEF a
<1> DEFINE v == Tail(u)  ls == LinesOf(s)  la == LinesOf(a)
<1>4. ls \in Seq(T) /\ Len(ls) = Len(s) /\ \A i \in 1 .. Len(s) : ls[i] = s[i].line
  <2>1. \A i \in 1 .. Len(s) : s[i] \in S
    BY ElementOfSeq
  <2>2. ls = [i \in 1 .. Len(s) |-> s[i].line]
    BY <1>3 DEF LinesOf
  <2>3. \A i \in 1 .. Len(s) : ls[i] \in T /\ ls[i] = s[i].line
    BY <2>1, <2>2
  <2>4. ls \in [1 .. Len(s) -> T]
    BY <2>2, <2>3
  <2> HIDE DEF ls
  <2>5. ls \in Seq(T) /\ Len(ls) = Len(s)
    BY <1>3, <2>4, SeqDef, LenProperties
  <2> QED BY <2>3, <2>5
<1>5. la \in Seq(T) /\ Len(la) = Len(s)+1 /\ \A i \in 1 .. Len(s)+1 : la[i] = a[i].line
  <2>1. \A i \in 1 .. Len(s)+1 : a[i] \in S
    BY <1>1, ElementOfSeq
  <2>2. la = [i \in 1 .. Len(s)+1 |-> a[i].line]
    BY <1>3 DEF LinesOf
  <2>3. \A i \in 1 .. Len(s)+1 : la[i] \in T /\ la[i] = a[i].line
    BY <2>1, <2>2
  <2>4. la \in [1 .. Len(s)+1 -> T]
    BY <2>2, <2>3
  <2> HIDE DEF la
  <2>5. Len(s)+1 \in Nat
    BY <1>3
  <2>6. la \in Seq(T) /\ Len(la) = Len(s)+1
    BY <2>4, <2>5, SeqDef, LenProperties
  <2> QED BY <2>3, <2>6
<1> HIDE DEF v, ls, la
<1>6. v \in Seq(T) /\ Len(v) = Len(u)-1 /\ \A i \in 1 .. Len(u)-1 : v[i] = u[i+1]
  BY <1>2 DEF v
<1>7. /\ la \o v \in Seq(T) /\ Len(la \o v) = Len(la)+Len(v)
      /\ \A i \in 1 .. Len(la)+Len(v) : (la \o v)[i] = IF i <= Len(la) THEN la[i] ELSE v[i-Len(la)]
  <2>1. la \in Seq(T) /\ v \in Seq(T)
    BY <1>5, <1>6
  <2> QED BY <2>1, ConcatProperties
<1>8. /\ ls \o u \in Seq(T) /\ Len(ls \o u) = Len(ls)+Len(u)
      /\ \A i \in 1 .. Len(ls)+Len(u) : (ls \o u)[i] = IF i <= Len(ls) THEN ls[i] ELSE u[i-Len(ls)]
  <2>1. ls \in Seq(T) /\ u \in Seq(T)
    BY <1>4
  <2> QED BY <2>1, ConcatProperties
<1> DEFINE p == la \o v  q == ls \o u  n == Len(s)+Len(u)
<1>9. p \in Seq(T) /\ q \in Seq(T) /\ Len(p) = n /\ Len(q) = n
  BY <1>3, <1>4, <1>5, <1>6, <1>7, <1>8
<1>10. \A i \in 1 .. n : /\ p[i] = IF i <= Len(s)+1 THEN la[i] ELSE v[i-(Len(s)+1)]
                         /\ q[i] = IF i <= Len(s) THEN ls[i] ELSE u[i-Len(s)]
  BY <1>3, <1>4, <1>5, <1>6, <1>7, <1>8
<1>11. n = Len(s)+Len(u)
  OBVIOUS
<1> HIDE DEF p, q, n
<1>12. ASSUME NEW i \in 1 .. n PROVE p[i] = q[i]
  <2>1. p[i] = (IF i <= Len(s)+1 THEN la[i] ELSE v[i-(Len(s)+1)]) /\ q[i] = IF i <= Len(s) THEN ls[i] ELSE u[i-Len(s)]
    BY <1>10
  <2>2. CASE i <= Len(s)
    <3>1. i \in 1 .. Len(s) /\ i \in 1 .. Len(s)+1 /\ i <= Len(s)+1
      BY <1>3, <2>2
    <3> QED BY <1>1, <1>4, <1>5, <2>1, <3>1
  <2>3. CASE i = Len(s)+1
    <3>1. i \in 1 .. Len(s)+1 /\ ~(i <= Len(s)) /\ i-Len(s) = 1
      BY <1>3, <2>3
    <3> QED BY <1>1, <1>2, <1>5, <2>1, <2>3, <3>1
  <2>4. CASE i > Len(s)+1
    <3>0. i-(Len(s)+1) \in 1 .. Len(u)-1
      BY <1>3, <1>11, <2>4
    <3>1. PICK j \in 1 .. Len(u)-1 : j = i-(Len(s)+1)
      BY <3>0
    <3>2. ~(i <= Len(s)) /\ ~(i <= Len(s)+1) /\ j+1 = i-Len(s)
      BY <1>3, <2>4, <3>1
    <3>3. p[i] = v[j]
      BY <2>1, <3>1, <3>2
    <3>4. q[i] = u[j+1]
      BY <2>1, <3>2
    <3>5. v[j] = u[j+1]
      BY <1>6, <3>1
    <3> QED BY <3>3, <3>4, <3>5
  <2> QED BY <1>3, <1>11, <2>2, <2>3, <2>4
<1>13. p = q
  BY <1>9, <1>12, SeqEqual
<1> QED BY <1>13 DEF p, q, a, v, ls, la

LEMMA CallOptions ==
  ASSUME NEW c \in Calls
  PROVE  /\ c.options \in Options /\ c.stdin \in {"terminal", "pipe", "no stat"} /\ c.args \in Nat
         /\ Lines(c) \subseteq Seq(UrlLines)
BY CallAssumption

LEMMA KeyFuncKeys ==
  ASSUME call \in Calls, NEW line \in UrlLines
  PROVE  KeyFunc(line) \in Keys
<1>1. call.options \in Options
  BY CallOptions
<1>2. UrlKey(line, call.options) \in Keys
  BY <1>1 DEF Keys
<1>3. TrimKey(line) \in Keys /\ IgnoreCaseKey(line) \in Keys
  BY DEF Keys
<1> QED BY <1>2, <1>3 DEF KeyFunc

\* An exit with 0 comes only from a run at the end of its reader, a panic only
\* from one without a reader.
LEMMA ExitRead ==
  ASSUME ReadInv, NEW status, ExitWith(status), dpc # "done",
         status \in {"0", "panic"} => dpc = "run",
         status = "0" => reader # "nil" /\ unread = <<>>,
         status = "panic" => reader = "nil"
  PROVE  ReadInv'
<1>1. outcome' = status /\ dpc' = "done" /\ UNCHANGED <<call, given, reader, unread, keyed>>
  BY DEF ExitWith
<1>2. Content' = Content /\ LinesOf(keyed)' = LinesOf(keyed) /\ FromLines' = FromLines /\ ToStdin' = ToStdin
  BY <1>1 DEF Content, SampleKind, LinesOf, FromLines, ToStdin
<1>3. \A line : KeyFunc(line)' = KeyFunc(line)
  BY <1>1 DEF KeyFunc, ByURL, FromLines
<1>4. \A i \in 1 .. Len(keyed') : (keyed[i].key = KeyFunc(keyed[i].line))'
  BY <1>1 DEF ReadInv, KeyFunc, ByURL, FromLines
<1>5. CASE ToStdin /\ call.stdin = "terminal" /\ ~FromLines
  BY <1>1, <1>2, <1>4, <1>5 DEF ReadInv
<1>6. CASE ~(ToStdin /\ call.stdin = "terminal" /\ ~FromLines)
  BY <1>1, <1>2, <1>4, <1>6 DEF ReadInv
<1> QED BY <1>5, <1>6

LEMMA OpenRead == ASSUME ReadInv, OpenInput PROVE ReadInv'
<1>1. /\ dpc = "open" /\ UNCHANGED <<call, given, keyed, outcome>>
      /\ reader' = CASE ToStdin /\ call.stdin = "pipe" -> "stdin"
                      [] ToStdin /\ call.stdin # "pipe" -> "nil"
                      [] ~ToStdin /\ FromLines          -> "args"
                      [] OTHER                          -> "file"
      /\ unread' = IF reader' = "nil" THEN <<>> ELSE given
      /\ dpc' = IF reader' = "nil" /\ FromLines THEN "sample" ELSE "run"
      /\ ToStdin => call.stdin # "no stat"
  BY DEF OpenInput, Opened
<1>2. /\ call \in Calls /\ given \in Seq(UrlLines) /\ outcome = "running" /\ keyed = <<>>
      /\ call.stdin \in {"terminal", "pipe", "no stat"}
  BY <1>1, CallOptions DEF ReadInv
<1>3. /\ FromLines' = FromLines /\ ToStdin' = ToStdin /\ SampleKind' = SampleKind
      /\ \A line : KeyFunc(line)' = KeyFunc(line)
  BY <1>1 DEF FromLines, ToStdin, SampleKind, KeyFunc, ByURL
<1>4. <<>> \in Seq(UrlLines) /\ <<>> \in Seq(Entry) /\ 1 .. Len(<<>>) = {} /\ DOMAIN <<>> = {}
  BY EmptySeq
<1>5. reader' = "nil" <=> ToStdin /\ call.stdin = "terminal"
  BY <1>1, <1>2
<1>6. CASE reader' = "nil"
  <2>1. unread' = <<>> /\ dpc' = IF FromLines THEN "sample" ELSE "run"
    BY <1>1, <1>6
  <2> QED BY <1>1, <1>2, <1>3, <1>4, <1>5, <1>6, <2>1 DEF ReadInv
<1>7. CASE reader' # "nil"
  <2>1. unread' = given /\ dpc' = "run" /\ Content' = given
    BY <1>1, <1>3, <1>5, <1>7 DEF Content
  <2>2. LinesOf(<<>>) = <<>>
    BY <1>4, EmptySeq DEF LinesOf
  <2>3. LinesOf(keyed)' = <<>>
    BY <1>1, <1>2, <2>2 DEF LinesOf
  <2>4. <<>> \o given = given
    BY <1>2, ConcatEmptySeq
  <2> QED BY <1>1, <1>2, <1>3, <1>4, <1>5, <1>7, <2>1, <2>3, <2>4 DEF ReadInv
<1> QED BY <1>6, <1>7

LEMMA SampleRead == ASSUME ReadInv, UseSample PROVE ReadInv'
<1>1. /\ dpc = "sample" /\ SampleKind \in SampleKinds /\ reader' = SampleKind /\ unread' = SampleLines(SampleKind)
      /\ dpc' = "run" /\ UNCHANGED <<call, given, keyed, outcome>>
  BY DEF UseSample
<1>2. /\ call \in Calls /\ given \in Seq(UrlLines) /\ outcome = "running" /\ keyed = <<>>
      /\ FromLines /\ ToStdin /\ call.stdin = "terminal"
  BY <1>1 DEF ReadInv
<1>3. /\ FromLines' = FromLines /\ ToStdin' = ToStdin /\ SampleKind' = SampleKind
      /\ \A line : KeyFunc(line)' = KeyFunc(line)
  BY <1>1 DEF FromLines, ToStdin, SampleKind, KeyFunc, ByURL
<1>4. PICK kind \in SampleKinds : kind = SampleKind
  BY <1>1
<1>5. SampleLines(kind) \in Seq(UrlLines)
  BY SampleAssumption
<1>6. Content' = SampleLines(kind) /\ unread' = SampleLines(kind)
  BY <1>1, <1>2, <1>3, <1>4 DEF Content
<1>7. reader' # "nil"
  BY <1>1 DEF SampleKinds
<1>8. <<>> \in Seq(Entry) /\ 1 .. Len(<<>>) = {} /\ DOMAIN <<>> = {}
  BY EmptySeq
<1>9. LinesOf(keyed)' = <<>>
  <2>1. LinesOf(<<>>) = <<>>
    BY <1>8, EmptySeq DEF LinesOf
  <2> QED BY <1>1, <1>2, <2>1 DEF LinesOf
<1>10. <<>> \o SampleLines(kind) = SampleLines(kind)
  BY <1>5, ConcatEmptySeq
<1> QED BY <1>1, <1>2, <1>3, <1>5, <1>6, <1>7, <1>8, <1>9, <1>10 DEF ReadInv

LEMMA LineRead == ASSUME ReadInv, ReadLine PROVE ReadInv'
<1> DEFINE e == [line |-> Head(unread), key |-> KeyFunc(Head(unread))]
<1>1. /\ dpc = "run" /\ dpc' = "run" /\ unread # <<>> /\ keyed' = Append(keyed, e) /\ unread' = Tail(unread)
      /\ UNCHANGED <<call, given, reader, outcome>>
  BY DEF ReadLine
<1>2. /\ call \in Calls /\ given \in Seq(UrlLines) /\ outcome = "running"
      /\ keyed \in Seq(Entry) /\ unread \in Seq(UrlLines)
      /\ \A i \in 1 .. Len(keyed) : keyed[i].key = KeyFunc(keyed[i].line)
  BY <1>1 DEF ReadInv
<1>3. /\ FromLines' = FromLines /\ ToStdin' = ToStdin /\ Content' = Content
      /\ \A line : KeyFunc(line)' = KeyFunc(line)
  BY <1>1 DEF FromLines, ToStdin, SampleKind, KeyFunc, ByURL, Content
<1>4. Tail(unread) \in Seq(UrlLines) /\ Head(unread) \in UrlLines
  BY <1>1, <1>2, HeadTailProperties
<1>5. e \in Entry /\ e.line = Head(unread) /\ e.key = KeyFunc(e.line)
  BY <1>2, <1>4, KeyFuncKeys DEF Entry
<1> HIDE DEF e
<1>6. /\ keyed' \in Seq(Entry) /\ Len(keyed') = Len(keyed)+1 /\ keyed'[Len(keyed)+1] = e
      /\ \A i \in 1 .. Len(keyed) : keyed'[i] = keyed[i]
  BY <1>1, <1>2, <1>5, AppendProperties
<1>7. \A i \in 1 .. Len(keyed') : keyed'[i].key = KeyFunc(keyed'[i].line)
  <2>1. Len(keyed) \in Nat
    BY <1>2, LenProperties
  <2>2. \A i \in 1 .. Len(keyed') : i \in 1 .. Len(keyed) \/ i = Len(keyed)+1
    BY <1>6, <2>1
  <2> QED BY <1>2, <1>5, <1>6, <2>2
<1>8. \A i \in 1 .. Len(keyed') : (keyed[i].key = KeyFunc(keyed[i].line))'
  <2>1. PICK ks : ks = keyed'
    OBVIOUS
  <2>2. \A i \in 1 .. Len(ks) : ks[i].key = KeyFunc(ks[i].line)
    BY <1>7, <2>1
  <2> QED BY <1>1, <1>3, <2>1, <2>2 DEF KeyFunc, ByURL, FromLines
<1>9. CASE ToStdin /\ call.stdin = "terminal" /\ ~FromLines
  BY <1>1, <1>9 DEF ReadInv
<1>10. CASE ~(ToStdin /\ call.stdin = "terminal" /\ ~FromLines)
  <2>1. reader # "nil" /\ LinesOf(keyed) \o unread = Content
    BY <1>1, <1>10 DEF ReadInv
  <2>2. \A x \in Entry : x.line \in UrlLines
    BY DEF Entry
  <2>3. LinesOf(Append(keyed, e)) \o Tail(unread) = LinesOf(keyed) \o unread
    <3>1. keyed \in Seq(Entry) /\ unread \in Seq(UrlLines) /\ unread # <<>>
      BY <1>1, <1>2
    <3>2. e \in Entry /\ e.line = Head(unread)
      BY <1>5
    <3> QED BY <2>2, <3>1, <3>2, LineMoved
  <2>4. LinesOf(keyed)' = LinesOf(Append(keyed, e))
    BY <1>1 DEF LinesOf
  <2>5. LinesOf(keyed)' \o unread' = Content'
    BY <1>1, <1>3, <2>1, <2>3, <2>4
  <2> QED BY <1>1, <1>2, <1>3, <1>4, <1>6, <1>8, <1>10, <2>1, <2>5 DEF ReadInv
<1> QED BY <1>9, <1>10

LEMMA ReadStep == ReadInv /\ [CommandNext]_dedupVars => ReadInv'
<1> SUFFICES ASSUME ReadInv, [CommandNext]_dedupVars PROVE ReadInv'
  OBVIOUS
<1>1. CASE ConflictingFlags
  BY <1>1, ExitRead DEF ConflictingFlags
<1>2. CASE FilterRefused
  BY <1>2, ExitRead DEF FilterRefused
<1>3. CASE FilterBuilt
  <2>1. dpc = "validate" /\ dpc' = "open" /\ UNCHANGED <<call, given, reader, unread, keyed, outcome>>
    BY <1>3 DEF FilterBuilt, GoTo
  <2>2. outcome = "running" /\ keyed = <<>> /\ 1 .. Len(<<>>) = {}
    BY <2>1, EmptySeq DEF ReadInv
  <2> QED BY <2>1, <2>2 DEF ReadInv
<1>4. CASE OpenFails
  <2>1. PICK status \in {"1", "2"} : status = IF FromLines THEN "1" ELSE "2"
    OBVIOUS
  <2>2. ExitWith(status) /\ dpc = "open"
    BY <1>4, <2>1 DEF OpenFails
  <2> QED BY <2>1, <2>2, ExitRead
<1>5. CASE BadSample
  BY <1>5, ExitRead DEF BadSample
<1>6. CASE RunFails
  BY <1>6, ExitRead DEF RunFails
<1>7. CASE NilReader
  BY <1>7, ExitRead DEF NilReader
<1>8. CASE EndOfLines
  BY <1>8, ExitRead DEF EndOfLines
<1>9. CASE Exited \/ UNCHANGED dedupVars
  <2>1. UNCHANGED <<call, given, reader, unread, keyed, outcome, dpc>>
    BY <1>9 DEF Exited, dedupVars
  <2>2. Content' = Content /\ LinesOf(keyed)' = LinesOf(keyed) /\ FromLines' = FromLines /\ ToStdin' = ToStdin
    BY <2>1 DEF Content, SampleKind, LinesOf, FromLines, ToStdin
  <2>3. \A i \in 1 .. Len(keyed') : (keyed[i].key = KeyFunc(keyed[i].line))'
    BY <2>1 DEF ReadInv, KeyFunc, ByURL, FromLines
  <2> QED BY <2>1, <2>2, <2>3 DEF ReadInv
<1> QED BY <1>1, <1>2, <1>3, <1>4, <1>5, <1>6, <1>7, <1>8, <1>9, OpenRead, SampleRead, LineRead DEF CommandNext

THEOREM ReadInvariant == CommandSpec => []ReadInv
<1>1. CommandInit => ReadInv
  <2> SUFFICES ASSUME CommandInit PROVE ReadInv
    OBVIOUS
  <2>1. /\ call \in Calls /\ given \in Seq(UrlLines) /\ dpc = "validate" /\ outcome = "running"
        /\ keyed = <<>> /\ unread = <<>>
    BY CallOptions DEF CommandInit, CommandStart
  <2>2. <<>> \in Seq(UrlLines) /\ <<>> \in Seq(Entry) /\ 1 .. Len(<<>>) = {}
    BY EmptySeq
  <2> QED BY <2>1, <2>2 DEF ReadInv
<1> QED BY <1>1, ReadStep, PTL DEF CommandSpec

\* Every command reads all of what it was given before it exits with 0, and
\* none but a stream command at a terminal comes to a run without a reader
\* (OpenInput, main).
THEOREM InputIsRead == CommandSpec => []ReadsItsInput
<1>1. ReadInv => ReadsItsInput
  <2> SUFFICES ASSUME ReadInv PROVE ReadsItsInput
    OBVIOUS
  <2>1. LinesOf(keyed) = [i \in DOMAIN keyed |-> keyed[i].line]
    BY DEF LinesOf
  <2>2. Content = IF ToStdin /\ call.stdin = "terminal" THEN SampleLines(SampleKind) ELSE given
    BY DEF Content
  <2> QED BY <2>1, <2>2 DEF ReadInv, ReadsItsInput
<1> QED BY <1>1, ReadInvariant, PTL

-----------------------------------------------------------------------------
(* The URL keys: what an option does not ignore, the key tells.            *)

\* A query whose tracking parameters can be stripped, and what is then kept.
Strippable(line) == line.query # <<>> /\ ToSet(line.query) \cap Malformed = {}
Kept(line) == {p \in ToSet(line.query) : Lower[p] \notin Tracking}

\* The query of the key, and whether it has a question mark.
Queried(line, o) ==
  IF o.stripQuery THEN [ask |-> FALSE, query |-> <<>>]
  ELSE IF o.stripTracking /\ Strippable(line)
    THEN [ask |-> Encode[Kept(line)] # <<>>, query |-> Encode[Kept(line)]]
    ELSE [ask |-> line.ask, query |-> line.query]

\* Lines and what their parts are.
LEMMA LineParts ==
  ASSUME NEW line \in UrlLines
  PROVE  /\ line.form \in {"abs", "bare", "rel", "text", "blank"}
         /\ line.scheme \in DOMAIN Lower /\ line.host \in DOMAIN Lower /\ line.port \in STRING
         /\ line.path \in Seq(Piece) /\ line.ask \in BOOLEAN /\ line.query \in Seq(Param)
         /\ line.fragment \in DOMAIN Lower
         /\ line.form = "abs" => Lower[line.scheme] # ""
         /\ line.form = "bare" => Lower[line.host] # "" /\ line.host # ""
         /\ line.form \in {"text", "blank"} => line.host = ""
         /\ line.query # <<>> => line.ask
<1>1. /\ line.form \in {"abs", "bare", "rel", "text", "blank"}
      /\ line.scheme \in DOMAIN Lower /\ line.host \in DOMAIN Lower /\ line.port \in STRING
      /\ line.path \in Seq(Piece) /\ line.ask \in BOOLEAN /\ line.query \in Seq(Param)
      /\ line.fragment \in DOMAIN Lower
      /\ line.form = "abs" => line.scheme # ""
      /\ line.form = "bare" => line.host # ""
      /\ line.form \in {"text", "blank"} => line.host = ""
      /\ line.query # <<>> => line.ask
  BY DEF UrlLines
<1>2. \A name \in DOMAIN Lower : Lower[name] = "" => name = ""
  BY UrlAssumption
<1> QED BY <1>1, <1>2

\* Values.Encode tells sets of parameters apart.
LEMMA EncodeInjective ==
  ASSUME NEW s \in SUBSET Param, NEW t \in SUBSET Param
  PROVE  /\ Encode[s] \in Seq(Param) /\ ToSet(Encode[s]) = s
         /\ Encode[s] = Encode[t] <=> s = t
         /\ Encode[s] = <<>> <=> s = {}
<1>1. Encode[s] \in Seq(Param) /\ ToSet(Encode[s]) = s /\ ToSet(Encode[t]) = t
  BY UrlAssumption
<1>2. ToSet(<<>>) = {}
  BY EmptySeq DEF ToSet
<1>3. s = {} => Encode[s] = <<>>
  <2> SUFFICES ASSUME s = {}, Encode[s] # <<>> PROVE FALSE
    OBVIOUS
  <2> DEFINE q == Encode[s]
  <2>1. q \in Seq(Param) /\ q # <<>>
    BY <1>1
  <2>2. ToSet(q) = {}
    BY <1>1
  <2> HIDE DEF q
  <2>3. 1 \in DOMAIN q
    BY <2>1, LenProperties, EmptySeq
  <2> QED BY <2>2, <2>3 DEF ToSet
<1> QED BY <1>1, <1>2, <1>3

LEMMA KeptParams ==
  ASSUME NEW line \in UrlLines
  PROVE  Kept(line) \in SUBSET Param /\ ToSet(line.query) \subseteq Param
<1>1. line.query \in Seq(Param)
  BY LineParts
<1>2. \A i \in DOMAIN line.query : line.query[i] \in Param
  BY <1>1, LenProperties, ElementOfSeq
<1> QED BY <1>2 DEF Kept, ToSet

\* The resource of a query that is kept as it is.
AsSpelled(line) ==
  {<<line.query[i], i>> : i \in DOMAIN line.query}
    \cup (IF line.ask /\ line.query = <<>> THEN {<<"?", -1>>} ELSE {})

LEMMA AsSpelledTells ==
  ASSUME NEW x \in UrlLines, NEW y \in UrlLines
  PROVE  AsSpelled(x) = AsSpelled(y) <=> x.ask = y.ask /\ x.query = y.query
<1>1. /\ x.query \in Seq(Param) /\ y.query \in Seq(Param) /\ x.ask \in BOOLEAN /\ y.ask \in BOOLEAN
      /\ x.query # <<>> => x.ask
      /\ y.query # <<>> => y.ask
  BY LineParts
<1> DEFINE q == x.query  r == y.query
<1>2. q \in Seq(Param) /\ r \in Seq(Param)
  BY <1>1
<1>3. /\ DOMAIN q = 1 .. Len(q) /\ Len(q) \in Nat /\ (q = <<>> <=> Len(q) = 0)
      /\ DOMAIN r = 1 .. Len(r) /\ Len(r) \in Nat /\ (r = <<>> <=> Len(r) = 0)
  BY <1>1, LenProperties, EmptySeq
<1>4. ASSUME AsSpelled(x) = AsSpelled(y) PROVE x.ask = y.ask /\ x.query = y.query
  <2>1. \A i \in DOMAIN q : i \in DOMAIN r /\ q[i] = r[i]
    <3> SUFFICES ASSUME NEW i \in DOMAIN q PROVE i \in DOMAIN r /\ q[i] = r[i]
      OBVIOUS
    <3>1. <<q[i], i>> \in AsSpelled(y)
      BY <1>4 DEF AsSpelled
    <3>2. i # -1
      BY <1>3
    <3> QED BY <3>1, <3>2 DEF AsSpelled
  <2>2. \A i \in DOMAIN r : i \in DOMAIN q /\ q[i] = r[i]
    <3> SUFFICES ASSUME NEW i \in DOMAIN r PROVE i \in DOMAIN q /\ q[i] = r[i]
      OBVIOUS
    <3>1. <<r[i], i>> \in AsSpelled(x)
      BY <1>4 DEF AsSpelled
    <3>2. i # -1
      BY <1>3
    <3> QED BY <3>1, <3>2 DEF AsSpelled
  <2> HIDE DEF q, r
  <2>3. Len(q) = Len(r)
    <3>1. Len(q) # 0 => Len(q) \in DOMAIN q
      BY <1>3
    <3>2. Len(r) # 0 => Len(r) \in DOMAIN r
      BY <1>3
    <3>3. Len(q) <= Len(r)
      BY <1>3, <2>1, <3>1
    <3>4. Len(r) <= Len(q)
      <4>1. Len(r) # 0 => Len(r) \in DOMAIN q
        BY <2>2, <3>2
      <4>2. Len(q) \in Nat /\ Len(r) \in Nat /\ DOMAIN q = 1 .. Len(q)
        BY <1>3
      <4> QED BY <4>1, <4>2
    <3>5. Len(q) \in Nat /\ Len(r) \in Nat
      BY <1>3
    <3> QED BY <3>3, <3>4, <3>5
  <2>4. q = r
    BY <1>2, <1>3, <2>1, <2>3, SeqEqual
  <2>5. CASE q = <<>>
    <3>1. x.query = <<>> /\ y.query = <<>>
      BY <2>4, <2>5 DEF q, r
    <3>2. DOMAIN x.query = {} /\ DOMAIN y.query = {}
      BY <3>1
    <3>3. x.ask <=> <<"?", -1>> \in AsSpelled(x)
      BY <3>1, <3>2 DEF AsSpelled
    <3>4. y.ask <=> <<"?", -1>> \in AsSpelled(y)
      BY <3>1, <3>2 DEF AsSpelled
    <3> QED BY <1>1, <1>4, <3>1, <3>3, <3>4
  <2>6. CASE q # <<>>
    BY <1>1, <2>4, <2>6 DEF q, r
  <2> QED BY <2>5, <2>6
<1>5. ASSUME x.ask = y.ask, x.query = y.query PROVE AsSpelled(x) = AsSpelled(y)
  BY <1>5 DEF AsSpelled
<1> QED BY <1>4, <1>5

\* A query stripped of its tracking parameters is that of a line left as it is
\* only where both are empty.
LEMMA StrippedTells ==
  ASSUME NEW x \in UrlLines, NEW y \in UrlLines, Strippable(x), ~Strippable(y)
  PROVE  /\ (Kept(x) \X {0} = AsSpelled(y)) <=> (Kept(x) = {} /\ y.query = <<>> /\ ~y.ask)
         /\ ((Encode[Kept(x)] # <<>>) = y.ask /\ Encode[Kept(x)] = y.query)
              <=> (Kept(x) = {} /\ y.query = <<>> /\ ~y.ask)
<1>1. y.query \in Seq(Param) /\ y.ask \in BOOLEAN /\ (y.query # <<>> => y.ask)
  BY LineParts
<1>2. Kept(x) \in SUBSET Param /\ Kept(x) \cap Malformed = {}
  BY KeptParams DEF Kept, Strippable
<1>3. /\ ToSet(Encode[Kept(x)]) = Kept(x)
      /\ Encode[Kept(x)] = <<>> <=> Kept(x) = {}
  BY <1>2, EncodeInjective
<1>4. CASE y.query = <<>>
  <2>1. DOMAIN y.query = {}
    BY <1>4
  <2>2. AsSpelled(y) = IF y.ask THEN {<<"?", -1>>} ELSE {}
    BY <1>4, <2>1 DEF AsSpelled
  <2>3. \A p : <<p, 0>> \notin AsSpelled(y)
    BY <2>2
  <2>4. Kept(x) \X {0} = AsSpelled(y) <=> Kept(x) = {} /\ ~y.ask
    <3>1. ASSUME Kept(x) \X {0} = AsSpelled(y) PROVE Kept(x) = {} /\ ~y.ask
      <4>1. Kept(x) = {}
        BY <2>3, <3>1
      <4>2. AsSpelled(y) = {}
        BY <3>1, <4>1
      <4> QED BY <2>2, <4>1, <4>2
    <3>2. ASSUME Kept(x) = {}, ~y.ask PROVE Kept(x) \X {0} = AsSpelled(y)
      BY <2>2, <3>2
    <3> QED BY <3>1, <3>2
  <2>5. ((Encode[Kept(x)] # <<>>) = y.ask /\ Encode[Kept(x)] = y.query) <=> (Kept(x) = {} /\ ~y.ask)
    BY <1>1, <1>3, <1>4
  <2> QED BY <1>4, <2>4, <2>5
<1>5. CASE y.query # <<>>
  <2>1. 1 \in DOMAIN y.query
    BY <1>1, <1>5, LenProperties, EmptySeq
  <2>2. <<y.query[1], 1>> \in AsSpelled(y)
    BY <2>1 DEF AsSpelled
  <2>3. Kept(x) \X {0} # AsSpelled(y)
    BY <2>2
  <2>4. ToSet(y.query) \cap Malformed # {}
    BY <1>5 DEF Strippable
  <2>5. Encode[Kept(x)] # y.query
    BY <1>2, <1>3, <2>4
  <2> QED BY <1>5, <2>3, <2>5
<1> QED BY <1>4, <1>5

\* Two queries are spelled alike in the keys exactly if they name the same
\* parameters, but for those the options ignore.
LEMMA QueryTells ==
  ASSUME NEW x \in UrlLines, NEW y \in UrlLines, NEW o \in Options
  PROVE  Queried(x, o) = Queried(y, o) <=> ResourceQuery(x, o) = ResourceQuery(y, o)
<1>1. \A line \in UrlLines :
        ResourceQuery(line, o) = IF o.stripQuery THEN {}
                                 ELSE IF o.stripTracking /\ Strippable(line) THEN Kept(line) \X {0}
                                 ELSE AsSpelled(line)
  BY DEF ResourceQuery, Strippable, Kept, AsSpelled
<1>2. CASE o.stripQuery
  BY <1>1, <1>2 DEF Queried
<1>3. ASSUME ~o.stripQuery, o.stripTracking, Strippable(x), Strippable(y)
      PROVE  Queried(x, o) = Queried(y, o) <=> ResourceQuery(x, o) = ResourceQuery(y, o)
  <2>1. Encode[Kept(x)] = Encode[Kept(y)] <=> Kept(x) = Kept(y)
    BY KeptParams, EncodeInjective
  <2>2. Queried(x, o) = Queried(y, o) <=> Encode[Kept(x)] = Encode[Kept(y)]
    BY <1>3 DEF Queried
  <2>3. Kept(x) \X {0} = Kept(y) \X {0} <=> Kept(x) = Kept(y)
    <3>1. ASSUME Kept(x) \X {0} = Kept(y) \X {0} PROVE Kept(x) = Kept(y)
      <4>1. \A p : p \in Kept(x) <=> <<p, 0>> \in Kept(x) \X {0}
        OBVIOUS
      <4>2. \A p : p \in Kept(y) <=> <<p, 0>> \in Kept(y) \X {0}
        OBVIOUS
      <4> QED BY <3>1, <4>1, <4>2
    <3> QED BY <3>1
  <2> QED BY <1>1, <1>3, <2>1, <2>2, <2>3
<1>4. ASSUME ~o.stripQuery, NEW a \in {x, y}, NEW b \in {x, y}, o.stripTracking, Strippable(a), ~Strippable(b)
      PROVE  Queried(a, o) = Queried(b, o) <=> ResourceQuery(a, o) = ResourceQuery(b, o)
  <2>1. Queried(a, o) = Queried(b, o) <=> ((Encode[Kept(a)] # <<>>) = b.ask /\ Encode[Kept(a)] = b.query)
    BY <1>4 DEF Queried
  <2>2. ResourceQuery(a, o) = ResourceQuery(b, o) <=> Kept(a) \X {0} = AsSpelled(b)
    BY <1>1, <1>4
  <2> QED BY <1>4, <2>1, <2>2, StrippedTells
<1>5. ASSUME ~o.stripQuery, ~(o.stripTracking /\ Strippable(x)), ~(o.stripTracking /\ Strippable(y))
      PROVE  Queried(x, o) = Queried(y, o) <=> ResourceQuery(x, o) = ResourceQuery(y, o)
  <2>1. Queried(x, o) = Queried(y, o) <=> x.ask = y.ask /\ x.query = y.query
    BY <1>5 DEF Queried
  <2>2. ResourceQuery(x, o) = AsSpelled(x) /\ ResourceQuery(y, o) = AsSpelled(y)
    BY <1>1, <1>5
  <2> QED BY <2>1, <2>2, AsSpelledTells
<1>6. CASE ~o.stripQuery /\ o.stripTracking /\ Strippable(x) /\ ~Strippable(y)
  BY <1>4, <1>6
<1>7. CASE ~o.stripQuery /\ o.stripTracking /\ Strippable(y) /\ ~Strippable(x)
  <2>1. Queried(y, o) = Queried(x, o) <=> ResourceQuery(y, o) = ResourceQuery(x, o)
    BY <1>4, <1>7
  <2> QED BY <2>1
<1> QED BY <1>2, <1>3, <1>5, <1>6, <1>7

-----------------------------------------------------------------------------
(* The path of the key.                                                    *)

Escaped(path) == EscapedSlash \in ToSet(path)

\* The decoded path is the path itself exactly if it has no escaped slash, and
\* ends in a slash where the path does, spelled either way.
LEMMA DecodedPath ==
  ASSUME NEW path \in Seq(Piece)
  PROVE  /\ Decoded(path) \in Seq(Piece) /\ Len(Decoded(path)) = Len(path)
         /\ Decoded(path) = path <=> ~Escaped(path)
         /\ path # <<>> => (Last(Decoded(path)) = Slash <=> Last(path) \in {Slash, EscapedSlash})
<1>1. DOMAIN path = 1 .. Len(path) /\ Len(path) \in Nat /\ (path = <<>> <=> Len(path) = 0)
  BY LenProperties, EmptySeq
<1>2. \A i \in 1 .. Len(path) : path[i] \in Piece
  BY ElementOfSeq
<1> DEFINE d == Decoded(path)
<1>3. d = [i \in 1 .. Len(path) |-> IF path[i] = EscapedSlash THEN Slash ELSE path[i]]
  BY <1>1 DEF Decoded
<1>4. \A i \in 1 .. Len(path) : d[i] \in Piece /\ d[i] = IF path[i] = EscapedSlash THEN Slash ELSE path[i]
  BY <1>2, <1>3 DEF Piece
<1>5. d \in [1 .. Len(path) -> Piece]
  BY <1>3, <1>4
<1> HIDE DEF d
<1>6. d \in Seq(Piece) /\ Len(d) = Len(path)
  BY <1>1, <1>5, SeqDef, LenProperties
<1>7. d = path <=> ~Escaped(path)
  <2>1. ASSUME ~Escaped(path) PROVE d = path
    <3>1. \A i \in 1 .. Len(path) : path[i] # EscapedSlash
      BY <1>1, <2>1 DEF Escaped, ToSet
    <3>2. \A i \in 1 .. Len(path) : d[i] = path[i]
      BY <1>4, <3>1
    <3> QED BY <1>6, <3>2, SeqEqual
  <2>2. ASSUME Escaped(path) PROVE d # path
    <3>1. PICK i \in 1 .. Len(path) : path[i] = EscapedSlash
      BY <1>1, <2>2 DEF Escaped, ToSet
    <3>2. d[i] = Slash
      BY <1>4, <3>1
    <3> QED BY <3>1, <3>2 DEF Slash, EscapedSlash
  <2> QED BY <2>1, <2>2
<1>8. ASSUME path # <<>> PROVE Last(d) = Slash <=> Last(path) \in {Slash, EscapedSlash}
  <2>1. Len(path) \in 1 .. Len(path)
    BY <1>1, <1>8
  <2>2. Last(d) = d[Len(path)] /\ Last(path) = path[Len(path)]
    BY <1>6 DEF Last
  <2>3. d[Len(path)] = IF path[Len(path)] = EscapedSlash THEN Slash ELSE path[Len(path)]
    BY <1>4, <2>1
  <2> QED BY <2>2, <2>3
<1> QED BY <1>6, <1>7, <1>8 DEF d

\* The canonical path is the resource's.
LEMMA TrimmedIsResource ==
  ASSUME NEW path \in Seq(Piece)
  PROVE  TrimmedPath(path) = ResourcePath(path)
<1>1. Len(path) \in Nat /\ (path = <<>> <=> Len(path) = 0)
  BY LenProperties, EmptySeq
<1>2. CASE path = <<>>
  BY <1>2 DEF TrimmedPath, ResourcePath
<1>3. CASE path # <<>> /\ Last(path) # Slash
  BY <1>3 DEF TrimmedPath, ResourcePath
<1>4. CASE path # <<>> /\ Last(path) = Slash
  <2> DEFINE f == Front(path)
  <2>1. f = SubSeq(path, 1, Len(path)-1)
    BY DEF Front
  <2>2. Len(path) \in 1 .. Len(path) /\ \A i \in 1 .. Len(path)-1 : i \in 1 .. Len(path)
    BY <1>1, <1>4
  <2>3. f \in Seq(Piece) /\ Len(f) = Len(path)-1
    <3>1. f = [i \in 1 .. Len(path)-1 |-> path[i]]
      BY <1>1, <2>1
    <3>2. f \in [1 .. Len(path)-1 -> Piece] /\ Len(path)-1 \in Nat
      BY <1>1, <1>4, <2>2, <3>1, ElementOfSeq
    <3> HIDE DEF f
    <3> QED BY <3>2, SeqDef, LenProperties
  <2> HIDE DEF f
  <2>4. f = <<>> <=> Len(path) = 1
    <3>1. f = <<>> <=> Len(f) = 0
      BY <2>3, EmptySeq
    <3>2. Len(f) = 0 <=> Len(path) = 1
      BY <1>1, <2>3
    <3> QED BY <3>1, <3>2
  <2>5. CASE Len(path) = 1
    <3>1. ResourcePath(path) = <<Slash>> /\ TrimmedPath(path) = path
      BY <1>4, <2>4, <2>5 DEF ResourcePath, TrimmedPath, f
    <3>2. path[1] = Slash
      BY <1>4, <2>5 DEF Last
    <3>3. path = <<Slash>>
      <4>1. <<Slash>> \in Seq(Piece) /\ Len(<<Slash>>) = 1 /\ <<Slash>>[1] = Slash
        BY DEF Piece
      <4> DEFINE root == <<Slash>>
      <4>2. root \in Seq(Piece) /\ Len(root) = 1 /\ root[1] = Slash
        BY <4>1
      <4> HIDE DEF root
      <4>3. \A i \in 1 .. Len(path) : path[i] = root[i]
        BY <2>5, <3>2, <4>2
      <4>4. path = root
        BY <2>5, <4>2, <4>3, SeqEqual
      <4> QED BY <4>4 DEF root
    <3> QED BY <3>1, <3>3
  <2>6. CASE Len(path) # 1
    <3>1. Len(path) > 1 /\ f # <<>>
      <4>1. Len(path) # 0
        BY <1>1, <1>4
      <4>2. f # <<>>
        BY <2>4, <2>6
      <4> QED BY <1>1, <2>6, <4>1, <4>2
    <3> QED BY <1>4, <3>1 DEF ResourcePath, TrimmedPath, f
  <2> QED BY <2>5, <2>6
<1> QED BY <1>2, <1>3, <1>4

\* How a URL is spelled whose path was parsed and, it may be, trimmed.
KeyPath(line, o) ==
  LET path == IF o.normalize THEN TrimmedPath(Decoded(line.path)) ELSE Decoded(line.path)
      rawPath == IF Decoded(line.path) = line.path THEN <<>> ELSE line.path
  IN  IF rawPath # <<>> /\ Decoded(rawPath) = path THEN rawPath ELSE path

\* The path is spelled as it was, but for the slash at its end; only an escaped
\* slash in a path that ends in one is lost.
LEMMA PathTold ==
  ASSUME NEW line \in UrlLines, NEW o \in Options,
         o.normalize => ~(/\ line.path # <<>> /\ Last(line.path) \in {Slash, EscapedSlash}
                          /\ EscapedSlash \in ToSet(line.path))
  PROVE  KeyPath(line, o) = IF o.normalize THEN ResourcePath(line.path) ELSE line.path
<1>1. line.path \in Seq(Piece)
  BY LineParts
<1> DEFINE path == line.path
<1>2. /\ Decoded(path) \in Seq(Piece) /\ Len(Decoded(path)) = Len(path)
      /\ Decoded(path) = path <=> ~Escaped(path)
      /\ path # <<>> => (Last(Decoded(path)) = Slash <=> Last(path) \in {Slash, EscapedSlash})
  BY <1>1, DecodedPath
<1>3. CASE ~Escaped(path)
  BY <1>1, <1>2, <1>3, TrimmedIsResource DEF KeyPath
<1>4. CASE Escaped(path)
  <2>1. path # <<>> /\ Decoded(path) # path
    BY <1>2, <1>4, EmptySeq DEF Escaped, ToSet
  <2>2. CASE ~o.normalize
    BY <2>1, <2>2 DEF KeyPath
  <2>3. CASE o.normalize
    <3>1. Last(path) \notin {Slash, EscapedSlash}
      BY <1>4, <2>1, <2>3 DEF Escaped
    <3>2. Last(Decoded(path)) # Slash
      BY <1>2, <2>1, <3>1
    <3>3. Decoded(path) # <<>>
      BY <1>1, <1>2, <2>1, EmptySeq
    <3>4. TrimmedPath(Decoded(path)) = Decoded(path)
      BY <3>2, <3>3 DEF TrimmedPath
    <3>5. KeyPath(line, o) = path
      BY <2>1, <2>3, <3>4 DEF KeyPath
    <3>6. ResourcePath(path) = path
      BY <2>1, <3>1 DEF ResourcePath
    <3> QED BY <2>3, <3>5, <3>6
  <2> QED BY <2>2, <2>3
<1> QED BY <1>3, <1>4

-----------------------------------------------------------------------------
(* The whole key.                                                          *)

NeedsParse(o) == o.normalize \/ o.stripQuery \/ o.stripTracking \/ o.stripFragment \/ o.domainOnly

KeyScheme(line, o) ==
  CASE line.form = "abs"  -> Lower[line.scheme]
    [] line.form = "bare" -> "https"
    [] OTHER              -> IF o.normalize THEN "https" ELSE ""

KeyHost(line, o) == IF o.normalize THEN Lower[line.host] ELSE line.host

KeyPort(line, o) ==
  IF o.normalize THEN stripDefaultPort(KeyScheme(line, o), line.port) ELSE line.port

KeyFragment(line, o) == IF o.normalize \/ o.stripFragment THEN "" ELSE line.fragment

\* The parts of a parsed URL.
Parts == {"scheme", "host", "port", "path", "rawPath", "ask", "query", "fragment"}
HasParts(u, scheme, host, port, path, rawPath, ask, query, fragment) ==
  /\ DOMAIN u = Parts
  /\ u.scheme = scheme /\ u.host = host /\ u.port = port /\ u.path = path /\ u.rawPath = rawPath
  /\ u.ask = ask /\ u.query = query /\ u.fragment = fragment

\* What -normalize makes of them.
LEMMA CanonicalParts ==
  ASSUME NEW a, NEW b, NEW c, NEW d, NEW e, NEW f, NEW g, NEW h, NEW s, NEW u, HasParts(u, a, b, c, d, e, f, g, h),
         s = IF a = "" THEN "https" ELSE Lower[a]
  PROVE  HasParts(canonicalize(u), s, Lower[b], stripDefaultPort(s, c), TrimmedPath(d), e, f, g, "")
<1> DEFINE p == stripDefaultPort(s, c)  t == TrimmedPath(d)  l == Lower[b]
<1>2. canonicalize(u) = [u EXCEPT !.scheme = s, !.host = l, !.fragment = "", !.port = p, !.path = t]
  BY DEF canonicalize, HasParts
<1> HIDE DEF p, t, l
<1>3. HasParts([u EXCEPT !.scheme = s, !.host = l, !.fragment = "", !.port = p, !.path = t], s, l, p, t, e, f, g, "")
  BY DEF HasParts, Parts
<1> QED BY <1>2, <1>3 DEF p, t, l

\* What stripping the tracking parameters makes of them.
LEMMA StrippedParts ==
  ASSUME NEW a, NEW b, NEW c, NEW d, NEW e, NEW f, NEW g, NEW h, NEW k, NEW u, HasParts(u, a, b, c, d, e, f, g, h),
         k = Encode[{p \in ToSet(g) : Lower[p] \notin Tracking}], NEW z, z = (k # <<>>)
  PROVE  IF g = <<>> \/ ToSet(g) \cap Malformed # {} THEN stripTrackingParams(u) = u
             ELSE HasParts(stripTrackingParams(u), a, b, c, d, e, z, k, h)
<1>2. stripTrackingParams(u) = IF g = <<>> \/ ToSet(g) \cap Malformed # {} THEN u
                               ELSE [u EXCEPT !.query = k, !.ask = k # <<>>]
  BY DEF stripTrackingParams, HasParts
<1>3. HasParts([u EXCEPT !.query = k, !.ask = z], a, b, c, d, e, z, k, h)
  BY DEF HasParts, Parts
<1> QED BY <1>2, <1>3

\* A line that is read again with a scheme before it.
Schemed(line) == [line EXCEPT !.form = "abs", !.scheme = "https"]

LEMMA SchemedParts ==
  ASSUME NEW line \in UrlLines
  PROVE  /\ Schemed(line).form = "abs" /\ Schemed(line).scheme = "https"
         /\ Schemed(line).host = line.host /\ Schemed(line).port = line.port
         /\ Schemed(line).path = line.path /\ Schemed(line).ask = line.ask
         /\ Schemed(line).query = line.query /\ Schemed(line).fragment = line.fragment
BY DEF Schemed, UrlLines

\* Which reading of a line parseURL returns: the second one exactly for a line
\* that begins with its host, or has none and no scheme.
LEMMA ParsedAs ==
  ASSUME NEW line \in UrlLines
  PROVE  /\ line.form = "abs" => parseURL(line) = UrlParse(line)
         /\ line.form = "rel" /\ line.host # "" => parseURL(line) = UrlParse(line)
         /\ line.form = "bare" /\ (line.port # "" \/ HasMark(line)) => parseURL(line) = UrlParse(line)
         /\ line.form = "bare" /\ line.port = "" /\ ~HasMark(line) => parseURL(line) = UrlParse(Schemed(line))
         /\ parseURL(line) \in {UrlParse(line), UrlParse(Schemed(line))}
<1> DEFINE again == UrlParse(Schemed(line))  u == UrlParse(line)
<1>1. parseURL(line) = IF u.scheme = "" /\ u.host = "" /\ ~HasMark(line) THEN again ELSE u
  BY DEF parseURL, Schemed
<1>2. /\ u.scheme = CASE line.form = "abs"                     -> Lower[line.scheme]
                       [] line.form = "bare" /\ line.port # "" -> Lower[line.host]
                       [] OTHER                                 -> ""
      /\ u.host = IF line.form \in {"abs", "rel"} THEN line.host ELSE ""
  BY DEF UrlParse
<1>3. line.form = "abs" => u.scheme # ""
  BY <1>2, LineParts
<1>4. line.form = "rel" /\ line.host # "" => u.host # ""
  BY <1>2
<1>5. line.form = "bare" /\ line.port # "" => u.scheme # ""
  BY <1>2, LineParts
<1>6. line.form = "bare" /\ line.port = "" => u.scheme = "" /\ u.host = ""
  BY <1>2
<1> HIDE DEF again, u
<1>7. parseURL(line) = again \/ parseURL(line) = u
  BY <1>1
<1> QED BY <1>1, <1>3, <1>4, <1>5, <1>6, <1>7 DEF again, u

\* What parseURL takes for a URL: HasHost.
LEMMA ParsedHost ==
  ASSUME NEW line \in UrlLines
  PROVE  parseURL(line).host # "" <=> HasHost(line)
<1>1. /\ UrlParse(line).host = IF line.form \in {"abs", "rel"} THEN line.host ELSE ""
      /\ UrlParse(Schemed(line)).host = line.host
  BY SchemedParts DEF UrlParse
<1>2. CASE line.form = "abs"
  BY <1>1, <1>2, ParsedAs DEF HasHost
<1>3. CASE line.form = "rel"
  BY <1>1, <1>3, ParsedAs DEF HasHost
<1>4. CASE line.form = "bare"
  <2>1. line.host # ""
    BY <1>4, LineParts
  <2>2. CASE line.port = "" /\ ~HasMark(line)
    BY <1>1, <1>4, <2>1, <2>2, ParsedAs DEF HasHost
  <2>3. CASE line.port # "" \/ HasMark(line)
    BY <1>1, <1>4, <2>3, ParsedAs DEF HasHost
  <2> QED BY <2>2, <2>3
<1>5. CASE line.form \in {"text", "blank"}
  <2>1. line.host = ""
    BY <1>5, LineParts
  <2>2. parseURL(line).host = ""
    BY <1>1, <2>1, ParsedAs
  <2> QED BY <2>1, <2>2 DEF HasHost
<1> QED BY <1>2, <1>3, <1>4, <1>5, LineParts

\* What parsing makes of a line with a host.
LEMMA ParsedParts ==
  ASSUME NEW line \in UrlLines, HasHost(line)
  PROVE  HasParts(parseURL(line),
                  CASE line.form = "abs" -> Lower[line.scheme] [] line.form = "bare" -> "https" [] OTHER -> "",
                  line.host, line.port, Decoded(line.path),
                  IF Decoded(line.path) = line.path THEN <<>> ELSE line.path,
                  line.ask, line.query, line.fragment)
<1>1. line.form \in {"abs", "bare", "rel"} /\ line.host # ""
  BY LineParts DEF HasHost
<1> DEFINE d == Decoded(line.path)  e == IF Decoded(line.path) = line.path THEN <<>> ELSE line.path
<1>2. CASE line.form \in {"abs", "rel"}
  <2> DEFINE s == IF line.form = "abs" THEN Lower[line.scheme] ELSE ""
  <2>1. UrlParse(line) = [scheme |-> s, host |-> line.host, port |-> line.port, path |-> d, rawPath |-> e,
                          ask |-> line.ask, query |-> line.query, fragment |-> line.fragment]
    BY <1>2 DEF UrlParse
  <2>2. parseURL(line) = UrlParse(line)
    BY <1>1, <1>2, ParsedAs
  <2>3. s = CASE line.form = "abs" -> Lower[line.scheme] [] line.form = "bare" -> "https" [] OTHER -> ""
    BY <1>2
  <2> HIDE DEF d, e, s
  <2>4. HasParts(UrlParse(line), s, line.host, line.port, d, e, line.ask, line.query, line.fragment)
    BY <2>1 DEF HasParts, Parts
  <2> QED BY <2>2, <2>3, <2>4 DEF d, e
<1>3. CASE line.form = "bare"
  <2> DEFINE z == Schemed(line)
  <2>1. /\ z.form = "abs" /\ z.scheme = "https" /\ z.host = line.host /\ z.port = line.port
        /\ z.path = line.path /\ z.ask = line.ask /\ z.query = line.query /\ z.fragment = line.fragment
    BY SchemedParts
  <2>2. parseURL(line) = UrlParse(z)
    BY <1>3, ParsedAs DEF HasHost
  <2> HIDE DEF z
  <2>3. UrlParse(z) = [scheme |-> "https", host |-> line.host, port |-> line.port, path |-> d, rawPath |-> e,
                       ask |-> line.ask, query |-> line.query, fragment |-> line.fragment]
    BY <2>1, UrlAssumption DEF UrlParse
  <2> HIDE DEF d, e
  <2>4. HasParts(UrlParse(z), "https", line.host, line.port, d, e, line.ask, line.query, line.fragment)
    BY <2>3 DEF HasParts, Parts
  <2> QED BY <1>3, <2>2, <2>4 DEF d, e
<1> QED BY <1>1, <1>2, <1>3

\* The key of a URL, part by part.
LEMMA KeyParts ==
  ASSUME NEW line \in UrlLines, NEW o \in Options, HasHost(line)
  PROVE  UrlString(Rewritten(parseURL(line), o))
           = [scheme |-> KeyScheme(line, o), host |-> KeyHost(line, o), port |-> KeyPort(line, o),
              path |-> KeyPath(line, o), ask |-> Queried(line, o).ask, query |-> Queried(line, o).query,
              fragment |-> KeyFragment(line, o)]
<1> DEFINE s == CASE line.form = "abs" -> Lower[line.scheme] [] line.form = "bare" -> "https" [] OTHER -> ""
           d == Decoded(line.path)
           path == IF o.normalize THEN TrimmedPath(d) ELSE d
           rawPath == IF d = line.path THEN <<>> ELSE line.path
           fragment == IF o.normalize THEN "" ELSE line.fragment
           a == KeyScheme(line, o)  b == KeyHost(line, o)  c == KeyPort(line, o)
           k == Encode[Kept(line)]  z == (k # <<>>)
           u == parseURL(line)
           n == IF o.normalize THEN canonicalize(u) ELSE u
           t == IF o.stripTracking THEN stripTrackingParams(n) ELSE n
           q == IF o.stripQuery THEN [t EXCEPT !.query = <<>>, !.ask = FALSE] ELSE t
           r == IF o.stripFragment THEN [q EXCEPT !.fragment = ""] ELSE q
<1>1. HasParts(u, s, line.host, line.port, d, rawPath, line.ask, line.query, line.fragment)
  BY ParsedParts
<1>2. Rewritten(u, o) = r
  BY DEF Rewritten
<1>3. a = IF o.normalize THEN (IF s = "" THEN "https" ELSE Lower[s]) ELSE s
  <2>1. /\ line.form \in {"abs", "bare", "rel"} /\ line.scheme \in DOMAIN Lower
        /\ line.form = "abs" => Lower[line.scheme] # ""
    BY LineParts DEF HasHost
  <2>2. CASE line.form = "abs"
    BY <2>1, <2>2, UrlAssumption DEF KeyScheme
  <2>3. CASE line.form = "bare"
    BY <2>3, UrlAssumption DEF KeyScheme
  <2>4. CASE line.form = "rel"
    BY <2>4 DEF KeyScheme
  <2> QED BY <2>1, <2>2, <2>3, <2>4
<1> HIDE DEF u, s, d, rawPath
<1>4. HasParts(n, a, b, c, path, rawPath, line.ask, line.query, fragment)
  <2>1. CASE o.normalize
    <3>1. a = IF s = "" THEN "https" ELSE Lower[s]
      BY <1>3, <2>1
    <3>2. HasParts(canonicalize(u), a, Lower[line.host], stripDefaultPort(a, line.port), TrimmedPath(d), rawPath,
                   line.ask, line.query, "")
      BY <1>1, <3>1, CanonicalParts
    <3> QED BY <2>1, <3>2 DEF KeyHost, KeyPort
  <2>2. CASE ~o.normalize
    BY <1>1, <1>3, <2>2 DEF KeyHost, KeyPort
  <2> QED BY <2>1, <2>2
<1> HIDE DEF n, path, fragment, a, b, c, k, z
<1>5. IF o.stripTracking /\ Strippable(line) THEN HasParts(t, a, b, c, path, rawPath, z, k, fragment)
      ELSE HasParts(t, a, b, c, path, rawPath, line.ask, line.query, fragment)
  <2>1. k = Encode[{p \in ToSet(line.query) : Lower[p] \notin Tracking}]
    BY DEF k, Kept
  <2>2. IF line.query = <<>> \/ ToSet(line.query) \cap Malformed # {} THEN stripTrackingParams(n) = n
        ELSE HasParts(stripTrackingParams(n), a, b, c, path, rawPath, z, k, fragment)
    <3>1. z = (k # <<>>)
      BY DEF z
    <3> QED BY <1>4, <2>1, <3>1, StrippedParts
  <2>3. CASE o.stripTracking /\ Strippable(line)
    BY <2>2, <2>3 DEF Strippable
  <2>4. CASE ~(o.stripTracking /\ Strippable(line))
    BY <1>4, <2>2, <2>4 DEF Strippable
  <2> QED BY <2>3, <2>4
<1> HIDE DEF t
<1>6. HasParts(q, a, b, c, path, rawPath, Queried(line, o).ask, Queried(line, o).query, fragment)
  <2>1. CASE o.stripQuery
    <3>1. Queried(line, o).ask = FALSE /\ Queried(line, o).query = <<>>
      BY <2>1 DEF Queried
    <3>2. HasParts([t EXCEPT !.query = <<>>, !.ask = FALSE], a, b, c, path, rawPath, FALSE, <<>>, fragment)
      BY <1>5 DEF HasParts, Parts
    <3> QED BY <2>1, <3>1, <3>2
  <2>2. CASE ~o.stripQuery /\ o.stripTracking /\ Strippable(line)
    <3>1. Queried(line, o).ask = z /\ Queried(line, o).query = k
      BY <2>2 DEF Queried, k, z
    <3> QED BY <1>5, <2>2, <3>1
  <2>3. CASE ~o.stripQuery /\ ~(o.stripTracking /\ Strippable(line))
    <3>1. Queried(line, o).ask = line.ask /\ Queried(line, o).query = line.query
      BY <2>3 DEF Queried
    <3> QED BY <1>5, <2>3, <3>1
  <2> QED BY <2>1, <2>2, <2>3
<1> HIDE DEF q
<1>7. HasParts(r, a, b, c, path, rawPath, Queried(line, o).ask, Queried(line, o).query, KeyFragment(line, o))
  <2>1. KeyFragment(line, o) = IF o.stripFragment THEN "" ELSE fragment
    BY DEF KeyFragment, fragment
  <2>2. HasParts([q EXCEPT !.fragment = ""], a, b, c, path, rawPath, Queried(line, o).ask, Queried(line, o).query, "")
    BY <1>6 DEF HasParts, Parts
  <2> QED BY <1>6, <2>1, <2>2
<1> HIDE DEF r
<1>8. KeyPath(line, o) = IF rawPath # <<>> /\ Decoded(rawPath) = path THEN rawPath ELSE path
  BY DEF KeyPath, path, rawPath, d
<1>9. UrlString(r) = [scheme |-> a, host |-> b, port |-> c, path |-> KeyPath(line, o),
                      ask |-> Queried(line, o).ask, query |-> Queried(line, o).query,
                      fragment |-> KeyFragment(line, o)]
  BY <1>7, <1>8 DEF UrlString, EscapedPath, HasParts
<1> QED BY <1>2, <1>9 DEF a, b, c, u

\* The key of a URL under -domain-only.
LEMMA HostKeyParts ==
  ASSUME NEW line \in UrlLines, NEW o \in Options, HasHost(line)
  PROVE  hostKey(Rewritten(parseURL(line), o), o.normalize)
           = [host |-> KeyHost(line, o), port |-> KeyPort(line, o)]
<1> DEFINE r == Rewritten(parseURL(line), o)
<1>1. UrlString(r).scheme = KeyScheme(line, o) /\ UrlString(r).host = KeyHost(line, o) /\ UrlString(r).port = KeyPort(line, o)
  BY KeyParts
<1> HIDE DEF r
<1>2. r.scheme = KeyScheme(line, o) /\ r.host = KeyHost(line, o) /\ r.port = KeyPort(line, o)
  BY <1>1 DEF UrlString
<1>3. line.host \in DOMAIN Lower
  BY LineParts
<1>4. CASE o.normalize
  <2>1. KeyHost(line, o) = Lower[line.host] /\ Lower[Lower[line.host]] = Lower[line.host]
    BY <1>3, <1>4, UrlAssumption DEF KeyHost
  <2>2. stripDefaultPort(KeyScheme(line, o), KeyPort(line, o)) = KeyPort(line, o)
    BY <1>4 DEF KeyPort, stripDefaultPort
  <2> QED BY <1>2, <1>4, <2>1, <2>2 DEF hostKey, r
<1>5. CASE ~o.normalize
  BY <1>2, <1>5 DEF hostKey, r
<1> QED BY <1>4, <1>5

DefaultPort(s) == IF s = "http" THEN "80" ELSE IF s = "https" THEN "443" ELSE ""

LEMMA DefaultPorts ==
  ASSUME NEW s, NEW p
  PROVE  /\ stripDefaultPort(s, p) = IF p = DefaultPort(s) THEN "" ELSE p
         /\ EffectivePort(s, p) = IF p = "" THEN DefaultPort(s) ELSE p
<1>1. CASE s = "http"
  <2>1. DefaultPort(s) = "80"
    BY <1>1 DEF DefaultPort
  <2>2. stripDefaultPort(s, p) = IF p = "80" THEN "" ELSE p
    BY <1>1 DEF stripDefaultPort
  <2>3. EffectivePort(s, p) = IF p = "" THEN "80" ELSE p
    BY <1>1 DEF EffectivePort
  <2> QED BY <2>1, <2>2, <2>3
<1>2. CASE s = "https"
  <2>1. DefaultPort(s) = "443"
    BY <1>2 DEF DefaultPort
  <2>2. stripDefaultPort(s, p) = IF p = "443" THEN "" ELSE p
    BY <1>2 DEF stripDefaultPort
  <2>3. EffectivePort(s, p) = IF p = "" THEN "443" ELSE p
    BY <1>2 DEF EffectivePort
  <2> QED BY <2>1, <2>2, <2>3
<1>3. CASE s \notin {"http", "https"}
  <2>1. DefaultPort(s) = ""
    BY <1>3 DEF DefaultPort
  <2>2. stripDefaultPort(s, p) = p
    BY <1>3 DEF stripDefaultPort
  <2>3. EffectivePort(s, p) = IF p = "" THEN "" ELSE p
    BY <1>3 DEF EffectivePort
  <2> QED BY <2>1, <2>2, <2>3
<1> QED BY <1>1, <1>2, <1>3

\* A default port and no port are one, and all other ports are told apart.
LEMMA PortTells ==
  ASSUME NEW s, NEW p, NEW q
  PROVE  /\ stripDefaultPort(s, p) = stripDefaultPort(s, q) <=> EffectivePort(s, p) = EffectivePort(s, q)
         /\ stripDefaultPort(s, p) = IF EffectivePort(s, p) = EffectivePort(s, "") THEN "" ELSE EffectivePort(s, p)
<1> DEFINE d == DefaultPort(s)
<1>1. stripDefaultPort(s, p) = (IF p = d THEN "" ELSE p) /\ stripDefaultPort(s, q) = IF q = d THEN "" ELSE q
  BY DefaultPorts
<1>2. /\ EffectivePort(s, p) = IF p = "" THEN d ELSE p
      /\ EffectivePort(s, q) = IF q = "" THEN d ELSE q
      /\ EffectivePort(s, "") = d
  BY DefaultPorts
<1> HIDE DEF d
<1>3. CASE p \in {"", d}
  BY <1>1, <1>2, <1>3
<1>4. CASE p \notin {"", d}
  BY <1>1, <1>2, <1>4
<1> QED BY <1>3, <1>4

\* What -domain-only tells apart.
LEMMA HostTells ==
  ASSUME NEW x \in UrlLines, NEW o \in Options, HasHost(x), o.domainOnly
  PROVE  UrlKey(x, o) = Resource(x, o) /\ DOMAIN UrlKey(x, o) = {"host", "port"}
<1>1. x.form \in {"abs", "bare", "rel"}
  BY LineParts DEF HasHost
<1>2. UrlKey(x, o) = [host |-> KeyHost(x, o), port |-> KeyPort(x, o)]
  <2>1. UrlKey(x, o) = hostKey(Rewritten(parseURL(x), o), o.normalize)
    BY <1>1, ParsedHost DEF UrlKey
  <2> QED BY <2>1, HostKeyParts
<1> DEFINE s == KeyScheme(x, o)
           p == IF o.normalize THEN EffectivePort(s, x.port) ELSE x.port
<1>3. Resource(x, o) = [host |-> KeyHost(x, o),
                        port |-> IF p = EffectivePort(s, "") /\ o.normalize THEN "" ELSE p]
  <2>1. ~\A f \in DOMAIN o : ~o[f]
    BY DEF Options
  <2> QED BY <2>1 DEF Resource, KeyScheme, KeyHost
<1> HIDE DEF s
<1>4. KeyPort(x, o) = IF o.normalize THEN stripDefaultPort(s, x.port) ELSE x.port
  BY DEF KeyPort, s
<1>5. KeyPort(x, o) = IF p = EffectivePort(s, "") /\ o.normalize THEN "" ELSE p
  BY <1>4, PortTells
<1> QED BY <1>2, <1>3, <1>5

\* What the other options tell apart.
LEMMA URLTells ==
  ASSUME NEW x \in UrlLines, NEW y \in UrlLines, NEW o \in Options, HasHost(x), HasHost(y),
         NeedsParse(o), ~o.domainOnly,
         \A line \in {x, y} :
           o.normalize => ~(/\ line.path # <<>> /\ Last(line.path) \in {Slash, EscapedSlash}
                            /\ EscapedSlash \in ToSet(line.path))
  PROVE  UrlKey(x, o) = UrlKey(y, o) <=> Resource(x, o) = Resource(y, o)
<1> DEFINE port(line) == IF o.normalize THEN EffectivePort(KeyScheme(line, o), line.port) ELSE line.port
           path(line) == IF o.normalize THEN ResourcePath(line.path) ELSE line.path
<1>1. ASSUME NEW line \in {x, y}
      PROVE  UrlKey(line, o) = [url |-> [scheme |-> KeyScheme(line, o), host |-> KeyHost(line, o), port |-> KeyPort(line, o),
                                         path |-> KeyPath(line, o), ask |-> Queried(line, o).ask,
                                         query |-> Queried(line, o).query, fragment |-> KeyFragment(line, o)]]
  <2>1. line \in UrlLines /\ HasHost(line) /\ line.form # "blank"
    BY LineParts DEF HasHost
  <2>2. UrlKey(line, o) = [url |-> UrlString(Rewritten(parseURL(line), o))]
    BY <2>1, ParsedHost DEF UrlKey, NeedsParse
  <2> QED BY <2>1, <2>2, KeyParts
<1>2. ASSUME NEW line \in {x, y}
      PROVE  Resource(line, o) = [scheme |-> KeyScheme(line, o), host |-> KeyHost(line, o), port |-> port(line),
                                  path |-> path(line), query |-> ResourceQuery(line, o),
                                  fragment |-> KeyFragment(line, o)]
  <2>1. ~\A f \in DOMAIN o : ~o[f]
    BY DEF Options, NeedsParse
  <2>2. HasHost(line)
    OBVIOUS
  <2> QED BY <2>1, <2>2 DEF Resource, KeyScheme, KeyHost, KeyFragment
<1>3. KeyPath(x, o) = path(x) /\ KeyPath(y, o) = path(y)
  BY PathTold
<1>4. (Queried(x, o).ask = Queried(y, o).ask /\ Queried(x, o).query = Queried(y, o).query)
        <=> ResourceQuery(x, o) = ResourceQuery(y, o)
  <2>1. Queried(x, o) = Queried(y, o) <=> Queried(x, o).ask = Queried(y, o).ask /\ Queried(x, o).query = Queried(y, o).query
    BY DEF Queried
  <2> QED BY <2>1, QueryTells
<1>5. KeyScheme(x, o) = KeyScheme(y, o) => (KeyPort(x, o) = KeyPort(y, o) <=> port(x) = port(y))
  <2>1. ASSUME KeyScheme(x, o) = KeyScheme(y, o), o.normalize
        PROVE  KeyPort(x, o) = KeyPort(y, o) <=> port(x) = port(y)
    <3>1. KeyPort(x, o) = stripDefaultPort(KeyScheme(x, o), x.port) /\ KeyPort(y, o) = stripDefaultPort(KeyScheme(x, o), y.port)
      BY <2>1 DEF KeyPort
    <3>2. port(x) = EffectivePort(KeyScheme(x, o), x.port) /\ port(y) = EffectivePort(KeyScheme(x, o), y.port)
      BY <2>1
    <3> HIDE DEF port
    <3>3. stripDefaultPort(KeyScheme(x, o), x.port) = stripDefaultPort(KeyScheme(x, o), y.port)
            <=> EffectivePort(KeyScheme(x, o), x.port) = EffectivePort(KeyScheme(x, o), y.port)
      BY PortTells
    <3> QED BY <3>1, <3>2, <3>3
  <2>2. ~o.normalize => (KeyPort(x, o) = KeyPort(y, o) <=> port(x) = port(y))
    BY DEF KeyPort
  <2> QED BY <2>1, <2>2
<1> HIDE DEF port, path
<1>6. UrlKey(x, o) = UrlKey(y, o)
        <=> /\ KeyScheme(x, o) = KeyScheme(y, o) /\ KeyHost(x, o) = KeyHost(y, o) /\ KeyPort(x, o) = KeyPort(y, o)
            /\ KeyPath(x, o) = KeyPath(y, o)
            /\ Queried(x, o).ask = Queried(y, o).ask /\ Queried(x, o).query = Queried(y, o).query
            /\ KeyFragment(x, o) = KeyFragment(y, o)
  BY <1>1
<1>7. Resource(x, o) = Resource(y, o)
        <=> /\ KeyScheme(x, o) = KeyScheme(y, o) /\ KeyHost(x, o) = KeyHost(y, o) /\ port(x) = port(y)
            /\ path(x) = path(y) /\ ResourceQuery(x, o) = ResourceQuery(y, o)
            /\ KeyFragment(x, o) = KeyFragment(y, o)
  BY <1>2
<1> QED BY <1>3, <1>4, <1>5, <1>6, <1>7

\* The lines a URL tool skips.
LEMMA SkippedLines ==
  ASSUME NEW line \in UrlLines, NEW o \in Options
  PROVE  UrlKey(line, o) = NoKeyFor <=> line.form = "blank" \/ (o.domainOnly /\ ~HasHost(line))
<1>1. CASE line.form = "blank"
  BY <1>1 DEF UrlKey
<1>2. CASE line.form # "blank" /\ ~HasHost(line)
  <2>1. UrlKey(line, o) = IF o.domainOnly THEN NoKeyFor ELSE [line |-> line]
    BY <1>2, ParsedHost DEF UrlKey
  <2>2. [line |-> line] # NoKeyFor
    BY DEF NoKeyFor
  <2> QED BY <1>2, <2>1, <2>2
<1>3. CASE line.form # "blank" /\ HasHost(line)
  <2> DEFINE u == Rewritten(parseURL(line), o)
  <2>1. UrlKey(line, o) \in {[line |-> line], hostKey(u, o.normalize), [url |-> UrlString(u)]}
    BY <1>3, ParsedHost DEF UrlKey
  <2>2. "host" \in DOMAIN hostKey(u, o.normalize)
    BY DEF hostKey
  <2> HIDE DEF u
  <2>3. /\ [line |-> line] # NoKeyFor /\ [url |-> UrlString(u)] # NoKeyFor
        /\ DOMAIN NoKeyFor = {"skipped"}
    BY DEF NoKeyFor
  <2> QED BY <1>3, <2>1, <2>2, <2>3
<1> QED BY <1>1, <1>2, <1>3

\* Under every combination of the options two lines that have a key have the
\* same one exactly if they name the same resource.
LEMMA KeyTells ==
  ASSUME NEW x \in UrlLines, NEW y \in UrlLines, NEW o \in Options,
         UrlKey(x, o) # NoKeyFor, UrlKey(y, o) # NoKeyFor,
         \A line \in {x, y} :
           o.normalize => ~(/\ line.path # <<>> /\ Last(line.path) \in {Slash, EscapedSlash}
                            /\ EscapedSlash \in ToSet(line.path))
  PROVE  UrlKey(x, o) = UrlKey(y, o) <=> Resource(x, o) = Resource(y, o)
<1>1. \A line \in {x, y} : line.form # "blank"
  BY SkippedLines
<1>2. (\A f \in DOMAIN o : ~o[f]) <=> ~NeedsParse(o)
  BY DEF Options, NeedsParse
<1>3. CASE ~NeedsParse(o)
  <2>1. \A line \in {x, y} : UrlKey(line, o) = [line |-> line]
    BY <1>1, <1>3 DEF UrlKey, NeedsParse
  <2>2. \A line \in {x, y} : Resource(line, o) = [text |-> line]
    BY <1>2, <1>3 DEF Resource
  <2> QED BY <2>1, <2>2
<1>4. CASE NeedsParse(o)
  <2>1. ASSUME NEW line \in {x, y}, ~HasHost(line)
        PROVE  UrlKey(line, o) = [line |-> line] /\ Resource(line, o) = [text |-> line] /\ ~o.domainOnly
    <3>1. ~o.domainOnly
      <4>1. o.domainOnly => UrlKey(line, o) = NoKeyFor
        BY <1>1, <1>4, <2>1, ParsedHost DEF UrlKey, NeedsParse
      <4> QED BY <4>1
    <3>2. UrlKey(line, o) = [line |-> line]
      BY <1>1, <1>4, <2>1, <3>1, ParsedHost DEF UrlKey, NeedsParse
    <3>3. Resource(line, o) = [text |-> line]
      BY <2>1 DEF Resource
    <3> QED BY <3>1, <3>2, <3>3
  <2>2. CASE HasHost(x) /\ HasHost(y) /\ o.domainOnly
    BY <2>2, HostTells
  <2>3. CASE HasHost(x) /\ HasHost(y) /\ ~o.domainOnly
    BY <1>4, <2>3, URLTells
  <2>4. CASE ~HasHost(x) /\ ~HasHost(y)
    BY <2>1, <2>4
  <2>5. ASSUME NEW a \in {x, y}, NEW b \in {x, y}, HasHost(a), ~HasHost(b)
        PROVE  UrlKey(a, o) # UrlKey(b, o) /\ Resource(a, o) # Resource(b, o)
    <3>1. UrlKey(b, o) = [line |-> b] /\ Resource(b, o) = [text |-> b] /\ ~o.domainOnly
      BY <2>1, <2>5
    <3>2. UrlKey(a, o) = [url |-> UrlString(Rewritten(parseURL(a), o))]
      BY <1>1, <1>4, <2>5, <3>1, ParsedHost DEF UrlKey, NeedsParse
    <3>3. "scheme" \in DOMAIN Resource(a, o)
      BY <1>2, <1>4, <2>5, <3>1 DEF Resource
    <3>4. "line" \in DOMAIN UrlKey(b, o) /\ "line" \notin DOMAIN UrlKey(a, o)
      BY <3>1, <3>2
    <3>5. "scheme" \notin DOMAIN Resource(b, o)
      BY <3>1
    <3> QED BY <3>3, <3>4, <3>5
  <2> QED BY <2>2, <2>3, <2>4, <2>5
<1> QED BY <1>3, <1>4

\* Lowering a line piece by piece makes equal what differs in case only.
LEMMA CaseTells ==
  ASSUME NEW x \in UrlLines, NEW y \in UrlLines, x.form # "blank", y.form # "blank"
  PROVE  IgnoreCaseKey(x) = IgnoreCaseKey(y) <=> SameButForCase(x, y)
<1> DEFINE Lowered(q) == [i \in DOMAIN q |-> Lower[q[i]]]
           Line(z) == [form |-> z.form, scheme |-> Lower[z.scheme], host |-> Lower[z.host], port |-> z.port,
                       path |-> Lowered(z.path), ask |-> z.ask, query |-> Lowered(z.query),
                       fragment |-> Lower[z.fragment]]
<1>1. ASSUME NEW z \in {x, y} PROVE IgnoreCaseKey(z) = [line |-> Line(z)]
  BY DEF IgnoreCaseKey
<1>2. ASSUME NEW S, NEW p \in Seq(S), NEW q \in Seq(S)
      PROVE  Lowered(p) = Lowered(q)
               <=> Len(p) = Len(q) /\ \A i \in DOMAIN p : Lower[p[i]] = Lower[q[i]]
  <2>1. DOMAIN p = 1 .. Len(p) /\ DOMAIN q = 1 .. Len(q) /\ Len(p) \in Nat /\ Len(q) \in Nat
    BY LenProperties
  <2>2. Lowered(p) = Lowered(q) => DOMAIN p = DOMAIN q /\ \A i \in DOMAIN p : Lower[p[i]] = Lower[q[i]]
    <3> SUFFICES ASSUME Lowered(p) = Lowered(q)
                 PROVE  DOMAIN p = DOMAIN q /\ \A i \in DOMAIN p : Lower[p[i]] = Lower[q[i]]
      OBVIOUS
    <3>1. DOMAIN Lowered(p) = DOMAIN p /\ DOMAIN Lowered(q) = DOMAIN q
      OBVIOUS
    <3>2. DOMAIN p = DOMAIN q
      BY <3>1
    <3>3. ASSUME NEW i \in DOMAIN p PROVE Lower[p[i]] = Lower[q[i]]
      <4>1. Lowered(p)[i] = Lower[p[i]] /\ Lowered(q)[i] = Lower[q[i]]
        BY <3>2
      <4> QED BY <4>1
    <3> QED BY <3>2, <3>3
  <2>3. DOMAIN p = DOMAIN q => Len(p) = Len(q)
    <3>1. ASSUME NEW a \in Nat, NEW b \in Nat, 1 .. a = 1 .. b PROVE a = b
      <4>1. (a = 0 \/ a \in 1 .. b) /\ (b = 0 \/ b \in 1 .. a)
        BY <3>1
      <4> QED BY <4>1
    <3> QED BY <2>1, <3>1
  <2>4. Len(p) = Len(q) => DOMAIN p = DOMAIN q
    BY <2>1
  <2>5. ASSUME DOMAIN p = DOMAIN q, \A i \in DOMAIN p : Lower[p[i]] = Lower[q[i]]
        PROVE  Lowered(p) = Lowered(q)
    BY <2>5
  <2> QED BY <2>2, <2>3, <2>4, <2>5
<1>3. Lowered(x.path) = Lowered(y.path)
        <=> Len(x.path) = Len(y.path) /\ \A i \in DOMAIN x.path : Lower[x.path[i]] = Lower[y.path[i]]
  <2>1. x.path \in Seq(Piece) /\ y.path \in Seq(Piece)
    BY LineParts
  <2> HIDE DEF Lowered
  <2> QED BY <1>2, <2>1
<1>4. Lowered(x.query) = Lowered(y.query)
        <=> Len(x.query) = Len(y.query) /\ \A i \in DOMAIN x.query : Lower[x.query[i]] = Lower[y.query[i]]
  <2>1. x.query \in Seq(Param) /\ y.query \in Seq(Param)
    BY LineParts
  <2> HIDE DEF Lowered
  <2> QED BY <1>2, <2>1
<1> HIDE DEF Lowered
<1>5. Line(x) = Line(y)
        <=> /\ x.form = y.form /\ x.port = y.port /\ x.ask = y.ask
            /\ Lower[x.scheme] = Lower[y.scheme] /\ Lower[x.host] = Lower[y.host]
            /\ Lower[x.fragment] = Lower[y.fragment]
            /\ Lowered(x.path) = Lowered(y.path) /\ Lowered(x.query) = Lowered(y.query)
  OBVIOUS
<1> HIDE DEF Line
<1>6. IgnoreCaseKey(x) = IgnoreCaseKey(y) <=> Line(x) = Line(y)
  BY <1>1
<1> QED BY <1>3, <1>4, <1>5, <1>6 DEF SameButForCase

\* In every run of a deduplication command the lines skipped are those without a
\* key, and two others have one key exactly if they name one resource under the
\* command's options (Key, parseURL, canonicalize, stripTrackingParams).
THEOREM KeysNameResources == CommandSpec => []KeysAreResources
<1>1. ReadInv => KeysAreResources
  <2> SUFFICES ASSUME ReadInv PROVE KeysAreResources
    OBVIOUS
  <2> DEFINE o == call.options
  <2>1. ASSUME NEW e \in ToSet(keyed) PROVE e.line \in UrlLines /\ e.key = KeyFunc(e.line)
    <3>1. keyed \in Seq(Entry) /\ DOMAIN keyed = 1 .. Len(keyed)
      BY LenProperties DEF ReadInv
    <3>2. PICK i \in 1 .. Len(keyed) : e = keyed[i]
      BY <3>1 DEF ToSet
    <3>3. e \in Entry
      BY <3>1, <3>2, ElementOfSeq
    <3> QED BY <3>2, <3>3 DEF ReadInv, Entry
  <2>2. o \in Options
    BY CallOptions DEF ReadInv
  <2>3. ASSUME NEW x \in ToSet(keyed)
        PROVE  x.key = NoKeyFor
                 <=> (x.line.form = "blank" \/ (ByURL /\ call.options.domainOnly /\ ~HasHost(x.line)))
    <3>1. x.line \in UrlLines /\ x.key = KeyFunc(x.line)
      BY <2>1
    <3>2. CASE ByURL
      <4>1. x.key = UrlKey(x.line, o)
        BY <3>1, <3>2 DEF KeyFunc
      <4> QED BY <2>2, <3>1, <3>2, <4>1, SkippedLines
    <3>3. CASE ~ByURL
      <4>1. x.key \in {TrimKey(x.line), IgnoreCaseKey(x.line)}
        BY <3>1, <3>3 DEF KeyFunc
      <4>2. \A text : [line |-> text] # NoKeyFor
        BY DEF NoKeyFor
      <4>3. TrimKey(x.line) = NoKeyFor <=> x.line.form = "blank"
        BY <4>2 DEF TrimKey
      <4>4. IgnoreCaseKey(x.line) = NoKeyFor <=> x.line.form = "blank"
        BY <4>2 DEF IgnoreCaseKey
      <4> QED BY <3>3, <4>1, <4>3, <4>4
    <3> QED BY <3>2, <3>3
  <2>4. ASSUME NEW x \in ToSet(keyed), NEW y \in ToSet(keyed),
               NoKeyFor \notin {x.key, y.key}, ~SlashAfterEscape(x.line), ~SlashAfterEscape(y.line)
        PROVE  x.key = y.key <=> OneResource(x.line, y.line)
    <3>1. /\ x.line \in UrlLines /\ x.key = KeyFunc(x.line)
          /\ y.line \in UrlLines /\ y.key = KeyFunc(y.line)
      BY <2>1
    <3>2. CASE ByURL
      <4>1. /\ x.key = UrlKey(x.line, o) /\ y.key = UrlKey(y.line, o)
            /\ OneResource(x.line, y.line) <=> Resource(x.line, o) = Resource(y.line, o)
        BY <3>1, <3>2 DEF KeyFunc, OneResource
      <4>2. \A line \in {x.line, y.line} :
              o.normalize => ~(/\ line.path # <<>> /\ Last(line.path) \in {Slash, EscapedSlash}
                               /\ EscapedSlash \in ToSet(line.path))
        BY <2>4, <3>2 DEF SlashAfterEscape
      <4>3. UrlKey(x.line, o) # NoKeyFor /\ UrlKey(y.line, o) # NoKeyFor
        BY <2>4, <4>1
      <4> HIDE DEF o
      <4>4. UrlKey(x.line, o) = UrlKey(y.line, o) <=> Resource(x.line, o) = Resource(y.line, o)
        BY <2>2, <3>1, <4>2, <4>3, KeyTells
      <4> QED BY <4>1, <4>4
    <3>3. x.line.form # "blank" /\ y.line.form # "blank"
      BY <2>3, <2>4
    <3>4. CASE ~ByURL /\ call.ignoreCase
      BY <3>1, <3>3, <3>4, CaseTells DEF KeyFunc, OneResource
    <3>5. CASE ~ByURL /\ ~call.ignoreCase
      BY <3>1, <3>3, <3>5 DEF KeyFunc, OneResource, TrimKey
    <3> QED BY <3>2, <3>4, <3>5
  <2> QED BY <2>3, <2>4 DEF KeysAreResources
<1> QED BY <1>1, ReadInvariant, PTL

-----------------------------------------------------------------------------
(* The benchmark: its types.                                               *)

FlagType ==
  [valid : BOOLEAN, explicit : BOOLEAN, capacity : Nat \ {0}, rate : 1..3 \cup {NaN}, ratio : Int,
   nanCount : Int, nanFits : BOOLEAN, repeats : Int, sweeps : SUBSET ToSet(Sweeps), values : Seq(Int)]

LookupKey == {"key", "miss"} \X Nat
LookupType == [keys : Seq(LookupKey), hitIdx : Nat, missIdx : Nat]

StreamType ==
  [bits : [BF!Byte -> SUBSET (0..7)], count : Nat, bloomFP : Nat, set : SUBSET ({"stream"} \X Nat), hashFP : Nat]

CountType == [0..M-1 -> Nat]

Scenarios == {"add", "contains_hit", "contains_miss", "contains_mixed", "mixed_stream", "remove"}

Detail ==
  {<<>>} \cup [rate : Int, keyLen : Int] \cup Seq(LookupKey)
    \cup [bloomFP : Nat, hashFP : Nat, distinct : Nat] \cup CountType

RowType ==
  [scenario : Scenarios, label : Int, n : Nat \ {0}, ops : Int, items : Nat, detail : Detail]

Loops == {"mix", "bloom", "hash", "fill", "drain"}

\* What each loop works on, and which of them a sweep runs.
BenchTypeInv ==
  /\ cfg \in FlagType
  /\ cfg.sweeps = {} => \A i \in 0 .. cfg.capacity-1 : <<"key", i>> \in Key /\ <<"stream", i>> \in Key
  /\ values \in Seq(Int) /\ rows \in Seq(RowType) /\ index \in Nat
  /\ bpc \in {"flags", "parse", "run", "done", "failed", "panicked"} \cup Loops
  /\ bpc = "flags" => sweep = "none" /\ values = <<>> /\ rows = <<>>
  /\ bpc \in {"flags", "parse"} => index <= Len(cfg.values)
  /\ bpc = "parse" => rows = <<>>
  /\ bpc \in {"parse", "run", "done"} \cup Loops => (sweep = "none" <=> cfg.sweeps = {})
  /\ sweep = "size" => values \in Seq(Nat)
  /\ bpc \in Loops => index <= cfg.capacity
  /\ bpc = "mix" => /\ work \in LookupType /\ RatioAccepted(hitRatio)
                    /\ sweep = "none" \/ (sweep = "mix" /\ Len(rows) < Len(values))
  /\ bpc \in {"bloom", "hash"} => work \in StreamType /\ IsFiniteSet(work.set) /\ sweep = "none" /\ cfg.capacity # 1
  /\ bpc \in {"fill", "drain"} => work \in CountType /\ sweep = "none"

LEMMA FirstSweepIsSweep ==
  ASSUME cfg.sweeps \subseteq ToSet(Sweeps), cfg.sweeps # {}
  PROVE  firstSweep # "none"
<1> DEFINE S == {i \in DOMAIN Sweeps : Sweeps[i] \in cfg.sweeps}
<1>1. DOMAIN Sweeps = 1..5 /\ S \subseteq 1..5 /\ S # {}
  BY DEF Sweeps, ToSet
<1>2. \E x \in S : \A y \in S : x =< y
  <2> HIDE DEF S
  <2>1. CASE 1 \in S
    BY <1>1, <2>1
  <2>2. CASE 1 \notin S /\ 2 \in S
    BY <1>1, <2>2
  <2>3. CASE 1 \notin S /\ 2 \notin S /\ 3 \in S
    BY <1>1, <2>3
  <2>4. CASE 1 \notin S /\ 2 \notin S /\ 3 \notin S /\ 4 \in S
    BY <1>1, <2>4
  <2>5. CASE 1 \notin S /\ 2 \notin S /\ 3 \notin S /\ 4 \notin S
    <3>1. \A i \in S : i = 5
      <4> SUFFICES ASSUME NEW i \in S PROVE i = 5
        OBVIOUS
      <4>1. i \in 1..5
        BY <1>1
      <4> QED BY <2>5, <4>1
    <3>2. 5 \in S
      BY <1>1, <3>1
    <3> QED BY <3>1, <3>2
  <2> QED BY <2>1, <2>2, <2>3, <2>4, <2>5
<1>3. Min(S) \in 1..5
  <2> HIDE DEF S
  <2> QED BY <1>1, <1>2 DEF Min
<1>4. firstSweep = Sweeps[Min(S)]
  BY DEF firstSweep
<1> HIDE DEF S
<1> QED BY <1>3, <1>4 DEF Sweeps

LEMMA HasBits ==
  ASSUME NEW bs \in [BF!Byte -> SUBSET (0..7)], NEW key \in Key
  PROVE  BF!SetProbed(bs, key) \in [BF!Byte -> SUBSET (0..7)]
<1>1. \A i \in 0..K-1 : Probe[key][i] \in Nat
  BY BenchAssumption
<1>2. \A i \in 0..K-1 : Probe[key][i] % 8 \in 0..7
  BY <1>1
<1> QED BY <1>2 DEF BF!SetProbed

LEMMA HitCounts ==
  ASSUME NEW key, NEW c
  PROVE  CF!Hits(key, K, c) \in Nat
<1> DEFINE H == {i \in 0 .. K-1 : Probe[key][i] = c}
<1>1. IsFiniteSet(0 .. K-1) /\ H \subseteq 0 .. K-1
  BY BenchAssumption, FS_Interval
<1>2. IsFiniteSet(H)
  <2> HIDE DEF H
  <2> QED BY <1>1, FS_Subset
<1>3. Cardinality(H) \in Nat
  <2> HIDE DEF H
  <2> QED BY <1>2, FS_CardinalityType
<1> QED BY <1>3 DEF CF!Hits, Cardinality, CF!Cardinality

LEMMA CountsStay ==
  ASSUME NEW cs \in CountType, NEW key
  PROVE  CF!Raised(cs, key, K) \in CountType /\ CF!Lowered(cs, key) \in CountType
<1>1. \A c \in 0..M-1 : CF!Hits(key, K, c) \in Nat
  BY HitCounts
<1> QED BY <1>1 DEF CF!Raised, CF!Lowered, CF!Cell, CountType

\* A row more.
LEMMA RowAdded ==
  ASSUME rows \in Seq(RowType), NEW row \in RowType, rows' = Append(rows, row)
  PROVE  /\ rows' \in Seq(RowType) /\ Len(rows') = Len(rows) + 1
         /\ \A i \in 1 .. Len(rows) : rows'[i] = rows[i]
         /\ rows'[Len(rows) + 1] = row
OBVIOUS

\* The rows that are made in one step.
LEMMA PlainRowType ==
  ASSUME NEW n \in Nat \ {0}, NEW ops \in Int, NEW items \in Nat, NEW scenario \in Scenarios, NEW label \in Int, NEW detail \in Detail
  PROVE  Row(scenario, label, n, ops, items, detail) \in RowType
BY DEF Row, RowType

LEMMA StreamKeys ==
  ASSUME NEW n \in Nat \ {0, 1}, NEW i \in 1 .. n
  PROVE  /\ n \div 2 \in 1 .. n-1
         /\ i <= n \div 2 => makeMixedStream(n)[i] = <<"stream", i - 1>>
         /\ i > n \div 2 => \E j \in 1 .. n \div 2 : makeMixedStream(n)[i] = <<"stream", j - 1>>
         /\ makeMixedStream(n)[i] \in {<<"stream", j - 1>> : j \in 1 .. n \div 2}
<1> DEFINE half == n \div 2
<1>1. half \in 1 .. n-1
  OBVIOUS
<1>2. makeMixedStream(n)[i] = <<"stream", IF i <= half THEN i - 1 ELSE (i - 1) % half>>
  BY DEF makeMixedStream
<1> DEFINE rest == (i - 1) % half
<1>3. rest \in 0 .. half - 1
  BY <1>1
<1> HIDE DEF half, rest
<1>4. CASE i <= half
  <2>1. i \in 1 .. half /\ makeMixedStream(n)[i] = <<"stream", i - 1>>
    BY <1>1, <1>2, <1>4
  <2> QED BY <1>1, <1>4, <2>1 DEF half
<1>5. CASE i > half
  <2>1. rest + 1 \in 1 .. half /\ makeMixedStream(n)[i] = <<"stream", (rest + 1) - 1>>
    BY <1>1, <1>2, <1>3, <1>5 DEF rest
  <2> QED BY <1>1, <1>5, <2>1 DEF half
<1> QED BY <1>1, <1>4, <1>5

\* How often a row of one step looked, and what a sweep made it with.
MadeAs(row) ==
  /\ row.ops = row.n \/ (sweep = "none" /\ bpc = "run" /\ row.ops = row.n * cfg.repeats)
  /\ sweep # "none" => /\ Len(rows) < Len(values) /\ row.label = value
                       /\ LabelHolds(row) \/ (cfg.explicit /\ sweep \in {"size", "fpr"})

\* The rows that are made in one step.
LEMMA PlainRows ==
  ASSUME BenchTypeInv,
         AddRow \/ HashRow \/ KeyLengthRow \/ FPRRow \/ SizeRow \/ HitRow \/ MissRow
  PROVE  \E row : /\ Compared(row) /\ row \in RowType /\ MadeAs(row)
                  /\ row.scenario \in {"add", "contains_hit", "contains_miss"}
<1>types. /\ cfg \in FlagType /\ cfg.capacity \in Nat \ {0} /\ cfg.repeats \in Int
          /\ values \in Seq(Int) /\ rows \in Seq(RowType) /\ index \in Nat
  BY DEF BenchTypeInv, FlagType
<1>add. ASSUME NEW c, NEW label, NEW keyLen
        PROVE  LET row == compareAdd(c, label, keyLen)
               IN  /\ row.ops = row.n /\ row.n = c.capacity /\ row.label = label /\ row.scenario = "add"
                   /\ row.detail.rate = c.rate /\ row.detail.keyLen = keyLen
  BY DEF compareAdd, Row
<1>1. ASSUME NEW c \in FlagType, NEW label \in Int, NEW keyLen \in Int,
             Compared(compareAdd(c, label, keyLen)), MadeAs(compareAdd(c, label, keyLen))
      PROVE  \E row : /\ Compared(row) /\ row \in RowType /\ MadeAs(row)
                      /\ row.scenario \in {"add", "contains_hit", "contains_miss"}
  <2> DEFINE row == compareAdd(c, label, keyLen)
  <2>1. c.capacity \in Nat \ {0} /\ [rate |-> c.rate, keyLen |-> keyLen] \in Detail
    <3>1. c.capacity \in Nat \ {0} /\ c.rate \in Int
      BY DEF FlagType, NaN
    <3> QED BY <3>1 DEF Detail
  <2>2. row \in RowType
    BY <2>1, PlainRowType DEF compareAdd, Scenarios
  <2>3. row.scenario = "add" /\ MadeAs(row) /\ Compared(row)
    BY <1>1, <1>add
  <2> HIDE DEF row
  <2> QED BY <2>2, <2>3
<1>2. ASSUME NEW s, Sweeping(s)
      PROVE  sweep = s /\ Len(rows) < Len(values) /\ value \in Int /\ (s = "size" => value \in Nat)
  <2>1. Len(rows) \in Nat /\ Len(values) \in Nat /\ Len(rows) < Len(values) /\ sweep = s
    BY <1>2, <1>types DEF Sweeping
  <2>2. Len(rows) + 1 \in 1 .. Len(values)
    BY <2>1
  <2>3. s = "size" => values \in Seq(Nat)
    BY <2>1 DEF BenchTypeInv
  <2> QED BY <1>types, <2>1, <2>2, <2>3 DEF value
<1>3. CASE AddRow
  <2>1. MadeAs(compareAdd(cfg, 0, 0))
    BY <1>3, <1>add DEF AddRow, Scenario, MadeAs
  <2> QED BY <1>3, <1>types, <1>1, <2>1 DEF AddRow
<1>4. CASE HashRow
  <2>1. MadeAs(compareAdd(cfg, value, 0))
    BY <1>2, <1>4, <1>add DEF HashRow, MadeAs, LabelHolds
  <2> QED BY <1>2, <1>4, <1>types, <1>1, <2>1 DEF HashRow
<1>5. CASE KeyLengthRow
  <2>1. MadeAs(compareAdd(cfg, value, value))
    BY <1>2, <1>5, <1>add DEF KeyLengthRow, MadeAs, LabelHolds
  <2> QED BY <1>2, <1>5, <1>types, <1>1, <2>1 DEF KeyLengthRow
<1>6. CASE FPRRow
  <2>1. WithFalsePositiveRate(value) \in FlagType /\ value \in Int
    BY <1>2, <1>6, <1>types DEF FPRRow, RateAccepted, WithFalsePositiveRate, FlagType
  <2>2. ~cfg.explicit => WithFalsePositiveRate(value).rate = value
    BY <1>types DEF WithFalsePositiveRate, FlagType
  <2>3. MadeAs(compareAdd(WithFalsePositiveRate(value), value, 0))
    BY <1>2, <1>6, <1>add, <2>2 DEF FPRRow, MadeAs, LabelHolds
  <2> QED BY <1>1, <1>6, <2>1, <2>3 DEF FPRRow
<1>7. CASE SizeRow
  <2>1. value \in Nat \ {0}
    BY <1>2, <1>7 DEF SizeRow
  <2>2. WithExpectedCapacity(value) \in FlagType
    BY <1>types, <2>1 DEF WithExpectedCapacity, FlagType
  <2>3. ~cfg.explicit => WithExpectedCapacity(value).capacity = value
    BY <1>types DEF WithExpectedCapacity, FlagType
  <2>4. MadeAs(compareAdd(WithExpectedCapacity(value), value, 0))
    BY <1>2, <1>7, <1>add, <2>3 DEF SizeRow, MadeAs, LabelHolds
  <2> QED BY <1>1, <1>7, <2>1, <2>2, <2>4 DEF SizeRow
<1>8. CASE HitRow \/ MissRow
  <2>1. cfg.capacity * cfg.repeats \in Int /\ <<>> \in Detail
    BY <1>types DEF Detail
  <2>2. \A s \in Scenarios : compareContains(s) \in RowType
    <3>1. cfg.capacity \in Nat /\ 0 \in Int
      BY <1>types
    <3> QED BY <1>types, <2>1, <3>1, PlainRowType DEF compareContains
  <2>3. \A s : /\ compareContains(s).scenario = s /\ compareContains(s).n = cfg.capacity
               /\ compareContains(s).ops = cfg.capacity * cfg.repeats
    BY DEF compareContains, Row
  <2>4. sweep = "none" /\ bpc = "run"
    BY <1>8 DEF HitRow, MissRow, Scenario
  <2>5. \A s : MadeAs(compareContains(s))
    BY <2>3, <2>4 DEF MadeAs
  <2> QED BY <1>8, <2>2, <2>3, <2>5 DEF HitRow, MissRow, Scenarios
<1> QED
  BY <1>3, <1>4, <1>5, <1>6, <1>7, <1>8

\* The rows that a loop makes.
LEMMA LoopRows ==
  ASSUME BenchTypeInv
  PROVE  /\ MixRow => compareContainsMixed(hitRatio, work.keys) \in RowType
         /\ StreamRow => compareMixedStream \in RowType
         /\ RemoveRow => compareRemove \in RowType
<1>types. cfg.capacity \in Nat \ {0} /\ cfg.capacity \in Nat /\ cfg.capacity \in Int /\ cfg.repeats \in Int
  BY DEF BenchTypeInv, FlagType
<1>names. "contains_mixed" \in Scenarios /\ "mixed_stream" \in Scenarios /\ "remove" \in Scenarios /\ 0 \in Int
  BY DEF Scenarios
<1>1. ASSUME StreamRow PROVE compareMixedStream \in RowType
  <2>1. work \in StreamType /\ IsFiniteSet(work.set) /\ bpc \in Loops
    BY <1>1 DEF StreamRow, Through, BenchTypeInv, Loops
  <2>2. Cardinality(work.set) \in Nat /\ work.count \in Nat /\ work.bloomFP \in Nat /\ work.hashFP \in Nat
    BY <2>1, FS_CardinalityType DEF StreamType
  <2>3. [bloomFP |-> work.bloomFP, hashFP |-> work.hashFP, distinct |-> Cardinality(work.set)]
          \in Detail
    BY <2>2 DEF Detail
  <2>4. compareMixedStream \in RowType
    BY <1>types, <1>names, <2>2, <2>3 DEF compareMixedStream, Row, RowType
  <2> QED BY <2>4
<1>2. ASSUME RemoveRow PROVE compareRemove \in RowType
  <2>1. work \in CountType /\ bpc \in Loops
    BY <1>2 DEF RemoveRow, Through, BenchTypeInv, Loops
  <2>2. work \in Detail
    BY <2>1 DEF Detail
  <2>3. compareRemove \in RowType
    BY <1>types, <1>names, <2>2 DEF compareRemove, Row, RowType
  <2> QED BY <2>3
<1>3. ASSUME MixRow PROVE compareContainsMixed(hitRatio, work.keys) \in RowType
  <2>1. work \in LookupType /\ bpc \in Loops /\ RatioAccepted(hitRatio)
    BY <1>3 DEF MixRow, Through, BenchTypeInv, Loops
  <2>2. work.keys \in Seq(LookupKey) /\ Len(work.keys) * cfg.repeats \in Int
    BY <2>1, <1>types DEF LookupType
  <2>3. work.keys \in Detail
    BY <2>2 DEF Detail
  <2>4. hitRatio \in Int
    BY <2>1 DEF RatioAccepted, NaN
  <2>5. compareContainsMixed(hitRatio, work.keys) \in RowType
    BY <1>types, <1>names, <2>2, <2>3, <2>4 DEF compareContainsMixed, Row, RowType
  <2> QED BY <2>5
<1> QED BY <1>1, <1>2, <1>3

\* The types, the phase each variable is used in, and which loops a sweep runs.
THEOREM BenchTypes == BenchSpec => []BenchTypeInv
<1>1. BenchInit => BenchTypeInv
  <2> SUFFICES ASSUME BenchInit PROVE BenchTypeInv
    OBVIOUS
  <2>1. cfg \in FlagType /\ cfg \in BenchFlags
    BY BenchAssumption DEF BenchInit, FlagType
  <2>2. cfg.sweeps = {} => \A i \in 0 .. cfg.capacity-1 : <<"key", i>> \in Key /\ <<"stream", i>> \in Key
    BY <2>1, BenchAssumption
  <2>3. index <= Len(cfg.values)
    BY <2>1 DEF BenchInit, BenchStart, FlagType
  <2>4. values \in Seq(Int) /\ rows \in Seq(RowType) /\ index \in Nat
    BY DEF BenchInit, BenchStart
  <2> QED BY <2>1, <2>2, <2>3, <2>4 DEF BenchInit, BenchStart, BenchTypeInv, Loops
<1>2. BenchTypeInv /\ [BenchNext]_benchVars => BenchTypeInv'
  <2> SUFFICES ASSUME BenchTypeInv, [BenchNext]_benchVars PROVE BenchTypeInv'
    OBVIOUS
  <2>types. /\ cfg \in FlagType /\ cfg.capacity \in Nat \ {0} /\ cfg.repeats \in Int
            /\ cfg.ratio \in Int /\ cfg.values \in Seq(Int) /\ cfg.sweeps \subseteq ToSet(Sweeps)
            /\ values \in Seq(Int) /\ rows \in Seq(RowType) /\ index \in Nat
    BY DEF BenchTypeInv, FlagType
  <2>stop. ASSUME NEW out \in {"failed", "panicked"}, Stop(out) PROVE BenchTypeInv'
    <3>1. /\ cfg' = cfg /\ values' = values /\ sweep' = sweep /\ rows' = <<>> /\ index' = 0
          /\ bpc' \in {"failed", "panicked"} /\ rows' \in Seq(RowType)
      BY <2>stop DEF Stop
    <3>2. bpc' \notin {"flags", "parse", "run", "done"} \cup Loops
      BY <3>1 DEF Loops
    <3>3. bpc' \notin {"mix", "bloom", "hash", "fill", "drain"}
      BY <3>1
    <3> QED BY <3>1, <3>2, <3>3 DEF BenchTypeInv
  <2>row. ASSUME NEW row \in RowType, Compared(row), bpc \in {"run"} \cup Loops PROVE BenchTypeInv'
    <3>1. rows' \in Seq(RowType)
      BY <2>row, <2>types, RowAdded DEF Compared
    <3> QED BY <2>row, <3>1 DEF Compared, BenchTypeInv, Loops
  <2>loop. ASSUME NEW w, NEW loop \in Loops, Enter(loop, w), bpc \in {"run"} \cup Loops,
                  loop = "mix" => /\ w \in LookupType /\ RatioAccepted(hitRatio)
                                  /\ sweep = "none" \/ (sweep = "mix" /\ Len(rows) < Len(values)),
                  loop \in {"bloom", "hash"} =>
                    w \in StreamType /\ IsFiniteSet(w.set) /\ sweep = "none" /\ cfg.capacity # 1,
                  loop \in {"fill", "drain"} => w \in CountType /\ sweep = "none"
           PROVE  BenchTypeInv'
    <3>1. hitRatio' = hitRatio /\ (RatioAccepted(hitRatio) => RatioAccepted(hitRatio)')
      BY <2>loop DEF Enter, hitRatio, value, RatioAccepted
    <3> QED BY <2>loop, <2>types, <3>1 DEF Enter, BenchTypeInv, Loops
  <2>turn. ASSUME NEW w, NEW loop \in Loops, Turning(loop), Turn(w),
                  loop = "mix" => w \in LookupType,
                  loop \in {"bloom", "hash"} => w \in StreamType /\ IsFiniteSet(w.set),
                  loop \in {"fill", "drain"} => w \in CountType
           PROVE  BenchTypeInv'
    <3>1. /\ RatioAccepted(hitRatio) => RatioAccepted(hitRatio)'
          /\ index + 1 \in Nat /\ index + 1 <= cfg.capacity
      BY <2>turn, <2>types DEF Turning, Turn, hitRatio, value, RatioAccepted
    <3> QED BY <2>turn, <3>1 DEF Turning, Turn, BenchTypeInv, Loops
  <2>key. ASSUME bpc \in {"bloom", "hash", "fill", "drain"}, index < cfg.capacity
          PROVE  /\ indexed = <<"key", index>> /\ indexed \in Key
                 /\ bpc \in {"bloom", "hash"} =>
                      makeMixedStream(cfg.capacity)[index + 1] \in Key \cap ({"stream"} \X Nat)
    <3>1. sweep = "none" /\ cfg.sweeps = {}
      BY <2>key DEF BenchTypeInv, Loops
    <3>2. index \in 0 .. cfg.capacity-1
      BY <2>types, <2>key
    <3>3. index + 1 \in 1 .. cfg.capacity /\ (index + 1) - 1 = index
      BY <2>types, <2>key
    <3>4. indexed = <<"key", index>>
      BY <3>3 DEF indexed, makeKeys
    <3>5. indexed \in Key
      BY <3>1, <3>2, <3>4 DEF BenchTypeInv
    <3>6. sweep = "none" /\ (bpc \in {"bloom", "hash"} => cfg.capacity # 1)
      BY <2>key DEF BenchTypeInv
    <3>7. CASE bpc \in {"bloom", "hash"}
      <4>1. cfg.capacity \in Nat \ {0, 1}
        BY <3>6, <3>7, <2>types
      <4>2. makeMixedStream(cfg.capacity)[index + 1] \in {<<"stream", j - 1>> : j \in 1 .. cfg.capacity \div 2}
        BY <3>3, <4>1, StreamKeys
      <4>3. cfg.capacity \div 2 \in 1 .. cfg.capacity-1
        BY <3>3, <4>1, StreamKeys
      <4>4. \A j \in 1 .. cfg.capacity \div 2 : j - 1 \in 0 .. cfg.capacity-1 /\ j - 1 \in Nat
        BY <4>1, <4>3
      <4>5. \A j \in 0 .. cfg.capacity-1 : <<"stream", j>> \in Key
        BY <3>1 DEF BenchTypeInv
      <4> QED BY <3>4, <3>5, <4>2, <4>4, <4>5
    <3> QED BY <3>4, <3>5, <3>7
  <2>1. CASE FlagsFail \/ ParseFails \/ RatioRefused \/ FillOverflows \/ ValueRefused
    BY <2>1, <2>stop DEF FlagsFail, ParseFails, RatioRefused, FillOverflows, ValueRefused
  <2>2. CASE Panic
    BY <2>2, <2>stop DEF Panic
  <2>3. CASE StartSweep
    <3>1. firstSweep # "none"
      BY <2>3, <2>types, FirstSweepIsSweep DEF StartSweep
    <3> QED BY <2>3, <3>1 DEF StartSweep, BenchTypeInv, Loops
  <2>4. CASE ParseBlank
    <3>1. index + 1 \in Nat /\ index + 1 <= Len(cfg.values)
      BY <2>4, <2>types DEF ParseBlank, Parsing
    <3> QED BY <2>4, <3>1 DEF ParseBlank, Parsing, BenchTypeInv, Loops
  <2>5. CASE ParseValue
    <3>1. index + 1 \in 1 .. Len(cfg.values)
      BY <2>5, <2>types DEF ParseValue, Parsing
    <3>2. part \in Int
      BY <2>types, <3>1 DEF part
    <3>3. values' \in Seq(Int) /\ (sweep = "size" => values' \in Seq(Nat))
      <4>1. sweep = "size" => values \in Seq(Nat) /\ part \in Nat
        BY <2>5 DEF ParseValue, Parsing, IsNumber, BenchTypeInv
      <4> QED BY <2>5, <2>types, <3>2, <4>1 DEF ParseValue
    <3>4. index + 1 \in Nat /\ index + 1 <= Len(cfg.values)
      BY <2>types, <3>1
    <3> QED BY <2>5, <3>3, <3>4 DEF ParseValue, Parsing, BenchTypeInv, Loops
  <2>6. CASE Parsed
    BY <2>6 DEF Parsed, BenchTypeInv, Loops
  <2>7. CASE StartCompare
    <3>1. (IF cfg.repeats <= 0 THEN 1 ELSE cfg.repeats) \in Int
      BY <2>types
    <3>2. cfg' \in FlagType /\ cfg'.sweeps = cfg.sweeps /\ cfg'.capacity = cfg.capacity
      BY <2>7, <2>types, <3>1 DEF StartCompare, FlagType
    <3> QED BY <2>7, <3>2 DEF StartCompare, BenchTypeInv, Loops
  <2>8. CASE AddRow \/ HashRow \/ KeyLengthRow \/ FPRRow \/ SizeRow \/ HitRow \/ MissRow
    <3>1. bpc = "run"
      BY <2>8 DEF AddRow, HashRow, KeyLengthRow, FPRRow, SizeRow, HitRow, MissRow, Scenario, Sweeping
    <3> QED BY <2>8, <2>row, <3>1, PlainRows
  <2>10. CASE StreamStart
    <3>1. NoStream \in StreamType /\ IsFiniteSet(NoStream.set)
      BY FS_EmptySet DEF NoStream, StreamType, NoBits
    <3> QED BY <2>10, <2>loop, <3>1 DEF StreamStart, Scenario, Loops
  <2>11. CASE StreamBloom
    <3> DEFINE key == makeMixedStream(cfg.capacity)[index + 1]
    <3>1. key \in Key /\ work \in StreamType /\ IsFiniteSet(work.set)
      BY <2>11, <2>key DEF StreamBloom, Turning, BenchTypeInv
    <3> HIDE DEF key
    <3>2. BF!SetProbed(work.bits, key) \in [BF!Byte -> SUBSET (0..7)]
      BY <3>1, HasBits DEF StreamType
    <3>3. BloomSees(work, key) \in StreamType /\ BloomSees(work, key).set = work.set
      BY <3>1, <3>2 DEF BloomSees, StreamType
    <3> QED BY <2>11, <2>turn, <3>1, <3>3 DEF StreamBloom, Loops, key
  <2>12. CASE StreamHash
    BY <2>12, <2>loop DEF StreamHash, Through, Loops, BenchTypeInv
  <2>13. CASE StreamSet
    <3> DEFINE key == makeMixedStream(cfg.capacity)[index + 1]
    <3>1. key \in {"stream"} \X Nat /\ work \in StreamType /\ IsFiniteSet(work.set)
      BY <2>13, <2>key DEF StreamSet, Turning, BenchTypeInv
    <3> HIDE DEF key
    <3>2. IsFiniteSet(work.set \cup {key})
      BY <3>1, FS_AddElement
    <3>3. HashSees(work, key) \in StreamType /\ IsFiniteSet(HashSees(work, key).set)
      BY <3>1, <3>2 DEF HashSees, StreamType
    <3> QED BY <2>13, <2>turn, <3>3 DEF StreamSet, Loops, key
  <2>14. CASE StreamRow \/ RemoveRow \/ MixRow
    <3>1. bpc \in Loops
      BY <2>14 DEF StreamRow, RemoveRow, MixRow, Through, Loops
    <3> QED BY <2>14, <2>row, <3>1, LoopRows DEF StreamRow, RemoveRow, MixRow
  <2>15. CASE RemoveStart
    <3>1. NoCounts \in CountType
      BY DEF NoCounts, CountType
    <3> QED BY <2>15, <2>loop, <3>1 DEF RemoveStart, Scenario, Loops
  <2>16. CASE Fill \/ Drain
    <3>1. work \in CountType
      BY <2>16 DEF Fill, Drain, Turning, BenchTypeInv
    <3>2. CF!Raised(work, indexed, K) \in CountType /\ CF!Lowered(work, indexed) \in CountType
      BY <3>1, CountsStay
    <3> QED BY <2>16, <2>turn, <3>1, <3>2 DEF Fill, Drain, Loops
  <2>17. CASE Filled
    BY <2>17, <2>loop DEF Filled, Through, Loops, BenchTypeInv
  <2>19. CASE MixStart
    <3>1. NoLookups \in LookupType
      BY DEF NoLookups, LookupType
    <3>2. sweep = "none" \/ (sweep = "mix" /\ Len(rows) < Len(values))
      BY <2>19 DEF MixStart, Scenario, Sweeping
    <3> QED BY <2>19, <2>loop, <3>1, <3>2 DEF MixStart, Scenario, Sweeping, Loops
  <2>20. CASE MixKey
    <3>1. work \in LookupType
      BY <2>20 DEF MixKey, Turning, BenchTypeInv
    <3>2. LookupAdded(work, index, cfg.capacity, hitCount) \in LookupType
      <4>1. work.keys \in Seq(LookupKey) /\ work.hitIdx \in Nat /\ work.missIdx \in Nat
        BY <3>1 DEF LookupType
      <4>2. <<"key", work.hitIdx>> \in LookupKey /\ <<"miss", work.missIdx>> \in LookupKey
        BY <4>1 DEF LookupKey
      <4>3. Append(work.keys, <<"key", work.hitIdx>>) \in Seq(LookupKey)
            /\ Append(work.keys, <<"miss", work.missIdx>>) \in Seq(LookupKey)
        BY <4>1, <4>2
      <4> QED BY <4>1, <4>3 DEF LookupAdded, LookupType
    <3> QED BY <2>20, <2>turn, <3>2 DEF MixKey, Loops
  <2>22. CASE Report
    BY <2>22 DEF Report, BenchTypeInv, Loops
  <2>23. CASE Ended \/ UNCHANGED benchVars
    <3>1. RatioAccepted(hitRatio) => RatioAccepted(hitRatio)'
      BY <2>23 DEF Ended, benchVars, hitRatio, value, RatioAccepted
    <3> QED BY <2>23, <3>1 DEF Ended, benchVars, BenchTypeInv, Loops
  <2> QED
    BY <2>1, <2>2, <2>3, <2>4, <2>5, <2>6, <2>7, <2>8, <2>10, <2>11, <2>12, <2>13, <2>14, <2>15,
       <2>16, <2>17, <2>19, <2>20, <2>22, <2>23 DEF BenchNext
<1> QED BY <1>1, <1>2, PTL DEF BenchSpec

\* How the rows change in a step.
LEMMA RowSteps ==
  ASSUME BenchTypeInv, BenchNext
  PROVE  \/ rows' = rows \/ rows' = <<>>
         \/ MixRow \/ StreamRow \/ RemoveRow
         \/ \E row : /\ Compared(row) /\ row \in RowType /\ MadeAs(row)
                     /\ row.scenario \in {"add", "contains_hit", "contains_miss"}
<1>1. CASE FlagsFail \/ ParseFails \/ RatioRefused \/ FillOverflows \/ ValueRefused \/ Panic
  BY <1>1 DEF FlagsFail, ParseFails, RatioRefused, FillOverflows, ValueRefused, Panic, Stop
<1>2. CASE StartSweep \/ ParseBlank \/ ParseValue \/ Parsed \/ StartCompare \/ Report \/ Ended
  BY <1>2 DEF StartSweep, ParseBlank, ParseValue, Parsed, StartCompare, Report, Ended, benchVars
<1>3. CASE StreamStart \/ StreamHash \/ RemoveStart \/ Filled \/ MixStart
  BY <1>3 DEF StreamStart, StreamHash, RemoveStart, Filled, MixStart, Enter
<1>4. CASE StreamBloom \/ StreamSet \/ Fill \/ Drain \/ MixKey
  BY <1>4 DEF StreamBloom, StreamSet, Fill, Drain, MixKey, Turn
<1>5. CASE AddRow \/ HashRow \/ KeyLengthRow \/ FPRRow \/ SizeRow \/ HitRow \/ MissRow
  BY <1>5, PlainRows
<1> QED
  BY <1>1, <1>2, <1>3, <1>4, <1>5 DEF BenchNext

\* How the work of a loop changes in a step.
LEMMA LoopSteps ==
  ASSUME BenchNext
  PROVE  /\ bpc' = "mix" => MixStart \/ MixKey
         /\ bpc' = "bloom" => StreamStart \/ StreamBloom
         /\ bpc' = "hash" => StreamHash \/ StreamSet
         /\ bpc' = "fill" => RemoveStart \/ Fill
         /\ bpc' = "drain" => Filled \/ Drain
<1>1. CASE FlagsFail \/ ParseFails \/ RatioRefused \/ FillOverflows \/ ValueRefused \/ Panic
  BY <1>1 DEF FlagsFail, ParseFails, RatioRefused, FillOverflows, ValueRefused, Panic, Stop
<1>2. CASE StartSweep \/ ParseBlank \/ ParseValue \/ Parsed \/ StartCompare \/ Report \/ Ended
  BY <1>2 DEF StartSweep, ParseBlank, ParseValue, Parsing, Parsed, StartCompare, Report, Ended, benchVars
<1>3. CASE StreamStart \/ StreamHash \/ RemoveStart \/ Filled \/ MixStart
  BY <1>3 DEF StreamStart, StreamHash, RemoveStart, Filled, MixStart, Enter
<1>4. CASE StreamBloom \/ StreamSet \/ Fill \/ Drain \/ MixKey
  BY <1>4 DEF StreamBloom, StreamSet, Fill, Drain, MixKey, Turn, Turning
<1>5. CASE AddRow \/ HashRow \/ KeyLengthRow \/ FPRRow \/ SizeRow \/ HitRow \/ MissRow \/ MixRow \/ StreamRow \/ RemoveRow
  BY <1>5 DEF AddRow, HashRow, KeyLengthRow, FPRRow, SizeRow, HitRow, MissRow, MixRow, StreamRow, RemoveRow, Compared
<1> QED
  BY <1>1, <1>2, <1>3, <1>4, <1>5 DEF BenchNext

-----------------------------------------------------------------------------
(* The benchmark: lookup keys.                                             *)

\* How many of the first i lookups are hits.
Quota(i, n, h) == (i * h) \div n

LEMMA Division ==
  ASSUME NEW a \in Nat, NEW n \in Nat \ {0}
  PROVE  /\ a \div n \in Nat
         /\ n * (a \div n) <= a /\ a < n * (a \div n) + n
OBVIOUS

LEMMA ProductOrder ==
  ASSUME NEW n \in Nat \ {0}, NEW x \in Int, NEW y \in Int, n * x < n * y
  PROVE  x < y
OBVIOUS

LEMMA ProductMono ==
  ASSUME NEW x \in Int, NEW y \in Int, x <= y, NEW h \in Nat
  PROVE  x * h <= y * h
OBVIOUS

\* The quota of hits: between two numbers of lookups it grows as their share does.
LEMMA QuotaBounds ==
  ASSUME NEW n \in Nat \ {0}, NEW h \in 0 .. n, NEW i \in Nat
  PROVE  /\ Quota(i, n, h) \in Nat /\ i * h \in Nat
         /\ n * Quota(i, n, h) <= i * h /\ i * h < n * Quota(i, n, h) + n
<1>1. i * h \in Nat
  OBVIOUS
<1> QED BY <1>1, Division DEF Quota

LEMMA QuotaGrows ==
  ASSUME NEW n \in Nat \ {0}, NEW h \in 0 .. n, NEW i \in Nat, NEW j \in Nat, i <= j
  PROVE  /\ Quota(i, n, h) <= Quota(j, n, h)
         /\ Quota(j, n, h) - Quota(i, n, h) <= j - i
<1> DEFINE q == Quota(i, n, h)
           r == Quota(j, n, h)
<1>1. q \in Nat /\ r \in Nat /\ i * h \in Nat /\ j * h \in Nat
  BY QuotaBounds
<1>2. n * q <= i * h /\ i * h < n * q + n /\ n * r <= j * h /\ j * h < n * r + n
  BY QuotaBounds
<1> HIDE DEF q, r
<1>3. i * h <= j * h
  BY ProductMono
<1>4. n * q < n * (r + 1)
  <2>1. n * (r + 1) = n * r + n /\ n * q \in Int /\ n * r \in Int
    BY <1>1
  <2> QED BY <1>1, <1>2, <1>3, <2>1
<1>5. q < r + 1
  BY <1>1, <1>4, ProductOrder
<1>6. (j - i) * h <= (j - i) * n
  BY ProductMono
<1>7. n * r < n * (q + (j - i) + 1)
  <2>1. n * (q + (j - i) + 1) = n * q + (j - i) * n + n
    BY <1>1
  <2>2. (j - i) * h = j * h - i * h
    OBVIOUS
  <2>3. n * q \in Int /\ n * r \in Int /\ (j - i) * n \in Int /\ (j - i) * h \in Int
    BY <1>1
  <2> QED BY <1>1, <1>2, <1>6, <2>1, <2>2, <2>3
<1>8. r < q + (j - i) + 1
  BY <1>1, <1>7, ProductOrder
<1> QED BY <1>1, <1>5, <1>8 DEF q, r

LEMMA QuotaEnds ==
  ASSUME NEW n \in Nat \ {0}, NEW h \in 0 .. n
  PROVE  Quota(0, n, h) = 0 /\ Quota(n, n, h) = h
<1>1. 0 * h = 0 /\ 0 \div n = 0
  OBVIOUS
<1> DEFINE q == Quota(n, n, h)
<1>2. q \in Nat /\ n * q <= n * h /\ n * h < n * q + n
  BY QuotaBounds
<1> HIDE DEF q
<1>3. n * q < n * (h + 1) /\ n * h < n * (q + 1)
  <2>1. n * (h + 1) = n * h + n /\ n * (q + 1) = n * q + n /\ n * q \in Int /\ n * h \in Int
    BY <1>2
  <2> QED BY <1>2, <2>1
<1>4. q < h + 1 /\ h < q + 1
  BY <1>2, <1>3, ProductOrder
<1>5. q = h
  BY <1>2, <1>4
<1> QED BY <1>1, <1>5 DEF q, Quota

\* Between two numbers of lookups the hits are off their share by less than one.
LEMMA QuotaEven ==
  ASSUME NEW n \in Nat \ {0}, NEW h \in 0 .. n, NEW a \in 1 .. n, NEW b \in a .. n
  PROVE  LET miss == (Quota(b, n, h) - Quota(a - 1, n, h)) * n - (b - a + 1) * h
         IN  -n < miss /\ miss < n
<1> DEFINE q == Quota(a - 1, n, h)
           r == Quota(b, n, h)
<1>1. a - 1 \in Nat /\ b \in Nat
  OBVIOUS
<1>2. /\ q \in Nat /\ n * q <= (a - 1) * h /\ (a - 1) * h < n * q + n
      /\ r \in Nat /\ n * r <= b * h /\ b * h < n * r + n
  BY <1>1, QuotaBounds
<1> HIDE DEF q, r
<1>3. (r - q) * n = n * r - n * q /\ (b - a + 1) * h = b * h - (a - 1) * h
  BY <1>1, <1>2
<1>4. n * r \in Int /\ n * q \in Int /\ b * h \in Int /\ (a - 1) * h \in Int
  BY <1>1, <1>2
<1>5. -n < (r - q) * n - (b - a + 1) * h /\ (r - q) * n - (b - a + 1) * h < n
  BY <1>2, <1>3, <1>4
<1> QED BY <1>5 DEF q, r

\* Lookup j, and the hits from lookup a to lookup b.
LookupAt(j, n, h) ==
  IF Quota(j - 1, n, h) < Quota(j, n, h) THEN <<"key", Quota(j - 1, n, h)>>
  ELSE <<"miss", (j - 1) - Quota(j - 1, n, h)>>

HitsIn(a, b, n, h) == {j \in a .. b : Quota(j - 1, n, h) < Quota(j, n, h)}

\* What the loop has come to after i lookups.
Lookups(w, i, n, h) ==
  /\ Len(w.keys) = i /\ w.hitIdx = Quota(i, n, h) /\ w.missIdx = i - Quota(i, n, h)
  /\ \A j \in 1 .. i : w.keys[j] = LookupAt(j, n, h)
  /\ \A b \in 0 .. i : \A a \in 1 .. b+1 :
       /\ IsFiniteSet(HitsIn(a, b, n, h))
       /\ Cardinality(HitsIn(a, b, n, h)) = Quota(b, n, h) - Quota(a - 1, n, h)

LEMMA NoHitsYet ==
  ASSUME NEW n \in Nat \ {0}, NEW h \in 0 .. n, NEW b \in Nat
  PROVE  /\ IsFiniteSet(HitsIn(b + 1, b, n, h))
         /\ Cardinality(HitsIn(b + 1, b, n, h)) = Quota(b, n, h) - Quota((b + 1) - 1, n, h)
<1>1. HitsIn(b + 1, b, n, h) = {} /\ (b + 1) - 1 = b
  BY DEF HitsIn
<1>2. Quota(b, n, h) \in Nat
  BY QuotaBounds
<1> QED BY <1>1, <1>2, FS_EmptySet

LEMMA LookupsStart ==
  ASSUME NEW n \in Nat \ {0}, NEW h \in 0 .. n
  PROVE  Lookups(NoLookups, 0, n, h)
<1>1. Quota(0, n, h) = 0
  BY QuotaEnds
<1>2. ASSUME NEW b \in 0 .. 0, NEW a \in 1 .. b+1
      PROVE  /\ IsFiniteSet(HitsIn(a, b, n, h))
             /\ Cardinality(HitsIn(a, b, n, h)) = Quota(b, n, h) - Quota(a - 1, n, h)
  <2>1. b = 0 /\ a = 0 + 1
    OBVIOUS
  <2> QED BY <2>1, NoHitsYet
<1> QED BY <1>1, <1>2 DEF Lookups, NoLookups

LEMMA LookupsTurn ==
  ASSUME NEW n \in Nat \ {0}, NEW h \in 0 .. n, NEW i \in 0 .. n-1, NEW w \in LookupType,
         Lookups(w, i, n, h)
  PROVE  Lookups(LookupAdded(w, i, n, h), i + 1, n, h)
<1> DEFINE x == LookupAdded(w, i, n, h)
           q == Quota(i, n, h)
           r == Quota(i + 1, n, h)
<1>1. q \in Nat /\ r \in Nat /\ q <= r /\ r <= q + 1
  <2>1. i \in Nat /\ i + 1 \in Nat /\ i <= i + 1
    OBVIOUS
  <2>2. q \in Nat /\ r \in Nat
    BY <2>1, QuotaBounds
  <2>3. q <= r /\ r - q <= (i + 1) - i
    BY <2>1, QuotaGrows
  <2> HIDE DEF q, r
  <2> QED BY <2>2, <2>3
<1>2. targetHits(i, n, h) = r
  BY DEF targetHits, Quota
<1>3. w.hitIdx = q /\ w.missIdx = i - q /\ Len(w.keys) = i /\ w.keys \in Seq(LookupKey)
  BY DEF Lookups, LookupType
<1>4. LookupAt(i + 1, n, h) = IF q < r THEN <<"key", q>> ELSE <<"miss", i - q>>
  BY DEF LookupAt
<1> HIDE DEF q, r
<1>5. /\ x.keys = Append(w.keys, LookupAt(i + 1, n, h))
      /\ x.hitIdx = r /\ x.missIdx = (i + 1) - r
  BY <1>1, <1>2, <1>3, <1>4 DEF LookupAdded
<1>6. LookupAt(i + 1, n, h) \in LookupKey
  <2>1. LookupAdded(w, i, n, h).keys = x.keys
    OBVIOUS
  <2>2. q <= i
    BY <1>1, <1>3 DEF LookupType
  <2> QED BY <1>1, <1>4, <2>2 DEF LookupKey
<1> HIDE DEF x
<1>7. Len(x.keys) = i + 1 /\ x.keys[i + 1] = LookupAt(i + 1, n, h)
      /\ \A j \in 1 .. i : x.keys[j] = w.keys[j]
  BY <1>3, <1>5, <1>6
<1>8. \A j \in 1 .. i+1 : x.keys[j] = LookupAt(j, n, h)
  <2> SUFFICES ASSUME NEW j \in 1 .. i+1 PROVE x.keys[j] = LookupAt(j, n, h)
    OBVIOUS
  <2>1. CASE j = i + 1
    BY <1>7, <2>1
  <2>2. CASE j \in 1 .. i
    BY <1>7, <2>2 DEF Lookups
  <2> QED BY <2>1, <2>2
<1>9. ASSUME NEW b \in 0 .. i+1, NEW a \in 1 .. b+1
      PROVE  /\ IsFiniteSet(HitsIn(a, b, n, h))
             /\ Cardinality(HitsIn(a, b, n, h)) = Quota(b, n, h) - Quota(a - 1, n, h)
  <2>1. CASE b <= i
    <3>1. b \in 0 .. i
      BY <2>1
    <3> QED BY <3>1 DEF Lookups
  <2>2. CASE a = b + 1
    BY <2>2, NoHitsYet
  <2>3. CASE b = i + 1 /\ a <= i + 1
    <3> DEFINE S == HitsIn(a, i, n, h)
    <3>1. IsFiniteSet(S) /\ Cardinality(S) = q - Quota(a - 1, n, h)
      <4>1. i \in 0 .. i /\ a \in 1 .. i+1
        BY <2>3
      <4> QED BY <4>1 DEF Lookups, q
    <3>2. i + 1 \notin S /\ Quota(a - 1, n, h) \in Nat
      <4>1. a - 1 \in Nat
        OBVIOUS
      <4>2. Quota(a - 1, n, h) \in Nat
        BY <4>1, QuotaBounds
      <4>3. i + 1 \notin a .. i
        OBVIOUS
      <4> QED BY <4>2, <4>3 DEF HitsIn
    <3>3. HitsIn(a, i + 1, n, h) = IF q < r THEN S \cup {i + 1} ELSE S
      <4>1. \A j : j \in a .. i+1 <=> j \in a .. i \/ j = i + 1
        BY <2>3
      <4>2. \A j \in HitsIn(a, i + 1, n, h) : j \in S \/ (j = i + 1 /\ q < r)
        BY <4>1 DEF HitsIn, q, r
      <4>3. \A j \in S : j \in HitsIn(a, i + 1, n, h)
        BY <4>1 DEF HitsIn
      <4>4. q < r => i + 1 \in HitsIn(a, i + 1, n, h)
        BY <4>1 DEF HitsIn, q, r
      <4> HIDE DEF S
      <4> QED BY <4>2, <4>3, <4>4
    <3>4. IsFiniteSet(S \cup {i + 1}) /\ Cardinality(S \cup {i + 1}) = Cardinality(S) + 1
      <4> HIDE DEF S
      <4> QED BY <3>1, <3>2, FS_AddElement
    <3> HIDE DEF S
    <3>5. Cardinality(HitsIn(a, i + 1, n, h)) = r - Quota(a - 1, n, h)
      BY <1>1, <3>1, <3>2, <3>3, <3>4
    <3> QED BY <2>3, <3>1, <3>3, <3>4, <3>5 DEF r
  <2> QED BY <2>1, <2>2, <2>3
<1> QED BY <1>5, <1>7, <1>8, <1>9 DEF Lookups, x, r

\* What LookupsInterleaved says of one row.
InterleavedHits(row, hits) ==
  row.scenario = "contains_mixed" =>
    LET n == row.n
        lookups == row.detail
        Hits(a, b) == {j \in a..b : lookups[j][1] = "key"}
    IN  /\ Len(lookups) = n
        /\ {lookups[j] : j \in Hits(1, n)} \subseteq ToSet(makeKeys(n))
        /\ \A j, k \in 1..n : lookups[j] = lookups[k] => j = k
        /\ \A a \in 1..n : \A b \in a..n :
             LET miss == Cardinality(Hits(a, b)) * n - (b - a + 1) * hits
             IN  -n < miss /\ miss < n

Interleaved(row) == InterleavedHits(row, HitCount(row.n, row.label))

\* All lookups, once they are made, are as LookupsInterleaved wants them.
LEMMA LookupsMade ==
  ASSUME NEW n \in Nat \ {0}, NEW h \in 0 .. n, NEW w, Lookups(w, n, n, h)
  PROVE  /\ Len(w.keys) = n
         /\ \A j \in 1 .. n : w.keys[j][1] = "key" => w.keys[j] \in ToSet(makeKeys(n))
         /\ \A j, k \in 1 .. n : w.keys[j] = w.keys[k] => j = k
         /\ \A a \in 1 .. n : \A b \in a .. n :
              LET miss == Cardinality({j \in a .. b : w.keys[j][1] = "key"}) * n - (b - a + 1) * h
              IN  -n < miss /\ miss < n
<1> DEFINE lookups == w.keys
<1>1. Len(lookups) = n /\ \A j \in 1 .. n : lookups[j] = LookupAt(j, n, h)
  BY DEF Lookups
<1> HIDE DEF lookups
<1>2. \A j \in 1 .. n : /\ Quota(j - 1, n, h) \in Nat /\ Quota(j, n, h) \in Nat
                        /\ Quota(j - 1, n, h) <= Quota(j, n, h) /\ Quota(j, n, h) <= Quota(j - 1, n, h) + 1
                        /\ Quota(j, n, h) <= n
  <2> SUFFICES ASSUME NEW j \in 1 .. n
               PROVE  /\ Quota(j - 1, n, h) \in Nat /\ Quota(j, n, h) \in Nat
                      /\ Quota(j - 1, n, h) <= Quota(j, n, h) /\ Quota(j, n, h) <= Quota(j - 1, n, h) + 1
                      /\ Quota(j, n, h) <= n
    OBVIOUS
  <2>1. j - 1 \in Nat /\ j \in Nat /\ n \in Nat /\ j - 1 <= j /\ j <= n
    OBVIOUS
  <2> DEFINE p == Quota(j - 1, n, h)
             q == Quota(j, n, h)
  <2>2. p \in Nat /\ q \in Nat
    BY <2>1, QuotaBounds
  <2>3. p <= q /\ q - p <= j - (j - 1)
    BY <2>1, QuotaGrows
  <2>4. q <= Quota(n, n, h)
    BY <2>1, QuotaGrows
  <2>5. Quota(n, n, h) = h
    BY QuotaEnds
  <2> HIDE DEF p, q
  <2>6. q <= p + 1 /\ q <= n
    BY <2>2, <2>3, <2>4, <2>5
  <2> QED BY <2>2, <2>3, <2>6 DEF p, q
<1>3. \A j \in 1 .. n : lookups[j][1] = "key" <=> Quota(j - 1, n, h) < Quota(j, n, h)
  <2> SUFFICES ASSUME NEW j \in 1 .. n
               PROVE  lookups[j][1] = "key" <=> Quota(j - 1, n, h) < Quota(j, n, h)
    OBVIOUS
  <2>1. lookups[j] = LookupAt(j, n, h)
    BY <1>1
  <2>2. CASE Quota(j - 1, n, h) < Quota(j, n, h)
    <3>1. lookups[j] = <<"key", Quota(j - 1, n, h)>>
      BY <2>1, <2>2 DEF LookupAt
    <3> QED BY <2>2, <3>1
  <2>3. CASE ~(Quota(j - 1, n, h) < Quota(j, n, h))
    <3>1. lookups[j] = <<"miss", (j - 1) - Quota(j - 1, n, h)>>
      BY <2>1, <2>3 DEF LookupAt
    <3>2. lookups[j][1] = "miss"
      BY <3>1
    <3> QED BY <2>3, <3>2
  <2> QED BY <2>2, <2>3
<1>4. ASSUME NEW j \in 1 .. n, lookups[j][1] = "key"
      PROVE  lookups[j] \in ToSet(makeKeys(n))
  <2> DEFINE q == Quota(j - 1, n, h)
  <2>1. q + 1 \in 1 .. n /\ lookups[j] = <<"key", q>>
    <3>1. q < Quota(j, n, h) /\ Quota(j, n, h) <= n /\ q \in Nat /\ Quota(j, n, h) \in Nat
      BY <1>2, <1>3, <1>4
    <3>2. lookups[j] = <<"key", q>>
      BY <1>1, <3>1 DEF LookupAt
    <3> HIDE DEF q
    <3> QED BY <3>1, <3>2
  <2>3. q \in Nat
    BY <1>2
  <2> HIDE DEF q
  <2>2. makeKeys(n)[q + 1] = <<"key", q>> /\ q + 1 \in DOMAIN makeKeys(n)
    <3>1. (q + 1) - 1 = q
      BY <2>3
    <3> QED BY <2>1, <3>1 DEF makeKeys
  <2> QED BY <2>1, <2>2 DEF ToSet
<1>5. ASSUME NEW j \in 1 .. n, NEW k \in 1 .. n, j < k, lookups[j] = lookups[k]
      PROVE  FALSE
  <2> DEFINE p == Quota(j - 1, n, h)
             q == Quota(j, n, h)
             r == Quota(k - 1, n, h)
  <2>1. p \in Nat /\ q \in Nat /\ p <= q /\ q <= p + 1 /\ r \in Nat
    BY <1>2
  <2>2. q <= r /\ r - q <= (k - 1) - j
    <3>1. j \in Nat /\ k - 1 \in Nat /\ j <= k - 1
      BY <1>5
    <3> QED BY <3>1, QuotaGrows
  <2>3. lookups[j] = IF p < q THEN <<"key", p>> ELSE <<"miss", (j - 1) - p>>
    BY <1>1 DEF LookupAt
  <2>4. lookups[k] = <<"key", r>> \/ lookups[k] = <<"miss", (k - 1) - r>>
    BY <1>1 DEF LookupAt
  <2> HIDE DEF p, q, r
  <2>5. CASE p < q
    <3>1. lookups[k][2] = p /\ lookups[k][1] = "key"
      BY <1>5, <2>3, <2>5
    <3>2. r = p
      BY <2>4, <3>1
    <3> QED BY <2>1, <2>2, <2>5, <3>2
  <2>6. CASE ~(p < q)
    <3>1. lookups[k][2] = (j - 1) - p /\ lookups[k][1] = "miss"
      BY <1>5, <2>3, <2>6
    <3>2. (k - 1) - r = (j - 1) - p
      BY <2>4, <3>1
    <3> QED BY <1>5, <2>1, <2>2, <2>6, <3>2
  <2> QED BY <2>5, <2>6
<1>6. ASSUME NEW j \in 1 .. n, NEW k \in 1 .. n, lookups[j] = lookups[k]
      PROVE  j = k
  <2>1. j < k \/ k < j \/ j = k
    OBVIOUS
  <2> QED BY <1>5, <1>6, <2>1
<1>7. ASSUME NEW a \in 1 .. n, NEW b \in a .. n
      PROVE  LET miss == Cardinality({j \in a .. b : lookups[j][1] = "key"}) * n - (b - a + 1) * h
             IN  -n < miss /\ miss < n
  <2>1. {j \in a .. b : lookups[j][1] = "key"} = HitsIn(a, b, n, h)
    <3>1. \A j \in a .. b : j \in 1 .. n
      OBVIOUS
    <3> QED BY <1>3, <3>1 DEF HitsIn
  <2>2. Cardinality(HitsIn(a, b, n, h)) = Quota(b, n, h) - Quota(a - 1, n, h)
    <3>1. b \in 0 .. n /\ a \in 1 .. b+1
      OBVIOUS
    <3> QED BY <3>1 DEF Lookups
  <2> QED BY <2>1, <2>2, QuotaEven
<1> QED BY <1>1, <1>4, <1>6, <1>7 DEF lookups

\* A count of hits is in range, unless it is made of NaN and the machine makes it
\* negative.
LEMMA HitCountInRange ==
  ASSUME NEW n \in Nat \ {0}, NEW ratio, RatioAccepted(ratio), cfg.nanCount \in Int
  PROVE  /\ HitCount(n, ratio) \in Int
         /\ HitCount(n, ratio) >= 0 => HitCount(n, ratio) \in 0 .. n
         /\ HitCount(n, ratio) < 0 => ratio = NaN /\ cfg.nanCount < 0
<1>1. CASE ratio = NaN
  BY <1>1 DEF HitCount
<1>2. CASE ratio # NaN
  <2>1. ratio \in 0..4
    BY <1>2 DEF RatioAccepted
  <2>2. HitCount(n, ratio) = LET count == (n * ratio) \div 4 IN IF count > n THEN n ELSE count
    BY <1>2 DEF HitCount
  <2>3. CASE ratio = 0
    BY <2>2, <2>3
  <2>4. CASE ratio = 1
    BY <2>2, <2>4
  <2>5. CASE ratio = 2
    BY <2>2, <2>5
  <2>6. CASE ratio = 3
    BY <2>2, <2>6
  <2>7. CASE ratio = 4
    BY <2>2, <2>7
  <2> QED BY <2>1, <2>3, <2>4, <2>5, <2>6, <2>7
<1> QED BY <1>1, <1>2

\* What the flags make of NaN is kept.
LEMMA BenchCounts ==
  ASSUME BenchTypeInv, [BenchNext]_benchVars
  PROVE  cfg'.nanCount = cfg.nanCount
<1>1. CASE FlagsFail \/ ParseFails \/ RatioRefused \/ FillOverflows \/ ValueRefused \/ Panic
  BY <1>1 DEF FlagsFail, ParseFails, RatioRefused, FillOverflows, ValueRefused, Panic, Stop
<1>2. CASE StartSweep \/ ParseBlank \/ ParseValue \/ Parsed \/ Report \/ Ended
  BY <1>2 DEF StartSweep, ParseBlank, ParseValue, Parsed, Report, Ended, benchVars
<1>3. CASE StartCompare
  BY <1>3 DEF StartCompare, BenchTypeInv, FlagType
<1>4. CASE StreamStart \/ StreamHash \/ RemoveStart \/ Filled \/ MixStart
  BY <1>4 DEF StreamStart, StreamHash, RemoveStart, Filled, MixStart, Enter
<1>5. CASE StreamBloom \/ StreamSet \/ Fill \/ Drain \/ MixKey
  BY <1>5 DEF StreamBloom, StreamSet, Fill, Drain, MixKey, Turn
<1>6. CASE AddRow \/ HashRow \/ KeyLengthRow \/ FPRRow \/ SizeRow \/ HitRow \/ MissRow
           \/ MixRow \/ StreamRow \/ RemoveRow
  BY <1>6 DEF AddRow, HashRow, KeyLengthRow, FPRRow, SizeRow, HitRow, MissRow, MixRow, StreamRow, RemoveRow, Compared
<1>7. CASE UNCHANGED benchVars
  BY <1>7 DEF benchVars
<1> QED BY <1>1, <1>2, <1>3, <1>4, <1>5, <1>6, <1>7 DEF BenchNext

\* Of a negative count no lookup is a hit, and no row comes.
MixInv ==
  /\ bpc = "mix" /\ hitCount >= 0 => Lookups(work, index, cfg.capacity, hitCount)
  /\ \A i \in 1 .. Len(rows) : Interleaved(rows[i])

\* What the loop over the lookups has come to, and the rows it made.
THEOREM MixInvariant == BenchSpec => []MixInv
<1>1. BenchInit => MixInv
  BY DEF BenchInit, BenchStart, MixInv
<1>2. BenchTypeInv /\ MixInv /\ [BenchNext]_benchVars => MixInv'
  <2> SUFFICES ASSUME BenchTypeInv, MixInv, [BenchNext]_benchVars PROVE MixInv'
    OBVIOUS
  <2>types. /\ cfg.capacity \in Nat \ {0} /\ cfg.nanCount \in Int /\ rows \in Seq(RowType) /\ index \in Nat
    BY DEF BenchTypeInv, FlagType
  <2>nan. \A n, ratio : HitCount(n, ratio)' = HitCount(n, ratio)
    <3>1. cfg'.nanCount = cfg.nanCount
      BY BenchCounts
    <3> QED BY <3>1 DEF HitCount
  <2>rows. ASSUME \A i \in 1 .. Len(rows') : Interleaved(rows'[i])
           PROVE  \A i \in 1 .. Len(rows') : Interleaved(rows[i])'
    BY <2>nan, <2>rows DEF Interleaved, InterleavedHits
  <2>1. CASE UNCHANGED benchVars
    <3>1. hitCount' = hitCount
      BY <2>1 DEF benchVars, hitCount, hitRatio, value, HitCount
    <3>2. \A i \in 1 .. Len(rows') : Interleaved(rows'[i])
      BY <2>1 DEF benchVars, MixInv
    <3> QED BY <2>1, <2>rows, <3>1, <3>2 DEF benchVars, MixInv
  <2>2. CASE BenchNext
    <3>mix. ASSUME bpc = "mix"
            PROVE  work \in LookupType /\ hitCount \in Int /\ (hitCount >= 0 => hitCount \in 0 .. cfg.capacity)
      BY <3>mix, <2>types, HitCountInRange DEF BenchTypeInv, hitCount
    <3>1. ASSUME bpc' = "mix", hitCount' >= 0 PROVE Lookups(work', index', cfg'.capacity, hitCount')
      <4>1. CASE MixStart
        <5>1. RatioAccepted(hitRatio) /\ hitCount' = hitCount /\ cfg' = cfg /\ work' = NoLookups /\ index' = 0
          BY <4>1 DEF MixStart, Enter, hitCount, hitRatio, value, HitCount
        <5>2. hitCount \in 0 .. cfg.capacity
          BY <2>types, <3>1, <5>1, HitCountInRange DEF hitCount
        <5> QED BY <2>types, <5>1, <5>2, LookupsStart
      <4>2. CASE MixKey
        <5>1. /\ bpc = "mix" /\ index < cfg.capacity /\ hitCount' = hitCount /\ cfg' = cfg /\ index' = index + 1
              /\ work' = LookupAdded(work, index, cfg.capacity, hitCount)
          BY <4>2 DEF MixKey, Turning, Turn, hitCount, hitRatio, value, HitCount
        <5>2. index \in 0 .. cfg.capacity - 1
          BY <2>types, <5>1
        <5>3. Lookups(work, index, cfg.capacity, hitCount)
          BY <3>1, <5>1 DEF MixInv
        <5>4. Lookups(LookupAdded(work, index, cfg.capacity, hitCount), index + 1, cfg.capacity, hitCount)
          BY <2>types, <3>mix, <3>1, <5>1, <5>2, <5>3, LookupsTurn
        <5> QED BY <5>1, <5>4
      <4> QED BY <2>2, <3>1, <4>1, <4>2, LoopSteps
    <3>2. ASSUME NEW row \in RowType, Compared(row), Interleaved(row)
          PROVE  \A i \in 1 .. Len(rows') : Interleaved(rows'[i])
      <4>1. /\ Len(rows') = Len(rows) + 1 /\ Len(rows) \in Nat
            /\ \A i \in 1 .. Len(rows) : rows'[i] = rows[i]
            /\ rows'[Len(rows) + 1] = row
        BY <2>types, <3>2, RowAdded DEF Compared
      <4>2. \A i \in 1 .. Len(rows) : Interleaved(rows[i])
        BY DEF MixInv
      <4>3. ASSUME NEW i \in 1 .. Len(rows) + 1 PROVE Interleaved(rows'[i])
        BY <3>2, <4>1, <4>2, <4>3
      <4> QED BY <4>1, <4>3
    <3>3. \A i \in 1 .. Len(rows') : Interleaved(rows'[i])
      <4>1. CASE rows' = rows
        BY <4>1 DEF MixInv
      <4>2. CASE rows' = <<>>
        BY <4>2
      <4>3. ASSUME NEW row, Compared(row), row \in RowType, row.scenario \in {"add", "contains_hit", "contains_miss"}
            PROVE  \A i \in 1 .. Len(rows') : Interleaved(rows'[i])
        <5>1. Interleaved(row)
          BY <4>3 DEF Interleaved, InterleavedHits
        <5> QED BY <3>2, <4>3, <5>1
      <4>4. CASE StreamRow
        <5>1. Interleaved(compareMixedStream)
          BY DEF Interleaved, InterleavedHits, compareMixedStream, Row
        <5> QED BY <3>2, <4>4, <5>1, LoopRows DEF StreamRow
      <4>5. CASE RemoveRow
        <5>1. Interleaved(compareRemove)
          BY DEF Interleaved, InterleavedHits, compareRemove, Row
        <5> QED BY <3>2, <4>5, <5>1, LoopRows DEF RemoveRow
      <4>6. CASE MixRow
        <5> DEFINE row == compareContainsMixed(hitRatio, work.keys)
        <5>1. /\ row.n = cfg.capacity /\ row.detail = work.keys /\ row.label = hitRatio
              /\ HitCount(row.n, row.label) = hitCount
          BY DEF compareContainsMixed, Row, hitCount
        <5>2. bpc = "mix" /\ index = cfg.capacity
          BY <4>6 DEF MixRow, Through
        <5>4. hitCount \in 0 .. cfg.capacity
          <6>1. work.hitIdx = hitCount /\ work.hitIdx \in Nat
            BY <3>mix, <4>6, <5>2 DEF MixRow, MixedCountsAgree, LookupType
          <6> QED BY <3>mix, <5>2, <6>1
        <5>3. Lookups(work, cfg.capacity, cfg.capacity, hitCount)
          BY <5>2, <5>4 DEF MixInv
        <5>5. row \in RowType /\ Compared(row)
          BY <4>6, LoopRows DEF MixRow
        <5> HIDE DEF row
        <5>6. Interleaved(row)
          <6>1. /\ Len(work.keys) = cfg.capacity
                /\ \A j \in 1 .. cfg.capacity : work.keys[j][1] = "key" => work.keys[j] \in ToSet(makeKeys(cfg.capacity))
                /\ \A j, k \in 1 .. cfg.capacity : work.keys[j] = work.keys[k] => j = k
                /\ \A a \in 1 .. cfg.capacity : \A b \in a .. cfg.capacity :
                     LET miss == Cardinality({j \in a .. b : work.keys[j][1] = "key"}) * cfg.capacity
                                 - (b - a + 1) * hitCount
                     IN  -cfg.capacity < miss /\ miss < cfg.capacity
            BY <2>types, <5>3, <5>4, LookupsMade
          <6> QED BY <5>1, <6>1 DEF Interleaved, InterleavedHits
        <5> QED BY <3>2, <5>5, <5>6
      <4> QED BY <2>2, <4>1, <4>2, <4>3, <4>4, <4>5, <4>6, RowSteps
    <3> QED BY <2>rows, <3>1, <3>3 DEF MixInv
  <2> QED BY <2>1, <2>2
<1> QED BY <1>1, <1>2, BenchTypes, PTL DEF BenchSpec

\* The lookup keys of every contains_mixed row, whatever the capacity and the ratio.
THEOREM LookupsAreInterleaved == BenchSpec => []LookupsInterleaved
<1>1. BenchTypeInv /\ MixInv => LookupsInterleaved
  <2> SUFFICES ASSUME BenchTypeInv, MixInv PROVE LookupsInterleaved
    OBVIOUS
  <2>1. DOMAIN rows = 1 .. Len(rows)
    BY DEF BenchTypeInv
  <2> QED BY <2>1 DEF MixInv, LookupsInterleaved, Interleaved, InterleavedHits
<1> QED BY <1>1, BenchTypes, MixInvariant, PTL DEF BenchSpec

-----------------------------------------------------------------------------
(* The benchmark: the stream of repeats.                                   *)

\* What a filter has, it keeps; what is added, it has; and it has nothing at first.
LEMMA SeenStays ==
  ASSUME NEW bs \in [BF!Byte -> SUBSET (0..7)], NEW key \in Key, NEW other \in Key
  PROVE  /\ BF!Has(bs, other) => BF!Has(BF!SetProbed(bs, key), other)
         /\ BF!Has(BF!SetProbed(bs, key), key)
         /\ ~BF!Has(NoBits, key)
<1>1. \A k \in Key : \A i \in 0 .. K-1 : Probe[k][i] \in 0 .. M-1
  BY BenchAssumption
<1>2. \A p \in 0 .. M-1 : p \div 8 \in BF!Byte
  <2> SUFFICES ASSUME NEW p \in 0 .. M-1 PROVE p \div 8 \in BF!Byte
    OBVIOUS
  <2>1. M \in Nat /\ p \in Nat /\ p <= M - 1
    BY BenchAssumption
  <2>2. p \div 8 \in Nat /\ p \div 8 <= ((M + 7) \div 8) - 1
    BY <2>1
  <2> QED BY <2>1, <2>2 DEF BF!Byte
<1>3. \A k \in Key : \A i \in 0 .. K-1 : Probe[k][i] \div 8 \in BF!Byte
  BY <1>1, <1>2
<1>4. \A b \in BF!Byte : bs[b] \subseteq BF!SetProbed(bs, key)[b]
  BY DEF BF!SetProbed
<1>5. BF!Has(bs, other) => BF!Has(BF!SetProbed(bs, key), other)
  BY <1>3, <1>4 DEF BF!Has
<1>6. ASSUME NEW i \in 0 .. K-1
      PROVE  (Probe[key][i] % 8) \in BF!SetProbed(bs, key)[Probe[key][i] \div 8]
  <2>1. Probe[key][i] \div 8 \in BF!Byte
    BY <1>3
  <2> QED BY <2>1 DEF BF!SetProbed
<1>7. BF!Has(BF!SetProbed(bs, key), key)
  BY <1>6 DEF BF!Has
<1>8. ~BF!Has(NoBits, key)
  <2>1. 0 \in 0 .. K-1
    BY BenchAssumption
  <2>2. NoBits[Probe[key][0] \div 8] = {}
    BY <1>3, <2>1 DEF NoBits
  <2> QED BY <2>1, <2>2 DEF BF!Has
<1> QED BY <1>5, <1>7, <1>8

\* What the two loops over the first i keys of a stream of n have come to.
BloomSeen(w, i, n) ==
  /\ w.count + w.bloomFP = i /\ w.bloomFP >= i - (n \div 2) /\ (i > 0 => w.count > 0)
  /\ w.set = {} /\ w.hashFP = 0
  /\ i = 0 => w.bits = NoBits
  /\ \A j \in 1 .. i : BF!Has(w.bits, makeMixedStream(n)[j])

HashSeen(w, i, n) ==
  /\ w.count + w.bloomFP = n /\ w.bloomFP >= n - (n \div 2) /\ w.count > 0
  /\ w.set = {makeMixedStream(n)[j] : j \in 1 .. i}
  /\ Cardinality(w.set) + w.hashFP = i
  /\ w.hashFP = IF i <= n \div 2 THEN 0 ELSE i - (n \div 2)

LEMMA BloomTurn ==
  ASSUME NEW n \in Nat \ {0, 1}, NEW i \in 0 .. n-1, NEW w \in StreamType, BloomSeen(w, i, n),
         \A j \in 1 .. n : makeMixedStream(n)[j] \in Key
  PROVE  BloomSeen(BloomSees(w, makeMixedStream(n)[i + 1]), i + 1, n)
<1> DEFINE key == makeMixedStream(n)[i + 1]
           half == n \div 2
           x == BloomSees(w, key)
<1>1. i + 1 \in 1 .. n /\ half \in 1 .. n-1
  OBVIOUS
<1>2. key \in Key /\ w.bits \in [BF!Byte -> SUBSET (0..7)] /\ w.count \in Nat /\ w.bloomFP \in Nat
  BY <1>1 DEF StreamType
<1>3. CASE BF!Has(w.bits, key)
  <2>1. /\ x.bits = w.bits /\ x.count = w.count /\ x.bloomFP = w.bloomFP + 1
        /\ x.set = w.set /\ x.hashFP = w.hashFP
    BY <1>3 DEF BloomSees
  <2>2. i # 0
    <3>1. ~BF!Has(NoBits, key)
      BY <1>2, SeenStays
    <3> QED BY <1>3, <3>1 DEF BloomSeen
  <2>3. \A j \in 1 .. i+1 : BF!Has(w.bits, makeMixedStream(n)[j])
    <3> SUFFICES ASSUME NEW j \in 1 .. i+1 PROVE BF!Has(w.bits, makeMixedStream(n)[j])
      OBVIOUS
    <3>1. CASE j = i + 1
      BY <1>3, <3>1
    <3>2. CASE j \in 1 .. i
      BY <3>2 DEF BloomSeen
    <3> QED BY <3>1, <3>2
  <2> HIDE DEF x, half
  <2> QED BY <1>1, <1>2, <2>1, <2>2, <2>3 DEF BloomSeen, half, x
<1>4. CASE ~BF!Has(w.bits, key)
  <2>1. /\ x.bits = BF!SetProbed(w.bits, key) /\ x.count = w.count + 1 /\ x.bloomFP = w.bloomFP
        /\ x.set = w.set /\ x.hashFP = w.hashFP
    BY <1>4 DEF BloomSees
  <2>2. i + 1 <= half
    <3> SUFFICES ASSUME i + 1 > half PROVE FALSE
      BY <1>1
    <3>1. PICK j \in 1 .. half : key = <<"stream", j - 1>>
      BY <1>1, StreamKeys
    <3>2. j \in 1 .. i /\ j \in 1 .. n /\ j <= half
      BY <1>1
    <3>3. makeMixedStream(n)[j] = <<"stream", j - 1>>
      BY <3>2, StreamKeys
    <3>4. BF!Has(w.bits, makeMixedStream(n)[j])
      BY <3>2 DEF BloomSeen
    <3> QED BY <1>4, <3>1, <3>3, <3>4
  <2>3. \A j \in 1 .. i+1 : BF!Has(BF!SetProbed(w.bits, key), makeMixedStream(n)[j])
    <3> SUFFICES ASSUME NEW j \in 1 .. i+1 PROVE BF!Has(BF!SetProbed(w.bits, key), makeMixedStream(n)[j])
      OBVIOUS
    <3>1. CASE j = i + 1
      BY <1>2, <3>1, SeenStays
    <3>2. CASE j \in 1 .. i
      <4>1. BF!Has(w.bits, makeMixedStream(n)[j]) /\ makeMixedStream(n)[j] \in Key
        BY <3>2 DEF BloomSeen
      <4> QED BY <1>2, <4>1, SeenStays
    <3> QED BY <3>1, <3>2
  <2>4. w.count + w.bloomFP = i /\ w.set = {} /\ w.hashFP = 0
    BY DEF BloomSeen
  <2> HIDE DEF x, half
  <2>5. /\ x.count + x.bloomFP = i + 1 /\ x.bloomFP >= (i + 1) - half /\ x.count > 0
        /\ x.set = {} /\ x.hashFP = 0 /\ i + 1 # 0
    BY <1>1, <1>2, <2>1, <2>2, <2>4
  <2> QED BY <2>1, <2>3, <2>5 DEF BloomSeen, half, x
<1> QED BY <1>3, <1>4

LEMMA HashTurn ==
  ASSUME NEW n \in Nat \ {0, 1}, NEW i \in 0 .. n-1, NEW w \in StreamType, IsFiniteSet(w.set), HashSeen(w, i, n)
  PROVE  HashSeen(HashSees(w, makeMixedStream(n)[i + 1]), i + 1, n)
<1> DEFINE key == makeMixedStream(n)[i + 1]
           half == n \div 2
           x == HashSees(w, key)
<1>1. i + 1 \in 1 .. n /\ half \in 1 .. n-1
  OBVIOUS
<1>2. w.hashFP \in Nat /\ Cardinality(w.set) \in Nat
  BY FS_CardinalityType DEF StreamType
<1>3. {makeMixedStream(n)[j] : j \in 1 .. i+1} = w.set \cup {key}
  <2>1. \A j : j \in 1 .. i+1 <=> j \in 1 .. i \/ j = i + 1
    OBVIOUS
  <2>2. w.set = {makeMixedStream(n)[j] : j \in 1 .. i}
    BY DEF HashSeen
  <2> QED BY <2>1, <2>2
<1>4. key \in w.set <=> i + 1 > half
  <2>1. ASSUME i + 1 > half PROVE key \in w.set
    <3>1. PICK j \in 1 .. half : key = <<"stream", j - 1>>
      BY <1>1, <2>1, StreamKeys
    <3>2. j \in 1 .. i /\ j \in 1 .. n /\ j <= half
      BY <1>1, <2>1
    <3>3. makeMixedStream(n)[j] = <<"stream", j - 1>>
      BY <3>2, StreamKeys
    <3> QED BY <3>1, <3>2, <3>3 DEF HashSeen
  <2>2. ASSUME i + 1 <= half PROVE key \notin w.set
    <3>1. key = <<"stream", (i + 1) - 1>>
      BY <1>1, <2>2, StreamKeys
    <3>2. \A j \in 1 .. i : makeMixedStream(n)[j] # key
      <4> SUFFICES ASSUME NEW j \in 1 .. i PROVE makeMixedStream(n)[j] # key
        OBVIOUS
      <4>1. j \in 1 .. n /\ j <= half
        BY <1>1, <2>2
      <4>2. makeMixedStream(n)[j] = <<"stream", j - 1>>
        BY <4>1, StreamKeys
      <4>3. j - 1 # (i + 1) - 1
        OBVIOUS
      <4> QED BY <3>1, <4>2, <4>3
    <3> QED BY <3>2 DEF HashSeen
  <2> QED BY <1>1, <2>1, <2>2
<1>5. /\ w.count + w.bloomFP = n /\ w.bloomFP >= n - half /\ w.count > 0
      /\ Cardinality(w.set) + w.hashFP = i
      /\ w.hashFP = IF i <= half THEN 0 ELSE i - half
  BY DEF HashSeen
<1>6. CASE key \in w.set
  <2>1. /\ x.count = w.count /\ x.bloomFP = w.bloomFP /\ x.set = w.set /\ x.hashFP = w.hashFP + 1
    BY <1>6 DEF HashSees
  <2>2. w.set \cup {key} = w.set
    BY <1>6
  <2> HIDE DEF x, half
  <2>3. x.hashFP = (IF i + 1 <= half THEN 0 ELSE (i + 1) - half) /\ Cardinality(x.set) + x.hashFP = i + 1
    BY <1>1, <1>2, <1>4, <1>5, <1>6, <2>1
  <2> QED BY <1>3, <1>5, <2>1, <2>2, <2>3 DEF HashSeen, half, x
<1>7. CASE key \notin w.set
  <2>1. /\ x.count = w.count /\ x.bloomFP = w.bloomFP /\ x.set = w.set \cup {key} /\ x.hashFP = w.hashFP
    BY <1>7 DEF HashSees
  <2>2. Cardinality(w.set \cup {key}) = Cardinality(w.set) + 1
    BY <1>7, FS_AddElement
  <2> HIDE DEF x, half
  <2>3. x.hashFP = (IF i + 1 <= half THEN 0 ELSE (i + 1) - half) /\ Cardinality(x.set) + x.hashFP = i + 1
    BY <1>1, <1>2, <1>4, <1>5, <1>7, <2>1, <2>2
  <2> QED BY <1>3, <1>5, <2>1, <2>3 DEF HashSeen, half, x
<1> QED BY <1>6, <1>7

\* What StreamAccounted says of one row.
Accounted(row) ==
  row.scenario = "mixed_stream" =>
    /\ row.detail.hashFP = row.n - (row.n \div 2)
    /\ row.detail.bloomFP - row.detail.hashFP = row.detail.distinct - row.items
    /\ row.detail.bloomFP >= row.detail.hashFP /\ row.items > 0

StreamInv ==
  /\ bpc = "bloom" => BloomSeen(work, index, cfg.capacity)
  /\ bpc = "hash" => HashSeen(work, index, cfg.capacity)
  /\ \A i \in 1 .. Len(rows) : Accounted(rows[i])

\* Every mixed_stream row, whatever the capacity, the filter's size and its hasher.
THEOREM StreamIsAccounted == BenchSpec => []StreamAccounted
<1>1. BenchInit => StreamInv
  BY DEF BenchInit, BenchStart, StreamInv
<1>2. BenchTypeInv /\ StreamInv /\ [BenchNext]_benchVars => StreamInv'
  <2> SUFFICES ASSUME BenchTypeInv, StreamInv, [BenchNext]_benchVars PROVE StreamInv'
    OBVIOUS
  <2>types. /\ cfg.capacity \in Nat \ {0} /\ rows \in Seq(RowType) /\ index \in Nat
    BY DEF BenchTypeInv, FlagType
  <2>1. CASE UNCHANGED benchVars
    BY <2>1 DEF benchVars, StreamInv
  <2>2. CASE BenchNext
    <3>work. ASSUME bpc \in {"bloom", "hash"}
             PROVE  /\ work \in StreamType /\ IsFiniteSet(work.set)
                    /\ cfg.capacity \in Nat \ {0, 1}
                    /\ \A j \in 1 .. cfg.capacity : makeMixedStream(cfg.capacity)[j] \in Key
      <4>1. work \in StreamType /\ IsFiniteSet(work.set) /\ cfg.capacity # 1 /\ sweep = "none"
        BY <3>work DEF BenchTypeInv
      <4>2. cfg.sweeps = {}
        BY <3>work, <4>1 DEF BenchTypeInv, Loops
      <4>3. cfg.capacity \in Nat \ {0, 1}
        BY <4>1, <2>types
      <4>4. ASSUME NEW j \in 1 .. cfg.capacity PROVE makeMixedStream(cfg.capacity)[j] \in Key
        <5>1. PICK k \in 1 .. cfg.capacity \div 2 : makeMixedStream(cfg.capacity)[j] = <<"stream", k - 1>>
          BY <4>3, StreamKeys
        <5>2. k - 1 \in 0 .. cfg.capacity-1
          <6>1. cfg.capacity \div 2 \in 1 .. cfg.capacity-1
            BY <4>3, StreamKeys
          <6> QED BY <4>3, <6>1
        <5> QED BY <4>2, <5>1, <5>2 DEF BenchTypeInv
      <4> QED BY <4>1, <4>3, <4>4
    <3>1. ASSUME bpc' = "bloom" PROVE BloomSeen(work', index', cfg'.capacity)
      <4>1. CASE StreamStart
        <5>1. work' = NoStream /\ index' = 0 /\ cfg' = cfg /\ cfg.capacity \in Nat \ {0, 1}
          BY <4>1, <2>types DEF StreamStart, Enter
        <5>2. cfg.capacity \div 2 \in Nat
          BY <5>1
        <5> QED BY <5>1, <5>2 DEF BloomSeen, NoStream
      <4>2. CASE StreamBloom
        <5>1. /\ bpc = "bloom" /\ index < cfg.capacity /\ cfg' = cfg /\ index' = index + 1
              /\ work' = BloomSees(work, makeMixedStream(cfg.capacity)[index + 1])
          BY <4>2 DEF StreamBloom, Turning, Turn
        <5>2. index \in 0 .. cfg.capacity-1 /\ BloomSeen(work, index, cfg.capacity)
          BY <2>types, <5>1 DEF StreamInv
        <5>3. BloomSeen(BloomSees(work, makeMixedStream(cfg.capacity)[index + 1]), index + 1, cfg.capacity)
          BY <3>work, <5>1, <5>2, BloomTurn
        <5> QED BY <5>1, <5>3
      <4> QED BY <2>2, <3>1, <4>1, <4>2, LoopSteps
    <3>2. ASSUME bpc' = "hash" PROVE HashSeen(work', index', cfg'.capacity)
      <4>1. CASE StreamHash
        <5>1. /\ bpc = "bloom" /\ index = cfg.capacity /\ work' = work /\ index' = 0 /\ cfg' = cfg
          BY <4>1 DEF StreamHash, Through, Enter
        <5>2. BloomSeen(work, cfg.capacity, cfg.capacity) /\ cfg.capacity \in Nat \ {0, 1}
          BY <3>work, <5>1 DEF StreamInv
        <5>3. cfg.capacity \div 2 \in Nat /\ {makeMixedStream(cfg.capacity)[j] : j \in 1 .. 0} = {}
          BY <5>2
        <5>4. Cardinality({}) = 0
          BY FS_EmptySet
        <5> QED BY <5>1, <5>2, <5>3, <5>4 DEF BloomSeen, HashSeen
      <4>2. CASE StreamSet
        <5>1. /\ bpc = "hash" /\ index < cfg.capacity /\ cfg' = cfg /\ index' = index + 1
              /\ work' = HashSees(work, makeMixedStream(cfg.capacity)[index + 1])
          BY <4>2 DEF StreamSet, Turning, Turn
        <5>2. index \in 0 .. cfg.capacity-1 /\ HashSeen(work, index, cfg.capacity)
          BY <2>types, <5>1 DEF StreamInv
        <5>3. HashSeen(HashSees(work, makeMixedStream(cfg.capacity)[index + 1]), index + 1, cfg.capacity)
          BY <3>work, <5>1, <5>2, HashTurn
        <5> QED BY <5>1, <5>3
      <4> QED BY <2>2, <3>2, <4>1, <4>2, LoopSteps
    <3>3. ASSUME NEW row \in RowType, Compared(row), Accounted(row)
          PROVE  \A i \in 1 .. Len(rows') : Accounted(rows'[i])
      <4>1. /\ Len(rows') = Len(rows) + 1 /\ Len(rows) \in Nat
            /\ \A i \in 1 .. Len(rows) : rows'[i] = rows[i]
            /\ rows'[Len(rows) + 1] = row
        BY <2>types, <3>3, RowAdded DEF Compared
      <4>2. \A i \in 1 .. Len(rows) : Accounted(rows[i])
        BY DEF StreamInv
      <4>3. ASSUME NEW i \in 1 .. Len(rows) + 1 PROVE Accounted(rows'[i])
        BY <3>3, <4>1, <4>2, <4>3
      <4> QED BY <4>1, <4>3
    <3>4. \A i \in 1 .. Len(rows') : Accounted(rows'[i])
      <4>1. CASE rows' = rows
        BY <4>1 DEF StreamInv
      <4>2. CASE rows' = <<>>
        BY <4>2
      <4>3. ASSUME NEW row, Compared(row), row \in RowType, row.scenario \in {"add", "contains_hit", "contains_miss"}
            PROVE  \A i \in 1 .. Len(rows') : Accounted(rows'[i])
        <5>1. Accounted(row)
          BY <4>3 DEF Accounted
        <5> QED BY <3>3, <4>3, <5>1
      <4>4. CASE MixRow
        <5>1. Accounted(compareContainsMixed(hitRatio, work.keys))
          BY DEF Accounted, compareContainsMixed, Row
        <5> QED BY <3>3, <4>4, <5>1, LoopRows DEF MixRow
      <4>5. CASE RemoveRow
        <5>1. Accounted(compareRemove)
          BY DEF Accounted, compareRemove, Row
        <5> QED BY <3>3, <4>5, <5>1, LoopRows DEF RemoveRow
      <4>6. CASE StreamRow
        <5>1. bpc = "hash" /\ index = cfg.capacity
          BY <4>6 DEF StreamRow, Through
        <5>2. HashSeen(work, cfg.capacity, cfg.capacity) /\ work \in StreamType /\ IsFiniteSet(work.set)
          BY <3>work, <5>1 DEF StreamInv
        <5> DEFINE n == cfg.capacity
                   half == n \div 2
                   distinct == Cardinality(work.set)
        <5>3. n \in Nat \ {0, 1} /\ half \in 1 .. n-1
          BY <3>work, <5>1
        <5>4. /\ work.count \in Nat /\ work.bloomFP \in Nat /\ work.hashFP \in Nat /\ distinct \in Nat
              /\ work.count + work.bloomFP = n /\ work.bloomFP >= n - half /\ work.count > 0
              /\ distinct + work.hashFP = n
              /\ work.hashFP = IF n <= half THEN 0 ELSE n - half
          BY <5>2, FS_CardinalityType DEF HashSeen, StreamType
        <5>5. /\ work.hashFP = n - half
              /\ work.bloomFP - work.hashFP = distinct - work.count
              /\ work.bloomFP >= work.hashFP /\ work.count > 0
          <6> HIDE DEF n, half, distinct
          <6> QED BY <5>3, <5>4
        <5>6. Accounted(compareMixedStream)
          BY <5>5 DEF Accounted, compareMixedStream, Row
        <5> QED BY <3>3, <4>6, <5>6, LoopRows DEF StreamRow
      <4> QED BY <2>2, <4>1, <4>2, <4>3, <4>4, <4>5, <4>6, RowSteps
    <3> QED BY <3>1, <3>2, <3>4 DEF StreamInv
  <2> QED BY <2>1, <2>2
<1>3. BenchTypeInv /\ StreamInv => StreamAccounted
  <2> SUFFICES ASSUME BenchTypeInv, StreamInv PROVE StreamAccounted
    OBVIOUS
  <2>1. DOMAIN rows = 1 .. Len(rows)
    BY DEF BenchTypeInv
  <2> QED BY <2>1 DEF StreamInv, StreamAccounted, Accounted
<1> QED BY <1>1, <1>2, <1>3, BenchTypes, PTL DEF BenchSpec

-----------------------------------------------------------------------------
(* The benchmark: what is added is removed.                                *)

\* The counters after each of the first i keys was added.
Levels(l, i) ==
  /\ l \in [0 .. i -> CountType] /\ l[0] = NoCounts
  /\ \A j \in 0 .. i-1 : l[j + 1] = CF!Raised(l[j], <<"key", j>>, K)
  /\ \A j \in 0 .. i : \A k \in j .. i : \A c \in 0..M-1 : l[j][c] <= l[k][c]

LEMMA LevelAdded ==
  ASSUME NEW i \in Nat, NEW l, Levels(l, i)
  PROVE  \E x : Levels(x, i + 1) /\ x[i + 1] = CF!Raised(l[i], <<"key", i>>, K)
<1> DEFINE next == CF!Raised(l[i], <<"key", i>>, K)
           x == [j \in 0 .. i+1 |-> IF j <= i THEN l[j] ELSE next]
<1>1. l[i] \in CountType
  <2>1. i \in 0 .. i
    OBVIOUS
  <2> QED BY <2>1 DEF Levels
<1>2. next \in CountType /\ \A c \in 0..M-1 : l[i][c] <= next[c]
  <2>1. next \in CountType
    BY <1>1, CountsStay
  <2>2. ASSUME NEW c \in 0..M-1 PROVE l[i][c] <= next[c]
    <3>1. CF!Hits(<<"key", i>>, K, c) \in Nat
      BY HitCounts
    <3>2. next[c] = l[i][c] + CF!Hits(<<"key", i>>, K, c)
      BY DEF CF!Raised, CF!Cell
    <3>3. l[i][c] \in Nat
      BY <1>1 DEF CountType
    <3> HIDE DEF next
    <3> QED BY <3>1, <3>2, <3>3
  <2> QED BY <2>1, <2>2
<1>3. x[i + 1] = next /\ \A j \in 0 .. i : x[j] = l[j]
  <2> HIDE DEF next
  <2> QED OBVIOUS
<1>4. x \in [0 .. i+1 -> CountType]
  <2>1. \A j \in 0 .. i : l[j] \in CountType
    BY DEF Levels
  <2> HIDE DEF next
  <2>2. \A j \in 0 .. i+1 : j <= i => j \in 0 .. i
    OBVIOUS
  <2> QED BY <1>2, <2>1, <2>2
<1> HIDE DEF x, next
<1>5. x[0] = NoCounts
  <2>1. 0 \in 0 .. i
    OBVIOUS
  <2> QED BY <1>3, <2>1 DEF Levels
<1>6. ASSUME NEW j \in 0 .. (i + 1) - 1 PROVE x[j + 1] = CF!Raised(x[j], <<"key", j>>, K)
  <2>1. CASE j = i
    <3>1. x[j] = l[i]
      BY <1>3, <2>1
    <3> QED BY <1>3, <2>1, <3>1 DEF next
  <2>2. CASE j # i
    <3>1. j \in 0 .. i-1 /\ j \in 0 .. i /\ j + 1 \in 0 .. i
      BY <2>2
    <3>2. x[j + 1] = l[j + 1] /\ x[j] = l[j]
      BY <1>3, <3>1
    <3> QED BY <3>1, <3>2 DEF Levels
  <2> QED BY <2>1, <2>2
<1>7. ASSUME NEW j \in 0 .. i+1, NEW k \in j .. i+1, NEW c \in 0..M-1 PROVE x[j][c] <= x[k][c]
  <2>1. CASE k <= i
    <3>1. j \in 0 .. i /\ k \in j .. i /\ k \in 0 .. i
      BY <2>1
    <3>2. l[j][c] <= l[k][c]
      BY <3>1 DEF Levels
    <3> QED BY <1>3, <3>1, <3>2
  <2>2. CASE j <= i /\ k = i + 1
    <3>1. j \in 0 .. i /\ i \in j .. i
      BY <2>2
    <3>2. l[j][c] <= l[i][c]
      BY <3>1 DEF Levels
    <3>3. l[j] \in CountType
      BY <3>1 DEF Levels
    <3>4. l[j][c] \in Nat /\ l[i][c] \in Nat /\ next[c] \in Nat
      BY <1>1, <1>2, <3>3 DEF CountType
    <3>5. x[j] = l[j] /\ x[k] = next
      BY <1>3, <2>2, <3>1
    <3> QED BY <1>2, <3>2, <3>4, <3>5
  <2>3. CASE j = i + 1 /\ k = i + 1
    <3>1. x[j][c] \in Nat
      BY <1>2, <1>3, <2>3 DEF CountType
    <3> QED BY <2>3, <3>1
  <2> QED BY <2>1, <2>2, <2>3
<1> QED BY <1>3, <1>4, <1>5, <1>6, <1>7 DEF Levels, next

\* While i of the n keys are removed, what they had added is gone.
Draining(w, i, n) ==
  \E l : Levels(l, n) /\ \A c \in 0..M-1 : w[c] + l[i][c] = l[n][c]

LEMMA DrainTurn ==
  ASSUME NEW n \in Nat \ {0}, NEW i \in 0 .. n-1, NEW w \in CountType, Draining(w, i, n), <<"key", i>> \in Key
  PROVE  /\ CF!Contains(w, <<"key", i>>)
         /\ Draining(CF!Lowered(w, <<"key", i>>), i + 1, n)
<1> DEFINE key == <<"key", i>>
<1>1. PICK l : Levels(l, n) /\ \A c \in 0..M-1 : w[c] + l[i][c] = l[n][c]
  BY DEF Draining
<1>2. i \in 0 .. n /\ i + 1 \in 0 .. n /\ n \in i+1 .. n /\ n \in 0 .. n
  OBVIOUS
<1>3. ASSUME NEW c \in 0..M-1
      PROVE  /\ CF!Hits(key, K, c) \in Nat /\ w[c] \in Nat /\ l[i][c] \in Nat /\ l[n][c] \in Nat /\ l[i + 1][c] \in Nat
             /\ l[i + 1][c] = l[i][c] + CF!Hits(key, K, c) /\ w[c] >= CF!Hits(key, K, c)
  <2>1. CF!Hits(key, K, c) \in Nat
    BY HitCounts
  <2>2. l[i] \in CountType /\ l[i + 1] \in CountType /\ l[n] \in CountType
    BY <1>1, <1>2 DEF Levels
  <2>3. w[c] \in Nat /\ l[i][c] \in Nat /\ l[n][c] \in Nat /\ l[i + 1][c] \in Nat
    BY <2>2 DEF CountType
  <2>4. l[i + 1] = CF!Raised(l[i], key, K)
    BY <1>1 DEF Levels
  <2>5. l[i + 1][c] = l[i][c] + CF!Hits(key, K, c)
    BY <2>4 DEF CF!Raised, CF!Cell
  <2>6. l[i + 1][c] <= l[n][c]
    BY <1>1, <1>2 DEF Levels
  <2>7. w[c] + l[i][c] = l[n][c]
    BY <1>1
  <2> HIDE DEF key
  <2> QED BY <2>1, <2>3, <2>5, <2>6, <2>7
<1>4. CF!Contains(w, key)
  <2> SUFFICES ASSUME NEW p \in 0 .. K-1 PROVE w[Probe[key][p]] # 0
    BY DEF CF!Contains, CF!Probes
  <2> DEFINE c == Probe[key][p]
             H == {q \in 0 .. K-1 : Probe[key][q] = c}
  <2>1. c \in 0..M-1
    BY BenchAssumption
  <2>2. IsFiniteSet(H)
    <3>1. IsFiniteSet(0 .. K-1) /\ H \subseteq 0 .. K-1
      BY BenchAssumption, FS_Interval
    <3> HIDE DEF H
    <3> QED BY <3>1, FS_Subset
  <2>3. p \in H
    OBVIOUS
  <2>4. CF!Hits(key, K, c) = Cardinality(H)
    BY DEF CF!Hits, Cardinality, CF!Cardinality
  <2> HIDE DEF H, key, c
  <2>5. Cardinality(H) # 0
    BY <2>2, <2>3, FS_EmptySet
  <2>6. w[c] # 0
    BY <1>3, <2>1, <2>4, <2>5
  <2> QED BY <2>6 DEF c
<1>5. \A c \in 0..M-1 : CF!Lowered(w, key)[c] + l[i + 1][c] = l[n][c]
  <2> SUFFICES ASSUME NEW c \in 0..M-1 PROVE CF!Lowered(w, key)[c] + l[i + 1][c] = l[n][c]
    OBVIOUS
  <2>1. CF!Lowered(w, key)[c] = IF w[c] > CF!Hits(key, K, c) THEN w[c] - CF!Hits(key, K, c) ELSE 0
    BY DEF CF!Lowered, CF!Cell
  <2>2. w[c] + l[i][c] = l[n][c]
    BY <1>1
  <2> HIDE DEF key
  <2> QED BY <1>3, <2>1, <2>2
<1> QED BY <1>1, <1>4, <1>5 DEF Draining

\* What RemovalDrains says of one row.
DrainedRow(row) == row.scenario = "remove" => row.detail = NoCounts

RemoveInv ==
  /\ bpc = "fill" => \E l : Levels(l, index) /\ work = l[index]
  /\ bpc = "drain" => Draining(work, index, cfg.capacity)
  /\ \A i \in 1 .. Len(rows) : DrainedRow(rows[i])

\* Every remove row, whatever the capacity, the filter's size, its hasher and the
\* width of its counters.
THEOREM RemovalLeavesNothing == BenchSpec => []RemovalDrains
<1>1. BenchInit => RemoveInv
  BY DEF BenchInit, BenchStart, RemoveInv
<1>2. BenchTypeInv /\ RemoveInv /\ [BenchNext]_benchVars => RemoveInv'
  <2> SUFFICES ASSUME BenchTypeInv, RemoveInv, [BenchNext]_benchVars PROVE RemoveInv'
    OBVIOUS
  <2>types. /\ cfg.capacity \in Nat \ {0} /\ rows \in Seq(RowType) /\ index \in Nat
    BY DEF BenchTypeInv, FlagType
  <2>1. CASE UNCHANGED benchVars
    BY <2>1 DEF benchVars, RemoveInv
  <2>2. CASE BenchNext
    <3>key. ASSUME bpc \in {"fill", "drain"}, index < cfg.capacity
            PROVE  /\ index \in 0 .. cfg.capacity-1 /\ indexed = <<"key", index>> /\ indexed \in Key
                   /\ work \in CountType
      <4>1. sweep = "none" /\ cfg.sweeps = {} /\ work \in CountType
        BY <3>key DEF BenchTypeInv, Loops
      <4>2. index \in 0 .. cfg.capacity-1 /\ index + 1 \in 1 .. cfg.capacity /\ (index + 1) - 1 = index
        BY <2>types, <3>key
      <4>3. indexed = <<"key", index>>
        BY <4>2 DEF indexed, makeKeys
      <4> QED BY <4>1, <4>2, <4>3 DEF BenchTypeInv
    <3>1. ASSUME bpc' = "fill" PROVE \E l : Levels(l, index') /\ work' = l[index']
      <4>1. CASE RemoveStart
        <5> DEFINE l == [j \in 0 .. 0 |-> NoCounts]
        <5>1. work' = NoCounts /\ index' = 0
          BY <4>1 DEF RemoveStart, Enter
        <5>2. NoCounts \in CountType /\ \A c \in 0..M-1 : NoCounts[c] <= NoCounts[c]
          BY DEF NoCounts, CountType
        <5>3. 0 .. 0 = {0} /\ 0 .. 0-1 = {}
          OBVIOUS
        <5>4. l[0] = NoCounts /\ l \in [0 .. 0 -> CountType]
          BY <5>2
        <5> HIDE DEF l
        <5>5. Levels(l, 0)
          BY <5>2, <5>3, <5>4 DEF Levels
        <5> QED BY <5>1, <5>4, <5>5
      <4>2. CASE Fill
        <5>1. /\ bpc = "fill" /\ index < cfg.capacity /\ index' = index + 1
              /\ work' = CF!Raised(work, indexed, K)
          BY <4>2 DEF Fill, Turning, Turn
        <5>2. PICK l : Levels(l, index) /\ work = l[index]
          BY <5>1 DEF RemoveInv
        <5>3. \E x : Levels(x, index + 1) /\ x[index + 1] = CF!Raised(l[index], <<"key", index>>, K)
          BY <2>types, <5>2, LevelAdded
        <5>4. indexed = <<"key", index>>
          BY <3>key, <5>1
        <5> QED BY <5>1, <5>2, <5>3, <5>4
      <4> QED BY <2>2, <3>1, <4>1, <4>2, LoopSteps
    <3>2. ASSUME bpc' = "drain" PROVE Draining(work', index', cfg'.capacity)
      <4>1. CASE Filled
        <5>1. bpc = "fill" /\ index = cfg.capacity /\ work' = work /\ index' = 0 /\ cfg' = cfg
          BY <4>1 DEF Filled, Through, Enter
        <5>2. PICK l : Levels(l, cfg.capacity) /\ work = l[cfg.capacity]
          BY <5>1 DEF RemoveInv
        <5>3. \A c \in 0..M-1 : work[c] + l[0][c] = l[cfg.capacity][c]
          <6>1. work \in CountType
            BY <5>1 DEF BenchTypeInv
          <6>2. \A c \in 0..M-1 : l[0][c] = 0
            BY <5>2 DEF Levels, NoCounts
          <6>3. work = l[cfg.capacity]
            BY <5>2
          <6>4. \A c \in 0..M-1 : work[c] \in Nat
            BY <6>1 DEF CountType
          <6> QED BY <6>2, <6>3, <6>4
        <5> QED BY <5>1, <5>2, <5>3 DEF Draining
      <4>2. CASE Drain
        <5>1. /\ bpc = "drain" /\ index < cfg.capacity /\ index' = index + 1 /\ cfg' = cfg
              /\ work' = IF CF!Contains(work, indexed) THEN CF!Lowered(work, indexed) ELSE work
          BY <4>2 DEF Drain, Turning, Turn
        <5>2. Draining(work, index, cfg.capacity)
          BY <5>1 DEF RemoveInv
        <5>3. /\ CF!Contains(work, <<"key", index>>)
              /\ Draining(CF!Lowered(work, <<"key", index>>), index + 1, cfg.capacity)
          BY <2>types, <3>key, <5>1, <5>2, DrainTurn
        <5>4. indexed = <<"key", index>>
          BY <3>key, <5>1
        <5> QED BY <5>1, <5>3, <5>4
      <4> QED BY <2>2, <3>2, <4>1, <4>2, LoopSteps
    <3>3. ASSUME NEW row \in RowType, Compared(row), DrainedRow(row)
          PROVE  \A i \in 1 .. Len(rows') : DrainedRow(rows'[i])
      <4>1. /\ Len(rows') = Len(rows) + 1 /\ Len(rows) \in Nat
            /\ \A i \in 1 .. Len(rows) : rows'[i] = rows[i]
            /\ rows'[Len(rows) + 1] = row
        BY <2>types, <3>3, RowAdded DEF Compared
      <4>2. \A i \in 1 .. Len(rows) : DrainedRow(rows[i])
        BY DEF RemoveInv
      <4>3. ASSUME NEW i \in 1 .. Len(rows) + 1 PROVE DrainedRow(rows'[i])
        BY <3>3, <4>1, <4>2, <4>3
      <4> QED BY <4>1, <4>3
    <3>4. \A i \in 1 .. Len(rows') : DrainedRow(rows'[i])
      <4>1. CASE rows' = rows
        BY <4>1 DEF RemoveInv
      <4>2. CASE rows' = <<>>
        BY <4>2
      <4>3. ASSUME NEW row, Compared(row), row \in RowType, row.scenario \in {"add", "contains_hit", "contains_miss"}
            PROVE  \A i \in 1 .. Len(rows') : DrainedRow(rows'[i])
        <5>1. DrainedRow(row)
          BY <4>3 DEF DrainedRow
        <5> QED BY <3>3, <4>3, <5>1
      <4>4. CASE MixRow
        <5>1. DrainedRow(compareContainsMixed(hitRatio, work.keys))
          BY DEF DrainedRow, compareContainsMixed, Row
        <5> QED BY <3>3, <4>4, <5>1, LoopRows DEF MixRow
      <4>5. CASE StreamRow
        <5>1. DrainedRow(compareMixedStream)
          BY DEF DrainedRow, compareMixedStream, Row
        <5> QED BY <3>3, <4>5, <5>1, LoopRows DEF StreamRow
      <4>6. CASE RemoveRow
        <5>1. bpc = "drain" /\ index = cfg.capacity
          BY <4>6 DEF RemoveRow, Through
        <5>2. work \in CountType /\ Draining(work, cfg.capacity, cfg.capacity)
          BY <5>1 DEF RemoveInv, BenchTypeInv
        <5>3. PICK l : Levels(l, cfg.capacity) /\ \A c \in 0..M-1 : work[c] + l[cfg.capacity][c] = l[cfg.capacity][c]
          BY <5>2 DEF Draining
        <5>4. cfg.capacity \in 0 .. cfg.capacity
          BY <2>types
        <5>5. l[cfg.capacity] \in CountType
          BY <5>3, <5>4 DEF Levels
        <5>6. \A c \in 0..M-1 : work[c] = 0
          <6> SUFFICES ASSUME NEW c \in 0..M-1 PROVE work[c] = 0
            OBVIOUS
          <6>1. work[c] \in Nat /\ l[cfg.capacity][c] \in Nat
            BY <5>2, <5>5 DEF CountType
          <6>2. work[c] + l[cfg.capacity][c] = l[cfg.capacity][c]
            BY <5>3
          <6> QED BY <6>1, <6>2
        <5>7. work = NoCounts
          BY <5>2, <5>6 DEF CountType, NoCounts
        <5>8. DrainedRow(compareRemove)
          BY <5>7 DEF DrainedRow, compareRemove, Row
        <5> QED BY <3>3, <4>6, <5>8, LoopRows DEF RemoveRow
      <4> QED BY <2>2, <4>1, <4>2, <4>3, <4>4, <4>5, <4>6, RowSteps
    <3> QED BY <3>1, <3>2, <3>4 DEF RemoveInv
  <2> QED BY <2>1, <2>2
<1>3. BenchTypeInv /\ RemoveInv => RemovalDrains
  <2> SUFFICES ASSUME BenchTypeInv, RemoveInv PROVE RemovalDrains
    OBVIOUS
  <2>1. DOMAIN rows = 1 .. Len(rows)
    BY DEF BenchTypeInv
  <2> QED BY <2>1 DEF RemoveInv, RemovalDrains, DrainedRow
<1> QED BY <1>1, <1>2, <1>3, BenchTypes, PTL DEF BenchSpec

-----------------------------------------------------------------------------
(* The benchmark: what ends it, and what its times are divided by.         *)

\* A longer number has as many digits, or more.
LEMMA DigitsGrow ==
  ASSUME NEW i \in Int, NEW j \in Int, i <= j
  PROVE  digits(i) \in Nat /\ digits(i) <= digits(j)
<1> DEFINE S == {t \in Tens : t <= i}
           T == {t \in Tens : t <= j}
<1>1. IsFiniteSet(T) /\ T \subseteq Tens
  <2>1. IsFiniteSet(Tens) /\ T \subseteq Tens
    BY BenchAssumption
  <2> HIDE DEF T
  <2> QED BY <2>1, FS_Subset
<1>2. S \subseteq T
  <2>1. \A t \in Tens : t \in Nat
    BY BenchAssumption
  <2> QED BY <2>1
<1>3. digits(i) = 1 + Cardinality(S) /\ digits(j) = 1 + Cardinality(T)
  BY DEF digits
<1> HIDE DEF S, T
<1>4. IsFiniteSet(S) /\ Cardinality(S) <= Cardinality(T)
  BY <1>1, <1>2, FS_Subset
<1>5. Cardinality(S) \in Nat /\ Cardinality(T) \in Nat
  BY <1>1, <1>4, FS_CardinalityType
<1> QED BY <1>3, <1>4, <1>5

\* What CompareKeyLengthSweep lets through is long enough for every key.
LEMMA LongEnough ==
  ASSUME NEW n \in Nat \ {0}, NEW keyLen \in Int, keyLen >= minKeyLen(n)
  PROVE  KeysFit(n, keyLen)
<1> SUFFICES ASSUME NEW i \in 0 .. n-1 PROVE 4 + digits(i) <= keyLen
  BY DEF KeysFit
<1>1. digits(i) \in Nat /\ digits(n - 1) \in Nat /\ digits(i) <= digits(n - 1)
  BY DigitsGrow
<1> QED BY <1>1 DEF minKeyLen

\* The check that closes makeMixedLookupKeys never fails.
LEMMA CountsAgree ==
  ASSUME NEW n \in Nat \ {0}, NEW h \in 0 .. n, NEW w, Lookups(w, n, n, h)
  PROVE  MixedCountsAgree(w, n, h) /\ Len(w.keys) = n
BY QuotaEnds DEF Lookups, MixedCountsAgree

\* What PanicsOnlyAtOneOrNaN says of one row.
Timed(row) == row.ops > 0 \/ (sweep = "mix" /\ cfg.repeats <= 0)

\* The ways to panic that PanicsOnlyAtOneOrNaN names.
AskedForPanic ==
  \/ sweep = "none" /\ cfg.capacity = 1
  \/ NaN \in AskedRatios /\ cfg.nanCount < 0
  \/ NaN \in AskedRates /\ ~cfg.explicit /\ ~cfg.nanFits

\* Compare has raised the lookup count before it makes a row.
PanicInv ==
  /\ bpc = "parse" => sweep # "none"
  /\ sweep = "none" /\ bpc \in {"run"} \cup Loops => cfg.repeats > 0
  /\ bpc = "panicked" => AskedForPanic
  /\ \A i \in 1 .. Len(rows) : Timed(rows[i])

\* A value of the list that is being measured.
LEMMA ListedValue ==
  ASSUME BenchTypeInv, Len(rows) < Len(values)
  PROVE  value \in Int /\ value \in ToSet(values)
<1>1. Len(rows) \in Nat /\ values \in Seq(Int) /\ Len(rows) + 1 \in 1 .. Len(values)
  BY DEF BenchTypeInv
<1> QED BY <1>1 DEF value, ToSet

\* Why each of the panics comes.
LEMMA PanicsAsked ==
  ASSUME BenchTypeInv, MixInv, Panics
  PROVE  AskedForPanic
<1>types. /\ cfg.capacity \in Nat \ {0} /\ cfg.nanCount \in Int /\ cfg.rate \in 1..3 \cup {NaN} /\ index \in Nat
  BY DEF BenchTypeInv, FlagType
<1>1. CASE Scenario(5) /\ cfg.capacity = 1
  BY <1>1 DEF Scenario, AskedForPanic
<1>2. CASE Through("mix") /\ ~MixedCountsAgree(work, cfg.capacity, hitCount)
  <2>1. /\ bpc = "mix" /\ index = cfg.capacity /\ RatioAccepted(hitRatio)
        /\ sweep = "none" \/ (sweep = "mix" /\ Len(rows) < Len(values))
    BY <1>2 DEF Through, BenchTypeInv
  <2>2. CASE hitCount >= 0
    <3>1. Lookups(work, cfg.capacity, cfg.capacity, hitCount) /\ hitCount \in 0 .. cfg.capacity
      BY <1>types, <2>1, <2>2, HitCountInRange DEF MixInv, hitCount
    <3> QED BY <1>types, <1>2, <3>1, CountsAgree
  <2>3. CASE ~(hitCount >= 0)
    <3>1. hitRatio = NaN /\ cfg.nanCount < 0
      BY <1>types, <2>1, <2>3, HitCountInRange DEF hitCount
    <3>2. NaN \in AskedRatios
      BY <2>1, <3>1, ListedValue DEF AskedRatios, hitRatio
    <3> QED BY <3>1, <3>2 DEF AskedForPanic
  <2> QED BY <2>2, <2>3
<1>3. CASE Sweeping("keylen") /\ value >= minKeyLen(cfg.capacity) /\ ~KeysFit(cfg.capacity, value)
  <2>1. value \in Int
    BY <1>3, ListedValue DEF Sweeping
  <2> QED BY <1>types, <1>3, <2>1, LongEnough
<1>4. CASE ~Sizable(cfg)
  BY <1>4 DEF Sizable, AskedRates, AskedForPanic
<1>5. CASE Sweeping("fpr") /\ ~Sizable(WithFalsePositiveRate(value))
  <2>1. ~cfg.explicit /\ value = NaN /\ ~cfg.nanFits
    BY <1>5 DEF BenchTypeInv, FlagType, Sizable, WithFalsePositiveRate
  <2>2. NaN \in AskedRates
    BY <1>5, <2>1, ListedValue DEF Sweeping, AskedRates
  <2> QED BY <2>1, <2>2 DEF AskedForPanic
<1> QED BY <1>1, <1>2, <1>3, <1>4, <1>5 DEF Panics, Sweeping

\* Neither a generator's panic nor a division by zero, for every capacity, ratio,
\* rate, list of values and lookup count, NaN among them, but those that
\* PanicsOnlyAtOneOrNaN names.
THEOREM PanicOnlyAtOneKeyOrNaN == BenchSpec => []PanicsOnlyAtOneOrNaN
<1>1. BenchInit => PanicInv
  BY DEF BenchInit, BenchStart, PanicInv, Loops
<1>2. BenchTypeInv /\ MixInv /\ PanicInv /\ [BenchNext]_benchVars => PanicInv'
  <2> SUFFICES ASSUME BenchTypeInv, MixInv, PanicInv, [BenchNext]_benchVars PROVE PanicInv'
    OBVIOUS
  <2>types. /\ cfg.capacity \in Nat \ {0} /\ cfg.repeats \in Int /\ rows \in Seq(RowType)
            /\ values \in Seq(Int) /\ index \in Nat /\ Len(rows) \in Nat
    BY DEF BenchTypeInv, FlagType
  <2>stop. ASSUME NEW out, Stop(out), out \in {"failed", "panicked"},
                  out = "panicked" => AskedForPanic
           PROVE  PanicInv'
    BY <2>stop DEF Stop, PanicInv, Loops, AskedForPanic, AskedRatios, AskedRates
  <2>row. ASSUME NEW row \in RowType, Compared(row), Timed(row), bpc \in {"run"} \cup Loops
          PROVE  PanicInv'
    <3>1. /\ Len(rows') = Len(rows) + 1 /\ rows'[Len(rows) + 1] = row
          /\ \A i \in 1 .. Len(rows) : rows'[i] = rows[i]
      BY <2>row, <2>types, RowAdded DEF Compared
    <3>2. cfg' = cfg /\ sweep' = sweep /\ bpc' = "run"
      BY <2>row DEF Compared
    <3>3. ASSUME NEW i \in 1 .. Len(rows') PROVE Timed(rows'[i])
      <4>1. i \in 1 .. Len(rows) \/ i = Len(rows) + 1
        BY <2>types, <3>1
      <4>2. \A j \in 1 .. Len(rows) : Timed(rows[j])
        BY DEF PanicInv
      <4> QED BY <2>row, <3>1, <4>1, <4>2
    <3>4. \A i \in 1 .. Len(rows') : rows'[i].ops > 0 \/ (sweep' = "mix" /\ cfg'.repeats <= 0)
      BY <3>2, <3>3 DEF Timed
    <3>5. sweep = "none" => cfg.repeats > 0
      BY <2>row DEF PanicInv
    <3>6. sweep' = "none" => cfg'.repeats > 0
      BY <3>2, <3>5
    <3>7. bpc' # "parse" /\ bpc' # "panicked"
      BY <3>2
    <3> QED BY <3>4, <3>6, <3>7 DEF PanicInv, Timed
  <2>same. ASSUME cfg' = cfg, sweep' = sweep, rows' = rows,
                  bpc # "panicked",
                  \/ bpc' = bpc
                  \/ bpc' \in {"run", "done"} \cup Loops /\ (sweep = "none" => bpc \in {"run"} \cup Loops)
           PROVE  PanicInv'
    <3>1. \A i \in 1 .. Len(rows') : rows'[i].ops > 0 \/ (sweep' = "mix" /\ cfg'.repeats <= 0)
      BY <2>same DEF PanicInv, Timed
    <3>2. bpc' # bpc => bpc' \notin {"panicked", "parse"}
      BY <2>same DEF Loops
    <3>3. /\ bpc' = "parse" => sweep' # "none"
          /\ sweep' = "none" /\ bpc' \in {"run"} \cup Loops => cfg'.repeats > 0
          /\ bpc' # "panicked"
      BY <2>same, <3>2 DEF PanicInv
    <3> QED BY <3>1, <3>3 DEF PanicInv, Timed
  <2>1. CASE FlagsFail \/ ParseFails \/ RatioRefused \/ FillOverflows \/ ValueRefused
    BY <2>1, <2>stop DEF FlagsFail, ParseFails, RatioRefused, FillOverflows, ValueRefused, Loops
  <2>2. CASE Panic
    BY <2>2, <2>stop, PanicsAsked DEF Panic
  <2>3. CASE StartSweep
    <3>1. sweep' # "none" /\ rows' = <<>> /\ bpc' = "parse"
      <4>1. firstSweep # "none" /\ rows = <<>>
        BY <2>3, FirstSweepIsSweep DEF StartSweep, BenchTypeInv, FlagType
      <4> QED BY <2>3, <4>1 DEF StartSweep
    <3> QED BY <3>1 DEF PanicInv, Loops
  <2>4. CASE StartCompare
    <3>1. /\ cfg'.repeats = IF cfg.repeats <= 0 THEN 1 ELSE cfg.repeats
          /\ rows' = <<>> /\ bpc' = "run"
      BY <2>4 DEF StartCompare, BenchTypeInv, FlagType
    <3> QED BY <2>types, <3>1 DEF PanicInv, Loops
  <2>5. CASE ParseBlank \/ ParseValue
    <3>1. bpc = "parse"
      BY <2>5 DEF ParseBlank, ParseValue, Parsing
    <3> QED BY <2>5, <2>same, <3>1 DEF ParseBlank, ParseValue
  <2>6. CASE Parsed
    <3>1. sweep # "none"
      BY <2>6 DEF Parsed, PanicInv
    <3> QED BY <2>6, <3>1, <2>same DEF Parsed
  <2>7. CASE AddRow \/ HashRow \/ KeyLengthRow \/ FPRRow \/ SizeRow \/ HitRow \/ MissRow
    <3>1. PICK row : Compared(row) /\ row \in RowType /\ MadeAs(row)
      BY <2>7, PlainRows
    <3>2. bpc = "run"
      BY <2>7 DEF AddRow, HashRow, KeyLengthRow, FPRRow, SizeRow, HitRow, MissRow, Scenario, Sweeping
    <3>3. Timed(row)
      <4>1. row.n \in Nat \ {0}
        BY <3>1 DEF RowType
      <4>2. sweep = "none" => row.n * cfg.repeats > 0
        BY <2>types, <3>2, <4>1 DEF PanicInv
      <4> QED BY <3>1, <4>1, <4>2 DEF MadeAs, Timed
    <3> QED BY <2>row, <3>1, <3>2, <3>3
  <2>8. CASE StreamRow \/ RemoveRow
    <3>1. Timed(compareMixedStream) /\ Timed(compareRemove)
      BY <2>types DEF Timed, compareMixedStream, compareRemove, Row
    <3>2. bpc \in Loops
      BY <2>8 DEF StreamRow, RemoveRow, Through, Loops
    <3> QED BY <2>8, <2>row, <3>1, <3>2, LoopRows DEF StreamRow, RemoveRow
  <2>9. CASE MixRow
    <3> DEFINE row == compareContainsMixed(hitRatio, work.keys)
    <3>1. bpc = "mix" /\ index = cfg.capacity
      BY <2>9 DEF MixRow, Through
    <3>2. RatioAccepted(hitRatio) /\ hitCount \in Nat /\ cfg.nanCount \in Int
      BY <2>9, <3>1 DEF MixRow, MixedCountsAgree, BenchTypeInv, LookupType, FlagType
    <3>3. hitCount \in 0 .. cfg.capacity /\ Lookups(work, cfg.capacity, cfg.capacity, hitCount)
      BY <2>types, <3>1, <3>2, HitCountInRange DEF hitCount, MixInv
    <3>4. row.ops = cfg.capacity * cfg.repeats
      BY <2>types, <3>2, <3>3, CountsAgree DEF compareContainsMixed, Row
    <3>5. sweep = "none" \/ sweep = "mix"
      BY <3>1 DEF BenchTypeInv
    <3>6. cfg.repeats > 0 \/ sweep = "mix"
      BY <3>1, <3>5 DEF PanicInv, Loops
    <3>7. cfg.repeats > 0 => cfg.capacity * cfg.repeats > 0
      BY <2>types
    <3>8. Timed(row)
      <4> HIDE DEF row
      <4> QED BY <2>types, <3>4, <3>6, <3>7 DEF Timed
    <3>9. row \in RowType /\ Compared(row)
      BY <2>9, LoopRows DEF MixRow
    <3> HIDE DEF row
    <3> QED BY <2>row, <3>1, <3>8, <3>9 DEF Loops
  <2>10. CASE StreamStart \/ StreamHash \/ RemoveStart \/ Filled \/ MixStart
    <3>1. bpc \in {"run"} \cup Loops
      BY <2>10 DEF StreamStart, StreamHash, RemoveStart, Filled, MixStart, Scenario, Sweeping, Through, Loops
    <3>2. cfg' = cfg /\ sweep' = sweep /\ rows' = rows /\ bpc' \in {"run", "done"} \cup Loops
      BY <2>10 DEF StreamStart, StreamHash, RemoveStart, Filled, MixStart, Enter, Loops
    <3>3. bpc # "panicked"
      BY <3>1 DEF Loops
    <3> QED BY <2>same, <3>1, <3>2, <3>3
  <2>11. CASE StreamBloom \/ StreamSet \/ Fill \/ Drain \/ MixKey
    <3>1. bpc # "panicked"
      BY <2>11 DEF StreamBloom, StreamSet, Fill, Drain, MixKey, Turning
    <3> QED BY <2>11, <2>same, <3>1 DEF StreamBloom, StreamSet, Fill, Drain, MixKey, Turn
  <2>12. CASE Report
    BY <2>12, <2>same DEF Report
  <2>13. CASE Ended \/ UNCHANGED benchVars
    BY <2>13 DEF Ended, benchVars, PanicInv, Timed, AskedForPanic, AskedRatios, AskedRates
  <2> QED
    BY <2>1, <2>2, <2>3, <2>4, <2>5, <2>6, <2>7, <2>8, <2>9, <2>10, <2>11, <2>12, <2>13 DEF BenchNext
<1>3. BenchTypeInv /\ PanicInv => PanicsOnlyAtOneOrNaN
  <2> SUFFICES ASSUME BenchTypeInv, PanicInv PROVE PanicsOnlyAtOneOrNaN
    OBVIOUS
  <2>1. DOMAIN rows = 1 .. Len(rows)
    BY DEF BenchTypeInv
  <2> QED BY <2>1 DEF PanicInv, PanicsOnlyAtOneOrNaN, Timed, AskedForPanic
<1> QED BY <1>1, <1>2, <1>3, BenchTypes, MixInvariant, PTL DEF BenchSpec

-----------------------------------------------------------------------------
(* The benchmark: the rows of a sweep.                                     *)

\* The numbers vs are, in their order, those of the first k parts that are not blank.
Placed(place, vs, parts, k) ==
  /\ place \in [1 .. Len(vs) -> 1 .. k]
  /\ \A i, j \in 1 .. Len(vs) : i < j => place[i] < place[j]
  /\ {place[i] : i \in 1 .. Len(vs)} = {p \in 1 .. k : parts[p] # Blank}
  /\ \A i \in 1 .. Len(vs) : vs[i] = parts[place[i]]

LEMMA NothingPlaced ==
  ASSUME NEW parts
  PROVE  \E place : Placed(place, <<>>, parts, 0)
<1> DEFINE place == [i \in 1 .. 0 |-> 0]
<1>1. Len(<<>>) = 0 /\ 1 .. 0 = {}
  OBVIOUS
<1>2. Placed(place, <<>>, parts, 0)
  BY <1>1 DEF Placed
<1> QED BY <1>2

LEMMA BlankPlaced ==
  ASSUME NEW place, NEW vs \in Seq(Int), NEW parts, NEW k \in Nat, Placed(place, vs, parts, k),
         parts[k + 1] = Blank
  PROVE  Placed(place, vs, parts, k + 1)
<1>1. 1 .. k+1 = 1 .. k \cup {k + 1}
  OBVIOUS
<1>2. {p \in 1 .. k+1 : parts[p] # Blank} = {p \in 1 .. k : parts[p] # Blank}
  BY <1>1
<1> QED BY <1>1, <1>2 DEF Placed

LEMMA NumberPlaced ==
  ASSUME NEW place, NEW vs \in Seq(Int), NEW parts, NEW k \in Nat, Placed(place, vs, parts, k),
         parts[k + 1] # Blank, parts[k + 1] \in Int
  PROVE  \E next : Placed(next, Append(vs, parts[k + 1]), parts, k + 1)
<1> DEFINE n == Len(vs)
           ws == Append(vs, parts[k + 1])
           next == [i \in 1 .. n+1 |-> IF i = n + 1 THEN k + 1 ELSE place[i]]
<1>1. n \in Nat /\ Len(ws) = n + 1 /\ ws[n + 1] = parts[k + 1] /\ \A i \in 1 .. n : ws[i] = vs[i]
  OBVIOUS
<1>2. 1 .. k+1 = 1 .. k \cup {k + 1} /\ 1 .. n+1 = 1 .. n \cup {n + 1}
  BY <1>1
<1>3. next[n + 1] = k + 1 /\ \A i \in 1 .. n : next[i] = place[i]
  BY <1>1
<1>4. \A i \in 1 .. n : place[i] \in 1 .. k
  BY DEF Placed
<1>5. next \in [1 .. n+1 -> 1 .. k+1]
  BY <1>1, <1>2, <1>4
<1> HIDE DEF n, ws, next
<1>6. ASSUME NEW i \in 1 .. n+1, NEW j \in 1 .. n+1, i < j PROVE next[i] < next[j]
  <2>1. i \in 1 .. n
    BY <1>1, <1>6
  <2>2. next[i] = place[i] /\ place[i] \in 1 .. k
    BY <1>3, <1>4, <2>1
  <2>3. CASE j = n + 1
    BY <1>3, <2>2, <2>3
  <2>4. CASE j \in 1 .. n
    <3>1. place[i] < place[j]
      BY <1>6, <2>1, <2>4 DEF Placed, n
    <3> QED BY <1>3, <2>2, <2>4, <3>1
  <2> QED BY <1>2, <2>3, <2>4
<1>7. {next[i] : i \in 1 .. n+1} = {p \in 1 .. k+1 : parts[p] # Blank}
  <2>1. {next[i] : i \in 1 .. n+1} = {place[i] : i \in 1 .. n} \cup {k + 1}
    BY <1>2, <1>3
  <2>2. {place[i] : i \in 1 .. n} = {p \in 1 .. k : parts[p] # Blank}
    BY DEF Placed, n
  <2> QED BY <1>2, <2>1, <2>2
<1>8. \A i \in 1 .. n+1 : ws[i] = parts[next[i]]
  BY <1>1, <1>2, <1>3 DEF Placed, n
<1>9. Placed(next, ws, parts, k + 1)
  BY <1>1, <1>5, <1>6, <1>7, <1>8 DEF Placed
<1> QED BY <1>9 DEF ws

\* What RowsMatchLabels says of one row.
Labelled(row) == LabelHolds(row) \/ (cfg.explicit /\ sweep \in {"size", "fpr"})

LabelInv ==
  /\ bpc = "flags" => index = 0
  /\ bpc = "parse" =>
       sweep # "none" /\ \E place : Placed(place, values, cfg.values, index)
  /\ bpc \in {"run", "done"} \cup Loops /\ sweep # "none" =>
       /\ \E place : Placed(place, values, cfg.values, Len(cfg.values))
       /\ Len(rows) <= Len(values)
       /\ \A i \in 1 .. Len(rows) : rows[i].label = values[i] /\ Labelled(rows[i])
  /\ bpc = "done" /\ sweep # "none" => Len(rows) = Len(values)

\* Every sweep over every list of values.
THEOREM RowsAreLabelled == BenchSpec => []RowsMatchLabels
<1>1. BenchInit => LabelInv
  BY DEF BenchInit, BenchStart, LabelInv, Loops
<1>2. BenchTypeInv /\ LabelInv /\ [BenchNext]_benchVars => LabelInv'
  <2> SUFFICES ASSUME BenchTypeInv, LabelInv, [BenchNext]_benchVars PROVE LabelInv'
    OBVIOUS
  <2>types. /\ rows \in Seq(RowType) /\ values \in Seq(Int) /\ index \in Nat
            /\ Len(rows) \in Nat /\ Len(values) \in Nat /\ cfg.values \in Seq(Int) /\ Len(cfg.values) \in Nat
    BY DEF BenchTypeInv, FlagType
  <2>stop. ASSUME NEW out \in {"failed", "panicked"}, Stop(out) PROVE LabelInv'
    BY <2>stop DEF Stop, LabelInv, Loops
  <2>none. ASSUME sweep' = "none", bpc' \notin {"flags", "parse"} PROVE LabelInv'
    BY <2>none DEF LabelInv
  <2>row. ASSUME NEW row \in RowType, Compared(row), bpc \in {"run"} \cup Loops,
                 sweep # "none" => Len(rows) < Len(values) /\ row.label = value /\ Labelled(row)
          PROVE  LabelInv'
    <3>1. /\ Len(rows') = Len(rows) + 1 /\ rows'[Len(rows) + 1] = row
          /\ \A i \in 1 .. Len(rows) : rows'[i] = rows[i]
      BY <2>row, <2>types, RowAdded DEF Compared
    <3>2. cfg' = cfg /\ sweep' = sweep /\ values' = values /\ bpc' = "run"
      BY <2>row DEF Compared
    <3>3. CASE sweep = "none"
      BY <2>none, <3>2, <3>3
    <3>4. CASE sweep # "none"
      <4>1. /\ \E place : Placed(place, values, cfg.values, Len(cfg.values))
            /\ \A i \in 1 .. Len(rows) : rows[i].label = values[i] /\ Labelled(rows[i])
        BY <2>row, <3>4 DEF LabelInv
      <4>2. ASSUME NEW i \in 1 .. Len(rows') PROVE rows'[i].label = values[i] /\ Labelled(rows'[i])
        <5>1. i \in 1 .. Len(rows) \/ i = Len(rows) + 1
          BY <2>types, <3>1
        <5>2. row.label = values[Len(rows) + 1] /\ Labelled(row)
          BY <2>row, <3>4 DEF value
        <5> QED BY <3>1, <4>1, <5>1, <5>2
      <4>3. \A i \in 1 .. Len(rows') :
              rows'[i].label = values'[i] /\ (LabelHolds(rows[i])' \/ (cfg'.explicit /\ sweep' \in {"size", "fpr"}))
        BY <3>2, <4>2 DEF Labelled, LabelHolds
      <4>4. Len(rows') <= Len(values')
        BY <2>row, <2>types, <3>1, <3>2, <3>4
      <4>5. \E place : Placed(place, values', cfg'.values, Len(cfg'.values))
        BY <3>2, <4>1
      <4>6. bpc' \notin {"flags", "parse", "done"}
        BY <3>2
      <4> QED BY <4>3, <4>4, <4>5, <4>6 DEF LabelInv, Labelled
    <3> QED BY <3>3, <3>4
  <2>same. ASSUME cfg' = cfg, sweep' = sweep, rows' = rows, values' = values,
                  bpc \in {"run"} \cup Loops, bpc' \in {"run"} \cup Loops
           PROVE  LabelInv'
    <3>1. bpc' \notin {"flags", "parse", "done"}
      BY <2>same DEF Loops
    <3> QED BY <2>same, <3>1 DEF LabelInv, Labelled, LabelHolds
  <2>1. CASE FlagsFail \/ ParseFails \/ RatioRefused \/ FillOverflows \/ ValueRefused
    BY <2>1, <2>stop DEF FlagsFail, ParseFails, RatioRefused, FillOverflows, ValueRefused
  <2>2. CASE Panic
    BY <2>2, <2>stop DEF Panic
  <2>3. CASE StartSweep
    <3>1. /\ sweep' # "none" /\ bpc' = "parse" /\ values' = <<>> /\ index' = 0
      <4>1. firstSweep # "none" /\ values = <<>> /\ index = 0
        BY <2>3, FirstSweepIsSweep DEF StartSweep, BenchTypeInv, FlagType, LabelInv
      <4> QED BY <2>3, <4>1 DEF StartSweep
    <3>2. \E place : Placed(place, values', cfg'.values, index')
      BY <3>1, NothingPlaced
    <3> QED BY <3>1, <3>2 DEF LabelInv, Loops
  <2>4. CASE ParseBlank \/ ParseValue
    <3>1. /\ bpc = "parse" /\ bpc' = "parse" /\ cfg' = cfg /\ sweep' = sweep /\ index' = index + 1
          /\ sweep # "none"
      BY <2>4 DEF ParseBlank, ParseValue, Parsing, LabelInv
    <3>2. PICK place : Placed(place, values, cfg.values, index)
      BY <3>1 DEF LabelInv
    <3>3. \E next : Placed(next, values', cfg.values, index + 1)
      <4>1. CASE ParseBlank
        <5>1. values' = values /\ cfg.values[index + 1] = Blank
          BY <4>1 DEF ParseBlank, part
        <5> QED BY <2>types, <3>2, <5>1, BlankPlaced
      <4>2. CASE ParseValue
        <5>1. /\ values' = Append(values, cfg.values[index + 1]) /\ cfg.values[index + 1] # Blank
              /\ index < Len(cfg.values)
          BY <4>2 DEF ParseValue, Parsing, part
        <5>2. cfg.values[index + 1] \in Int
          BY <2>types, <5>1
        <5> QED BY <2>types, <3>2, <5>1, <5>2, NumberPlaced
      <4> QED BY <2>4, <4>1, <4>2
    <3> QED BY <3>1, <3>3 DEF LabelInv, Loops
  <2>5. CASE Parsed
    <3>1. /\ bpc = "parse" /\ bpc' = "run" /\ cfg' = cfg /\ values' = values /\ rows' = <<>>
          /\ index = Len(cfg.values)
      BY <2>5 DEF Parsed, BenchTypeInv
    <3>2. \E place : Placed(place, values', cfg'.values, Len(cfg'.values))
      BY <3>1 DEF LabelInv
    <3>3. Len(rows') <= Len(values') /\ Len(rows') = 0 /\ 1 .. 0 = {}
      BY <2>types, <3>1
    <3> QED BY <3>1, <3>2, <3>3 DEF LabelInv
  <2>6. CASE StartCompare
    <3>1. sweep' = "none" /\ bpc' = "run"
      BY <2>6 DEF StartCompare, BenchTypeInv
    <3> QED BY <2>none, <3>1
  <2>7. CASE AddRow \/ HashRow \/ KeyLengthRow \/ FPRRow \/ SizeRow \/ HitRow \/ MissRow
    <3>1. PICK row : Compared(row) /\ row \in RowType /\ MadeAs(row)
      BY <2>7, PlainRows
    <3>2. bpc = "run"
      BY <2>7 DEF AddRow, HashRow, KeyLengthRow, FPRRow, SizeRow, HitRow, MissRow, Scenario, Sweeping
    <3>3. sweep # "none" => Len(rows) < Len(values) /\ row.label = value /\ Labelled(row)
      BY <3>1 DEF MadeAs, Labelled
    <3> QED BY <2>row, <3>1, <3>2, <3>3
  <2>8. CASE StreamRow \/ RemoveRow
    <3>1. sweep = "none" /\ bpc \in Loops
      BY <2>8 DEF StreamRow, RemoveRow, Through, BenchTypeInv, Loops
    <3> QED BY <2>8, <2>none, <3>1 DEF StreamRow, RemoveRow, Compared
  <2>9. CASE MixRow
    <3> DEFINE row == compareContainsMixed(hitRatio, work.keys)
    <3>1. bpc \in Loops /\ (sweep = "none" \/ (sweep = "mix" /\ Len(rows) < Len(values)))
      BY <2>9 DEF MixRow, Through, BenchTypeInv, Loops
    <3>2. row.label = hitRatio
      BY DEF compareContainsMixed, Row
    <3>3. row \in RowType /\ Compared(row)
      BY <2>9, LoopRows DEF MixRow
    <3> HIDE DEF row
    <3>4. sweep # "none" => Len(rows) < Len(values) /\ row.label = value /\ Labelled(row)
      BY <3>1, <3>2 DEF hitRatio, Labelled, LabelHolds
    <3> QED BY <2>row, <3>1, <3>3, <3>4
  <2>10. CASE StreamStart \/ StreamHash \/ RemoveStart \/ Filled \/ MixStart
    <3>1. bpc \in {"run"} \cup Loops
      BY <2>10 DEF StreamStart, StreamHash, RemoveStart, Filled, MixStart, Scenario, Sweeping, Through, Loops
    <3>2. cfg' = cfg /\ sweep' = sweep /\ rows' = rows /\ values' = values /\ bpc' \in {"run"} \cup Loops
      BY <2>10 DEF StreamStart, StreamHash, RemoveStart, Filled, MixStart, Enter, Loops
    <3> QED BY <2>same, <3>1, <3>2
  <2>11. CASE StreamBloom \/ StreamSet \/ Fill \/ Drain \/ MixKey
    <3>1. bpc \in Loops /\ bpc' = bpc
      BY <2>11 DEF StreamBloom, StreamSet, Fill, Drain, MixKey, Turning, Turn, Loops
    <3>2. cfg' = cfg /\ sweep' = sweep /\ rows' = rows /\ values' = values
      BY <2>11 DEF StreamBloom, StreamSet, Fill, Drain, MixKey, Turn
    <3> QED BY <2>same, <3>1, <3>2
  <2>12. CASE Report
    <3>1. /\ bpc = "run" /\ bpc' = "done" /\ cfg' = cfg /\ sweep' = sweep /\ values' = values /\ rows' = rows
          /\ sweep # "none" => Len(rows) = Len(values)
      BY <2>12 DEF Report
    <3> QED BY <3>1 DEF LabelInv, Labelled, LabelHolds
  <2>13. CASE Ended \/ UNCHANGED benchVars
    BY <2>13 DEF Ended, benchVars, LabelInv, Labelled, LabelHolds
  <2> QED
    BY <2>1, <2>2, <2>3, <2>4, <2>5, <2>6, <2>7, <2>8, <2>9, <2>10, <2>11, <2>12, <2>13 DEF BenchNext
<1>3. BenchTypeInv /\ LabelInv => RowsMatchLabels
  <2> SUFFICES ASSUME BenchTypeInv, LabelInv, bpc = "done", sweep # "none"
      PROVE /\ \E place \in [DOMAIN rows -> DOMAIN cfg.values] :
                 /\ \A i, j \in DOMAIN rows : i < j => place[i] < place[j]
                 /\ {place[i] : i \in DOMAIN rows} = {p \in DOMAIN cfg.values : cfg.values[p] # Blank}
                 /\ \A i \in DOMAIN rows : rows[i].label = cfg.values[place[i]]
            /\ \A i \in DOMAIN rows : LabelHolds(rows[i]) \/ (cfg.explicit /\ sweep \in {"size", "fpr"})
    BY DEF RowsMatchLabels
  <2>1. DOMAIN rows = 1 .. Len(rows) /\ DOMAIN cfg.values = 1 .. Len(cfg.values) /\ Len(rows) = Len(values)
    BY DEF BenchTypeInv, FlagType, LabelInv
  <2>2. \A i \in 1 .. Len(rows) : rows[i].label = values[i] /\ Labelled(rows[i])
    BY DEF LabelInv
  <2>3. PICK place : Placed(place, values, cfg.values, Len(cfg.values))
    BY DEF LabelInv
  <2>4. /\ place \in [DOMAIN rows -> DOMAIN cfg.values]
        /\ \A i, j \in DOMAIN rows : i < j => place[i] < place[j]
        /\ {place[i] : i \in DOMAIN rows} = {p \in DOMAIN cfg.values : cfg.values[p] # Blank}
        /\ \A i \in DOMAIN rows : rows[i].label = cfg.values[place[i]]
    BY <2>1, <2>2, <2>3 DEF Placed
  <2> QED BY <2>1, <2>2, <2>4 DEF Labelled
<1> QED BY <1>1, <1>2, <1>3, BenchTypes, PTL DEF BenchSpec
=============================================================================
