------------------------- MODULE DedupParityProofs -------------------------
(***************************************************************************)
(* Theorems about the classic filter, and about the two stream             *)
(* deduplicators side by side, for every m, k, hasher, counter limit, set  *)
(* of lines and series of failing writes.                                  *)
(*                                                                         *)
(* The filter: BitsAreProbed is inductive with the type invariant: a       *)
(* position is kept as a bit of a byte, and the two determine it           *)
(* (Position), so that an Add sets the positions its key probes and no     *)
(* other (SetBitsOfProbed).  The refinement of ApproxBag rests on the same *)
(* equality.                                                               *)
(*                                                                         *)
(* Side by side, neither property is inductive alone: that the verdicts    *)
(* agree rests on the occupied positions, and these stay the same only     *)
(* because the verdicts agree.  ParityInv joins the two, and adds where    *)
(* the runs stand once the counting filter has overflowed: one has failed  *)
(* and the other has not, so that neither takes a further line.            *)
(***************************************************************************)
EXTENDS DedupParity, TLAPS, FiniteSetTheorems

-----------------------------------------------------------------------------
(* The classic filter *)

\* The byte and the bit of a position exist, and no other position has both.
LEMMA Position ==
  ASSUME NEW p \in 0 .. M-1
  PROVE  /\ p \div 8 \in Byte /\ p % 8 \in 0 .. 7
         /\ \A q \in Int : q \div 8 = p \div 8 /\ q % 8 = p % 8 => q = p
<1>1. M \in Nat /\ p \in Nat /\ p <= M - 1
  BY FilterAssumption
<1>2. p \div 8 \in Nat /\ p \div 8 <= ((M + 7) \div 8) - 1
  BY <1>1
<1> QED
  BY <1>1, <1>2 DEF Byte

\* A probe is one of the m positions.
LEMMA ProbeInRange ==
  ASSUME NEW key \in Key, NEW i \in 0 .. K-1
  PROVE  Probe[key][i] \in 0 .. M-1
BY FilterAssumption

Probed(key) == {Probe[key][i] : i \in 0 .. K-1}

\* The positions that are 1 after an Add are those before it and the probed.
LEMMA SetBitsOfProbed ==
  ASSUME FilterTypeOK, NEW key \in Key, bits' = SetProbed(bits, key)
  PROVE  SetBits' = SetBits \cup Probed(key)
<1>1. ASSUME NEW p \in 0 .. M+7, p \div 8 \in Byte
      PROVE  (p % 8) \in bits'[p \div 8] <=> (p % 8) \in bits[p \div 8] \/ p \in Probed(key)
  <2> DEFINE new == {Probe[key][i] % 8 : i \in {j \in 0 .. K-1 : Probe[key][j] \div 8 = p \div 8}}
  <2>1. bits'[p \div 8] = bits[p \div 8] \cup new
    BY <1>1 DEF SetProbed
  <2>2. (p % 8) \in new <=> p \in Probed(key)
    <3>1. ASSUME (p % 8) \in new PROVE p \in Probed(key)
      <4>1. PICK i \in 0 .. K-1 : Probe[key][i] \div 8 = p \div 8 /\ Probe[key][i] % 8 = p % 8
        BY <3>1
      <4>2. p \in Int
        BY FilterAssumption
      <4>3. p = Probe[key][i]
        BY <4>1, <4>2, ProbeInRange, Position
      <4> QED BY <4>3 DEF Probed
    <3>2. ASSUME p \in Probed(key) PROVE (p % 8) \in new
      BY <3>2 DEF Probed
    <3> QED BY <3>1, <3>2
  <2> QED BY <2>1, <2>2
<1>2. ASSUME NEW p \in Probed(key) PROVE p \in 0 .. M+7 /\ p \div 8 \in Byte
  <2>1. p \in 0 .. M-1
    BY ProbeInRange DEF Probed
  <2> QED BY <2>1, Position, FilterAssumption
<1>3. SetBits = {p \in 0 .. M+7 : p \div 8 \in Byte /\ (p % 8) \in bits[p \div 8]}
  BY DEF SetBits
<1>4. SetBits' = {p \in 0 .. M+7 : p \div 8 \in Byte /\ (p % 8) \in bits'[p \div 8]}
  BY DEF SetBits, Byte
<1> HIDE DEF Probed
<1>5. ASSUME NEW p PROVE p \in SetBits' <=> p \in SetBits \cup Probed(key)
  BY <1>1, <1>2, <1>3, <1>4
<1> QED BY <1>5

\* A key is found when every position it probes is 1.
LEMMA HasAllProbed ==
  ASSUME NEW key \in Key
  PROVE  Has(bits, key) <=> Probed(key) \subseteq SetBits
<1>1. ASSUME NEW i \in 0 .. K-1
      PROVE  (Probe[key][i] % 8) \in bits[Probe[key][i] \div 8] <=> Probe[key][i] \in SetBits
  <2>1. Probe[key][i] \in 0 .. M-1
    BY ProbeInRange
  <2>2. Probe[key][i] \in 0 .. M+7 /\ Probe[key][i] \div 8 \in Byte
    BY <2>1, Position, FilterAssumption
  <2> QED BY <2>2 DEF SetBits
<1> QED BY <1>1 DEF Has, Probed

-----------------------------------------------------------------------------
\* What an Add leaves is again a filter.
LEMMA FilterTypeStep ==
  FilterTypeOK /\ [FilterNext]_filterVars => FilterTypeOK'
<1> SUFFICES ASSUME FilterTypeOK, [FilterNext]_filterVars PROVE FilterTypeOK'
  OBVIOUS
<1>1. ASSUME NEW key \in Key, FilterAdd(key) PROVE FilterTypeOK'
  <2>1. bits' \in [Byte -> SUBSET (0 .. 7)]
    <3>1. ASSUME NEW b \in Byte
          PROVE  bits[b] \cup {Probe[key][i] % 8 : i \in {j \in 0 .. K-1 : Probe[key][j] \div 8 = b}}
                   \in SUBSET (0 .. 7)
      <4>1. \A i \in 0 .. K-1 : Probe[key][i] % 8 \in 0 .. 7
        BY ProbeInRange, Position
      <4> QED BY <4>1 DEF FilterTypeOK
    <3> QED BY <1>1, <3>1 DEF FilterAdd, SetProbed
  <2>2. inserts' \in Nat /\ added' \in [Key -> Nat]
    BY <1>1 DEF FilterAdd, FilterTypeOK
  <2> QED BY <2>1, <2>2 DEF FilterTypeOK, Byte
<1>2. ASSUME NEW key \in Key, FilterContains(key) PROVE FilterTypeOK'
  BY <1>2 DEF FilterContains, FilterTypeOK, Byte
<1>3. CASE UNCHANGED filterVars
  BY <1>3 DEF filterVars, FilterTypeOK, Byte
<1> QED BY <1>1, <1>2, <1>3 DEF FilterNext

\* The keys added so far probe exactly the positions that are 1.
LEMMA BitsStep ==
  FilterTypeOK /\ BitsAreProbed /\ [FilterNext]_filterVars => BitsAreProbed'
<1> SUFFICES ASSUME FilterTypeOK, BitsAreProbed, [FilterNext]_filterVars PROVE BitsAreProbed'
  OBVIOUS
<1>1. ASSUME NEW key \in Key, FilterAdd(key) PROVE BitsAreProbed'
  <2>1. SetBits' = SetBits \cup Probed(key)
    BY <1>1, SetBitsOfProbed DEF FilterAdd
  <2>2. {k \in Key : added'[k] > 0} = {k \in Key : added[k] > 0} \cup {key}
    BY <1>1 DEF FilterAdd, FilterTypeOK
  <2> QED BY <2>1, <2>2 DEF BitsAreProbed, Probed
<1>2. ASSUME NEW key \in Key, FilterContains(key) PROVE BitsAreProbed'
  BY <1>2 DEF FilterContains, BitsAreProbed, SetBits, Byte
<1>3. CASE UNCHANGED filterVars
  BY <1>3 DEF filterVars, BitsAreProbed, SetBits, Byte
<1> QED BY <1>1, <1>2, <1>3 DEF FilterNext

FilterInv == FilterTypeOK /\ BitsAreProbed

\* A new filter has no bit that is 1.
LEMMA FilterStart == FilterInit => FilterInv
<1> SUFFICES ASSUME FilterInit PROVE FilterInv
  OBVIOUS
<1>1. FilterTypeOK
  BY DEF FilterInit, FilterTypeOK
<1>2. SetBits = {}
  BY DEF FilterInit, SetBits
<1>3. {k \in Key : added[k] > 0} = {}
  BY DEF FilterInit
<1> QED BY <1>1, <1>2, <1>3 DEF FilterInv, BitsAreProbed

\* For every m, k and hasher: the bits that are 1 are those the added keys
\* probe, so that none lies outside the m positions.
THEOREM BitsExact == FilterSpec => []BitsAreProbed
<1>1. FilterInv /\ [FilterNext]_filterVars => FilterInv'
  BY FilterTypeStep, BitsStep DEF FilterInv
<1>2. FilterInv => BitsAreProbed
  BY DEF FilterInv
<1> QED BY <1>1, <1>2, FilterStart, PTL DEF FilterSpec

\* For every m, k and hasher: a bit slice keeps the bytes it was made with.
THEOREM FilterTypeCorrect == FilterSpec => []FilterTypeOK
<1>1. FilterTypeOK /\ [FilterNext]_filterVars => FilterTypeOK'
  BY FilterTypeStep
<1>2. FilterInit => FilterTypeOK
  BY FilterStart DEF FilterInv
<1> QED BY <1>1, <1>2, PTL DEF FilterSpec

-----------------------------------------------------------------------------
\* The keys the filter answers for.
Found == {key \in Key : Has(bits, key)}

\* An Add admits its key and withdraws no other; a lookup answers as the bag.
LEMMA BagStep ==
  FilterInv /\ [FilterNext]_filterVars => [Promise!BagNext]_(Promise!bagVars)
<1> SUFFICES ASSUME FilterInv, [FilterNext]_filterVars
             PROVE  [Promise!BagNext]_(Promise!bagVars)
  OBVIOUS
<1>1. ASSUME NEW key \in Key, FilterAdd(key) PROVE Promise!Insert(key)
  <2>1. SetBits' = SetBits \cup Probed(key)
    BY <1>1, SetBitsOfProbed DEF FilterAdd, FilterInv
  <2>2. \A k \in Key : Has(bits, k) <=> Probed(k) \subseteq SetBits
    BY HasAllProbed
  <2>3. \A k \in Key : Has(bits', k) <=> Probed(k) \subseteq SetBits'
    <3>1. ASSUME NEW k \in Key, NEW i \in 0 .. K-1
          PROVE  (Probe[k][i] % 8) \in bits'[Probe[k][i] \div 8] <=> Probe[k][i] \in SetBits'
      <4>1. Probe[k][i] \in 0 .. M+7 /\ Probe[k][i] \div 8 \in Byte
        BY ProbeInRange, Position, FilterAssumption
      <4> QED BY <4>1 DEF SetBits, Byte
    <3> QED BY <3>1 DEF Has, Probed
  <2>4. Found \cup {key} \subseteq Found'
    <3>1. \A k \in Key : Has(bits, k) \/ k = key => Has(bits', k)
      BY <2>1, <2>2, <2>3
    <3> QED BY <3>1 DEF Found
  <2>5. Found' = {k \in Key : Has(bits', k)}
    BY DEF Found, Has
  <2> QED BY <1>1, <2>4, <2>5 DEF FilterAdd, Promise!Insert, Promise!Answer, Found
<1>2. ASSUME NEW key \in Key, FilterContains(key) PROVE Promise!Query(key)
  BY <1>2 DEF FilterContains, Promise!Query, Promise!Answer
<1>3. CASE UNCHANGED filterVars
  BY <1>3 DEF filterVars, Promise!bagVars
<1> QED BY <1>1, <1>2, <1>3 DEF FilterNext, Promise!BagNext

\* For every m, k and hasher the classic filter implements the bag it promises
\* to be: a key once admitted stays admitted, and every added key is.
THEOREM FilterIsABag == FilterSpec => FilterKeepsPromise
<1>1. FilterInit => Promise!BagInit
  <2>1. 0 \in 0 .. K-1
    BY FilterAssumption
  <2>2. ASSUME FilterInit, NEW key \in Key PROVE ~Has(bits, key)
    <3>1. Probe[key][0] \div 8 \in Byte
      BY <2>1, ProbeInRange, Position
    <3> QED BY <2>1, <2>2, <3>1 DEF FilterInit, Has
  <2> QED BY <2>2 DEF FilterInit, Promise!BagInit
<1>2. FilterInv /\ [FilterNext]_filterVars => FilterInv'
  BY FilterTypeStep, BitsStep DEF FilterInv
<1> QED
  BY <1>1, <1>2, BagStep, FilterStart, PTL DEF FilterSpec, FilterKeepsPromise, Promise!BagSpec

-----------------------------------------------------------------------------
(* The two deduplicators *)

Overflowed == last.out = "overflow"

\* What the invariant says of the two runs before an overflow.
InStep ==
  /\ cNovel = novel /\ cDup = dup /\ n = inserts
  /\ cPc = pc /\ cPending = pending /\ cPrinted = printed
  /\ cLost = lost /\ cLines = lines
  /\ Occupied = SetBits

ParityInv ==
  /\ FilterTypeOK /\ BitsAreProbed
  /\ cells \in [0 .. M-1 -> Nat]
  /\ ~Overflowed => InStep
  /\ Overflowed => Occupied \subseteq SetBits /\ cPc = "failed" /\ pc \in {"scan", "write"}

-----------------------------------------------------------------------------
\* A counter that one of the first j probes touches is hit, and no other is.
LEMMA HitIsProbed ==
  ASSUME NEW key \in Key, NEW j \in 0 .. K, NEW c
  PROVE  /\ Counting!Hits(key, j, c) \in Nat
         /\ Counting!Hits(key, j, c) # 0 <=> \E i \in 0 .. j-1 : Probe[key][i] = c
<1> DEFINE S == {i \in 0 .. j-1 : Probe[key][i] = c}
<1>1. j \in Nat
  BY FilterAssumption
<1>2. IsFiniteSet(S)
  <2>1. IsFiniteSet(0 .. j-1)
    BY <1>1, FS_Interval
  <2> QED BY <2>1, FS_Subset
<1>3. Cardinality(S) \in Nat /\ (Cardinality(S) = 0 <=> S = {})
  BY <1>2, FS_CardinalityType, FS_EmptySet
<1>4. Counting!Hits(key, j, c) = Cardinality(S)
  BY DEF Counting!Hits, Cardinality, Counting!Cardinality
<1>5. S = {} <=> ~\E i \in 0 .. j-1 : Probe[key][i] = c
  OBVIOUS
<1> HIDE DEF S
<1> QED BY <1>3, <1>4, <1>5

\* What j increments occupy: the positions occupied before, and those probed.
LEMMA OccupiedAfter ==
  ASSUME cells \in [0 .. M-1 -> Nat], NEW key \in Key, NEW j \in 0 .. K,
         cells' = Counting!Raised(cells, key, j)
  PROVE  /\ cells' \in [0 .. M-1 -> Nat]
         /\ Occupied' = Occupied \cup {Probe[key][i] : i \in 0 .. j-1}
<1>1. ASSUME NEW c \in 0 .. M-1
      PROVE  /\ cells'[c] \in Nat
             /\ cells'[c] # 0 <=> cells[c] # 0 \/ \E i \in 0 .. j-1 : Probe[key][i] = c
  <2>1. cells'[c] = cells[c] + Counting!Hits(key, j, c)
    BY DEF Counting!Raised, Counting!Cell
  <2> QED BY <2>1, HitIsProbed
<1>2. cells' \in [0 .. M-1 -> Nat]
  BY <1>1 DEF Counting!Raised, Counting!Cell
<1>3. \A i \in 0 .. j-1 : Probe[key][i] \in 0 .. M-1
  BY ProbeInRange, FilterAssumption
<1>4. Occupied' = {c \in 0 .. M-1 : cells'[c] # 0}
  BY DEF Occupied
<1> QED BY <1>1, <1>2, <1>3, <1>4 DEF Occupied

\* Where the occupied positions are the bits that are 1, both filters find the
\* same keys, false positives included.
LEMMA SameFound ==
  ASSUME Occupied = SetBits, NEW key \in Key
  PROVE  Has(bits, key) <=> Counting!Contains(cells, key)
<1>1. \A i \in 0 .. K-1 : cells[Probe[key][i]] # 0 <=> Probe[key][i] \in SetBits
  BY ProbeInRange DEF Occupied
<1> QED BY <1>1, HasAllProbed DEF Counting!Contains, Counting!Probes, Probed

\* While neither filter changes, what is occupied stays.
LEMMA FiltersRest ==
  ASSUME ParityInv, UNCHANGED <<bits, inserts, added, cells>>
  PROVE  /\ FilterTypeOK' /\ BitsAreProbed'
         /\ cells' \in [0 .. M-1 -> Nat]
         /\ SetBits' = SetBits /\ Occupied' = Occupied
<1>1. SetBits' = SetBits
  BY DEF SetBits, Byte
<1>2. Occupied' = Occupied
  BY DEF Occupied
<1>3. FilterTypeOK' /\ BitsAreProbed'
  BY <1>1 DEF ParityInv, FilterTypeOK, BitsAreProbed, Byte
<1> QED BY <1>1, <1>2, <1>3 DEF ParityInv

-----------------------------------------------------------------------------
\* Both take a line: they skip it, find it or insert it alike, unless the
\* counting filter overflows.
LEMMA ClassifyStep ==
  ASSUME ParityInv, NEW line \in Line, BothClassify(line)
  PROVE  ParityInv'
<1> DEFINE key == KeyOf[line]
<1>1. cPc = "scan" /\ pc = "scan"
  BY DEF BothClassify, JudgeDup, JudgeNew, Skip, Scan, Counting!ClassifyDup, Counting!ClassifyNew,
         Counting!ClassifyOverflow, Counting!SkipLine, Counting!Scan
<1>2. ~Overflowed /\ InStep
  BY <1>1 DEF ParityInv
<1>3. ~Counting!IsRemoval(line)
  BY DEF Counting!IsRemoval
<1>4. CASE key = NoKey
  <2>1. Skip(line) /\ Counting!SkipLine(line)
    BY <1>3, <1>4 DEF BothClassify, JudgeDup, JudgeNew, Counting!ClassifyDup,
       Counting!ClassifyNew, Counting!ClassifyOverflow
  <2>2. UNCHANGED <<bits, inserts, answer, added, novel, dup, cells, n, last, cNovel, cDup>>
    BY <2>1 DEF Skip, filterVars, Counting!SkipLine, Counting!vars
  <2>3. UNCHANGED <<pc, pending, printed, lost, cPc, cPending, cPrinted, cLost>>
        /\ lines' = lines + 1 /\ cLines' = cLines + 1
    BY <2>1 DEF Skip, Scan, PassOver, Counting!SkipLine, Counting!Scan, Counting!PassOver
  <2> QED
    BY <1>1, <1>2, <2>2, <2>3, FiltersRest DEF ParityInv, InStep, Overflowed
<1>5. CASE key # NoKey
  <2>1. key \in Key
    BY <1>5, KeyOfAssumption
  <2>2. Has(bits, key) <=> Counting!Contains(cells, key)
    BY <1>2, <2>1, SameFound DEF InStep
  <2>3. CASE Has(bits, key)
    <3>1. JudgeDup(line) /\ Counting!ClassifyDup(line)
      BY <1>3, <1>5, <2>2, <2>3 DEF BothClassify, JudgeNew, Skip, Counting!ClassifyNew,
         Counting!ClassifyOverflow, Counting!SkipLine
    <3>2. /\ UNCHANGED <<bits, inserts, added, novel, cells, n, cNovel>>
          /\ dup' = dup + 1 /\ cDup' = cDup + 1 /\ last'.out = "hit"
      BY <2>2, <2>3, <3>1 DEF JudgeDup, FilterContains, Counting!ClassifyDup, Counting!Lookup, Counting!Returns
    <3>3. /\ UNCHANGED <<opts, printed, lost, cPrinted, cLost>>
          /\ lines' = lines + 1 /\ cLines' = cLines + 1
          /\ pc' = cPc' /\ pending' = cPending'
      BY <3>1 DEF JudgeDup, Scan, Answer, Shown, skipClassifyOutput, Counting!ClassifyDup, Counting!Scan,
         Counting!Answer, Counting!Shown, Counting!skipClassifyOutput
    <3> QED
      BY <1>2, <3>2, <3>3, FiltersRest DEF ParityInv, InStep, Overflowed
  <2>4. CASE ~Has(bits, key)
    <3>1. JudgeNew(line)
      BY <1>5, <2>4 DEF BothClassify, JudgeDup, Skip
    <3>2. FilterTypeOK' /\ BitsAreProbed' /\ SetBits' = SetBits \cup Probed(key)
      <4>1. FilterAdd(key)
        BY <3>1 DEF JudgeNew
      <4>2. FilterNext
        BY <2>1, <4>1 DEF FilterNext
      <4> QED
        BY <2>1, <4>1, <4>2, SetBitsOfProbed, FilterTypeStep, BitsStep DEF ParityInv, FilterAdd
    <3>3. inserts' = inserts + 1 /\ novel' = novel + 1 /\ dup' = dup
      BY <3>1 DEF JudgeNew, FilterAdd
    <3>4. CASE Counting!ClassifyNew(line)
      <4>1. K \in 0 .. K
        BY FilterAssumption
      <4>2. cells' \in [0 .. M-1 -> Nat] /\ Occupied' = Occupied \cup Probed(key)
        BY <2>1, <3>4, <4>1, OccupiedAfter DEF ParityInv, Counting!ClassifyNew, Counting!Add, Probed
      <4>3. n' = n + 1 /\ cNovel' = cNovel + 1 /\ cDup' = cDup /\ last'.out = "ok"
        BY <3>4 DEF Counting!ClassifyNew, Counting!Add, Counting!Returns
      <4>4. /\ UNCHANGED <<opts, printed, lost, cPrinted, cLost>>
            /\ lines' = lines + 1 /\ cLines' = cLines + 1
            /\ pc' = cPc' /\ pending' = cPending'
        BY <3>1, <3>4 DEF JudgeNew, Scan, Answer, Shown, skipClassifyOutput, Counting!ClassifyNew,
           Counting!Scan, Counting!Answer, Counting!Shown, Counting!skipClassifyOutput
      <4> QED
        BY <1>2, <3>2, <3>3, <4>2, <4>3, <4>4 DEF ParityInv, InStep, Overflowed
    <3>5. ASSUME NEW j \in 0 .. K-1, Counting!ClassifyOverflow(line, j) PROVE ParityInv'
      <4>1. cells' \in [0 .. M-1 -> Nat] /\ Occupied' \subseteq Occupied \cup Probed(key)
        <5>1. j \in 0 .. K /\ 0 .. j-1 \subseteq 0 .. K-1
          BY FilterAssumption
        <5>2. cells' = Counting!Raised(cells, key, j)
          BY <3>5 DEF Counting!ClassifyOverflow, Counting!AddOverflow
        <5>3. cells' \in [0 .. M-1 -> Nat] /\ Occupied' = Occupied \cup {Probe[key][i] : i \in 0 .. j-1}
          BY <2>1, <5>1, <5>2, OccupiedAfter DEF ParityInv
        <5> QED BY <5>1, <5>3 DEF Probed
      <4>2. last'.out = "overflow" /\ cPc' = "failed"
        BY <3>5 DEF Counting!ClassifyOverflow, Counting!AddOverflow, Counting!Returns, Counting!Abort
      <4>3. pc' \in {"scan", "write"}
        BY <3>1 DEF JudgeNew, Answer
      <4> QED
        BY <1>2, <3>2, <4>1, <4>2, <4>3 DEF ParityInv, InStep, Overflowed
    <3> QED
      BY <1>3, <1>5, <2>2, <2>4, <3>4, <3>5 DEF BothClassify, Counting!ClassifyDup, Counting!SkipLine
  <2> QED BY <2>3, <2>4
<1> QED BY <1>4, <1>5

\* Both write or fail to, or are run again: the filters rest.
LEMMA OutputKeepsParity ==
  ASSUME ParityInv, BothWrite \/ BothAgain
  PROVE  ParityInv'
<1>1. ~Overflowed /\ InStep
  BY DEF ParityInv, BothWrite, BothAgain, Counting!WriteResult, Counting!WriteFails, RunAgain
<1>2. UNCHANGED <<bits, inserts, added, novel, dup, cells, n, last, cNovel, cDup>>
  BY DEF BothWrite, BothAgain, filtersAndTallies, filterVars
<1>3. /\ pc' = cPc' /\ pending' = cPending' /\ printed' = cPrinted'
      /\ lost' = cLost' /\ lines' = cLines'
  BY <1>1 DEF InStep, BothWrite, BothAgain, WriteResult, WriteFails, RunAgain,
     Counting!WriteResult, Counting!WriteFails, Counting!RunAgain
<1> QED
  BY <1>1, <1>2, <1>3, FiltersRest DEF ParityInv, InStep, Overflowed

\* Two empty filters, and nothing read yet.
LEMMA ParityStart == ParityInit => ParityInv
<1> SUFFICES ASSUME ParityInit PROVE ParityInv
  OBVIOUS
<1>1. FilterTypeOK /\ BitsAreProbed
  BY FilterStart DEF ParityInit, ClassifierInit, FilterInv
<1>2. cells = [c \in 0 .. M-1 |-> 0] /\ n = 0 /\ last.out = "ok"
  BY DEF ParityInit, Counting!RunInit, Counting!Init, Counting!Cell
<1>3. SetBits = {} /\ Occupied = {}
  BY <1>2 DEF ParityInit, ClassifierInit, FilterInit, SetBits, Occupied
<1>4. InStep
  BY <1>2, <1>3 DEF InStep, ParityInit, ClassifierInit, FilterInit, OutputInit, Counting!RunInit,
     Counting!OutputInit, Status, Counting!Status
<1> QED BY <1>1, <1>2, <1>4 DEF ParityInv, Overflowed

\* No line, no write and no further run brings the two apart.
LEMMA ParityStep == ParityInv /\ [ParityNext]_parityVars => ParityInv'
<1> SUFFICES ASSUME ParityInv, [ParityNext]_parityVars PROVE ParityInv'
  OBVIOUS
<1>1. CASE UNCHANGED parityVars
  BY <1>1, FiltersRest DEF parityVars, classifierVars, countingVars, filterVars, outputVars,
     ParityInv, InStep, Overflowed
<1> QED BY <1>1, ClassifyStep, OutputKeepsParity DEF ParityNext

\* For every m, k, hasher and counter limit, over any lines and any series of
\* failing and repeated runs: the invariant of the two deduplicators.
THEOREM ParityInvariant == ParitySpec => []ParityInv
BY ParityStart, ParityStep, PTL DEF ParitySpec

\* Until the counting filter overflows, the two judge, count and write alike.
THEOREM VerdictsAgree == ParitySpec => []SameVerdicts
<1>1. ParityInv => SameVerdicts
  BY DEF ParityInv, InStep, Overflowed, SameVerdicts
<1> QED BY <1>1, ParityInvariant, PTL

\* The counters that are not zero are the bits that are 1; an overflow leaves
\* fewer, never others.
THEOREM OccupancyAgrees == ParitySpec => []SameOccupancy
<1>1. ParityInv => SameOccupancy
  BY DEF ParityInv, InStep, Overflowed, SameOccupancy
<1> QED BY <1>1, ParityInvariant, PTL
=============================================================================
