------------------------- MODULE CountingRunProofs -------------------------
(***************************************************************************)
(* Theorems about runs of the counting deduplicator, for every set of      *)
(* lines, every key function, hasher, size and counter limit, and any      *)
(* series of failing and repeated runs.                                    *)
(*                                                                         *)
(* CountingLedger counts exactly, for callers that keep the rule.  A run   *)
(* may break it, so the invariant here is a bound: until a key never       *)
(* inserted is removed, every counter is at least the number of probes     *)
(* that the keys in the filter have on it.  What a failed Add leaves only  *)
(* adds to the counters and needs no account.                              *)
(***************************************************************************)
EXTENDS CountingRun, CountingFilterProofs

\* The keys in the filter, and the probes that the keys of S have on counter c.
Inside == {key \in Key : live[key] > 0}
ProbesOn(S, c) == {p \in S \X Probes : Probe[p[1]][p[2]] = c}

Backed(cs, S) ==
  \A c \in Cell : IsFiniteSet(ProbesOn(S, c)) /\ cs[c] >= Cardinality(ProbesOn(S, c))

\* The part of the invariant about the filter, and the part about the output.
InsideInv ==
  /\ live \in [Key -> Nat]
  /\ uninserted \in BOOLEAN
  /\ ~uninserted => (\A key \in Key : live[key] <= 1) /\ Backed(cells, Inside)

OutputInv ==
  /\ OutputTypeOK
  /\ novel \in Nat /\ dup \in Nat /\ removed \in Nat
  /\ window \subseteq Key /\ outside \in BOOLEAN
  /\ IF pc = "write" THEN pending \in Status /\ Shown(pending) ELSE pending = "none"
  /\ OutputMatchesTally

-----------------------------------------------------------------------------
\* One more key on the filter puts as many probes on a counter as its own land
\* there.
LEMMA OneKeyMore ==
  ASSUME NEW S \in SUBSET Key, NEW key \in Key, key \notin S, NEW c \in Cell,
         IsFiniteSet(ProbesOn(S, c))
  PROVE  /\ IsFiniteSet(ProbesOn(S \cup {key}, c))
         /\ Cardinality(ProbesOn(S \cup {key}, c)) = Cardinality(ProbesOn(S, c)) + Hits(key, K, c)
<1> DEFINE L == {i \in 0 .. K-1 : Probe[key][i] = c}
           New == {key} \X L
           f == [i \in L |-> <<key, i>>]
<1>1. IsFiniteSet(L)
  <2>1. IsFiniteSet(0 .. K-1)
    BY SizeAssumption, FS_Interval
  <2> QED BY <2>1, FS_Subset
<1>2. Hits(key, K, c) = Cardinality(L)
  BY DEF Hits
<1>3. IsFiniteSet(New) /\ Cardinality(New) = Cardinality(L)
  <2> HIDE DEF L
  <2>1. f \in [L -> New] /\ (\A i, j \in L : f[i] = f[j] => i = j) /\ (\A t \in New : \E i \in L : f[i] = t)
    OBVIOUS
  <2>2. f \in Bijection(L, New)
    BY <2>1 DEF Bijection, Injection, Surjection, IsInjective
  <2> QED BY <1>1, <2>2, FS_Bijection DEF ExistsBijection
<1>4. ProbesOn(S \cup {key}, c) = ProbesOn(S, c) \cup New
  BY DEF ProbesOn, Probes
<1>5. ProbesOn(S, c) \cap New = {}
  BY DEF ProbesOn
<1>6. Cardinality(ProbesOn(S, c)) \in Nat /\ Cardinality(L) \in Nat /\ Cardinality({}) = 0
  BY <1>1, FS_CardinalityType, FS_EmptySet
<1>7. /\ IsFiniteSet(ProbesOn(S, c) \cup New)
      /\ Cardinality(ProbesOn(S, c) \cup New)
           = Cardinality(ProbesOn(S, c)) + Cardinality(New) - Cardinality(ProbesOn(S, c) \cap New)
  <2> HIDE DEF New
  <2> QED BY <1>3, FS_Union
<1>8. Cardinality(ProbesOn(S, c) \cap New) = 0
  BY <1>5, <1>6
<1> HIDE DEF f, New, L
<1>9. /\ IsFiniteSet(ProbesOn(S \cup {key}, c))
      /\ Cardinality(ProbesOn(S \cup {key}, c)) = Cardinality(ProbesOn(S, c)) + Cardinality(L) - 0
  BY <1>3, <1>4, <1>7, <1>8
<1> QED BY <1>2, <1>6, <1>9

\* A counter that a key in the filter probes is not zero.
LEMMA BackedKeyFound ==
  ASSUME NEW cs \in [Cell -> Nat], NEW S \in SUBSET Key, Backed(cs, S), NEW key \in S
  PROVE  Contains(cs, key)
<1> SUFFICES ASSUME NEW i \in Probes PROVE cs[Probe[key][i]] # 0
  BY DEF Contains
<1> DEFINE c == Probe[key][i]
<1>1. c \in Cell
  BY OwnHit
<1>2. ProbesOn(S, c) # {}
  <2>1. <<key, i>> \in ProbesOn(S, c)
    BY DEF ProbesOn
  <2> QED BY <2>1
<1> HIDE DEF c
<1>3. IsFiniteSet(ProbesOn(S, c)) /\ cs[c] >= Cardinality(ProbesOn(S, c)) /\ cs[c] \in Nat
  BY <1>1 DEF Backed
<1>4. Cardinality(ProbesOn(S, c)) \in Nat /\ Cardinality(ProbesOn(S, c)) # 0
  BY <1>2, <1>3, FS_CardinalityType, FS_EmptySet
<1> QED BY <1>3, <1>4 DEF c

-----------------------------------------------------------------------------
\* A run makes calls of the filter and nothing else of it.
LEMMA RunIsFilter == RunSpec => Spec
<1>1. RunInit => Init
  BY DEF RunInit
<1>2. [RunNext]_runVars => [Next]_vars
  <2> SUFFICES ASSUME [RunNext]_runVars PROVE [Next]_vars
    OBVIOUS
  <2>1. ASSUME NEW line \in Line,
               \/ ClassifyDup(line) \/ ClassifyNew(line) \/ \E j \in Probes : ClassifyOverflow(line, j)
        PROVE  Next
    <3>1. KeyOf[line] \in Key
      BY <2>1, LineAssumption DEF ClassifyDup, ClassifyNew, ClassifyOverflow
    <3> QED BY <2>1, <3>1 DEF ClassifyDup, ClassifyNew, ClassifyOverflow, Next
  <2>2. ASSUME NEW line \in Line, RemoveLine(line) \/ RemoveAbsentLine(line)
        PROVE  Next
    <3>1. RestOf[line] \in Key
      BY <2>2, LineAssumption DEF RemoveLine, RemoveAbsentLine, IsRemoval
    <3> QED BY <2>2, <3>1 DEF RemoveLine, RemoveAbsentLine, Next
  <2>3. ASSUME NEW line \in Line, SkipLine(line) PROVE UNCHANGED vars
    BY <2>3 DEF SkipLine
  <2>4. CASE UNCHANGED runVars
    BY <2>4 DEF runVars
  <2> QED BY <2>1, <2>2, <2>3, <2>4 DEF RunNext
<1> QED BY <1>1, <1>2, PTL DEF RunSpec, Spec

\* The counters of a filter in its type, as the lemmas below take them.
LEMMA RunCells ==
  ASSUME TypeOK
  PROVE  /\ Limit \in Nat /\ cells \in [Cell -> 0 .. Limit] /\ cells \in [Cell -> Nat]
         /\ K \in 0 .. K /\ Probes \subseteq 0 .. K
BY WidthAssumption, SizeAssumption DEF TypeOK, Limit, Probes

\* Increments keep the keys in the filter backed, and back the key whose every
\* probe they were.
LEMMA RaisedBacks ==
  ASSUME NEW cs \in [Cell -> Nat], NEW S \in SUBSET Key, Backed(cs, S),
         NEW key \in Key, NEW j \in 0 .. K
  PROVE  /\ Backed(Raised(cs, key, j), S)
         /\ key \notin S /\ j = K => Backed(Raised(cs, key, j), S \cup {key})
<1> SUFFICES ASSUME NEW c \in Cell
             PROVE  /\ IsFiniteSet(ProbesOn(S, c)) /\ Raised(cs, key, j)[c] >= Cardinality(ProbesOn(S, c))
                    /\ key \notin S /\ j = K =>
                         /\ IsFiniteSet(ProbesOn(S \cup {key}, c))
                         /\ Raised(cs, key, j)[c] >= Cardinality(ProbesOn(S \cup {key}, c))
  BY DEF Backed
<1>1. IsFiniteSet(ProbesOn(S, c)) /\ cs[c] >= Cardinality(ProbesOn(S, c)) /\ cs[c] \in Nat
  BY DEF Backed
<1>2. Cardinality(ProbesOn(S, c)) \in Nat
  BY <1>1, FS_CardinalityType
<1>3. Raised(cs, key, j)[c] = cs[c] + Hits(key, j, c) /\ Hits(key, j, c) \in Nat
  BY RaisedType, HitsNat
<1>4. ASSUME key \notin S
      PROVE  /\ IsFiniteSet(ProbesOn(S \cup {key}, c))
             /\ Cardinality(ProbesOn(S \cup {key}, c)) = Cardinality(ProbesOn(S, c)) + Hits(key, K, c)
  BY <1>1, <1>4, OneKeyMore
<1>5. IsFiniteSet(ProbesOn(S, c)) /\ Raised(cs, key, j)[c] >= Cardinality(ProbesOn(S, c))
  BY <1>1, <1>2, <1>3
<1>6. ASSUME key \notin S, j = K
      PROVE  /\ IsFiniteSet(ProbesOn(S \cup {key}, c))
             /\ Raised(cs, key, j)[c] >= Cardinality(ProbesOn(S \cup {key}, c))
  BY <1>1, <1>2, <1>3, <1>4, <1>6
<1> QED BY <1>5, <1>6

\* The decrements of a key in the filter leave the others backed: none of them
\* is lost at zero.
LEMMA LoweredBacks ==
  ASSUME NEW cs \in [Cell -> Nat], NEW S \in SUBSET Key, Backed(cs, S), NEW key \in S
  PROVE  Backed(Lowered(cs, key), S \ {key})
<1> SUFFICES ASSUME NEW c \in Cell
             PROVE  /\ IsFiniteSet(ProbesOn(S \ {key}, c))
                    /\ Lowered(cs, key)[c] >= Cardinality(ProbesOn(S \ {key}, c))
  BY DEF Backed
<1>1. IsFiniteSet(ProbesOn(S, c)) /\ cs[c] >= Cardinality(ProbesOn(S, c)) /\ cs[c] \in Nat
  BY DEF Backed
<1>2. IsFiniteSet(ProbesOn(S \ {key}, c))
  <2>1. ProbesOn(S \ {key}, c) \in SUBSET ProbesOn(S, c)
    BY DEF ProbesOn
  <2> QED BY <1>1, <2>1, FS_Subset
<1>3. Cardinality(ProbesOn(S, c)) = Cardinality(ProbesOn(S \ {key}, c)) + Hits(key, K, c)
  <2>1. (S \ {key}) \cup {key} = S /\ S \ {key} \in SUBSET Key /\ key \notin S \ {key} /\ key \in Key
    OBVIOUS
  <2>2. Cardinality(ProbesOn((S \ {key}) \cup {key}, c))
          = Cardinality(ProbesOn(S \ {key}, c)) + Hits(key, K, c)
    BY <1>2, <2>1, OneKeyMore
  <2> QED BY <2>1, <2>2
<1>4. Cardinality(ProbesOn(S \ {key}, c)) \in Nat /\ Hits(key, K, c) \in Nat
  BY <1>2, FS_CardinalityType, HitsNat, SizeAssumption
<1>5. Lowered(cs, key)[c] = IF cs[c] > Hits(key, K, c) THEN cs[c] - Hits(key, K, c) ELSE 0
  BY DEF Lowered
<1> QED BY <1>1, <1>2, <1>3, <1>4, <1>5

-----------------------------------------------------------------------------
\* A classified key is inserted only when it is not found, so never while it is
\* in the filter, where it would be.
LEMMA NewStep ==
  ASSUME TypeOK, InsideInv, NEW line \in Line, ClassifyNew(line)
  PROVE  InsideInv'
<1> DEFINE key == KeyOf[line]
<1>1. key \in Key /\ ~Contains(cells, key) /\ cells' = Raised(cells, key, K)
      /\ live' = [live EXCEPT ![key] = @ + 1] /\ uninserted' = uninserted
  BY LineAssumption DEF ClassifyNew, Add
<1> HIDE DEF key
<1>2. live' \in [Key -> Nat] /\ uninserted' \in BOOLEAN
  BY <1>1 DEF InsideInv
<1>3. ASSUME ~uninserted
      PROVE  (\A k \in Key : live'[k] <= 1) /\ Backed(cells', Inside')
  <2>1. Backed(cells, Inside) /\ (\A k \in Key : live[k] <= 1) /\ Inside \in SUBSET Key
    BY <1>3 DEF InsideInv, Inside
  <2>2. key \notin Inside
    BY <1>1, <2>1, RunCells, BackedKeyFound
  <2>3. live[key] = 0 /\ live \in [Key -> Nat]
    BY <1>1, <2>2 DEF InsideInv, Inside
  <2>4. Inside' = Inside \cup {key} /\ \A k \in Key : live'[k] <= 1
    BY <1>1, <2>1, <2>3 DEF Inside
  <2>5. Backed(Raised(cells, key, K), Inside \cup {key})
    BY <1>1, <2>1, <2>2, RunCells, RaisedBacks
  <2> QED BY <1>1, <2>4, <2>5
<1> QED BY <1>1, <1>2, <1>3 DEF InsideInv

\* A failed Add only raises counters, and no key counts as inserted.
LEMMA OverflowStep ==
  ASSUME TypeOK, InsideInv, NEW line \in Line, NEW j \in Probes, ClassifyOverflow(line, j)
  PROVE  InsideInv'
<1>1. KeyOf[line] \in Key /\ cells' = Raised(cells, KeyOf[line], j) /\ UNCHANGED <<live, uninserted>>
  BY LineAssumption DEF ClassifyOverflow, AddOverflow, ghostVars
<1>2. Inside' = Inside /\ Inside \in SUBSET Key
  BY <1>1 DEF Inside
<1>3. ~uninserted => Backed(cells', Inside)
  BY <1>1, <1>2, RunCells, RaisedBacks DEF InsideInv
<1> QED BY <1>1, <1>2, <1>3 DEF InsideInv

\* A removal takes the probes of its key off the counters, or breaks the rule.
LEMMA RemoveStep ==
  ASSUME TypeOK, InsideInv, NEW line \in Line, RemoveLine(line)
  PROVE  InsideInv'
<1> DEFINE key == RestOf[line]
<1>1. /\ key \in Key /\ cells' = Lowered(cells, key)
      /\ live' = [live EXCEPT ![key] = IF @ > 0 THEN @ - 1 ELSE 0]
      /\ uninserted' = (uninserted \/ live[key] = 0)
  BY LineAssumption DEF RemoveLine, Remove, IsRemoval
<1> HIDE DEF key
<1>2. live' \in [Key -> Nat] /\ uninserted' \in BOOLEAN
  BY <1>1 DEF InsideInv
<1>3. ASSUME ~uninserted'
      PROVE  (\A k \in Key : live'[k] <= 1) /\ Backed(cells', Inside')
  <2>1. ~uninserted /\ live[key] # 0 /\ live \in [Key -> Nat]
    BY <1>1, <1>3 DEF InsideInv
  <2>2. Backed(cells, Inside) /\ (\A k \in Key : live[k] <= 1) /\ Inside \in SUBSET Key /\ key \in Inside
    BY <1>1, <2>1 DEF InsideInv, Inside
  <2>3. Inside' = Inside \ {key} /\ \A k \in Key : live'[k] <= 1
    BY <1>1, <2>1, <2>2 DEF Inside
  <2>4. Backed(Lowered(cells, key), Inside \ {key})
    BY <2>2, RunCells, LoweredBacks
  <2> QED BY <1>1, <2>3, <2>4
<1> QED BY <1>2, <1>3 DEF InsideInv

\* An empty filter has no keys inside.
LEMMA InsideStart == RunInit => InsideInv
<1> SUFFICES ASSUME RunInit PROVE InsideInv
  OBVIOUS
<1>1. Inside = {} /\ live \in [Key -> Nat] /\ uninserted = FALSE
  BY DEF RunInit, Inside
<1>2. ASSUME NEW c \in Cell PROVE ProbesOn({}, c) = {}
  BY DEF ProbesOn
<1>3. Backed(cells, {})
  BY <1>2, FS_EmptySet DEF RunInit, Init, Backed
<1>4. \A key \in Key : live[key] <= 1
  BY DEF RunInit
<1>5. Backed(cells, Inside)
  BY <1>1, <1>3
<1> QED BY <1>1, <1>4, <1>5 DEF InsideInv

\* No line disturbs the bound.
LEMMA InsideStep == TypeOK /\ InsideInv /\ [RunNext]_runVars => InsideInv'
<1> SUFFICES ASSUME TypeOK, InsideInv, [RunNext]_runVars PROVE InsideInv'
  OBVIOUS
<1>1. ASSUME UNCHANGED <<cells, live, uninserted>> PROVE InsideInv'
  <2>1. Inside' = Inside
    BY <1>1 DEF Inside
  <2> QED BY <1>1, <2>1 DEF InsideInv
<1>2. ASSUME NEW line \in Line, ClassifyDup(line) \/ RemoveAbsentLine(line) \/ SkipLine(line)
      PROVE  InsideInv'
  BY <1>1, <1>2 DEF ClassifyDup, Lookup, RemoveAbsentLine, RemoveAbsent, SkipLine, vars, ghostVars
<1>3. ASSUME OutputStep /\ UNCHANGED <<vars, novel, dup, removed, ghostVars>> PROVE InsideInv'
  BY <1>1, <1>3 DEF vars, ghostVars
<1>4. CASE UNCHANGED runVars
  BY <1>1, <1>4 DEF runVars, vars, ghostVars
<1> QED BY <1>2, <1>3, <1>4, NewStep, OverflowStep, RemoveStep DEF RunNext

\* The invariant behind the next two, over any series of runs.
THEOREM InsideInvariant == RunSpec => [](TypeOK /\ InsideInv)
BY InsideStart, InsideStep, RunIsFilter, FilterTypeCorrect, PTL DEF RunSpec

\* No key is inserted while it is in the filter, whatever fails in between and
\* however often the classifier is run again (dedup/counting.go:30-37).
THEOREM NeverInsertedTwice == RunSpec => []InsertedOnce
<1>1. InsideInv => InsertedOnce
  BY DEF InsideInv, InsertedOnce
<1> QED BY <1>1, InsideInvariant, PTL

\* As long as only inserted keys are removed, a key in the filter is found, so
\* that its next line is a duplicate, and its removal line takes it out.
THEOREM InsertedIsFound == RunSpec => []InsertedStaysFound
<1>1. TypeOK /\ InsideInv => InsertedStaysFound
  <2> SUFFICES ASSUME TypeOK, InsideInv, ~uninserted, NEW key \in Key, live[key] > 0
               PROVE  Contains(cells, key)
    BY DEF InsertedStaysFound
  <2>1. Inside \in SUBSET Key /\ key \in Inside /\ Backed(cells, Inside)
    BY DEF InsideInv, Inside
  <2> QED BY <2>1, RunCells, BackedKeyFound
<1> QED BY <1>1, InsideInvariant, PTL

-----------------------------------------------------------------------------
\* A line's result is tallied, and printed next if the options ask for it.
LEMMA AnswerStep ==
  ASSUME OutputInv, NEW status \in Status, Scan, Answer(status),
         novel' = (IF status = "new" THEN novel + 1 ELSE novel),
         dup' = (IF status = "dup" THEN dup + 1 ELSE dup),
         removed' = (IF status = "removed" THEN removed + 1 ELSE removed),
         window' \subseteq Key, outside' \in BOOLEAN
  PROVE  OutputInv'
<1>1. /\ pc = "scan" /\ pending = "none" /\ opts' = opts
      /\ printed' = printed /\ lost' = lost /\ lines' \in 0 .. MaxLines
  BY OptsAssumption DEF OutputInv, OutputTypeOK, Scan, Answer
<1>2. opts \in [quiet : BOOLEAN, novelOnly : BOOLEAN, dupOnly : BOOLEAN, removal : BOOLEAN]
  BY OptsAssumption DEF OutputInv, OutputTypeOK
<1>3. Shown(status)' = Shown(status) /\ \A s \in Status : Wanted(s)' = Wanted(s)
  BY <1>1 DEF Shown, skipClassifyOutput, Wanted
<1>4. \A s \in {"new", "dup", "removed"} : Wanted(s) <=> Shown(s)
  BY <1>2 DEF Shown, skipClassifyOutput, Wanted
<1>5. OutputMatchesTally'
  <2> SUFFICES ASSUME NEW s \in {"new", "dup", "removed"}
               PROVE  printed'[s] + lost'[s] + (IF pending' = s THEN 1 ELSE 0) =
                        IF ~Wanted(s)' THEN 0
                        ELSE IF s = "new" THEN novel' ELSE IF s = "dup" THEN dup' ELSE removed'
    BY DEF OutputMatchesTally
  <2>1. pending' = IF Shown(status) THEN status ELSE "none"
    BY DEF Answer
  <2>2. printed[s] + lost[s] = IF ~Wanted(s) THEN 0
          ELSE IF s = "new" THEN novel ELSE IF s = "dup" THEN dup ELSE removed
    BY <1>1 DEF OutputInv, OutputMatchesTally, OutputTypeOK, Status
  <2>3. s \in Status /\ s # "none" /\ printed[s] \in Nat /\ lost[s] \in Nat
    BY DEF OutputInv, OutputTypeOK, Status
  <2>4. CASE status = s
    BY <1>1, <1>3, <1>4, <2>1, <2>2, <2>3, <2>4 DEF OutputInv
  <2>5. CASE status # s
    BY <1>1, <1>3, <1>4, <2>1, <2>2, <2>3, <2>5 DEF OutputInv
  <2> QED BY <2>4, <2>5
<1>6. OutputTypeOK' /\ novel' \in Nat /\ dup' \in Nat /\ removed' \in Nat
  BY <1>1 DEF OutputInv, OutputTypeOK, Answer, Status
<1>7. IF pc' = "write" THEN pending' \in Status /\ Shown(pending)' ELSE pending' = "none"
  BY <1>1 DEF Answer, Shown, skipClassifyOutput
<1> QED BY <1>5, <1>6, <1>7 DEF OutputInv

\* A step that neither answers nor writes leaves what was written and what is due.
LEMMA OutputRests ==
  ASSUME OutputInv, UNCHANGED <<opts, pending, printed, lost, novel, dup, removed, window, outside>>,
         pc # "write" /\ pc' # "write", pc' \in {"scan", "done", "failed"}, lines' \in 0 .. MaxLines
  PROVE  OutputInv'
<1>1. \A s \in {"new", "dup", "removed"} : Wanted(s)' = Wanted(s)
  BY DEF Wanted
<1> QED BY <1>1 DEF OutputInv, OutputTypeOK, OutputMatchesTally

\* A pending result becomes a written one, or one whose write failed.
LEMMA WriteStep ==
  ASSUME OutputInv, WriteResult \/ WriteFails, UNCHANGED <<novel, dup, removed, window, outside>>
  PROVE  OutputInv'
<1>1. pending \in Status /\ pending' = "none" /\ opts' = opts /\ lines' = lines /\ pc' \in {"scan", "failed"}
  BY DEF OutputInv, WriteResult, WriteFails
<1>2. printed' \in [Status -> Nat] /\ lost' \in [Status -> Nat]
  BY DEF OutputInv, OutputTypeOK, WriteResult, WriteFails
<1>3. \A s \in {"new", "dup", "removed"} :
        printed'[s] + lost'[s] = printed[s] + lost[s] + (IF pending = s THEN 1 ELSE 0)
  BY <1>1 DEF OutputInv, OutputTypeOK, WriteResult, WriteFails, Status
<1>4. \A s \in {"new", "dup", "removed"} : Wanted(s)' = Wanted(s)
  BY <1>1 DEF Wanted
<1>5. OutputMatchesTally'
  <2> SUFFICES ASSUME NEW s \in {"new", "dup", "removed"}
               PROVE  printed'[s] + lost'[s] + (IF pending' = s THEN 1 ELSE 0) =
                        IF ~Wanted(s)' THEN 0
                        ELSE IF s = "new" THEN novel' ELSE IF s = "dup" THEN dup' ELSE removed'
    BY DEF OutputMatchesTally
  <2>1. printed'[s] \in Nat /\ lost'[s] \in Nat
    BY <1>2 DEF Status
  <2> QED BY <1>1, <1>3, <1>4, <2>1 DEF OutputInv, OutputMatchesTally
<1> QED BY <1>1, <1>2, <1>5 DEF OutputInv, OutputTypeOK

\* Before the first line nothing is tallied or written.
LEMMA OutputStart == RunInit => OutputInv
<1> SUFFICES ASSUME RunInit PROVE OutputInv
  OBVIOUS
<1>1. OutputTypeOK /\ pc = "scan" /\ pending = "none"
  BY OptsAssumption DEF RunInit, OutputInit, OutputTypeOK, Status
<1>2. novel = 0 /\ dup = 0 /\ removed = 0 /\ window = {} /\ outside = FALSE
  BY DEF RunInit
<1>3. OutputMatchesTally
  BY <1>1, <1>2 DEF RunInit, OutputInit, OutputMatchesTally, Status
<1> QED BY <1>1, <1>2, <1>3 DEF OutputInv

\* No line, write or failure lets the output and the tallies part.
LEMMA OutputInvStep == InsideInv /\ OutputInv /\ [RunNext]_runVars => OutputInv'
<1> SUFFICES ASSUME InsideInv, OutputInv, [RunNext]_runVars PROVE OutputInv'
  OBVIOUS
<1>types. window \subseteq Key /\ outside \in BOOLEAN /\ lines \in 0 .. MaxLines
  BY DEF OutputInv, OutputTypeOK
<1>1. ASSUME NEW line \in Line, ClassifyDup(line) PROVE OutputInv'
  BY <1>1, <1>types, AnswerStep, LineAssumption DEF ClassifyDup, Status
<1>2. ASSUME NEW line \in Line, ClassifyNew(line) PROVE OutputInv'
  BY <1>2, <1>types, AnswerStep, LineAssumption DEF ClassifyNew, Status
<1>3. ASSUME NEW line \in Line, NEW j \in Probes, ClassifyOverflow(line, j) PROVE OutputInv'
  <2>1. lines' \in 0 .. MaxLines /\ pc = "scan" /\ pc' = "failed"
    BY <1>3, <1>types, OptsAssumption DEF ClassifyOverflow, Scan, Abort
  <2> QED BY <1>3, <2>1, OutputRests DEF ClassifyOverflow, Abort, ghostVars
<1>4. ASSUME NEW line \in Line, RemoveLine(line) PROVE OutputInv'
  BY <1>4, <1>types, AnswerStep DEF RemoveLine, Status
<1>5. ASSUME NEW line \in Line, RemoveAbsentLine(line) PROVE OutputInv'
  BY <1>5, <1>types, AnswerStep DEF RemoveAbsentLine, Status
<1>6. ASSUME NEW line \in Line, SkipLine(line) PROVE OutputInv'
  <2>1. lines' \in 0 .. MaxLines /\ pc = "scan" /\ pc' = "scan"
    BY <1>6, <1>types, OptsAssumption DEF SkipLine, Scan, PassOver
  <2> QED BY <1>6, <2>1, OutputRests DEF SkipLine, PassOver, ghostVars
<1>7. ASSUME OutputStep /\ UNCHANGED <<vars, novel, dup, removed, ghostVars>> PROVE OutputInv'
  <2>1. CASE WriteResult \/ WriteFails
    BY <1>7, <2>1, WriteStep DEF ghostVars
  <2>2. CASE ReadFails \/ EndOfInput \/ RunAgain
    BY <1>7, <1>types, <2>2, OutputRests DEF ReadFails, Abort, EndOfInput, RunAgain, ghostVars
  <2> QED BY <1>7, <2>1, <2>2 DEF OutputStep
<1>8. CASE UNCHANGED runVars
  BY <1>8 DEF runVars, outputVars, ghostVars, OutputInv, OutputTypeOK, OutputMatchesTally, Wanted,
     Shown, skipClassifyOutput
<1> QED BY <1>1, <1>2, <1>3, <1>4, <1>5, <1>6, <1>7, <1>8 DEF RunNext

\* The invariant of a run's output, over any series of runs.
THEOREM OutputInvariant == RunSpec => []OutputInv
BY OutputStart, OutputInvStep, InsideInvariant, PTL DEF RunSpec

\* Every result the options ask for is tallied and then written or reported as a
\* failed write, once, across runs that fail midway (stream.go:86-105, 114-122).
THEOREM OutputExact == RunSpec => []OutputMatchesTally
<1>1. OutputInv => OutputMatchesTally
  BY DEF OutputInv
<1> QED BY <1>1, OutputInvariant, PTL

\* Filter, tallies and output keep their types.
THEOREM RunTypeCorrect == RunSpec => []RunTypeOK
<1>1. TypeOK /\ InsideInv /\ OutputInv => RunTypeOK
  BY DEF InsideInv, OutputInv, RunTypeOK
<1> QED BY <1>1, InsideInvariant, OutputInvariant, PTL

-----------------------------------------------------------------------------
(* The count against the tallies and against what the counters hold.       *)

\* The counters hold finitely many units.
LEMMA UnitsFinite ==
  ASSUME NEW top \in Nat, NEW cs \in [Cell -> 0 .. top]
  PROVE  IsFiniteSet(Units(cs)) /\ Cardinality(Units(cs)) \in Nat
<1>1. IsFiniteSet(Cell) /\ IsFiniteSet(1 .. top)
  BY SizeAssumption, FS_Interval DEF Cell
<1>2. IsFiniteSet(Cell \X (1 .. top))
  BY <1>1, FS_Product
<1>3. Units(cs) \in SUBSET (Cell \X (1 .. top))
  BY DEF Units
<1> QED BY <1>2, <1>3, FS_Subset, FS_CardinalityType

\* Every value that a counter passes while the first j probes of a key raise it
\* is reached by one of them: the first after which enough have landed there.
LEMMA UnitHasProbe ==
  ASSUME NEW key \in Key, NEW c \in Cell, NEW j \in 0 .. K, NEW v \in 1 .. Hits(key, j, c)
  PROVE  \E i \in 0 .. j-1 : Probe[key][i] = c /\ Hits(key, i+1, c) = v
<1> DEFINE S == {i \in 0 .. j : Hits(key, i, c) >= v}
<1>1. \A i \in 0 .. K : Hits(key, i, c) \in Nat
  BY HitsNat
<1>2. S \subseteq Nat /\ j \in S
  BY <1>1
<1>3. PICK s \in S : \A t \in S : s <= t
  <2> HIDE DEF S
  <2> DEFINE R == {p \in Nat \X Nat : p[1] < p[2]}
  <2>1. IsWellFoundedOn(R, Nat)
    BY NatLessThanWellFounded DEF OpToRel
  <2>2. \E s \in S : \A t \in S : ~ (<<t, s>> \in R)
    <3> HIDE DEF R
    <3> QED BY <1>2, <2>1, WFMin
  <2>3. \A s, t \in Nat : ~ (<<t, s>> \in R) => s <= t
    OBVIOUS
  <2> HIDE DEF R
  <2> QED BY <1>2, <2>2, <2>3
<1>4. s \in 0 .. j /\ s \in 0 .. K /\ Hits(key, s, c) >= v /\ v \in Nat /\ v >= 1
  BY <1>1, <1>3, SizeAssumption
<1>5. s # 0
  BY <1>4, HitsStep
<1>6. s-1 \in 0 .. j-1 /\ s-1 \in 0 .. K-1 /\ s-1 \in 0 .. K /\ (s-1)+1 = s
  BY <1>4, <1>5, SizeAssumption
<1>7. Hits(key, s-1, c) < v
  <2>1. s-1 \notin S
    BY <1>3, <1>4
  <2> QED BY <1>1, <1>4, <1>6, <2>1
<1>8. Hits(key, (s-1)+1, c) = Hits(key, s-1, c) + (IF Probe[key][s-1] = c THEN 1 ELSE 0)
  BY <1>6, HitsStep
<1>9. Hits(key, s-1, c) \in Nat /\ Hits(key, s, c) \in Nat
  BY <1>1, <1>4, <1>6
<1>10. Probe[key][s-1] = c /\ Hits(key, (s-1)+1, c) = v
  BY <1>4, <1>6, <1>7, <1>8, <1>9
<1> QED BY <1>6, <1>10

\* The first j probes of a key add j units, however many of them share a counter.
LEMMA RaisedUnits ==
  ASSUME NEW top \in Nat, NEW cs \in [Cell -> 0 .. top], NEW key \in Key, NEW j \in 0 .. K
  PROVE  /\ IsFiniteSet(Units(Raised(cs, key, j)))
         /\ Cardinality(Units(Raised(cs, key, j))) = Cardinality(Units(cs)) + j
<1> DEFINE r == Raised(cs, key, j)
           at(i) == Probe[key][i]
           f == [i \in 0 .. j-1 |-> <<at(i), cs[at(i)] + Hits(key, i+1, at(i))>>]
           New == Units(r) \ Units(cs)
<1>0. cs \in [Cell -> Nat] /\ K \in Nat /\ j \in Nat
  BY SizeAssumption
<1>1. /\ r \in [Cell -> Nat]
      /\ \A c \in Cell : r[c] = cs[c] + Hits(key, j, c) /\ Hits(key, j, c) \in Nat
  BY <1>0, RaisedType, HitsNat
<1>2. ASSUME NEW i \in 0 .. j-1
      PROVE  /\ at(i) \in Cell /\ i \in 0 .. K-1 /\ i+1 \in 0 .. K /\ i+1 \in 0 .. j
             /\ Hits(key, i+1, at(i)) \in Nat
             /\ Hits(key, i+1, at(i)) >= 1 /\ Hits(key, i+1, at(i)) <= Hits(key, j, at(i))
  <2>1. i \in Probes /\ i \in 0 .. K-1 /\ i+1 \in 0 .. K /\ i+1 \in 0 .. j /\ i \in 0 .. (i+1)-1
    BY <1>0 DEF Probes
  <2>2. at(i) \in Cell
    BY <2>1, OwnHit
  <2>3. Hits(key, i+1, at(i)) \in Nat /\ Hits(key, i+1, at(i)) > 0
    BY <2>1, <2>2, HitsNat
  <2>4. Hits(key, i+1, at(i)) <= Hits(key, j, at(i))
    BY <2>1, <2>2, HitsGrow
  <2> QED BY <2>1, <2>2, <2>3, <2>4
<1>3. ASSUME NEW c \in Cell, NEW v
      PROVE  <<c, v>> \in New <=> v \in (cs[c]+1) .. r[c]
  <2>1. cs[c] \in Nat /\ r[c] \in Nat
    BY <1>0, <1>1
  <2>2. \A fs : <<c, v>> \in Units(fs) <=> v \in 1 .. fs[c]
    BY DEF Units
  <2> HIDE DEF r
  <2> QED BY <2>1, <2>2
<1>4. ASSUME NEW u \in New PROVE \E c \in Cell, v \in Nat : u = <<c, v>>
  BY DEF Units
<1>5. f \in [0 .. j-1 -> New]
  <2> SUFFICES ASSUME NEW i \in 0 .. j-1 PROVE f[i] \in New
    OBVIOUS
  <2>1. cs[at(i)] \in Nat /\ r[at(i)] = cs[at(i)] + Hits(key, j, at(i)) /\ Hits(key, j, at(i)) \in Nat
    BY <1>0, <1>1, <1>2
  <2>2. cs[at(i)] + Hits(key, i+1, at(i)) \in (cs[at(i)]+1) .. r[at(i)]
    <3> HIDE DEF r, at
    <3> QED BY <1>2, <2>1
  <2>3. f[i] = <<at(i), cs[at(i)] + Hits(key, i+1, at(i))>>
    OBVIOUS
  <2> HIDE DEF r, at, f, New
  <2> QED BY <1>2, <1>3, <2>2, <2>3
<1>6. ASSUME NEW i \in 0 .. j-1, NEW p \in 0 .. j-1, i < p PROVE f[i] # f[p]
  <2> SUFFICES ASSUME f[i] = f[p] PROVE FALSE
    OBVIOUS
  <2>1. at(i) = at(p) /\ cs[at(i)] + Hits(key, i+1, at(i)) = cs[at(p)] + Hits(key, p+1, at(p))
    OBVIOUS
  <2>2. cs[at(p)] \in Nat
    BY <1>0, <1>2
  <2>3. i+1 \in 0 .. p /\ p \in 0 .. K /\ p \in 0 .. K-1
    BY <1>0, <1>6
  <2>4. Hits(key, i+1, at(p)) <= Hits(key, p, at(p)) /\ Hits(key, p, at(p)) \in Nat
    BY <1>2, <2>3, HitsGrow, HitsNat
  <2>5. Hits(key, p+1, at(p)) = Hits(key, p, at(p)) + 1
    BY <1>2, <2>3, HitsStep
  <2>6. Hits(key, i+1, at(p)) \in Nat
    BY <1>2, <2>1
  <2> HIDE DEF at, f
  <2> QED BY <2>1, <2>2, <2>4, <2>5, <2>6
<1>7. ASSUME NEW u \in New PROVE \E i \in 0 .. j-1 : f[i] = u
  <2>1. PICK c \in Cell, v \in Nat : u = <<c, v>>
    BY <1>4
  <2>2. v \in (cs[c]+1) .. r[c] /\ cs[c] \in Nat
    BY <1>0, <1>3, <2>1
  <2>3. v - cs[c] \in 1 .. Hits(key, j, c)
    <3> HIDE DEF r
    <3> QED BY <1>1, <2>2
  <2>4. PICK i \in 0 .. j-1 : Probe[key][i] = c /\ Hits(key, i+1, c) = v - cs[c]
    BY <2>3, UnitHasProbe
  <2>5. f[i] = <<c, cs[c] + (v - cs[c])>>
    BY <2>4
  <2> HIDE DEF f
  <2> QED BY <2>1, <2>2, <2>4, <2>5
<1>8. IsFiniteSet(0 .. j-1) /\ Cardinality(0 .. j-1) = j
  BY <1>0, FS_Interval
<1>9. IsFiniteSet(New) /\ Cardinality(New) = j
  <2>1. \A i, p \in 0 .. j-1 : f[i] = f[p] => i = p
    <3> HIDE DEF f
    <3> QED BY <1>6
  <2> HIDE DEF f, New
  <2>2. f \in Bijection(0 .. j-1, New)
    BY <1>5, <1>7, <2>1 DEF Bijection, Injection, Surjection, IsInjective
  <2> QED BY <1>8, <2>2, FS_Bijection DEF ExistsBijection
<1>10. Units(r) = Units(cs) \cup New /\ Units(cs) \cap New = {}
  <2> SUFFICES Units(cs) \subseteq Units(r)
    OBVIOUS
  <2>1. \A c \in Cell : 1 .. cs[c] \subseteq 1 .. r[c]
    <3> HIDE DEF r
    <3> QED BY <1>0, <1>1
  <2> HIDE DEF r
  <2> QED BY <2>1 DEF Units
<1>11. IsFiniteSet(Units(cs)) /\ Cardinality(Units(cs)) \in Nat
  BY UnitsFinite
<1> HIDE DEF New, r
<1>12. /\ IsFiniteSet(Units(cs) \cup New)
       /\ Cardinality(Units(cs) \cup New)
            = Cardinality(Units(cs)) + Cardinality(New) - Cardinality(Units(cs) \cap New)
  BY <1>9, <1>11, FS_Union
<1>13. Cardinality(Units(cs) \cap New) = 0
  BY <1>10, FS_EmptySet
<1>14. IsFiniteSet(Units(r)) /\ Cardinality(Units(r)) = Cardinality(Units(cs)) + j
  BY <1>0, <1>9, <1>10, <1>11, <1>12, <1>13
<1> QED BY <1>14 DEF r

\* A Remove takes at most k units: raised again by the same key, the counters are
\* at least what they were.
LEMMA LoweredUnits ==
  ASSUME NEW top \in Nat, NEW cs \in [Cell -> 0 .. top], NEW key \in Key
  PROVE  /\ Cardinality(Units(Lowered(cs, key))) \in Nat
         /\ Cardinality(Units(cs)) <= Cardinality(Units(Lowered(cs, key))) + K
<1> DEFINE l == Lowered(cs, key)
           r == Raised(l, key, K)
<1>0. K \in 0 .. K /\ K \in Nat
  BY SizeAssumption
<1>1. l \in [Cell -> 0 .. top]
  BY LoweredType
<1>2. IsFiniteSet(Units(r)) /\ Cardinality(Units(r)) = Cardinality(Units(l)) + K
  <2> HIDE DEF l
  <2> QED BY <1>0, <1>1, RaisedUnits
<1>3. ASSUME NEW c \in Cell PROVE cs[c] \in Nat /\ r[c] \in Nat /\ cs[c] <= r[c]
  <2>1. Hits(key, K, c) \in Nat /\ cs[c] \in Nat
    BY <1>0, HitsNat
  <2>2. l[c] = IF cs[c] > Hits(key, K, c) THEN cs[c] - Hits(key, K, c) ELSE 0
    BY DEF Lowered
  <2>3. r[c] = l[c] + Hits(key, K, c)
    BY DEF Raised
  <2> HIDE DEF l, r
  <2> QED BY <2>1, <2>2, <2>3
<1> HIDE DEF l, r
<1>4. Units(cs) \in SUBSET Units(r)
  <2>1. \A c \in Cell : 1 .. cs[c] \subseteq 1 .. r[c]
    BY <1>3
  <2> QED BY <2>1 DEF Units
<1>5. Cardinality(Units(cs)) <= Cardinality(Units(r))
  BY <1>2, <1>4, FS_Subset
<1>6. Cardinality(Units(l)) \in Nat
  BY <1>1, UnitsFinite
<1> QED BY <1>2, <1>5, <1>6 DEF l

\* What the bounds need to be inductive: the count is the number of keys in the
\* filter, so that it is not zero when one of them is removed.
CountInv ==
  /\ CountFollowsTally
  /\ IsFiniteSet(Inside)
  /\ ~uninserted => n = Cardinality(Inside)

\* An inserted key adds k units, a tally and a key inside.
LEMMA NewCounted ==
  ASSUME TypeOK, InsideInv, CountInv, novel \in Nat, removed \in Nat,
         NEW line \in Line, ClassifyNew(line)
  PROVE  CountInv'
<1> DEFINE key == KeyOf[line]
           units == Cardinality(Units(cells))
<1>1. /\ key \in Key /\ ~Contains(cells, key) /\ cells' = Raised(cells, key, K) /\ n' = n + 1
      /\ live' = [live EXCEPT ![key] = @ + 1] /\ uninserted' = uninserted
      /\ novel' = novel + 1 /\ removed' = removed
  BY LineAssumption DEF ClassifyNew, Add
<1>2. n \in Nat /\ K \in Nat /\ units \in Nat /\ K * n \in Nat /\ Limit \in Nat /\ cells \in [Cell -> 0 .. Limit]
  <2>1. n \in Nat /\ K \in Nat /\ Limit \in Nat /\ cells \in [Cell -> 0 .. Limit]
    BY RunCells, SizeAssumption DEF TypeOK
  <2> QED BY <2>1, UnitsFinite
<1> HIDE DEF key
<1>3. Cardinality(Units(cells')) = units + K
  BY <1>1, <1>2, RunCells, RaisedUnits
<1>4. n >= novel - removed /\ K * n <= units /\ (~uninserted => n = novel - removed)
  BY DEF CountInv, CountFollowsTally
<1>5. CountFollowsTally'
  <2>1. K * (n + 1) = K * n + K
    BY <1>2
  <2>2. K * n' <= Cardinality(Units(cells'))
    <3> HIDE DEF units
    <3> QED BY <1>1, <1>2, <1>3, <1>4, <2>1
  <2>3. n' >= novel' - removed' /\ (~uninserted' => n' = novel' - removed')
    BY <1>1, <1>2, <1>4
  <2> QED BY <2>2, <2>3 DEF CountFollowsTally
<1>6. live \in [Key -> Nat] /\ Inside' = Inside \cup {key}
  BY <1>1 DEF InsideInv, Inside
<1>7. /\ IsFiniteSet(Inside')
      /\ Cardinality(Inside') = IF key \in Inside THEN Cardinality(Inside) ELSE Cardinality(Inside) + 1
  BY <1>6, FS_AddElement DEF CountInv
<1>8. ASSUME ~uninserted PROVE key \notin Inside
  <2>1. Backed(cells, Inside) /\ Inside \in SUBSET Key
    BY <1>8 DEF InsideInv, Inside
  <2> QED BY <1>1, <2>1, RunCells, BackedKeyFound
<1>9. ~uninserted' => n' = Cardinality(Inside')
  BY <1>1, <1>7, <1>8 DEF CountInv
<1> QED BY <1>5, <1>7, <1>9 DEF CountInv

\* A failed Add is in no tally and counts no key; what it leaves only adds units.
LEMMA OverflowCounted ==
  ASSUME TypeOK, CountInv, NEW line \in Line, NEW j \in Probes, ClassifyOverflow(line, j)
  PROVE  CountInv'
<1>1. /\ KeyOf[line] \in Key /\ cells' = Raised(cells, KeyOf[line], j)
      /\ UNCHANGED <<n, novel, removed, live, uninserted>>
  BY LineAssumption DEF ClassifyOverflow, AddOverflow, ghostVars
<1>2. n \in Nat /\ K \in Nat /\ K * n \in Nat /\ Limit \in Nat /\ cells \in [Cell -> 0 .. Limit] /\ j \in 0 .. K
  BY RunCells, SizeAssumption DEF TypeOK
<1>3. Cardinality(Units(cells)) \in Nat /\ Cardinality(Units(cells')) = Cardinality(Units(cells)) + j
  BY <1>1, <1>2, UnitsFinite, RaisedUnits
<1>4. CountFollowsTally'
  BY <1>1, <1>2, <1>3 DEF CountInv, CountFollowsTally
<1>5. Inside' = Inside
  BY <1>1 DEF Inside
<1> QED BY <1>1, <1>4, <1>5 DEF CountInv

\* A removal takes at most k units and a key, and while the rule is kept the count
\* has that key in it.
LEMMA RemoveCounted ==
  ASSUME TypeOK, InsideInv, CountInv, novel \in Nat, removed \in Nat,
         NEW line \in Line, RemoveLine(line)
  PROVE  CountInv'
<1> DEFINE key == RestOf[line]
           units == Cardinality(Units(cells))
           left == Cardinality(Units(cells'))
<1>1. /\ key \in Key /\ cells' = Lowered(cells, key) /\ n' = IF n > 0 THEN n - 1 ELSE n
      /\ live' = [live EXCEPT ![key] = IF @ > 0 THEN @ - 1 ELSE 0]
      /\ uninserted' = (uninserted \/ live[key] = 0)
      /\ novel' = novel /\ removed' = removed + 1
  BY LineAssumption DEF RemoveLine, Remove, IsRemoval
<1>2. n \in Nat /\ K \in Nat /\ K * n \in Nat /\ Limit \in Nat /\ cells \in [Cell -> 0 .. Limit]
  BY RunCells, SizeAssumption DEF TypeOK
<1> HIDE DEF key
<1>3. units \in Nat /\ left \in Nat /\ units <= left + K
  BY <1>1, <1>2, UnitsFinite, LoweredUnits
<1> HIDE DEF units, left
<1>4. n >= novel - removed /\ K * n <= units /\ (~uninserted => n = novel - removed)
  BY DEF CountInv, CountFollowsTally, units
<1>5. K * n' <= left
  <2>1. CASE n > 0
    <3>1. n' = n - 1 /\ K * (n - 1) = K * n - K
      BY <1>1, <1>2, <2>1
    <3> QED BY <1>2, <1>3, <1>4, <3>1
  <2>2. CASE ~(n > 0)
    <3>1. n' = 0 /\ K * 0 = 0
      BY <1>1, <1>2, <2>2
    <3> QED BY <1>3, <3>1
  <2> QED BY <2>1, <2>2
<1>6. n' >= novel' - removed'
  BY <1>1, <1>2, <1>4
<1>7. uninserted \in BOOLEAN /\ live \in [Key -> Nat]
  BY DEF InsideInv
<1>8. IsFiniteSet(Inside) /\ IsFiniteSet(Inside')
  <2>1. Inside' \in SUBSET Inside
    BY <1>1, <1>7 DEF Inside
  <2> QED BY <2>1, FS_Subset DEF CountInv
<1>9. ASSUME ~uninserted' PROVE n' = novel' - removed' /\ n' = Cardinality(Inside')
  <2>0. ~uninserted /\ live[key] # 0
    BY <1>1, <1>9
  <2>1. ~uninserted /\ key \in Inside /\ live[key] <= 1
    BY <1>1, <1>7, <2>0 DEF InsideInv, Inside
  <2>2. Inside' = Inside \ {key}
    BY <1>1, <1>7, <2>1 DEF Inside
  <2>3. Cardinality(Inside') = Cardinality(Inside) - 1
    BY <1>8, <2>1, <2>2, FS_RemoveElement
  <2>4. n = Cardinality(Inside) /\ Cardinality(Inside') \in Nat
    BY <1>8, <2>1, FS_CardinalityType DEF CountInv
  <2>5. n' = n - 1
    BY <1>1, <1>2, <2>3, <2>4
  <2> QED BY <1>1, <1>2, <1>4, <2>1, <2>3, <2>4, <2>5
<1> QED BY <1>5, <1>6, <1>8, <1>9 DEF CountInv, CountFollowsTally, left

\* At first nothing is counted.
LEMMA CountStart == RunInit => CountInv
<1> SUFFICES ASSUME RunInit PROVE CountInv
  OBVIOUS
<1>1. n = 0 /\ novel = 0 /\ removed = 0 /\ cells \in [Cell -> 0 .. 0] /\ K * 0 = 0
  BY SizeAssumption DEF RunInit, Init
<1>2. Inside = {}
  BY DEF RunInit, Inside
<1>3. Cardinality(Units(cells)) \in Nat
  BY <1>1, UnitsFinite
<1>4. CountFollowsTally
  BY <1>1, <1>3 DEF CountFollowsTally
<1> QED BY <1>1, <1>2, <1>4, FS_EmptySet DEF CountInv

\* No line disturbs the bounds.
LEMMA CountStep ==
  TypeOK /\ InsideInv /\ OutputInv /\ CountInv /\ [RunNext]_runVars => CountInv'
<1> SUFFICES ASSUME TypeOK, InsideInv, OutputInv, CountInv, [RunNext]_runVars PROVE CountInv'
  OBVIOUS
<1>1. novel \in Nat /\ removed \in Nat
  BY DEF OutputInv
<1>2. ASSUME UNCHANGED <<cells, n, novel, removed, live, uninserted>> PROVE CountInv'
  <2>1. Inside' = Inside
    BY <1>2 DEF Inside
  <2> QED BY <1>2, <2>1 DEF CountInv, CountFollowsTally
<1>3. ASSUME NEW line \in Line, ClassifyDup(line) \/ RemoveAbsentLine(line) \/ SkipLine(line)
      PROVE  CountInv'
  BY <1>2, <1>3 DEF ClassifyDup, Lookup, RemoveAbsentLine, RemoveAbsent, SkipLine, vars, ghostVars
<1>4. ASSUME OutputStep /\ UNCHANGED <<vars, novel, dup, removed, ghostVars>> PROVE CountInv'
  BY <1>2, <1>4 DEF vars, ghostVars
<1>5. CASE UNCHANGED runVars
  BY <1>2, <1>5 DEF runVars, vars, ghostVars
<1> QED BY <1>1, <1>3, <1>4, <1>5, NewCounted, OverflowCounted, RemoveCounted DEF RunNext

\* The filter's count stays between the tallies and what the counters can back,
\* k increments for each key, over failing, repeated and misused runs, and is
\* exactly the tallies' difference until a key never inserted is removed
\* (bloom/counting.go:108, dedup/counting.go:34-37 and 47-49).
THEOREM CountBetween == RunSpec => []CountFollowsTally
<1>1. CountInv => CountFollowsTally
  BY DEF CountInv
<1> QED BY <1>1, CountStart, CountStep, InsideInvariant, OutputInvariant, PTL DEF RunSpec
=============================================================================
