------------------------ MODULE CountingFilterProofs ------------------------
(***************************************************************************)
(* Proofs about the counting filter however it is used, the removal of     *)
(* keys never added included: for every set of keys, every table of        *)
(* probes, all sizes and widths.                                           *)
(***************************************************************************)
EXTENDS CountingFilter, TLAPS, FiniteSetTheorems, WellFoundedInduction

\* Hits is a count, and counts every probe of the key that lands on the counter.
LEMMA HitsNat ==
  ASSUME NEW key \in Key, NEW c \in Cell, NEW j \in 0 .. K
  PROVE  /\ Hits(key, j, c) \in Nat
         /\ \A i \in 0 .. j-1 : Probe[key][i] = c => Hits(key, j, c) > 0
<1> DEFINE H == {i \in 0 .. j-1 : Probe[key][i] = c}
<1>1. IsFiniteSet(H)
  <2>1. IsFiniteSet(0 .. j-1)
    BY SizeAssumption, FS_Interval
  <2>2. QED
    BY <2>1, FS_Subset
<1>2. Cardinality(H) \in Nat /\ (Cardinality(H) = 0 <=> H = {})
  BY <1>1, FS_CardinalityType, FS_EmptySet
<1>3. Hits(key, j, c) = Cardinality(H)
  BY DEF Hits
<1>4. ASSUME NEW i \in 0 .. j-1, Probe[key][i] = c PROVE Cardinality(H) > 0
  <2>1. H # {}
    BY <1>4
  <2> HIDE DEF H
  <2>2. QED
    BY <1>2, <2>1
<1> HIDE DEF H
<1>5. QED
  BY <1>2, <1>3, <1>4

\* Each probe more lands once more on its own counter, and on no other.
LEMMA HitsStep ==
  ASSUME NEW key \in Key, NEW c \in Cell
  PROVE  /\ Hits(key, 0, c) = 0
         /\ \A j \in 0 .. K-1 :
              Hits(key, j+1, c) = Hits(key, j, c) + (IF Probe[key][j] = c THEN 1 ELSE 0)
<1> DEFINE H(j) == {p \in 0 .. j-1 : Probe[key][p] = c}
<1>1. \A j : Hits(key, j, c) = Cardinality(H(j))
  BY DEF Hits
<1>2. ASSUME NEW j \in 0 .. K PROVE IsFiniteSet(H(j)) /\ Cardinality(H(j)) \in Nat
  <2>1. IsFiniteSet(0 .. j-1)
    BY SizeAssumption, FS_Interval
  <2>2. IsFiniteSet(H(j))
    BY <2>1, FS_Subset
  <2> HIDE DEF H
  <2> QED BY <2>2, FS_CardinalityType
<1>3. H(0) = {}
  OBVIOUS
<1>4. ASSUME NEW j \in 0 .. K-1
      PROVE  Cardinality(H(j+1)) = Cardinality(H(j)) + (IF Probe[key][j] = c THEN 1 ELSE 0)
  <2>1. j \in 0 .. K
    BY SizeAssumption
  <2>2. CASE Probe[key][j] = c
    <3>1. H(j+1) = H(j) \cup {j} /\ j \notin H(j)
      BY <2>2
    <3>2. Cardinality(H(j) \cup {j}) = Cardinality(H(j)) + 1
      <4> HIDE DEF H
      <4> QED BY <1>2, <2>1, <3>1, FS_AddElement
    <3> HIDE DEF H
    <3> QED BY <2>2, <3>1, <3>2
  <2>3. CASE Probe[key][j] # c
    <3>1. H(j+1) = H(j)
      BY <2>3
    <3> HIDE DEF H
    <3> QED BY <1>2, <2>1, <2>3, <3>1
  <2> QED BY <2>2, <2>3
<1>5. Cardinality(H(0)) = 0
  BY <1>3, FS_EmptySet
<1> HIDE DEF H
<1> QED BY <1>1, <1>4, <1>5

\* A longer run of probes lands on a counter at least as often.
LEMMA HitsGrow ==
  ASSUME NEW key \in Key, NEW c \in Cell, NEW j \in 0 .. K, NEW i \in 0 .. j
  PROVE  Hits(key, i, c) <= Hits(key, j, c)
<1> DEFINE A == {p \in 0 .. i-1 : Probe[key][p] = c}
           B == {p \in 0 .. j-1 : Probe[key][p] = c}
<1>1. A \in SUBSET B
  BY SizeAssumption
<1>2. IsFiniteSet(B)
  <2>1. IsFiniteSet(0 .. j-1)
    BY SizeAssumption, FS_Interval
  <2> QED BY <2>1, FS_Subset
<1>3. Cardinality(A) <= Cardinality(B)
  BY <1>1, <1>2, FS_Subset
<1> QED BY <1>3 DEF Hits

\* A key's own probes land on counters, and each counts as a hit there.
LEMMA OwnHit ==
  ASSUME NEW key \in Key, NEW i \in Probes
  PROVE  /\ Probe[key][i] \in Cell
         /\ Hits(key, K, Probe[key][i]) > 0
<1>1. Probe[key][i] \in Cell
  BY ProbeAssumption
<1>2. K \in 0 .. K /\ i \in 0 .. K-1
  BY SizeAssumption DEF Probes
<1>3. QED
  BY <1>1, <1>2, HitsNat

\* Counters after a run of increments: the type of the result, and that no
\* counter went down (Add's loop, counting.go:84-89).
LEMMA RaisedType ==
  ASSUME NEW cs \in [Cell -> Nat], NEW key \in Key, NEW j \in 0 .. K
  PROVE  /\ Raised(cs, key, j) \in [Cell -> Nat]
         /\ \A c \in Cell : /\ Raised(cs, key, j)[c] = cs[c] + Hits(key, j, c)
                            /\ Raised(cs, key, j)[c] >= cs[c]
<1>1. \A c \in Cell : Hits(key, j, c) \in Nat
  BY HitsNat
<1>2. QED
  BY <1>1 DEF Raised

\* Increments leave every key that was found found.
LEMMA RaisedKeeps ==
  ASSUME NEW cs \in [Cell -> Nat], NEW key \in Key, NEW j \in 0 .. K,
         NEW k \in Key, Contains(cs, k)
  PROVE  Contains(Raised(cs, key, j), k)
<1> SUFFICES ASSUME NEW i \in Probes PROVE Raised(cs, key, j)[Probe[k][i]] # 0
  BY DEF Contains
<1>1. Probe[k][i] \in Cell /\ cs[Probe[k][i]] # 0
  BY OwnHit DEF Contains
<1>2. QED
  BY <1>1, RaisedType

\* Decrements stop at zero: the counters stay within their range, and one that
\* becomes zero was hit at least as often as it counted (Remove's loop,
\* counting.go:105-108, over the dec of each store).
LEMMA LoweredType ==
  ASSUME NEW top \in Nat, NEW cs \in [Cell -> 0 .. top], NEW key \in Key
  PROVE  /\ Lowered(cs, key) \in [Cell -> 0 .. top]
         /\ \A c \in Cell : Lowered(cs, key)[c] = 0 => cs[c] <= Hits(key, K, c)
<1>1. \A c \in Cell : Hits(key, K, c) \in Nat
  BY HitsNat, SizeAssumption
<1>2. QED
  BY <1>1 DEF Lowered

-----------------------------------------------------------------------------
(* The types of the filter.                                                *)

\* A counter never exceeds its width's limit and never falls below zero, and the
\* insert count never wraps below zero, whatever the calls (counting.go:86, 105
\* and 108-110, over the limit and zero checks of the stores).
THEOREM FilterTypeCorrect == Spec => []TypeOK
<1>1. Init => TypeOK
  BY WidthAssumption DEF Init, TypeOK, Limit
<1>2. TypeOK /\ [Next]_vars => TypeOK'
  <2> SUFFICES ASSUME TypeOK, [Next]_vars PROVE TypeOK'
    OBVIOUS
  <2>types. /\ Limit \in Nat /\ n \in Nat /\ width \in Width
            /\ cells \in [Cell -> 0 .. Limit] /\ cells \in [Cell -> Nat]
    BY WidthAssumption DEF TypeOK, Limit
  <2>1. ASSUME NEW key \in Key, Add(key) PROVE TypeOK'
    <3>1. K \in 0 .. K
      BY SizeAssumption
    <3>2. /\ Raised(cells, key, K) \in [Cell -> Nat]
          /\ \A c \in Cell : Raised(cells, key, K)[c] <= Limit
      BY <2>1, <2>types, <3>1, RaisedType DEF Add, Fits
    <3>3. cells' \in [Cell -> 0 .. Limit']
      BY <2>1, <2>types, <3>2 DEF Add, Limit
    <3>4. QED
      BY <2>1, <2>types, <3>3 DEF TypeOK, Add, Returns
  <2>2. ASSUME NEW key \in Key, NEW j \in Probes, AddOverflow(key, j) PROVE TypeOK'
    <3>1. j \in 0 .. K
      BY SizeAssumption DEF Probes
    <3>2. /\ Raised(cells, key, j) \in [Cell -> Nat]
          /\ \A c \in Cell : Raised(cells, key, j)[c] <= Limit
      BY <2>2, <2>types, <3>1, RaisedType DEF AddOverflow, Fits
    <3>3. cells' \in [Cell -> 0 .. Limit']
      BY <2>2, <2>types, <3>2 DEF AddOverflow, Limit
    <3>4. QED
      BY <2>2, <2>types, <3>3 DEF TypeOK, AddOverflow, Returns
  <2>3. ASSUME NEW key \in Key, Remove(key) PROVE TypeOK'
    <3>1. Lowered(cells, key) \in [Cell -> 0 .. Limit]
      BY <2>types, LoweredType
    <3>2. cells' \in [Cell -> 0 .. Limit'] /\ n' \in Nat
      BY <2>3, <2>types, <3>1 DEF Remove, Limit
    <3>3. QED
      BY <2>3, <2>types, <3>2 DEF TypeOK, Remove, Returns
  <2>4. ASSUME NEW key \in Key, RemoveAbsent(key) \/ Lookup(key) PROVE TypeOK'
    BY <2>4 DEF TypeOK, RemoveAbsent, Lookup, Returns, Limit
  <2>5. CASE Clear
    <3>1. cells' \in [Cell -> 0 .. Limit']
      BY <2>5, <2>types DEF Clear, Limit
    <3>2. QED
      BY <2>5, <2>types, <3>1 DEF TypeOK, Clear, Returns
  <2>6. CASE UNCHANGED vars
    BY <2>6 DEF TypeOK, vars, Limit
  <2>7. QED
    BY <2>1, <2>2, <2>3, <2>4, <2>5, <2>6 DEF Next
<1>3. QED
  BY <1>1, <1>2, PTL DEF Spec

-----------------------------------------------------------------------------
(* What a Remove of the wrong key can cost.                                *)

\* The one step that takes a found key away is a Remove that drains a counter
\* the two keys share.
LEMMA LossStep ==
  ASSUME TypeOK, [Next]_vars, NEW key \in Key, Contains(cells, key), ~Contains(cells', key)
  PROVE  \/ last'.op = "clear"
         \/ /\ last'.op = "remove" /\ last'.out = "hit"
            /\ \E c \in Cell : /\ Hits(key, K, c) > 0 /\ Hits(last'.key, K, c) > 0
                               /\ cells[c] <= Hits(last'.key, K, c)
<1>types. /\ Limit \in Nat /\ cells \in [Cell -> 0 .. Limit] /\ cells \in [Cell -> Nat]
  BY WidthAssumption DEF TypeOK, Limit
<1>1. ASSUME NEW k \in Key, Add(k) PROVE FALSE
  <2>1. K \in 0 .. K
    BY SizeAssumption
  <2>2. QED
    BY <1>1, <1>types, <2>1, RaisedKeeps DEF Add
<1>2. ASSUME NEW k \in Key, NEW j \in Probes, AddOverflow(k, j) PROVE FALSE
  <2>1. j \in 0 .. K
    BY SizeAssumption DEF Probes
  <2>2. QED
    BY <1>2, <1>types, <2>1, RaisedKeeps DEF AddOverflow
<1>3. ASSUME NEW k \in Key, Remove(k)
      PROVE  /\ last'.op = "remove" /\ last'.out = "hit"
             /\ \E c \in Cell : /\ Hits(key, K, c) > 0 /\ Hits(last'.key, K, c) > 0
                                /\ cells[c] <= Hits(last'.key, K, c)
  <2>1. last' = [op |-> "remove", key |-> k, out |-> "hit"] /\ cells' = Lowered(cells, k)
    BY <1>3 DEF Remove, Returns
  <2>2. PICK i \in Probes : cells'[Probe[key][i]] = 0
    BY DEF Contains
  <2> DEFINE c == Probe[key][i]
  <2>3. c \in Cell /\ Hits(key, K, c) > 0
    BY OwnHit
  <2>4. cells[c] # 0
    BY DEF Contains
  <2>5. cells[c] <= Hits(k, K, c)
    BY <1>types, <2>1, <2>2, <2>3, LoweredType
  <2>6. Hits(k, K, c) > 0
    <3>1. Hits(k, K, c) \in Nat /\ cells[c] \in Nat
      BY <1>types, <2>3, HitsNat, SizeAssumption
    <3> HIDE DEF c
    <3>2. QED
      BY <2>4, <2>5, <3>1
  <2>7. last'.op = "remove" /\ last'.out = "hit" /\ last'.key = k
    BY <2>1
  <2> HIDE DEF c
  <2>8. QED
    BY <2>3, <2>5, <2>6, <2>7
<1>4. ASSUME NEW k \in Key, RemoveAbsent(k) \/ Lookup(k) PROVE FALSE
  BY <1>4 DEF RemoveAbsent, Lookup
<1>5. CASE Clear
  BY <1>5 DEF Clear, Returns
<1>6. CASE UNCHANGED vars
  BY <1>6 DEF vars
<1>7. QED
  BY <1>1, <1>2, <1>3, <1>4, <1>5, <1>6 DEF Next

\* However Add and Remove are misused, a key is lost only to a Clear, or to a
\* Remove of a key that shares a counter with it which that Remove drains
\* (counting.go:97-99): failed Adds and lookups cost nothing.
THEOREM LossOnlyByRemove == Spec => LossNeedsSharedCounter
<1>1. TypeOK /\ [Next]_vars =>
        [\A key \in Key : (Contains(cells, key) /\ ~Contains(cells', key)) =>
           \/ last'.op = "clear"
           \/ /\ last'.op = "remove" /\ last'.out = "hit"
              /\ \E c \in Cell : /\ Hits(key, K, c) > 0 /\ Hits(last'.key, K, c) > 0
                                 /\ cells[c] <= Hits(last'.key, K, c)]_vars
  BY LossStep
<1>2. QED
  BY <1>1, FilterTypeCorrect, PTL DEF Spec, LossNeedsSharedCounter

-----------------------------------------------------------------------------
(* What CounterHeadroom promises.                                          *)

\* The scan of MaxCounter finds a counter none exceeds (counting.go:156-158).
LEMMA MaxCounterIsMax ==
  ASSUME NEW top \in Nat, cells \in [Cell -> 0 .. top]
  PROVE  /\ MaxCounter \in 0 .. top
         /\ \A c \in Cell : cells[c] <= MaxCounter
<1> DEFINE S == {top - cells[c] : c \in Cell}
<1>1. S \subseteq Nat /\ S # {}
  <2>1. 0 \in Cell
    BY SizeAssumption DEF Cell
  <2>2. QED
    BY <2>1
<1>2. PICK s \in S : \A t \in S : s <= t
  <2> HIDE DEF S
  <2> DEFINE R == {p \in Nat \X Nat : p[1] < p[2]}
  <2>1. IsWellFoundedOn(R, Nat)
    BY NatLessThanWellFounded DEF OpToRel
  <2>2. \E s \in S : \A t \in S : ~ (<<t, s>> \in R)
    <3> HIDE DEF R
    <3>1. QED
      BY <1>1, <2>1, WFMin
  <2>3. \A s, t \in Nat : ~ (<<t, s>> \in R) => s <= t
    OBVIOUS
  <2> HIDE DEF R
  <2>4. QED
    BY <1>1, <2>2, <2>3
<1>3. PICK d \in Cell : s = top - cells[d]
  OBVIOUS
<1>4. \A c \in Cell : cells[c] <= cells[d]
  <2> SUFFICES ASSUME NEW c \in Cell PROVE cells[c] <= cells[d]
    OBVIOUS
  <2>1. top - cells[d] <= top - cells[c]
    BY <1>2, <1>3
  <2>2. QED
    BY <2>1
<1>5. \E v \in {cells[c] : c \in Cell} : \A c \in Cell : cells[c] <= v
  BY <1>4
<1>6. /\ MaxCounter \in {cells[c] : c \in Cell}
      /\ \A c \in Cell : cells[c] <= MaxCounter
  BY <1>5 DEF MaxCounter
<1>7. QED
  BY <1>6

\* An Add for which no counter lacks room does not overflow.
LEMMA HeadroomSuffices ==
  ASSUME TypeOK, NEW key \in Key, NEW j \in Probes, AddOverflow(key, j),
         \A c \in Cell : Hits(key, K, c) <= CounterHeadroom
  PROVE  FALSE
<1>types. Limit \in Nat /\ cells \in [Cell -> 0 .. Limit]
  BY WidthAssumption DEF TypeOK, Limit
<1>j. j+1 \in 0 .. K /\ K \in 0 .. K
  BY SizeAssumption DEF Probes
<1>1. PICK c \in Cell : ~(Raised(cells, key, j+1)[c] <= Limit)
  BY DEF AddOverflow, Fits
<1>2. Hits(key, j+1, c) \in Nat /\ Hits(key, K, c) \in Nat
  BY <1>j, HitsNat
<1>3. Raised(cells, key, j+1)[c] = cells[c] + Hits(key, j+1, c)
  BY DEF Raised
<1>4. Hits(key, j+1, c) <= Hits(key, K, c)
  BY <1>j, HitsGrow
<1>5. MaxCounter \in 0 .. Limit /\ cells[c] <= MaxCounter
  BY <1>types, MaxCounterIsMax
<1>6. Hits(key, K, c) <= Limit - MaxCounter
  <2>1. CounterHeadroom = Limit - MaxCounter
    BY <1>types, <1>5 DEF CounterHeadroom
  <2>2. QED
    BY <2>1
<1>7. cells[c] \in Nat
  BY <1>types
<1>8. QED
  BY <1>1, <1>2, <1>3, <1>4, <1>5, <1>6, <1>7, <1>types
=============================================================================
