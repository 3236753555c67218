------------------------ MODULE CountingLedgerProofs ------------------------
(***************************************************************************)
(* Proofs about the counting filter under the documented discipline: for   *)
(* every set of keys, every table of probes, all sizes and widths.  The    *)
(* argument counts: each counter holds one unit for every mark of a live   *)
(* insertion (LedgerInv), an Add and a Remove add and take exactly the     *)
(* marks of one insertion (OneMore, OneLess), and a counter that a live    *)
(* key probes carries at least one mark and so is not zero.                *)
(***************************************************************************)
EXTENDS CountingLedger, CountingFilterProofs

\* The probes of a key that land on a counter are finitely many, and Hits counts
\* them: the loop bound of Add and Remove (counting.go:84).
LEMMA HitsCount ==
  ASSUME NEW key \in Key, NEW c \in Cell, NEW j \in 0 .. K
  PROVE  /\ Hits(key, j, c) \in Nat
         /\ IsFiniteSet(Landing(key, c))
         /\ Hits(key, K, c) = Cardinality(Landing(key, c))
<1>1. IsFiniteSet(0 .. j-1) /\ IsFiniteSet(0 .. K-1)
  BY SizeAssumption, FS_Interval
<1>2. IsFiniteSet({i \in 0 .. j-1 : Probe[key][i] = c})
  BY <1>1, FS_Subset
<1>3. IsFiniteSet({i \in 0 .. K-1 : Probe[key][i] = c})
  BY <1>1, FS_Subset
<1>4. QED
  BY <1>2, <1>3, FS_CardinalityType DEF Hits, Landing, Probes

\* One more live insertion of key adds as many marks to a counter as key's
\* probes land on it.
LEMMA OneMore ==
  ASSUME NEW b \in [Key -> Nat], NEW key \in Key, NEW c \in Cell,
         NEW b2 \in [Key -> Nat], b2[key] = b[key] + 1,
         \A k \in Key \ {key} : b2[k] = b[k],
         IsFiniteSet(MarksOf(b, c))
  PROVE  /\ IsFiniteSet(MarksOf(b2, c))
         /\ Cardinality(MarksOf(b2, c)) = Cardinality(MarksOf(b, c)) + Hits(key, K, c)
<1> DEFINE s == b[key] + 1
           L == Landing(key, c)
           New == {key} \X {s} \X L
           f == [i \in L |-> <<key, s, i>>]
<1>1. IsFiniteSet(L) /\ Hits(key, K, c) = Cardinality(L) /\ Cardinality(L) \in Nat
  BY HitsCount, SizeAssumption
<1>2. IsFiniteSet(New) /\ Cardinality(New) = Cardinality(L)
  <2> HIDE DEF L
  <2>1. f \in [L -> New]
    OBVIOUS
  <2>2. \A i, j \in L : f[i] = f[j] => i = j
    OBVIOUS
  <2>3. \A t \in New : \E i \in L : f[i] = t
    OBVIOUS
  <2>4. f \in Bijection(L, New)
    BY <2>1, <2>2, <2>3 DEF Bijection, Injection, Surjection, IsInjective
  <2>5. QED
    BY <1>1, <2>4, FS_Bijection DEF ExistsBijection
<1>3. MarksOf(b2, c) = MarksOf(b, c) \cup New
  <2>1. 1 .. b2[key] = (1 .. b[key]) \cup {s}
    OBVIOUS
  <2>2. \A k \in Key : k # key => b2[k] = b[k]
    OBVIOUS
  <2>3. ASSUME NEW t PROVE t \in MarksOf(b2, c) <=> t \in MarksOf(b, c) \cup New
    BY <2>1, <2>2 DEF MarksOf
  <2>4. QED
    BY <2>3
<1>4. MarksOf(b, c) \cap New = {}
  <2>1. s \notin 1 .. b[key]
    OBVIOUS
  <2>2. QED
    BY <2>1 DEF MarksOf
<1>5. Cardinality(MarksOf(b, c)) \in Nat
  BY FS_CardinalityType
<1>6. Cardinality(MarksOf(b, c) \cap New) = 0
  BY <1>4, FS_EmptySet
<1>7. /\ IsFiniteSet(MarksOf(b, c) \cup New)
      /\ Cardinality(MarksOf(b, c) \cup New)
           = Cardinality(MarksOf(b, c)) + Cardinality(New) - 0
  <2> HIDE DEF New
  <2>1. QED
    BY <1>2, <1>6, FS_Union
<1>8. /\ IsFiniteSet(MarksOf(b2, c))
      /\ Cardinality(MarksOf(b2, c)) = Cardinality(MarksOf(b, c)) + Cardinality(New)
  <2> HIDE DEF New
  <2>1. Cardinality(New) \in Nat
    BY <1>1, <1>2
  <2>2. Cardinality(MarksOf(b, c) \cup New) = Cardinality(MarksOf(b, c)) + Cardinality(New)
    BY <1>5, <1>7, <2>1
  <2>3. QED
    BY <1>3, <1>7, <2>2
<1>9. QED
  <2> HIDE DEF New, L
  <2>1. QED
    BY <1>1, <1>2, <1>8

\* One live insertion less takes the same marks away again.
LEMMA OneLess ==
  ASSUME NEW b \in [Key -> Nat], NEW key \in Key, NEW c \in Cell, b[key] > 0,
         NEW b2 \in [Key -> Nat], b2[key] = b[key] - 1,
         \A k \in Key \ {key} : b2[k] = b[k],
         IsFiniteSet(MarksOf(b, c))
  PROVE  /\ IsFiniteSet(MarksOf(b2, c))
         /\ Cardinality(MarksOf(b, c)) = Cardinality(MarksOf(b2, c)) + Hits(key, K, c)
<1>1. b[key] = b2[key] + 1 /\ \A k \in Key \ {key} : b[k] = b2[k]
  OBVIOUS
<1>2. MarksOf(b2, c) \in SUBSET MarksOf(b, c)
  <2>1. \A k \in Key : 1 .. b2[k] \subseteq 1 .. b[k]
    OBVIOUS
  <2>2. QED
    BY <2>1 DEF MarksOf
<1>3. IsFiniteSet(MarksOf(b2, c))
  BY <1>2, FS_Subset
<1>4. QED
  BY <1>1, <1>3, OneMore

\* The same for the insertions themselves: one more, one less.
LEMMA InsertionsMore ==
  ASSUME NEW b \in [Key -> Nat], NEW key \in Key,
         NEW b2 \in [Key -> Nat], b2[key] = b[key] + 1,
         \A k \in Key \ {key} : b2[k] = b[k],
         IsFiniteSet(InsertionsOf(b))
  PROVE  /\ IsFiniteSet(InsertionsOf(b2))
         /\ Cardinality(InsertionsOf(b2)) = Cardinality(InsertionsOf(b)) + 1
<1> DEFINE new == <<key, b[key] + 1>>
<1>1. InsertionsOf(b2) = InsertionsOf(b) \cup {new}
  <2>1. 1 .. b2[key] = (1 .. b[key]) \cup {b[key] + 1}
    OBVIOUS
  <2>2. \A k \in Key : k # key => b2[k] = b[k]
    OBVIOUS
  <2>3. ASSUME NEW t PROVE t \in InsertionsOf(b2) <=> t \in InsertionsOf(b) \cup {new}
    BY <2>1, <2>2 DEF InsertionsOf
  <2>4. QED
    BY <2>3
<1>2. new \notin InsertionsOf(b)
  <2>1. b[key] + 1 \notin 1 .. b[key]
    OBVIOUS
  <2>2. QED
    BY <2>1 DEF InsertionsOf
<1>3. /\ IsFiniteSet(InsertionsOf(b) \cup {new})
      /\ Cardinality(InsertionsOf(b) \cup {new}) = Cardinality(InsertionsOf(b)) + 1
  <2> HIDE DEF new
  <2>1. QED
    BY <1>2, FS_AddElement
<1>4. QED
  BY <1>1, <1>3

\* Taking one insertion of a key back leaves one fewer.
LEMMA InsertionsLess ==
  ASSUME NEW b \in [Key -> Nat], NEW key \in Key, b[key] > 0,
         NEW b2 \in [Key -> Nat], b2[key] = b[key] - 1,
         \A k \in Key \ {key} : b2[k] = b[k],
         IsFiniteSet(InsertionsOf(b))
  PROVE  /\ IsFiniteSet(InsertionsOf(b2))
         /\ Cardinality(InsertionsOf(b)) = Cardinality(InsertionsOf(b2)) + 1
<1>1. b[key] = b2[key] + 1 /\ \A k \in Key \ {key} : b[k] = b2[k]
  OBVIOUS
<1>2. InsertionsOf(b2) \in SUBSET InsertionsOf(b)
  <2>1. \A k \in Key : 1 .. b2[k] \subseteq 1 .. b[k]
    OBVIOUS
  <2>2. QED
    BY <2>1 DEF InsertionsOf
<1>3. IsFiniteSet(InsertionsOf(b2))
  BY <1>2, FS_Subset
<1>4. QED
  BY <1>1, <1>3, InsertionsMore

\* A bag with nothing in it has no insertions and no marks.
LEMMA NothingLive ==
  ASSUME NEW b, b = [key \in Key |-> 0]
  PROVE  /\ InsertionsOf(b) = {}
         /\ \A c \in Cell : MarksOf(b, c) = {}
<1>1. \A key \in Key : 1 .. b[key] = {}
  OBVIOUS
<1>2. QED
  BY <1>1 DEF InsertionsOf, MarksOf

-----------------------------------------------------------------------------
(* The inductive invariant.                                                *)

\* The types hold of a new filter and an empty ledger.
LEMMA InitInv == LedgerInit => LedgerInv
<1> SUFFICES ASSUME LedgerInit PROVE LedgerInv
  OBVIOUS
<1>1. Limit \in Nat
  BY WidthAssumption DEF LedgerInit, Init, Limit
<1>2. LedgerTypeOK
  BY <1>1 DEF LedgerInit, Init, LedgerTypeOK, TypeOK
<1>3. /\ InsertionsOf(live) = {}
      /\ \A c \in Cell : MarksOf(live, c) = {}
  BY NothingLive DEF LedgerInit
<1>4. QED
  BY <1>2, <1>3, FS_EmptySet DEF LedgerInv, Accounting, CountIsLive, LedgerInit, Init

\* What the invariant says, in the form the steps below use it.
LEMMA InvFacts ==
  ASSUME LedgerInv
  PROVE  /\ live \in [Key -> Nat]
         /\ cells \in [Cell -> Nat]
         /\ residue \in [Cell -> Nat]
         /\ n \in Nat
         /\ Limit \in Nat
         /\ \A c \in Cell : /\ IsFiniteSet(MarksOf(live, c))
                            /\ Cardinality(MarksOf(live, c)) \in Nat
                            /\ cells[c] = Cardinality(MarksOf(live, c)) + residue[c]
                            /\ cells[c] <= Limit
         /\ IsFiniteSet(InsertionsOf(live))
         /\ n = Cardinality(InsertionsOf(live))
<1>1. /\ live \in [Key -> Nat] /\ cells \in [Cell -> 0 .. Limit]
      /\ residue \in [Cell -> Nat] /\ n \in Nat /\ Limit \in Nat
  BY WidthAssumption DEF LedgerInv, LedgerTypeOK, TypeOK, Limit
<1>2. \A c \in Cell : /\ IsFiniteSet(MarksOf(live, c))
                      /\ Cardinality(MarksOf(live, c)) \in Nat
  BY FS_CardinalityType DEF LedgerInv
<1>3. QED
  BY <1>1, <1>2 DEF LedgerInv, Accounting, CountIsLive

\* A successful Add (counting.go:82-92) keeps the counters in step with the
\* ledger.
LEMMA AddStep ==
  ASSUME LedgerInv, NEW key \in Key, LedgerAdd(key)
  PROVE  LedgerInv'
<1>types. /\ live \in [Key -> Nat] /\ cells \in [Cell -> Nat]
          /\ residue \in [Cell -> Nat] /\ n \in Nat /\ Limit \in Nat
  BY InvFacts
<1>marks. \A c \in Cell : /\ IsFiniteSet(MarksOf(live, c))
                          /\ Cardinality(MarksOf(live, c)) \in Nat
  BY InvFacts
<1>cells. \A c \in Cell : /\ cells[c] = Cardinality(MarksOf(live, c)) + residue[c]
                          /\ cells[c] <= Limit
  BY InvFacts
<1>count. IsFiniteSet(InsertionsOf(live)) /\ n = Cardinality(InsertionsOf(live))
  BY InvFacts
<1>1. /\ live' \in [Key -> Nat] /\ live'[key] = live[key] + 1
      /\ \A k \in Key \ {key} : live'[k] = live[k]
  BY <1>types DEF LedgerAdd
<1>2. /\ residue' = residue /\ n' = n + 1 /\ Limit' = Limit
      /\ cells' = Raised(cells, key, K) /\ Fits(cells, key, K)
  BY DEF LedgerAdd, Add, Limit
<1>3. /\ cells' \in [Cell -> Nat]
      /\ \A c \in Cell : /\ cells'[c] = cells[c] + Hits(key, K, c)
                         /\ cells'[c] <= Limit
                         /\ Hits(key, K, c) \in Nat
  <2>1. K \in 0 .. K
    BY SizeAssumption
  <2>2. \A c \in Cell : Hits(key, K, c) \in Nat
    BY <2>1, HitsCount
  <2>3. QED
    BY <1>2, <1>types, <2>1, <2>2, RaisedType DEF Fits
<1>4. LedgerTypeOK'
  <2>1. cells' \in [Cell -> 0 .. Limit']
    BY <1>2, <1>3, <1>types
  <2>2. live' \in [Key -> Nat] /\ residue' \in [Cell -> Nat] /\ n' \in Nat
    BY <1>1, <1>2, <1>types
  <2>3. QED
    BY <2>1, <2>2 DEF LedgerInv, LedgerTypeOK, TypeOK, LedgerAdd, Add, Returns
<1>5. \A c \in Cell : /\ IsFiniteSet(MarksOf(live', c))
                      /\ Cardinality(MarksOf(live', c))
                           = Cardinality(MarksOf(live, c)) + Hits(key, K, c)
  <2>1. live \in [Key -> Nat]
    BY <1>types
  <2>2. \A c \in Cell : IsFiniteSet(MarksOf(live, c))
    BY <1>marks
  <2>3. QED
    BY <1>1, <2>1, <2>2, OneMore
<1>6. /\ IsFiniteSet(InsertionsOf(live'))
      /\ Cardinality(InsertionsOf(live')) = Cardinality(InsertionsOf(live)) + 1
  <2>1. live \in [Key -> Nat]
    BY <1>types
  <2>2. IsFiniteSet(InsertionsOf(live))
    BY <1>count
  <2>3. QED
    BY <1>1, <2>1, <2>2, InsertionsMore
<1>7. Accounting'
  <2>1. ASSUME NEW c \in Cell
        PROVE  cells'[c] = Cardinality(MarksOf(live', c)) + residue'[c]
    <3>1. cells[c] = Cardinality(MarksOf(live, c)) + residue[c]
      BY <1>cells
    <3>2. cells'[c] = cells[c] + Hits(key, K, c) /\ Hits(key, K, c) \in Nat
      BY <1>3
    <3>3. Cardinality(MarksOf(live', c)) = Cardinality(MarksOf(live, c)) + Hits(key, K, c)
      BY <1>5
    <3>4. residue'[c] = residue[c] /\ residue[c] \in Nat
      BY <1>2, <1>types
    <3>5. QED
      BY <1>marks, <3>1, <3>2, <3>3, <3>4
  <2>2. QED
    BY <2>1 DEF Accounting
<1>8. CountIsLive'
  BY <1>2, <1>6, <1>count DEF CountIsLive
<1>9. QED
  BY <1>4, <1>5, <1>6, <1>7, <1>8 DEF LedgerInv

\* An Add that fails at probe j (counting.go:86-88) leaves its first j
\* increments, which the ledger books as residue.
LEMMA OverflowStep ==
  ASSUME LedgerInv, NEW key \in Key, NEW j \in Probes, LedgerOverflow(key, j)
  PROVE  LedgerInv'
<1>types. /\ live \in [Key -> Nat] /\ cells \in [Cell -> Nat]
          /\ residue \in [Cell -> Nat] /\ n \in Nat /\ Limit \in Nat
  BY InvFacts
<1>marks. \A c \in Cell : /\ IsFiniteSet(MarksOf(live, c))
                          /\ Cardinality(MarksOf(live, c)) \in Nat
  BY InvFacts
<1>cells. \A c \in Cell : /\ cells[c] = Cardinality(MarksOf(live, c)) + residue[c]
                          /\ cells[c] <= Limit
  BY InvFacts
<1>count. IsFiniteSet(InsertionsOf(live)) /\ n = Cardinality(InsertionsOf(live))
  BY InvFacts
<1>1. /\ live' = live /\ n' = n /\ Limit' = Limit
      /\ residue' = Raised(residue, key, j)
      /\ cells' = Raised(cells, key, j)
      /\ Fits(cells, key, j)
  BY DEF LedgerOverflow, AddOverflow, Limit
<1>2. j \in 0 .. K
  BY SizeAssumption DEF Probes
<1>3. /\ cells' \in [Cell -> Nat] /\ residue' \in [Cell -> Nat]
      /\ \A c \in Cell : /\ cells'[c] = cells[c] + Hits(key, j, c)
                         /\ residue'[c] = residue[c] + Hits(key, j, c)
                         /\ cells'[c] <= Limit
                         /\ Hits(key, j, c) \in Nat
  BY <1>1, <1>2, <1>types, <1>cells, HitsCount, RaisedType DEF Fits
<1>4. LedgerTypeOK'
  <2>1. cells' \in [Cell -> 0 .. Limit']
    BY <1>1, <1>3, <1>types
  <2>2. live' \in [Key -> Nat] /\ n' \in Nat
    BY <1>1, <1>types
  <2>3. QED
    BY <1>3, <2>1, <2>2 DEF LedgerInv, LedgerTypeOK, TypeOK, LedgerOverflow, AddOverflow, Returns
<1>5. Accounting'
  <2>1. ASSUME NEW c \in Cell
        PROVE  cells'[c] = Cardinality(MarksOf(live', c)) + residue'[c]
    BY <1>1, <1>3, <1>types, <1>marks, <1>cells
  <2>2. QED
    BY <2>1 DEF Accounting
<1>6. QED
  BY <1>1, <1>4, <1>5 DEF LedgerInv, CountIsLive

\* A Remove of a live key (counting.go:100-113) takes exactly the marks of one
\* insertion: no decrement meets a zero counter, and n is not zero.
LEMMA RemoveStep ==
  ASSUME LedgerInv, NEW key \in Key, LedgerRemove(key)
  PROVE  LedgerInv'
<1>types. /\ live \in [Key -> Nat] /\ cells \in [Cell -> Nat]
          /\ residue \in [Cell -> Nat] /\ n \in Nat /\ Limit \in Nat
  BY InvFacts
<1>marks. \A c \in Cell : /\ IsFiniteSet(MarksOf(live, c))
                          /\ Cardinality(MarksOf(live, c)) \in Nat
  BY InvFacts
<1>cells. \A c \in Cell : /\ cells[c] = Cardinality(MarksOf(live, c)) + residue[c]
                          /\ cells[c] <= Limit
  BY InvFacts
<1>count. IsFiniteSet(InsertionsOf(live)) /\ n = Cardinality(InsertionsOf(live))
  BY InvFacts
<1>1. /\ live[key] > 0 /\ live' \in [Key -> Nat] /\ live'[key] = live[key] - 1
      /\ \A k \in Key \ {key} : live'[k] = live[k]
  BY <1>types DEF LedgerRemove
<1>2. /\ residue' = residue /\ Limit' = Limit
      /\ cells' = Lowered(cells, key)
      /\ n' = IF n > 0 THEN n - 1 ELSE n
  BY DEF LedgerRemove, Remove, Limit
<1>3. \A c \in Cell : /\ IsFiniteSet(MarksOf(live', c))
                      /\ Cardinality(MarksOf(live, c))
                           = Cardinality(MarksOf(live', c)) + Hits(key, K, c)
  <2>1. live \in [Key -> Nat]
    BY <1>types
  <2>2. \A c \in Cell : IsFiniteSet(MarksOf(live, c))
    BY <1>marks
  <2>3. QED
    BY <1>1, <2>1, <2>2, OneLess
<1>4. \A c \in Cell : /\ Cardinality(MarksOf(live', c)) \in Nat
                      /\ Hits(key, K, c) \in Nat
  BY <1>3, FS_CardinalityType, HitsCount, SizeAssumption
<1>5. ASSUME NEW c \in Cell
      PROVE  /\ cells'[c] = cells[c] - Hits(key, K, c)
             /\ cells'[c] = Cardinality(MarksOf(live', c)) + residue[c]
             /\ cells'[c] \in 0 .. Limit
  <2>1. cells[c] = Cardinality(MarksOf(live, c)) + residue[c] /\ cells[c] <= Limit
    BY <1>cells
  <2>2. Cardinality(MarksOf(live, c)) = Cardinality(MarksOf(live', c)) + Hits(key, K, c)
    BY <1>3
  <2>3. residue[c] \in Nat /\ cells[c] \in Nat /\ Limit \in Nat
    BY <1>types
  <2>4. cells[c] - Hits(key, K, c) = Cardinality(MarksOf(live', c)) + residue[c]
    BY <1>4, <2>1, <2>2, <2>3
  <2>5. cells'[c] = IF cells[c] > Hits(key, K, c) THEN cells[c] - Hits(key, K, c) ELSE 0
    BY <1>2 DEF Lowered
  <2>6. QED
    BY <1>4, <2>1, <2>3, <2>4, <2>5
<1>6. /\ IsFiniteSet(InsertionsOf(live'))
      /\ Cardinality(InsertionsOf(live)) = Cardinality(InsertionsOf(live')) + 1
  <2>1. live \in [Key -> Nat]
    BY <1>types
  <2>2. IsFiniteSet(InsertionsOf(live))
    BY <1>count
  <2>3. QED
    BY <1>1, <2>1, <2>2, InsertionsLess
<1>7. n' = Cardinality(InsertionsOf(live')) /\ n' \in Nat
  <2>1. Cardinality(InsertionsOf(live')) \in Nat
    BY <1>6, FS_CardinalityType
  <2>2. QED
    BY <1>2, <1>6, <1>count, <2>1
<1>8. LedgerTypeOK'
  <2>1. cells' \in [Cell -> 0 .. Limit']
    BY <1>2, <1>5 DEF Lowered
  <2>2. live' \in [Key -> Nat] /\ residue' \in [Cell -> Nat]
    BY <1>1, <1>2, <1>types
  <2>3. QED
    BY <1>7, <2>1, <2>2 DEF LedgerInv, LedgerTypeOK, TypeOK, LedgerRemove, Remove, Returns
<1>9. Accounting'
  BY <1>2, <1>5 DEF Accounting
<1>10. CountIsLive'
  BY <1>7 DEF CountIsLive
<1>11. QED
  BY <1>3, <1>6, <1>8, <1>9, <1>10 DEF LedgerInv

\* Remove of an absent key and Contains leave everything but the answer alone.
LEMMA ReadStep ==
  ASSUME LedgerInv, NEW key \in Key, LedgerRead(key)
  PROVE  LedgerInv'
<1>1. UNCHANGED <<cells, width, n, live, residue>>
  BY DEF LedgerRead, RemoveAbsent, Lookup
<1>2. last' \in [op : {"new", "add", "remove", "contains", "clear"},
                 key : Key \cup {NoKey}, out : {"ok", "overflow", "hit", "miss"}]
  BY DEF LedgerRead, RemoveAbsent, Lookup, Returns
<1>3. QED
  BY <1>1, <1>2 DEF LedgerInv, LedgerTypeOK, TypeOK, Limit, Accounting, CountIsLive

\* Clear (counting.go:148-151) empties the counters, and with it the ledger.
LEMMA ClearStep ==
  ASSUME LedgerInv, LedgerClear
  PROVE  LedgerInv'
<1>1. live' = [key \in Key |-> 0]
  BY DEF LedgerClear
<1>2. /\ residue' = [c \in Cell |-> 0] /\ cells' = [c \in Cell |-> 0]
      /\ n' = 0 /\ Limit' = Limit
  BY DEF LedgerClear, Clear, Limit
<1>3. LedgerTypeOK'
  BY <1>1, <1>2, InvFacts DEF LedgerInv, LedgerTypeOK, TypeOK, LedgerClear, Clear, Returns
<1>4. InsertionsOf(live') = {} /\ \A c \in Cell : MarksOf(live', c) = {}
  BY <1>1, NothingLive
<1>5. /\ IsFiniteSet(InsertionsOf(live')) /\ Cardinality(InsertionsOf(live')) = 0
      /\ \A c \in Cell : /\ IsFiniteSet(MarksOf(live', c))
                         /\ Cardinality(MarksOf(live', c)) = 0
  BY <1>4, FS_EmptySet
<1>6. Accounting' /\ CountIsLive'
  BY <1>2, <1>5 DEF Accounting, CountIsLive
<1>7. QED
  BY <1>3, <1>5, <1>6 DEF LedgerInv

\* Whatever the calls and their order, the invariant holds.
THEOREM LedgerInvariant == LedgerSpec => []LedgerInv
<1>1. LedgerInv /\ [LedgerNext]_ledgerVars => LedgerInv'
  <2> SUFFICES ASSUME LedgerInv, [LedgerNext]_ledgerVars PROVE LedgerInv'
    OBVIOUS
  <2>1. ASSUME NEW key \in Key, LedgerAdd(key) PROVE LedgerInv'
    BY <2>1, AddStep
  <2>2. ASSUME NEW key \in Key, NEW j \in Probes, LedgerOverflow(key, j) PROVE LedgerInv'
    BY <2>2, OverflowStep
  <2>3. ASSUME NEW key \in Key, LedgerRemove(key) PROVE LedgerInv'
    BY <2>3, RemoveStep
  <2>4. ASSUME NEW key \in Key, LedgerRead(key) PROVE LedgerInv'
    BY <2>4, ReadStep
  <2>5. CASE LedgerClear
    BY <2>5, ClearStep
  <2>6. CASE UNCHANGED ledgerVars
    BY <2>6 DEF ledgerVars, LedgerInv, LedgerTypeOK, TypeOK, Limit, Accounting, CountIsLive
  <2>7. QED
    BY <2>1, <2>2, <2>3, <2>4, <2>5, <2>6 DEF LedgerNext
<1>2. QED
  BY InitInv, <1>1, PTL DEF LedgerSpec

\* Type correctness of the filter and its ledger.
THEOREM LedgerTypeCorrect == LedgerSpec => []LedgerTypeOK
<1>1. LedgerInv => LedgerTypeOK
  BY DEF LedgerInv
<1>2. QED
  BY <1>1, LedgerInvariant, PTL

\* Every counter holds what the live insertions and the failed Adds put there.
THEOREM CountersAccounted == LedgerSpec => []Accounting
<1>1. LedgerInv => Accounting
  BY DEF LedgerInv
<1>2. QED
  BY <1>1, LedgerInvariant, PTL

\* ApproximateCount is exact for a disciplined caller.
THEOREM CountExact == LedgerSpec => []CountIsLive
<1>1. LedgerInv => CountIsLive
  BY DEF LedgerInv
<1>2. QED
  BY <1>1, LedgerInvariant, PTL

\* A counter that a live key probes carries a mark of that key.
LEMMA LiveKeyMarked ==
  ASSUME LedgerInv, NEW key \in Key, live[key] > 0
  PROVE  Contains(cells, key)
<1>types. /\ live \in [Key -> Nat] /\ cells \in [Cell -> Nat]
          /\ residue \in [Cell -> Nat] /\ n \in Nat /\ Limit \in Nat
  BY InvFacts
<1>marks. \A c \in Cell : /\ IsFiniteSet(MarksOf(live, c))
                          /\ Cardinality(MarksOf(live, c)) \in Nat
  BY InvFacts
<1>cells. \A c \in Cell : /\ cells[c] = Cardinality(MarksOf(live, c)) + residue[c]
                          /\ cells[c] <= Limit
  BY InvFacts
<1>count. IsFiniteSet(InsertionsOf(live)) /\ n = Cardinality(InsertionsOf(live))
  BY InvFacts
<1> SUFFICES ASSUME NEW i \in Probes PROVE cells[Probe[key][i]] # 0
  BY DEF Contains
<1> DEFINE c == Probe[key][i]
<1>1. c \in Cell
  BY OwnHit
<1>2. <<key, 1, i>> \in MarksOf(live, c)
  <2>1. 1 \in 1 .. live[key]
    BY <1>types
  <2>2. i \in Landing(key, c)
    BY DEF Landing
  <2>3. QED
    BY <2>1, <2>2 DEF MarksOf
<1>3. Cardinality(MarksOf(live, c)) # 0
  BY <1>1, <1>2, <1>marks, FS_EmptySet
<1>4. cells[c] = Cardinality(MarksOf(live, c)) + residue[c]
  BY <1>1, <1>cells
<1>5. Cardinality(MarksOf(live, c)) \in Nat /\ residue[c] \in Nat
  BY <1>1, <1>marks, <1>types
<1> HIDE DEF c
<1>6. cells[c] # 0
  BY <1>3, <1>4, <1>5
<1>7. QED
  BY <1>6 DEF c

\* With the counters accounted for, a live key is found.
LEMMA InvNoFalseNegative == LedgerInv => NoFalseNegative
  BY LiveKeyMarked DEF NoFalseNegative

\* No false negatives: a key with a live insertion is always found.
THEOREM FoundWhileLive == LedgerSpec => []NoFalseNegative
  BY InvNoFalseNegative, LedgerInvariant, PTL

\* The step that HeadroomHonoured forbids does not exist.
LEMMA HeadroomStep ==
  ASSUME LedgerInv, LedgerNext, NEW key \in Key,
         last'.op = "add", last'.key = key,
         \A c \in Cell : Hits(key, K, c) <= CounterHeadroom
  PROVE  last'.out = "ok"
<1>1. ASSUME NEW k \in Key, LedgerAdd(k) PROVE last'.out = "ok"
  BY <1>1 DEF LedgerAdd, Add, Returns
<1>2. ASSUME NEW k \in Key, NEW j \in Probes, LedgerOverflow(k, j) PROVE FALSE
  <2>1. TypeOK
    BY DEF LedgerInv, LedgerTypeOK
  <2>2. k = key
    BY <1>2 DEF LedgerOverflow, AddOverflow, Returns
  <2>3. AddOverflow(key, j)
    BY <1>2, <2>2 DEF LedgerOverflow
  <2>4. QED
    BY <2>1, <2>3, HeadroomSuffices
<1>3. ASSUME NEW k \in Key, LedgerRemove(k) \/ LedgerRead(k) PROVE last'.op # "add"
  BY <1>3 DEF LedgerRemove, LedgerRead, Remove, RemoveAbsent, Lookup, Returns
<1>4. ASSUME LedgerClear PROVE last'.op # "add"
  BY <1>4 DEF LedgerClear, Clear, Returns
<1>5. QED
  BY <1>1, <1>2, <1>3, <1>4 DEF LedgerNext

\* CounterHeadroom is a promise: while it covers the hits of a key, an Add of
\* that key returns nil (counting.go:70-79 and 86-88).
THEOREM HeadroomKept == LedgerSpec => HeadroomHonoured
<1>1. LedgerInv /\ [LedgerNext]_ledgerVars =>
        [\A key \in Key :
           (/\ last'.op = "add" /\ last'.key = key
            /\ \A c \in Cell : Hits(key, K, c) <= CounterHeadroom)
             => last'.out = "ok"]_ledgerVars
  BY HeadroomStep
<1>2. QED
  BY <1>1, LedgerInvariant, PTL DEF LedgerSpec, HeadroomHonoured

-----------------------------------------------------------------------------
(* The filter implements ApproxBag.                                        *)

\* All k increments of a key admit it.
LEMMA RaisedAdmits ==
  ASSUME NEW cs \in [Cell -> Nat], NEW key \in Key
  PROVE  Contains(Raised(cs, key, K), key)
<1> SUFFICES ASSUME NEW i \in Probes PROVE Raised(cs, key, K)[Probe[key][i]] # 0
  BY DEF Contains
<1>1. Probe[key][i] \in Cell /\ Hits(key, K, Probe[key][i]) > 0
  BY OwnHit
<1>2. Hits(key, K, Probe[key][i]) \in Nat /\ cs[Probe[key][i]] \in Nat
  BY <1>1, HitsCount, SizeAssumption
<1>3. QED
  BY <1>1, <1>2 DEF Raised

\* Decrements admit no key that was not admitted (counting.go:105-108).
LEMMA LoweredAdmitsNone ==
  ASSUME NEW cs \in [Cell -> Nat], NEW key \in Key,
         NEW k \in Key, Contains(Lowered(cs, key), k)
  PROVE  Contains(cs, k)
<1> SUFFICES ASSUME NEW i \in Probes PROVE cs[Probe[k][i]] # 0
  BY DEF Contains
<1> DEFINE c == Probe[k][i]
<1>1. c \in Cell
  BY OwnHit
<1>2. Lowered(cs, key)[c] # 0
  BY DEF Contains
<1>3. Hits(key, K, c) \in Nat /\ cs[c] \in Nat
  BY <1>1, HitsCount, SizeAssumption
<1>4. Lowered(cs, key)[c] = IF cs[c] > Hits(key, K, c) THEN cs[c] - Hits(key, K, c) ELSE 0
  BY <1>1 DEF Lowered
<1> HIDE DEF c
<1>5. cs[c] # 0
  BY <1>2, <1>3, <1>4
<1>6. QED
  BY <1>5 DEF c

\* Every step of the filter and its ledger is a step of ApproxBag.
LEMMA StepKeepsPromise ==
  ASSUME LedgerInv, LedgerInv', [LedgerNext]_ledgerVars
  PROVE  [Promise!BagNext]_(Promise!bagVars)
<1> DEFINE adm == {k \in Key : Contains(cells, k)}
<1>types. cells \in [Cell -> Nat] /\ K \in 0 .. K /\ Probes \subseteq 0 .. K
  BY InvFacts, SizeAssumption DEF Probes
<1>1. ASSUME NEW key \in Key, LedgerAdd(key)
      PROVE  Promise!Insert(key)
  <2>1. cells' = Raised(cells, key, K)
    BY <1>1 DEF LedgerAdd, Add
  <2>2. adm \cup {key} \subseteq adm'
    BY <1>types, <2>1, RaisedKeeps, RaisedAdmits
  <2>3. QED
    BY <1>1, <2>2 DEF Promise!Insert, Promise!Answer, LedgerAdd, Add, Returns
<1>2. ASSUME NEW key \in Key, NEW j \in Probes, LedgerOverflow(key, j)
      PROVE  Promise!FailedInsert(key)
  <2>1. cells' = Raised(cells, key, j)
    BY <1>2 DEF LedgerOverflow, AddOverflow
  <2>2. adm \subseteq adm'
    BY <1>types, <2>1, RaisedKeeps
  <2>3. QED
    BY <1>2, <2>2 DEF Promise!FailedInsert, Promise!Answer, LedgerOverflow, AddOverflow, Returns
<1>3. ASSUME NEW key \in Key, LedgerRemove(key)
      PROVE  Promise!Delete(key)
  <2>1. cells' = Lowered(cells, key)
    BY <1>3 DEF LedgerRemove, Remove
  <2>2. adm' \subseteq adm
    BY <1>types, <2>1, LoweredAdmitsNone
  <2>3. \A k \in Key : live'[k] > 0 => Contains(cells', k)
    <3>1. NoFalseNegative'
      BY InvNoFalseNegative, PTL
    <3>2. QED
      BY <3>1 DEF NoFalseNegative
  <2>4. QED
    BY <1>3, <2>2, <2>3 DEF Promise!Delete, Promise!Present, Promise!Answer, LedgerRemove, Remove, Returns
<1>4. ASSUME NEW key \in Key, LedgerRead(key)
      PROVE  Promise!DeleteAbsent(key) \/ Promise!Query(key)
  BY <1>4 DEF Promise!DeleteAbsent, Promise!Query, Promise!Answer, LedgerRead, RemoveAbsent, Lookup, Returns
<1>5. ASSUME LedgerClear
      PROVE  Promise!Reset
  <2>1. 0 \in Probes
    BY SizeAssumption DEF Probes
  <2>2. cells' = [c \in Cell |-> 0]
    BY <1>5 DEF LedgerClear, Clear
  <2>3. adm' = {}
    BY <2>1, <2>2, OwnHit DEF Contains
  <2>4. QED
    BY <1>5, <2>3 DEF Promise!Reset, Promise!Answer, LedgerClear, Clear, Returns
<1>6. CASE UNCHANGED ledgerVars
  BY <1>6 DEF ledgerVars, Promise!bagVars
<1>7. QED
  BY <1>1, <1>2, <1>3, <1>4, <1>5, <1>6 DEF LedgerNext, Promise!BagNext

\* The counting filter, used as its documentation asks, is an approximate bag.
THEOREM LedgerKeepsPromise == LedgerSpec => KeepsPromise
<1>1. LedgerInit => Promise!BagInit
  <2> SUFFICES ASSUME LedgerInit PROVE Promise!BagInit
    OBVIOUS
  <2>1. 0 \in Probes
    BY SizeAssumption DEF Probes
  <2>2. {key \in Key : Contains(cells, key)} = {}
    BY <2>1, OwnHit DEF LedgerInit, Init, Contains
  <2>3. QED
    BY <2>2 DEF LedgerInit, Init, Promise!BagInit
<1>2. LedgerInv /\ LedgerInv' /\ [LedgerNext]_ledgerVars
        => [Promise!BagNext]_(Promise!bagVars)
  BY StepKeepsPromise
<1>3. QED
  BY <1>1, <1>2, LedgerInvariant, PTL DEF LedgerSpec, KeepsPromise, Promise!BagSpec
=============================================================================
