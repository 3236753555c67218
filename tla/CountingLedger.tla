--------------------------- MODULE CountingLedger ---------------------------
(***************************************************************************)
(* The counting filter together with the ledger of a caller that keeps the *)
(* rule of bloom/counting.go:97: "Only call Remove for keys previously     *)
(* inserted with Add".  The ledger is what the caller knows and the filter *)
(* does not: how many insertions of each key it has not removed, and what  *)
(* the Adds that failed have left in the counters.                         *)
(***************************************************************************)
EXTENDS CountingFilter

VARIABLES
  live,     \* the insertions of each key that have not been removed
  residue   \* per counter, the increments of Adds that returned an error

ledgerVars == <<cells, width, n, last, live, residue>>

LedgerTypeOK ==
  /\ TypeOK
  /\ live \in [Key -> Nat]
  /\ residue \in [Cell -> Nat]

LedgerInit ==
  /\ Init
  /\ live = [key \in Key |-> 0]
  /\ residue = [c \in Cell |-> 0]

LedgerAdd(key) ==
  /\ Add(key)
  /\ live' = [live EXCEPT ![key] = @ + 1]
  /\ UNCHANGED residue

LedgerOverflow(key, j) ==
  /\ AddOverflow(key, j)
  /\ residue' = Raised(residue, key, j)
  /\ UNCHANGED live

LedgerRemove(key) ==
  /\ live[key] > 0
  /\ Remove(key)
  /\ live' = [live EXCEPT ![key] = @ - 1]
  /\ UNCHANGED residue

LedgerRead(key) ==
  /\ RemoveAbsent(key) \/ Lookup(key)
  /\ UNCHANGED <<live, residue>>

LedgerClear ==
  /\ Clear
  /\ live' = [key \in Key |-> 0]
  /\ residue' = [c \in Cell |-> 0]

LedgerNext ==
  \/ \E key \in Key : \/ LedgerAdd(key)
                      \/ \E j \in Probes : LedgerOverflow(key, j)
                      \/ LedgerRemove(key)
                      \/ LedgerRead(key)
  \/ LedgerClear

LedgerSpec == LedgerInit /\ [][LedgerNext]_ledgerVars

-----------------------------------------------------------------------------
(* One mark for each increment that a live insertion made to counter c: the *)
(* s-th live insertion of key marks c once for every probe that lands on it. *)

Landing(key, c) == {i \in Probes : Probe[key][i] = c}

MarksOf(b, c) == UNION {{key} \X (1 .. b[key]) \X Landing(key, c) : key \in Key}

InsertionsOf(b) == UNION {{key} \X (1 .. b[key]) : key \in Key}

\* Every counter is exactly the marks of the live insertions plus what failed
\* Adds left: no increment is lost, no decrement hits a neighbour or the floor.
\* About the increment loop of Add, its early return, and the decrements of
\* Remove (counting.go:84, 86 and 105).
Accounting ==
  \A c \in Cell : cells[c] = Cardinality(MarksOf(live, c)) + residue[c]

\* A key with a live insertion is found, and so can be removed: however calls
\* of other keys, failed Adds included, interleave with it (counting.go:116).
NoFalseNegative == \A key \in Key : live[key] > 0 => Contains(cells, key)

\* ApproximateCount is the number of live insertions (counting.go:90 and 110):
\* an Add that fails part-way is not counted, a Remove is counted once.
CountIsLive == n = Cardinality(InsertionsOf(live))

\* The inductive invariant behind the three: the counters and the count agree
\* with the ledger, whose sets are finite.
LedgerInv ==
  /\ LedgerTypeOK
  /\ \A c \in Cell : IsFiniteSet(MarksOf(live, c))
  /\ IsFiniteSet(InsertionsOf(live))
  /\ Accounting
  /\ CountIsLive

\* Headroom promises room: an Add whose key lands on no counter more often than
\* CounterHeadroom says there is room for does not return ErrCounterOverflow
\* (counting.go:70-79 against the full check of each inc).
HeadroomHonoured ==
  [][\A key \in Key :
       (/\ last'.op = "add" /\ last'.key = key
        /\ \A c \in Cell : Hits(key, K, c) <= CounterHeadroom)
         => last'.out = "ok"]_ledgerVars

\* The filter keeps the promise of ApproxBag: an admission is withdrawn only by
\* a removal or a Clear, and never from a key that is still in the bag.
Promise == INSTANCE ApproxBag WITH
  bag <- live, admitted <- {key \in Key : Contains(cells, key)}

KeepsPromise == Promise!BagSpec
=============================================================================
