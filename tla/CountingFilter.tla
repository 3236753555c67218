--------------------------- MODULE CountingFilter ---------------------------
(***************************************************************************)
(* bloom.CountingFilter (bloom/counting.go): a Bloom filter whose bits are *)
(* counters, so that a key can be removed again.  This module describes    *)
(* one call per step, by what the call leaves behind and what it returns;  *)
(* CountingLoop describes the probe loops of the calls one counter at a    *)
(* time and on the packed bytes, and is shown to implement this module.    *)
(*                                                                         *)
(* The hasher is a parameter: Probe[key][i] is the counter that iteration  *)
(* i of the probe loop touches, bitIndex(h1, h2, m, i) in the code.  The   *)
(* k probes of a key need not be distinct.                                 *)
(***************************************************************************)
EXTENDS Integers, FiniteSets

CONSTANTS
  Key,         \* the keys callers use
  NoKey,       \* stands for the key of a call that has none
  M,           \* number of counters, m
  K,           \* number of probes per key, k
  Width,       \* the counter widths NewCountingFilterFrom may choose
  CounterMax,  \* the largest value of a counter of each width
  Probe        \* the counters a key's probes touch, in order

Cell == 0 .. M-1
Probes == 0 .. K-1

ASSUME KeyAssumption == NoKey \notin Key
ASSUME SizeAssumption == M \in Nat \ {0} /\ K \in Nat \ {0}
ASSUME WidthAssumption == CounterMax \in [Width -> Nat \ {0}]
ASSUME ProbeAssumption == Probe \in [Key -> [Probes -> Cell]]

VARIABLES
  cells,   \* the counters held by cf.store
  width,   \* cf.width, fixed when the filter is made
  n,       \* cf.n
  last     \* the last call and what it returned

vars == <<cells, width, n, last>>

Limit == CounterMax[width]

TypeOK ==
  /\ width \in Width
  /\ cells \in [Cell -> 0 .. Limit]
  /\ n \in Nat
  /\ last \in [op : {"new", "add", "remove", "contains", "clear"},
               key : Key \cup {NoKey}, out : {"ok", "overflow", "hit", "miss"}]

Returns(op, key, out) == last' = [op |-> op, key |-> key, out |-> out]

-----------------------------------------------------------------------------
(* What a loop over a key's probes does to the counters.                   *)

\* How many of the first j probes of key land on counter c.
Hits(key, j, c) == Cardinality({i \in 0 .. j-1 : Probe[key][i] = c})

\* The counters after the first j probes of key were incremented.
Raised(cs, key, j) == [c \in Cell |-> cs[c] + Hits(key, j, c)]

\* None of those increments meets a counter that is full.
Fits(cs, key, j) == \A c \in Cell : Raised(cs, key, j)[c] <= Limit

\* Variant: a counter a key probes more than once is decremented once.
LoweredOnce(cs, key) ==
  [c \in Cell |-> IF cs[c] > 0 /\ Hits(key, K, c) > 0 THEN cs[c] - 1 ELSE cs[c]]

\* Variant: one decrement too many.
LoweredTwice(cs, key) ==
  LET d == [c \in Cell |-> Hits(key, K, c) + IF Hits(key, K, c) > 0 THEN 1 ELSE 0]
  IN  [c \in Cell |-> IF cs[c] > d[c] THEN cs[c] - d[c] ELSE 0]

\* The counters after every probe of key was decremented; a decrement stops at 0.
Lowered(cs, key) ==
  [c \in Cell |-> IF cs[c] > Hits(key, K, c) THEN cs[c] - Hits(key, K, c) ELSE 0]

Contains(cs, key) == \A i \in Probes : cs[Probe[key][i]] # 0

-----------------------------------------------------------------------------
(* What the filter reports about its counters.                             *)

\* Variant: the scan starts at the second counter.
MaxCounterShort == CHOOSE v \in {cells[c] : c \in 1 .. M-1} \cup {0} :
  \A c \in 1 .. M-1 : cells[c] <= v

MaxCounter == CHOOSE v \in {cells[c] : c \in Cell} : \A c \in Cell : cells[c] <= v

CounterHeadroom == IF MaxCounter >= Limit THEN 0 ELSE Limit - MaxCounter

-----------------------------------------------------------------------------
(* The calls.                                                              *)

Init ==
  /\ width \in Width
  /\ cells = [c \in Cell |-> 0]
  /\ n = 0
  /\ last = [op |-> "new", key |-> NoKey, out |-> "ok"]

\* Variant: no increment is ever refused.
AddUnchecked(key) ==
  /\ Returns("add", key, "ok")
  /\ cells' = Raised(cells, key, K)
  /\ n' = n + 1
  /\ UNCHANGED width

\* Variant: a full counter is left at its limit and Add goes on.
AddSaturating(key) ==
  /\ Returns("add", key, "ok")
  /\ cells' = [c \in Cell |-> IF Raised(cells, key, K)[c] <= Limit
                                THEN Raised(cells, key, K)[c] ELSE Limit]
  /\ n' = n + 1
  /\ UNCHANGED width

Add(key) ==
  /\ Returns("add", key, "ok")
  /\ Fits(cells, key, K)
  /\ cells' = Raised(cells, key, K)
  /\ n' = n + 1
  /\ UNCHANGED width

\* Variant: the failing Add is counted.
AddOverflowCounted(key, j) ==
  /\ Returns("add", key, "overflow")
  /\ Fits(cells, key, j)
  /\ ~Fits(cells, key, j+1)
  /\ cells' = Raised(cells, key, j)
  /\ n' = n + 1
  /\ UNCHANGED width

\* Probe j meets a full counter: Add returns ErrCounterOverflow at once, and
\* the increments of the probes before it stay.
AddOverflow(key, j) ==
  /\ Returns("add", key, "overflow")
  /\ Fits(cells, key, j)
  /\ ~Fits(cells, key, j+1)
  /\ cells' = Raised(cells, key, j)
  /\ UNCHANGED <<n, width>>

Remove(key) ==
  /\ Returns("remove", key, "hit")
  /\ Contains(cells, key)
  /\ cells' = Lowered(cells, key)
  /\ n' = IF n > 0 THEN n - 1 ELSE n
  /\ UNCHANGED width

\* Some probed counter is zero: Remove returns false and changes nothing.
RemoveAbsent(key) ==
  /\ Returns("remove", key, "miss")
  /\ ~Contains(cells, key)
  /\ UNCHANGED <<cells, n, width>>

Lookup(key) ==
  /\ Returns("contains", key, IF Contains(cells, key) THEN "hit" ELSE "miss")
  /\ UNCHANGED <<cells, n, width>>

Clear ==
  /\ Returns("clear", NoKey, "ok")
  /\ cells' = [c \in Cell |-> 0]
  /\ n' = 0
  /\ UNCHANGED width

Next ==
  \/ \E key \in Key : \/ Add(key)
                      \/ \E j \in Probes : AddOverflow(key, j)
                      \/ Remove(key)
                      \/ RemoveAbsent(key)
                      \/ Lookup(key)
  \/ Clear

Spec == Init /\ [][Next]_vars

-----------------------------------------------------------------------------
(* What holds however Add and Remove are used.                             *)

\* A Remove can only take away a key that shares a counter with the removed one,
\* and only when that shared counter drops to zero; a failed Add and a lookup
\* take nothing away (counting.go:97-99 states the risk of misuse).
LossNeedsSharedCounter ==
  [][\A key \in Key : (Contains(cells, key) /\ ~Contains(cells', key)) =>
       \/ last'.op = "clear"
       \/ /\ last'.op = "remove" /\ last'.out = "hit"
          /\ \E c \in Cell : /\ Hits(key, K, c) > 0 /\ Hits(last'.key, K, c) > 0
                             /\ cells[c] <= Hits(last'.key, K, c)]_vars
=============================================================================
