---------------------------- MODULE CountingLoop ----------------------------
(***************************************************************************)
(* The probe loops of bloom.CountingFilter (bloom/counting.go) over the    *)
(* counter stores of bloom/counters.go, one counter access per step.       *)
(* Width 2 packs four counters into a byte and width 4 two; the other      *)
(* widths keep one counter per element.  The module is shown to implement  *)
(* CountingFilter, which knows neither loops nor bytes.                    *)
(***************************************************************************)
EXTENDS Integers, FiniteSets

CONSTANTS Key, NoKey, M, K, Width, CounterMax, Probe

Cell == 0 .. M-1

ASSUME LoopAssumption ==
  /\ M \in Nat \ {0} /\ K \in Nat \ {0}
  /\ NoKey \notin Key
  /\ CounterMax \in [Width -> Nat \ {0}]
  /\ Probe \in [Key -> [0 .. K-1 -> Cell]]
  /\ 2 \in Width => CounterMax[2] = 3
  /\ 4 \in Width => CounterMax[4] = 15

VARIABLES
  data,    \* the backing slice of the store
  width,   \* cf.width
  n,       \* cf.n
  last,    \* the last call that returned, and its result
  op,      \* the loop that runs: of Add, Contains, or Remove's check and decrements
  key,     \* its key
  i,       \* its loop variable
  before   \* history: the counters when the running call began

loopVars == <<data, width, n, last, op, key, i, before>>

Limit == CounterMax[width]

-----------------------------------------------------------------------------
(* The layout of the stores.                                               *)

\* How many counters share an element of the backing slice.
PerByte == IF width = 2 THEN 4 ELSE IF width = 4 THEN 2 ELSE 1

StorageLen == (M + PerByte - 1) \div PerByte

\* The place value of a counter in its byte: a shift of two bits per slot for
\* width 2, the high nibble first for width 4.
Unit(idx) ==
  IF width = 2 THEN <<1, 4, 16, 64>>[(idx % 4) + 1]
  ELSE IF width = 4 THEN (IF idx % 2 = 0 THEN 16 ELSE 1)
  ELSE 1

readCounter(d, idx) == (d[idx \div PerByte] \div Unit(idx)) % (Limit + 1)

\* Variant: the bits above the counter are cleared along with it.
writeCounterCut(d, idx, v) ==
  [d EXCEPT ![idx \div PerByte] = (@ % Unit(idx)) + v * Unit(idx)]

\* The bits below the counter and those above it stay.
writeCounter(d, idx, v) ==
  LET top == Unit(idx) * (Limit + 1)
  IN  [d EXCEPT ![idx \div PerByte] = (@ % Unit(idx)) + v * Unit(idx) + (@ \div top) * top]

Decoded(d) == [idx \in Cell |-> readCounter(d, idx)]

\* The counters together with the unused slots of the last byte.
Slots(d) == [idx \in 0 .. StorageLen * PerByte - 1 |-> readCounter(d, idx)]

\* Every variable stays in its type.  That the insert count does needs its guard
\* (counting.go:108): increments that overflowed Adds leave behind, and keys that
\* share counters, let Remove succeed more often than Add did.
LoopTypeOK ==
  /\ width \in Width
  /\ data \in [0 .. StorageLen - 1 -> Nat]
  /\ n \in Nat
  /\ op \in {"idle", "add", "contains", "check", "dec"}
  /\ key \in Key \cup {NoKey}
  /\ i \in 0 .. K

-----------------------------------------------------------------------------
(* Calls and their loops.                                                  *)

LoopInit ==
  /\ width \in Width
  /\ data = [b \in 0 .. StorageLen - 1 |-> 0]
  /\ n = 0
  /\ last = [op |-> "new", key |-> NoKey, out |-> "ok"]
  /\ op = "idle" /\ key = NoKey /\ i = 0
  /\ before = Decoded(data)

Call(o, k) ==
  /\ op = "idle"
  /\ op' = o /\ key' = k /\ i' = 0
  /\ UNCHANGED <<data, width, n, last, before>>

\* Return from call o.  A return is where history is cut: nothing runs.
Return(o, out) ==
  /\ last' = [op |-> o, key |-> key, out |-> out]
  /\ op' = "idle" /\ key' = NoKey /\ i' = 0
  /\ before' = Decoded(data')
  /\ UNCHANGED width

Idx == Probe[key][i]

\* Variant: the loop starts over instead of advancing.
ProbeOnStuck ==
  /\ i' = 0
  /\ UNCHANGED <<width, n, last, op, key, before>>

\* On to the next probe.
ProbeOn ==
  /\ i' = i + 1
  /\ UNCHANGED <<width, n, last, op, key, before>>

IncProbe ==
  /\ op = "add" /\ i < K
  /\ readCounter(data, Idx) # Limit
  /\ data' = writeCounter(data, Idx, readCounter(data, Idx) + 1)
  /\ ProbeOn

\* Variant: Add undoes its first increment before it reports the overflow.
IncOverflowRollback ==
  /\ op = "add" /\ i < K
  /\ readCounter(data, Idx) = Limit
  /\ data' = writeCounter(data, Probe[key][0],
               IF readCounter(data, Probe[key][0]) > 0
                 THEN readCounter(data, Probe[key][0]) - 1 ELSE 0)
  /\ UNCHANGED n
  /\ Return("add", "overflow")

IncOverflow ==
  /\ op = "add" /\ i < K
  /\ readCounter(data, Idx) = Limit
  /\ UNCHANGED <<data, n>>
  /\ Return("add", "overflow")

AddReturn ==
  /\ op = "add" /\ i = K
  /\ n' = n + 1
  /\ UNCHANGED data
  /\ Return("add", "ok")

TestProbe ==
  /\ op \in {"contains", "check"} /\ i < K
  /\ readCounter(data, Idx) # 0
  /\ UNCHANGED data
  /\ ProbeOn

\* A zero counter ends the lookup at once, and Remove with it.
ProbeMiss ==
  /\ op \in {"contains", "check"} /\ i < K
  /\ readCounter(data, Idx) = 0
  /\ UNCHANGED <<data, n>>
  /\ Return(IF op = "check" THEN "remove" ELSE "contains", "miss")

ContainsReturn ==
  /\ op = "contains" /\ i = K
  /\ UNCHANGED <<data, n>>
  /\ Return("contains", "hit")

StartDecrements ==
  /\ op = "check" /\ i = K
  /\ op' = "dec" /\ i' = 0
  /\ UNCHANGED <<data, width, n, last, key, before>>

DecProbe ==
  /\ op = "dec" /\ i < K
  /\ data' = LET v == readCounter(data, Idx)
             IN  IF v > 0 THEN writeCounter(data, Idx, v - 1) ELSE data
  /\ ProbeOn

\* Variant: the count falls without a guard.
RemoveReturnUnguarded ==
  /\ op = "dec" /\ i = K
  /\ n' = n - 1
  /\ UNCHANGED data
  /\ Return("remove", "hit")

RemoveReturn ==
  /\ op = "dec" /\ i = K
  /\ n' = IF n > 0 THEN n - 1 ELSE n
  /\ UNCHANGED data
  /\ Return("remove", "hit")

ClearStore ==
  /\ op = "idle"
  /\ data' = [b \in 0 .. StorageLen - 1 |-> 0]
  /\ n' = 0
  /\ last' = [op |-> "clear", key |-> NoKey, out |-> "ok"]
  /\ before' = Decoded(data')
  /\ UNCHANGED <<width, op, key, i>>

\* The steps of a call that has begun.
LoopStep ==
  \/ IncProbe \/ IncOverflow \/ AddReturn
  \/ TestProbe \/ ProbeMiss \/ ContainsReturn
  \/ StartDecrements \/ DecProbe \/ RemoveReturn

LoopNext ==
  \/ \E o \in {"add", "contains", "check"}, k \in Key : Call(o, k)
  \/ LoopStep
  \/ ClearStore

\* A call that has begun runs on: the goroutine that made it executes the loop.
LoopSpec == LoopInit /\ [][LoopNext]_loopVars /\ WF_loopVars(LoopStep)

-----------------------------------------------------------------------------
(* Properties.                                                             *)

\* The loops implement the calls of CountingFilter: however many increments or
\* decrements an Add or Remove is made of, probes that repeat a counter and the
\* early return on overflow included, the call as a whole does what that module
\* says (counting.go:82-125 over each store of counters.go).
Filter == INSTANCE CountingFilter WITH
  cells <- IF op \in {"add", "dec"} THEN before ELSE Decoded(data)

ImplementsFilter == Filter!Spec

\* A step of a loop changes at most one counter, by one, and leaves its neighbours
\* in the byte and the unused bits of the last byte alone (writeCounter at
\* counters.go:101-105 and writeNibble at counters.go:178-185).
OneCounterPerStep ==
  [][(op # "idle" /\ data' # data) =>
       LET old == Slots(data)
           new == Slots(data')
       IN  /\ i < K
           /\ new[Idx] - old[Idx] \in {-1, 1}
           /\ \A idx \in DOMAIN old \ {Idx} : new[idx] = old[idx]]_loopVars

\* Every call returns: its loops are bounded by k (counting.go:84, 102, 118).
CallsReturn == (op # "idle") ~> (op = "idle")
=============================================================================
