---------------------------- MODULE BloomFilter -----------------------------
(***************************************************************************)
(* bloom.Filter (bloom/bloom.go): the classic filter, one call per step.   *)
(* A byte of the bit slice is the set of its bits that are 1.              *)
(***************************************************************************)
EXTENDS Integers, FiniteSets

CONSTANTS Key, NoKey, M, K, Probe

ASSUME FilterAssumption ==
  /\ M \in Nat \ {0} /\ K \in Nat \ {0}
  /\ Probe \in [Key -> [0 .. K-1 -> 0 .. M-1]]
  /\ NoKey \notin Key

VARIABLES
  bits,      \* f.bits
  inserts,   \* f.n
  answer,    \* the last call on the filter and its result
  added      \* history: how often each key was added

filterVars == <<bits, inserts, answer, added>>

Byte == 0 .. ((M + 7) \div 8) - 1

FilterTypeOK ==
  /\ bits \in [Byte -> SUBSET (0 .. 7)]
  /\ inserts \in Nat
  /\ added \in [Key -> Nat]

FilterInit ==
  /\ bits = [b \in Byte |-> {}]
  /\ inserts = 0
  /\ answer = [op |-> "new", key |-> NoKey, out |-> "ok"]
  /\ added = [key \in Key |-> 0]

\* Variant: 1 << idx without the modulus: a position past the first byte is
\* shifted out of it.
SetProbedFirstByte(bs, key) ==
  [bs EXCEPT ![0] = @ \cup {Probe[key][i] : i \in {j \in 0 .. K-1 : Probe[key][j] < 8}}]

\* Variant: a byte is overwritten, not or-ed into.
SetProbedOver(bs, key) ==
  [b \in Byte |->
     LET new == {Probe[key][i] % 8 : i \in {j \in 0 .. K-1 : Probe[key][j] \div 8 = b}}
     IN  IF new = {} THEN bs[b] ELSE new]

SetProbed(bs, key) ==
  [b \in Byte |-> bs[b] \cup
     {Probe[key][i] % 8 : i \in {j \in 0 .. K-1 : Probe[key][j] \div 8 = b}}]

\* Variant: one probed bit is enough.
HasSome(bs, key) == \E i \in 0 .. K-1 : (Probe[key][i] % 8) \in bs[Probe[key][i] \div 8]

Has(bs, key) == \A i \in 0 .. K-1 : (Probe[key][i] % 8) \in bs[Probe[key][i] \div 8]

FilterAdd(key) ==
  /\ bits' = SetProbed(bits, key)
  /\ inserts' = inserts + 1
  /\ answer' = [op |-> "add", key |-> key, out |-> "ok"]
  /\ added' = [added EXCEPT ![key] = @ + 1]

FilterContains(key) ==
  /\ answer' = [op |-> "contains", key |-> key, out |-> IF Has(bits, key) THEN "hit" ELSE "miss"]
  /\ UNCHANGED <<bits, inserts, added>>

FilterNext == \E key \in Key : FilterAdd(key) \/ FilterContains(key)

FilterSpec == FilterInit /\ [][FilterNext]_filterVars

-----------------------------------------------------------------------------

\* The positions of the bits that are 1; FillRatio is their number over m.
SetBits == {p \in 0 .. M+7 : p \div 8 \in Byte /\ (p % 8) \in bits[p \div 8]}

\* The bits that are 1 are exactly those the added keys probe: none is lost when
\* keys share a byte, none is set outside the m positions, so that FillRatio
\* stays within 1 (bloom.go:38-45 and 75-81).
BitsAreProbed ==
  SetBits = {Probe[key][i] : key \in {k \in Key : added[k] > 0}, i \in 0 .. K-1}

\* The filter keeps the promise of ApproxBag with nothing ever deleted: a key
\* once admitted stays admitted, and every added key is admitted (bloom.go:38-57).
Promise == INSTANCE ApproxBag WITH
  bag <- added, admitted <- {key \in Key : Has(bits, key)}, last <- answer

FilterKeepsPromise == Promise!BagSpec
=============================================================================
