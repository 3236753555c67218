----------------------------- MODULE DoubleHash -----------------------------
(***************************************************************************)
(* Double hashing (bloom/hash.go, hash_derive128.go): from the two words a *)
(* hasher derives from a key to the positions the key probes.  Words wrap  *)
(* at WordSize, 2^64 in the code.                                          *)
(***************************************************************************)
EXTENDS Integers

CONSTANTS
  WordSize,     \* the words are 0 .. WordSize-1
  BitAnd(_, _)     \* the bitwise and of two words, Go's &

\* A bit of BitAnd(x, y) is one when it is one in both, the lowest bit first.
ASSUME AndAssumption ==
  \A x, y \in 0 .. WordSize :
    /\ BitAnd(x, y) \in Nat
    /\ BitAnd(x, y) = 2 * BitAnd(x \div 2, y \div 2) + (x % 2) * (y % 2)

Word == 0 .. WordSize-1

ensureH2NonZero(h2) == IF h2 = 0 THEN 1 ELSE h2

splitDoubleHashPair(lo, hi) == <<lo, ensureH2NonZero(hi)>>

\* m is a power of two: no bit of m survives m & (m-1).
PowerOfTwo(m) == m > 0 /\ BitAnd(m, m-1) = 0

\* A word is a whole number of bits.
ASSUME WordAssumption == WordSize \in Nat /\ PowerOfTwo(WordSize)

\* Variant: the mask is taken for every m.
bitIndexMasked(h1, h2, m, i) == BitAnd((h1 + i * h2) % WordSize, m-1)

\* Variant: the mask keeps one bit too many.
bitIndexWide(h1, h2, m, i) ==
  LET sum == (h1 + i * h2) % WordSize
  IN  IF PowerOfTwo(m) THEN BitAnd(sum, m) ELSE sum % m

bitIndex(h1, h2, m, i) ==
  LET sum == (h1 + i * h2) % WordSize
  IN  IF PowerOfTwo(m) THEN BitAnd(sum, m-1) ELSE sum % m
=============================================================================
