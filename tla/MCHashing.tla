----------------------------- MODULE MCHashing ------------------------------
(***************************************************************************)
(* The two halves of hashing a key: its bytes to two words (HashReads), or *)
(* two words to probes (StrideMeasure).  The variables of the other half   *)
(* rest.                                                                   *)
(***************************************************************************)
EXTENDS HashReads, StrideMeasure, Bitwise

\* Every tail after no, one and two blocks of the widest loop (64 bytes), and
\* the lengths around the wrap of siphash's length byte.
MCLen == (0..98) \cup (127..146) \cup (254..258)

\* Over words of four bits: powers of two, a prime and numbers with and without
\* odd divisors, with fewer probes than positions, as many, and more.
MCLayout == {<<1, 2>>, <<3, 5>>, <<4, 3>>, <<6, 4>>, <<6, 9>>, <<7, 3>>, <<8, 8>>, <<12, 5>>}

MCBitAnd(x, y) == x & y

VARIABLE half

HashingInit ==
  \/ half = "bytes" /\ HashInit /\ StrideInit /\ <<m, k>> = <<1, 2>>
  \/ half = "probes" /\ StrideInit /\ HashInit /\ fam = "fnv" /\ len = 0

HashingNext ==
  \/ half = "bytes" /\ HashNext /\ UNCHANGED <<half, strideVars>>
  \/ half = "probes" /\ StrideNext /\ UNCHANGED <<half, hashVars>>
  \/ half = "probes" /\ i = Samples /\ phase = "sample" /\ UNCHANGED <<half, hashVars, strideVars>>

HashingSpec == HashingInit /\ [][HashingNext]_<<half, hashVars, strideVars>>
=============================================================================
