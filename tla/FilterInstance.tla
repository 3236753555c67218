--------------------------- MODULE FilterInstance ---------------------------
(***************************************************************************)
(* The small filter TLC checks: four counters, three probes, and keys      *)
(* whose probes overlap, repeat a counter and cover one another's, so that *)
(* there are false positives.                                              *)
(***************************************************************************)
EXTENDS Integers, Bitwise

DH == INSTANCE DoubleHash WITH WordSize <- 16, BitAnd <- &

\* Probes 0 1 2, then 1 3 1 (b repeats a counter), then 2 1 0: once a is in, c
\* is a false positive.
MCHash == [a |-> DH!splitDoubleHashPair(0, 1),
           b |-> DH!splitDoubleHashPair(1, 2),
           c |-> DH!splitDoubleHashPair(2, 15)]

MCKey == {"a", "b", "c"}
MCM == 4
MCK == 3
MCProbe == [key \in MCKey |-> [i \in 0 .. MCK-1 |->
              DH!bitIndex(MCHash[key][1], MCHash[key][2], MCM, i)]]

\* Widths 2 and 4 at their real limits; width 8 stands for the unpacked stores,
\* whose code is the same at every limit and whose limit is scaled down.
MCCounterMax == [w \in {2, 4, 8} |-> IF w = 2 THEN 3 ELSE IF w = 4 THEN 15 ELSE 4]
=============================================================================
