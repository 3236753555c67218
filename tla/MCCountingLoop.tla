--------------------------- MODULE MCCountingLoop ---------------------------
(***************************************************************************)
(* Seven counters, so that the last byte of a packed store is only partly  *)
(* used, and two keys with three probes: a touches counter 4 once and      *)
(* counter 5, its neighbour in the byte, twice; b only counter 5.          *)
(***************************************************************************)
EXTENDS CountingLoop, TLC, Bitwise

DH == INSTANCE DoubleHash WITH WordSize <- 64, BitAnd <- &

MCHash == [a |-> DH!splitDoubleHashPair(4, 36), b |-> DH!splitDoubleHashPair(5, 7)]

MCKey == {"a", "b"}
MCProbe == [k \in MCKey |-> [j \in 0 .. 2 |->
              DH!bitIndex(MCHash[k][1], MCHash[k][2], 7, j)]]

\* Widths 2 and 4 at their real limits; width 8 stands for the unpacked stores,
\* whose code is the same at every limit and whose limit is scaled down.
MCCounterMax == 2 :> 3 @@ 4 :> 15 @@ 8 :> 3
=============================================================================
