--------------------------- MODULE MCDedupParity ----------------------------
(***************************************************************************)
(* Nine positions, so that the classic filter's last byte is only partly   *)
(* used, and four keys: c is a false positive once a and d are in.         *)
(***************************************************************************)
EXTENDS DedupParity, TLC, Bitwise

DH == INSTANCE DoubleHash WITH WordSize <- 32, BitAnd <- &

\* Probes a 7 8 0, b 8 1 3, c 0 7 5, d 5 2 8, e 3 3 3.
MCHash == "a" :> DH!splitDoubleHashPair(7, 1) @@ "b" :> DH!splitDoubleHashPair(8, 2) @@
          "c" :> DH!splitDoubleHashPair(0, 7) @@ "d" :> DH!splitDoubleHashPair(5, 6) @@
          "e" :> DH!splitDoubleHashPair(3, 9)

MCKey == {"a", "b", "c", "d", "e"}
MCProbe == [key \in MCKey |-> [i \in 0 .. 2 |-> DH!bitIndex(MCHash[key][1], MCHash[key][2], 9, i)]]

\* A line is its key; the blank line has none.
MCLine == MCKey \cup {"blank"}
MCKeyOf == [l \in MCLine |-> IF l = "blank" THEN NoKey ELSE l]

MCLowMax == [w \in {8} |-> 2]

Plain == [quiet |-> FALSE, novelOnly |-> FALSE, dupOnly |-> FALSE, removal |-> FALSE]
MCOpts == {Plain, [Plain EXCEPT !.novelOnly = TRUE]}
=============================================================================
