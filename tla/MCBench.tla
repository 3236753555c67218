------------------------------- MODULE MCBench -------------------------------
EXTENDS BenchCompare, Bitwise

DH == INSTANCE DoubleHash WITH WordSize <- 16, BitAnd <- &

MCM == 9
MCK == 2
MCTens == {10, 100}
MCMax == [w \in {8} |-> 3]
MCKey == {"key", "miss", "stream"} \X (0..5)

\* The third stream key is a false positive of the first two; the third of the
\* other keys probes one counter twice, and the sixth meets a full one.
MCHash == [key \in MCKey |->
  LET i == key[2]
  IN  CASE key[1] = "key" -> IF i = 5 THEN DH!splitDoubleHashPair(6, 13)
                             ELSE DH!splitDoubleHashPair(2 * i, IF i = 2 THEN 9 ELSE i + 3)
        [] key[1] = "miss" -> DH!splitDoubleHashPair(2 * i + 1, 4)
        [] OTHER -> IF i = 2 THEN DH!splitDoubleHashPair(0, 5) ELSE DH!splitDoubleHashPair(i, 4)]

MCProbe == [key \in MCKey |-> [i \in 0 .. MCK-1 |->
              DH!bitIndex(MCHash[key][1], MCHash[key][2], MCM, i)]]

\* All scenarios.
CompareFlags ==
  [valid : BOOLEAN, explicit : {FALSE}, capacity : 1..6, rate : {1}, ratio : -1..5,
   nanCount : {0}, nanFits : {TRUE},
   repeats : {0, 2}, sweeps : {{}}, values : {<<>>}]

Value == {Blank, Junk, -1, 0, 1, 2, 4, 5, 6}

\* Each sweep, over one or two values; eleven keys have two lengths.
SweepFlags ==
  [valid : {TRUE}, explicit : BOOLEAN, capacity : {3, 11}, rate : {1}, ratio : {2},
   nanCount : {0}, nanFits : {TRUE},
   repeats : {0, 2}, sweeps : {{s} : s \in ToSet(Sweeps)} \cup {{"hash", "mix"}},
   values : {<<>>} \cup {<<v>> : v \in Value} \cup {<<v, x>> : v, x \in Value}]

\* NaN as ratio, as rate and in a list, with what amd64 (least int), arm64 (0)
\* and riscv (greatest int) make of it.
NaNFlags ==
  [valid : {TRUE}, explicit : BOOLEAN, capacity : {1, 3}, rate : {1, NaN}, ratio : {2, NaN},
   nanCount : {-9, 0, 99}, nanFits : BOOLEAN, repeats : {2},
   sweeps : {{}} \cup {{s} : s \in ToSet(Sweeps)},
   values : {<<NaN>>, <<1, NaN>>, <<6>>}]

MCBenchFlags == CompareFlags \cup SweepFlags \cup NaNFlags
=============================================================================
