----------------------------- MODULE MCHashTune -----------------------------
EXTENDS HashTune

MCMix == <<2, 3, 1>>
MCLadder == <<1, 3>>

\* Every way to come by the probe keys, with one strategy.
KeyFlags ==
  [samples : {0, 1, 4}, keyFile : {NoFile, 0, 2, 5}, fromSamples : BOOLEAN, layout : BOOLEAN,
   base : {<<1>>}, expand : {0}, strategies : {<<"fnv">>}, only : BOOLEAN,
   preferSpeed : {FALSE}, margin : {<<0, 1>>}]

\* Every ladder, with one strategy.
LadderFlags ==
  [samples : {1}, keyFile : {NoFile}, fromSamples : {FALSE}, layout : {TRUE},
   base : {<<>>, <<1, 2>>, <<2, 2>>}, expand : {0, 1, 2}, strategies : {<<"fnv">>, <<"murmur3">>},
   only : BOOLEAN, preferSpeed : {FALSE}, margin : {<<0, 1>>}]

\* Every choice between two strategies: the default margin, one of a quarter
\* above the best, and one below the best.
ChoiceFlags ==
  [samples : {1}, keyFile : {NoFile}, fromSamples : {FALSE}, layout : {TRUE},
   base : {<<1, 2>>}, expand : {0}, strategies : {<<"fnv", "murmur3">>, <<"murmur3", "siphash">>},
   only : {FALSE}, preferSpeed : BOOLEAN, margin : {<<0, 1>>, <<5, 4>>, <<1, 2>>}]

MCFlags == KeyFlags \cup LadderFlags \cup ChoiceFlags
=============================================================================
