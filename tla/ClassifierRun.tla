--------------------------- MODULE ClassifierRun ----------------------------
(***************************************************************************)
(* dedup.Run (dedup/stream.go) over a dedup.Classifier                     *)
(* (dedup/classifier.go): check, then insert, over a classic Bloom filter. *)
(* The CLIs streamdedup, urldedup and dedupdemo run it.                    *)
(***************************************************************************)
EXTENDS BloomFilter, StreamOutput

CONSTANTS Line, KeyOf   \* the lines, and keyFn of each: NoKey for a blank one

ASSUME KeyOfAssumption == KeyOf \in [Line -> Key \cup {NoKey}]

VARIABLES novel, dup    \* the classifier's tallies

classifierVars == <<filterVars, outputVars, novel, dup>>

ClassifierTypeOK ==
  /\ FilterTypeOK /\ OutputTypeOK
  /\ novel \in Nat /\ dup \in Nat

ClassifierInit == FilterInit /\ OutputInit /\ novel = 0 /\ dup = 0

JudgeDup(line) ==
  /\ Scan /\ KeyOf[line] # NoKey
  /\ Has(bits, KeyOf[line])
  /\ FilterContains(KeyOf[line])
  /\ dup' = dup + 1
  /\ Answer("dup")
  /\ UNCHANGED novel

JudgeNew(line) ==
  /\ Scan /\ KeyOf[line] # NoKey
  /\ ~Has(bits, KeyOf[line])
  /\ FilterAdd(KeyOf[line])
  /\ novel' = novel + 1
  /\ Answer("new")
  /\ UNCHANGED dup

Skip(line) ==
  /\ Scan /\ KeyOf[line] = NoKey
  /\ PassOver
  /\ UNCHANGED <<filterVars, novel, dup>>

Output == OutputStep /\ UNCHANGED <<filterVars, novel, dup>>

ClassifierNext ==
  \/ \E line \in Line : JudgeDup(line) \/ JudgeNew(line) \/ Skip(line)
  \/ Output

ClassifierSpec == ClassifierInit /\ [][ClassifierNext]_classifierVars
=============================================================================
