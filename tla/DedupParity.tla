---------------------------- MODULE DedupParity -----------------------------
(***************************************************************************)
(* The two stream deduplicators side by side: the same lines, in the same  *)
(* order, go to Run over a classic filter and to RunCounting over a        *)
(* counting filter with the same m, k and hasher.  No line is a removal.   *)
(* Each side decides for itself what the line is.                          *)
(***************************************************************************)
EXTENDS ClassifierRun

CONSTANTS Width, CounterMax

VARIABLES cells, width, n, last, removed, live, window, outside, uninserted,
          cNovel, cDup, cPc, cPending, cPrinted, cLost, cLines

Counting == INSTANCE CountingRun WITH
  Prefixed <- {}, RestOf <- [l \in {} |-> NoKey],
  novel <- cNovel, dup <- cDup, pc <- cPc, pending <- cPending,
  printed <- cPrinted, lost <- cLost, lines <- cLines

countingVars == <<cells, width, n, last, removed, live, window, outside, uninserted,
                  cNovel, cDup, cPc, cPending, cPrinted, cLost, cLines>>

parityVars == <<classifierVars, countingVars>>

\* What a write or another run leaves alone on either side.
filtersAndTallies == <<filterVars, novel, dup, cells, width, n, last, removed, cNovel, cDup,
                       live, window, outside, uninserted>>

ParityInit == ClassifierInit /\ Counting!RunInit

\* Both take the next line.
BothClassify(line) ==
  /\ JudgeDup(line) \/ JudgeNew(line) \/ Skip(line)
  /\ \/ Counting!ClassifyDup(line)
     \/ Counting!ClassifyNew(line)
     \/ \E j \in 0 .. K-1 : Counting!ClassifyOverflow(line, j)
     \/ Counting!SkipLine(line)

\* Both write their result, or neither writer takes it.
BothWrite ==
  /\ \/ WriteResult /\ Counting!WriteResult
     \/ WriteFails /\ Counting!WriteFails
  /\ UNCHANGED filtersAndTallies

\* Both are called again, with further lines, after a failed write.
BothAgain ==
  /\ RunAgain /\ Counting!RunAgain
  /\ UNCHANGED filtersAndTallies

ParityNext ==
  \/ \E line \in Line : BothClassify(line)
  \/ BothWrite
  \/ BothAgain

ParitySpec == ParityInit /\ [][ParityNext]_parityVars

Occupied == {c \in 0 .. M-1 : cells[c] # 0}

-----------------------------------------------------------------------------

\* Until the counting filter overflows, both judge every line alike, false
\* positives included, and write and count the same (classifier.go:22-35 against
\* dedup/counting.go:24-39; property_suite_test.go:198 samples this for the filters).
SameVerdicts ==
  last.out # "overflow" =>
    /\ cNovel = novel /\ cDup = dup /\ n = inserts
    /\ cPc = pc /\ cPending = pending /\ cPrinted = printed

\* The counting filter occupies exactly the positions that are 1 in the classic
\* one; an Add that overflowed has occupied some of the last key's.
SameOccupancy ==
  /\ Occupied \subseteq SetBits
  /\ last.out # "overflow" => Occupied = SetBits
=============================================================================
