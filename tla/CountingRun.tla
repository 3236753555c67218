---------------------------- MODULE CountingRun -----------------------------
(***************************************************************************)
(* dedup.RunCounting (dedup/stream.go) over a dedup.CountingClassifier     *)
(* (dedup/counting.go): each line is classified, or, if it begins with the *)
(* remove prefix, removes its remainder from the counting filter.          *)
(*                                                                         *)
(* A line is known by the key its text has and by the key its remainder    *)
(* after the prefix has; the key function (dedup/key.go) gives NoKey for a *)
(* blank one.                                                              *)
(***************************************************************************)
EXTENDS CountingFilter, StreamOutput

CONSTANTS
  Line,
  Prefixed,  \* the lines longer than the remove prefix that begin with it
  KeyOf,     \* keyFn of a line
  RestOf     \* keyFn of a prefixed line without the prefix

ASSUME LineAssumption ==
  /\ Prefixed \subseteq Line
  /\ KeyOf \in [Line -> Key \cup {NoKey}]
  /\ RestOf \in [Prefixed -> Key \cup {NoKey}]

VARIABLES
  novel, dup, removed,  \* the classifier's tallies
  live,        \* history: Adds of each key not taken back by its own Remove
  window,      \* history: the keys classified since a line last removed them
  outside,     \* history: a line removed a key that was not in the window
  uninserted   \* history: a key was removed that had no live insertion

ghostVars == <<live, window, outside, uninserted>>
runVars == <<vars, outputVars, novel, dup, removed, ghostVars>>

RunTypeOK ==
  /\ TypeOK /\ OutputTypeOK
  /\ novel \in Nat /\ dup \in Nat /\ removed \in Nat
  /\ live \in [Key -> Nat]
  /\ window \subseteq Key
  /\ outside \in BOOLEAN /\ uninserted \in BOOLEAN

RunInit ==
  /\ Init /\ OutputInit
  /\ novel = 0 /\ dup = 0 /\ removed = 0
  /\ live = [key \in Key |-> 0]
  /\ window = {}
  /\ outside = FALSE /\ uninserted = FALSE

IsRemoval(line) == opts.removal /\ line \in Prefixed

\* Classify, and a key that is found: nothing is inserted.
ClassifyDup(line) ==
  /\ Scan /\ ~IsRemoval(line) /\ KeyOf[line] # NoKey
  /\ Contains(cells, KeyOf[line])
  /\ Lookup(KeyOf[line])
  /\ dup' = dup + 1
  /\ Answer("dup")
  /\ window' = window \cup {KeyOf[line]}
  /\ UNCHANGED <<novel, removed, live, outside, uninserted>>

\* Variant: a key is inserted whether or not it is found.
ClassifyNewAlways(line) ==
  /\ Scan /\ ~IsRemoval(line) /\ KeyOf[line] # NoKey
  /\ Add(KeyOf[line])
  /\ novel' = novel + 1
  /\ Answer("new")
  /\ live' = [live EXCEPT ![KeyOf[line]] = @ + 1]
  /\ window' = window \cup {KeyOf[line]}
  /\ UNCHANGED <<dup, removed, outside, uninserted>>

ClassifyNew(line) ==
  /\ Scan /\ ~IsRemoval(line) /\ KeyOf[line] # NoKey
  /\ ~Contains(cells, KeyOf[line])
  /\ Add(KeyOf[line])
  /\ novel' = novel + 1
  /\ Answer("new")
  /\ live' = [live EXCEPT ![KeyOf[line]] = @ + 1]
  /\ window' = window \cup {KeyOf[line]}
  /\ UNCHANGED <<dup, removed, outside, uninserted>>

\* Variant: the tally goes up before the error is looked at.
ClassifyOverflowTallied(line, j) ==
  /\ Scan /\ ~IsRemoval(line) /\ KeyOf[line] # NoKey
  /\ ~Contains(cells, KeyOf[line])
  /\ AddOverflow(KeyOf[line], j)
  /\ novel' = novel + 1
  /\ Abort
  /\ UNCHANGED <<dup, removed, ghostVars>>

\* Add fails: so does the run, and the line is in no tally.
ClassifyOverflow(line, j) ==
  /\ Scan /\ ~IsRemoval(line) /\ KeyOf[line] # NoKey
  /\ ~Contains(cells, KeyOf[line])
  /\ AddOverflow(KeyOf[line], j)
  /\ Abort
  /\ UNCHANGED <<novel, dup, removed, ghostVars>>

RemoveLine(line) ==
  /\ Scan /\ IsRemoval(line) /\ RestOf[line] # NoKey
  /\ Remove(RestOf[line])
  /\ removed' = removed + 1
  /\ Answer("removed")
  /\ live' = [live EXCEPT ![RestOf[line]] = IF @ > 0 THEN @ - 1 ELSE 0]
  /\ window' = window \ {RestOf[line]}
  /\ outside' = (outside \/ RestOf[line] \notin window)
  /\ uninserted' = (uninserted \/ live[RestOf[line]] = 0)
  /\ UNCHANGED <<novel, dup>>

RemoveAbsentLine(line) ==
  /\ Scan /\ IsRemoval(line) /\ RestOf[line] # NoKey
  /\ RemoveAbsent(RestOf[line])
  /\ Answer("not-present")
  /\ window' = window \ {RestOf[line]}
  /\ UNCHANGED <<novel, dup, removed, live, outside, uninserted>>

SkipLine(line) ==
  /\ Scan
  /\ (IF IsRemoval(line) THEN RestOf[line] ELSE KeyOf[line]) = NoKey
  /\ PassOver
  /\ UNCHANGED <<vars, novel, dup, removed, ghostVars>>

RunNext ==
  \/ \E line \in Line : \/ ClassifyDup(line)
                        \/ ClassifyNew(line)
                        \/ \E j \in Probes : ClassifyOverflow(line, j)
                        \/ RemoveLine(line)
                        \/ RemoveAbsentLine(line)
                        \/ SkipLine(line)
  \/ OutputStep /\ UNCHANGED <<vars, novel, dup, removed, ghostVars>>

RunSpec == RunInit /\ [][RunNext]_runVars

-----------------------------------------------------------------------------

\* A key is never inserted twice while it is in the filter, whatever fails in
\* between and however often the classifier is run again: so one removal line
\* makes it novel again (dedup/counting.go:30-37, and README.md:418 "key can be seen
\* again as novel").  Only the removal of a key never inserted breaks this.
InsertedOnce == ~uninserted => \A key \in Key : live[key] <= 1

\* The units the counters hold, each the v-th of its counter.
Units(cs) == UNION {{c} \X (1 .. cs[c]) : c \in Cell}

\* The filter's count lies between what the summary's tallies say and what the
\* counters can back, k increments for each key, so that it neither wraps below
\* zero nor outgrows them: a failed Add is in neither, and count and tallies part
\* only where a key never inserted is removed from a filter that counts no keys
\* (bloom/counting.go:108, dedup/counting.go:34-37 and 47-49).
CountFollowsTally ==
  /\ n >= novel - removed
  /\ K * n <= Cardinality(Units(cells))
  /\ ~uninserted => n = novel - removed

\* The results stream.go:22-24 says a run emits: first-seen lines only, duplicate
\* lines only, or nothing.
Wanted(s) ==
  ~opts.quiet /\ (opts.novelOnly => s # "dup") /\ (opts.dupOnly => s # "new")

\* Each result the options ask for is written once or reported as a failed
\* write, and no other is: what the caller reads agrees with the summary, across
\* runs that fail midway (stream.go:96-105, 86-93 and 114-122).
OutputMatchesTally ==
  \A s \in {"new", "dup", "removed"} :
    printed[s] + lost[s] + (IF pending = s THEN 1 ELSE 0) =
      IF ~Wanted(s) THEN 0
      ELSE IF s = "new" THEN novel ELSE IF s = "dup" THEN dup ELSE removed

\* As long as only inserted keys are removed, an inserted key is found again: a
\* line with that key is a duplicate.
InsertedStaysFound ==
  ~uninserted => \A key \in Key : live[key] > 0 => Contains(cells, key)

\* What README.md:146 ("if a key was inserted, Contains always returns true") and
\* README.md:408 ("Remove for sliding-window workloads where keys leave the set")
\* promise a caller whose removal lines only name keys classified before and not
\* removed since.
WindowStaysFound ==
  ~outside => \A key \in Key : live[key] > 0 => Contains(cells, key)
=============================================================================
