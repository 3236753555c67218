---------------------------- MODULE StreamOutput ----------------------------
(***************************************************************************)
(* What dedup.Run and dedup.RunCounting (dedup/stream.go) share: the loop  *)
(* over the lines of a reader, the options that decide which results are   *)
(* written, and the ways a run ends.  A result is written to a writer that *)
(* may fail after the filter has already taken the line.                   *)
(***************************************************************************)
EXTENDS Integers

CONSTANTS
  Opts,      \* the RunOptions callers choose
  MaxLines   \* how many lines the model's readers hold, over all runs

VARIABLES
  opts,     \* opts, with removal for a RemovePrefix that is not empty
  pc,       \* where the run is
  pending,  \* the result about to be written
  printed,  \* how many results of each kind were written
  lost,     \* history: the results whose write failed
  lines     \* the lines consumed

outputVars == <<opts, pc, pending, printed, lost, lines>>

Status == {"new", "dup", "removed", "not-present"}

ASSUME OptsAssumption ==
  /\ Opts \subseteq [quiet : BOOLEAN, novelOnly : BOOLEAN, dupOnly : BOOLEAN, removal : BOOLEAN]
  /\ MaxLines \in Nat

OutputTypeOK ==
  /\ opts \in Opts
  /\ pc \in {"scan", "write", "done", "failed"}
  /\ pending \in Status \cup {"none"}
  /\ printed \in [Status -> Nat] /\ lost \in [Status -> Nat]
  /\ lines \in 0 .. MaxLines

\* Variant: the two options are swapped.
skipClassifyOutputSwapped(status) ==
  \/ opts.novelOnly /\ status = "new"
  \/ opts.dupOnly /\ status = "dup"

skipClassifyOutput(status) ==
  \/ opts.novelOnly /\ status = "dup"
  \/ opts.dupOnly /\ status = "new"

Shown(status) == ~opts.quiet /\ ~skipClassifyOutput(status)

OutputInit ==
  /\ opts \in Opts
  /\ pc = "scan" /\ pending = "none" /\ lines = 0
  /\ printed = [s \in Status |-> 0]
  /\ lost = [s \in Status |-> 0]

\* The loop takes the next line.
Scan == pc = "scan" /\ lines < MaxLines /\ lines' = lines + 1

\* The line's result is known: written if the options let it through.
Answer(status) ==
  /\ pc' = IF Shown(status) THEN "write" ELSE "scan"
  /\ pending' = IF Shown(status) THEN status ELSE "none"
  /\ UNCHANGED <<opts, printed, lost>>

\* A line without a key: on to the next one.
PassOver == UNCHANGED <<opts, pc, pending, printed, lost>>

\* The run returns an error, without a summary.
Abort == pc' = "failed" /\ UNCHANGED <<opts, pending, printed, lost>>

WriteResult ==
  /\ pc = "write" /\ pc' = "scan"
  /\ printed' = [printed EXCEPT ![pending] = @ + 1]
  /\ pending' = "none"
  /\ UNCHANGED <<opts, lost, lines>>

WriteFails ==
  /\ pc = "write" /\ pc' = "failed"
  /\ lost' = [lost EXCEPT ![pending] = @ + 1]
  /\ pending' = "none"
  /\ UNCHANGED <<opts, printed, lines>>

\* scanner.Err(): a reader that fails, or a line too long for the scanner.
ReadFails == pc = "scan" /\ Abort /\ UNCHANGED lines

\* The reader is exhausted and the summary is written.
EndOfInput ==
  /\ pc = "scan" /\ pc' = "done"
  /\ UNCHANGED <<opts, pending, printed, lost, lines>>

\* The caller runs the same classifier on another reader, after a failure or not.
RunAgain ==
  /\ pc \in {"done", "failed"} /\ lines < MaxLines
  /\ pc' = "scan"
  /\ UNCHANGED <<opts, pending, printed, lost, lines>>

\* The steps of a run that touch neither the filter nor the tallies.
OutputStep == WriteResult \/ WriteFails \/ ReadFails \/ EndOfInput \/ RunAgain
=============================================================================
