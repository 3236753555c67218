------------------------------- MODULE MCTools -------------------------------
(***************************************************************************)
(* One of the command-line tools runs: hashtune, benchcompare, or one of   *)
(* the deduplication commands.  The variables of the others rest.          *)
(***************************************************************************)
EXTENDS MCHashTune, MCBench, MCDedupCommands

VARIABLE tool

SomeFlags == CHOOSE f \in Flags : TRUE
SomeBenchFlags == CHOOSE f \in BenchFlags : TRUE
SomeCall == CHOOSE c \in Calls : TRUE
SomeLines == CHOOSE lines \in Lines(SomeCall) : TRUE

TuneRests == flags = SomeFlags /\ TuneStart
BenchRests == cfg = SomeBenchFlags /\ BenchStart
CommandRests == call = SomeCall /\ given = SomeLines /\ CommandStart

ToolsInit ==
  \/ tool = "hashtune" /\ TuneInit /\ BenchRests /\ CommandRests
  \/ tool = "benchcompare" /\ TuneRests /\ BenchInit /\ CommandRests
  \/ tool = "dedup" /\ TuneRests /\ BenchRests /\ CommandInit

ToolsNext ==
  \/ tool = "hashtune" /\ TuneNext /\ UNCHANGED <<tool, benchVars, dedupVars>>
  \/ tool = "benchcompare" /\ BenchNext /\ UNCHANGED <<tool, tuneVars, dedupVars>>
  \/ tool = "dedup" /\ CommandNext /\ UNCHANGED <<tool, tuneVars, benchVars>>

ToolsSpec == ToolsInit /\ [][ToolsNext]_<<tool, tuneVars, benchVars, dedupVars>>
=============================================================================
