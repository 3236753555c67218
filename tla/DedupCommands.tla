---------------------------- MODULE DedupCommands ----------------------------
(***************************************************************************)
(* The five deduplication commands (cmd/streamdedup, urldedup,             *)
(* countingdedup, countingurldedup and dedupdemo): check the flags, build  *)
(* the filter, choose where the lines come from (dedup/input.go), and read *)
(* them, each under the command's key function.  What a run does with a    *)
(* line and its key is ClassifierRun and CountingRun.                      *)
(***************************************************************************)
EXTENDS UrlKeys

CONSTANTS
  Calls,        \* how the commands may be called, and what they then find
  Lines(_)      \* what there may be to read in a call

StreamCommands == {"streamdedup", "urldedup", "countingdedup", "countingurldedup"}

ASSUME CallAssumption ==
  \A c \in Calls :
    /\ c.command \in StreamCommands \cup {"dedupdemo"}
    /\ c.novelOnly \in BOOLEAN /\ c.dupOnly \in BOOLEAN /\ c.ignoreCase \in BOOLEAN
    /\ c.options \in Options
    /\ c.url \in BOOLEAN /\ c.sample \in STRING       \* dedupdemo's -url and -sample
    /\ c.filterOK \in BOOLEAN
    /\ c.args \in Nat                                 \* how many arguments
    /\ c.fileOK \in BOOLEAN                           \* the argument is a file that opens
    /\ c.stdin \in {"terminal", "pipe", "no stat"}
    /\ Lines(c) \subseteq Seq(UrlLines)

VARIABLES
  call, given,  \* the call, and the lines of its arguments, its file or its stdin
  reader,      \* InputSource.Reader: "nil", "args", "file", "stdin" or a sample
  unread,      \* the lines the reader still holds
  keyed,       \* the lines read so far, with their keys
  outcome,     \* "running", or the exit status; 2 is also that of a panic
  dpc

dedupVars == <<call, given, reader, unread, keyed, outcome, dpc>>

CommandStart ==
  /\ reader = "nil" /\ unread = <<>> /\ keyed = <<>>
  /\ outcome = "running"
  /\ dpc = "validate"

CommandInit == call \in Calls /\ given \in Lines(call) /\ CommandStart

ExitWith(status) ==
  /\ outcome' = status /\ dpc' = "done"
  /\ UNCHANGED <<call, given, reader, unread, keyed>>

GoTo(step) == dpc' = step /\ UNCHANGED <<call, given, reader, unread, keyed, outcome>>

-----------------------------------------------------------------------------
ConflictingFlags ==
  dpc = "validate" /\ call.novelOnly /\ call.dupOnly /\ ExitWith("2")

FilterRefused ==
  dpc = "validate" /\ ~(call.novelOnly /\ call.dupOnly) /\ ~call.filterOK /\ ExitWith("1")

FilterBuilt ==
  dpc = "validate" /\ ~(call.novelOnly /\ call.dupOnly) /\ call.filterOK /\ GoTo("open")

\* InputModeLines for dedupdemo, InputModeFile for the others.
FromLines == call.command = "dedupdemo"
ToStdin == call.args = 0

OpenFails ==
  /\ dpc = "open"
  /\ IF ToStdin THEN call.stdin = "no stat"
     ELSE ~FromLines /\ (call.args > 1 \/ ~call.fileOK)
  /\ ExitWith(IF FromLines THEN "1" ELSE "2")

Opened ==
  /\ dpc = "open"
  /\ IF ToStdin THEN call.stdin # "no stat" ELSE FromLines \/ (call.args = 1 /\ call.fileOK)
  /\ reader' = CASE ToStdin /\ call.stdin = "pipe" -> "stdin"
                 [] ToStdin /\ call.stdin # "pipe" -> "nil"
                 [] ~ToStdin /\ FromLines          -> "args"
                 [] OTHER                          -> "file"
  /\ unread' = IF reader' = "nil" THEN <<>> ELSE given
  /\ UNCHANGED <<call, given, keyed, outcome>>

\* sampleNeeded is dropped by every command.
OpenInputUnsampled == Opened /\ dpc' = "run"

OpenInput ==
  Opened /\ dpc' = IF reader' = "nil" /\ FromLines THEN "sample" ELSE "run"

-----------------------------------------------------------------------------
(* The sample, which only dedupdemo puts in the place of a missing reader. *)

URLOf(scheme, host, port, path, query) ==
  [form |-> "abs", scheme |-> scheme, host |-> host, port |-> port, path |-> path,
   ask |-> query # <<>>, query |-> query, fragment |-> ""]

SampleLines(kind) ==
  CASE kind = "url" ->
         << URLOf("https", "H", "", <<Slash, "a">>, <<>>),
            URLOf("http", "h", "80", <<Slash, "a">>, <<>>),
            URLOf("https", "g", "", <<Slash, "b">>, <<>>),
            URLOf("HTTPS", "H", "443", <<Slash, "a">>, <<>>) >>
    [] kind = "tracking" ->
         << URLOf("https", "g", "", <<Slash, "a">>, <<"utm", "id">>),
            URLOf("https", "g", "", <<Slash, "a">>, <<"fbclid", "id">>),
            URLOf("https", "g", "", <<Slash, "a">>, <<"id2">>),
            URLOf("https", "g", "", <<Slash, "a">>, <<"id">>) >>
    [] OTHER ->
         LET Word(w) == [URLOf("", w, "", <<>>, <<>>) EXCEPT !.form = "bare"]
         IN  <<Word("g"), Word("h"), Word("g"), Word("k"), Word("h"), Word("g")>>

SampleKinds == {"stream", "url", "tracking"}

ASSUME SampleAssumption == \A kind \in SampleKinds : SampleLines(kind) \in Seq(UrlLines)

DefaultSampleKind(urlMode) == IF urlMode THEN "url" ELSE "stream"

SampleKind == IF call.sample # "" THEN call.sample ELSE DefaultSampleKind(call.url)

BadSample == dpc = "sample" /\ SampleKind \notin SampleKinds /\ ExitWith("2")

UseSample ==
  /\ dpc = "sample" /\ SampleKind \in SampleKinds
  /\ reader' = SampleKind /\ unread' = SampleLines(SampleKind)
  /\ dpc' = "run"
  /\ UNCHANGED <<call, given, keyed, outcome>>

-----------------------------------------------------------------------------
ByURL == call.command \in {"urldedup", "countingurldedup"} \/ (FromLines /\ call.url)

KeyFunc(line) ==
  IF ByURL THEN UrlKey(line, call.options)
  ELSE IF call.ignoreCase THEN IgnoreCaseKey(line) ELSE TrimKey(line)

ReadLine ==
  /\ dpc = "run" /\ unread # <<>>
  /\ keyed' = Append(keyed, [line |-> Head(unread), key |-> KeyFunc(Head(unread))])
  /\ unread' = Tail(unread)
  /\ UNCHANGED <<call, given, reader, outcome, dpc>>

\* The run stops at a line: a read or a write fails, or the filter overflows.
RunFails == dpc = "run" /\ reader # "nil" /\ ExitWith("1")

\* The first Read of a scanner over no reader.
NilReader == dpc = "run" /\ reader = "nil" /\ ExitWith("panic")

EndOfLines == dpc = "run" /\ reader # "nil" /\ unread = <<>> /\ ExitWith("0")

Exited == dpc = "done" /\ UNCHANGED dedupVars

CommandNext ==
  \/ ConflictingFlags \/ FilterRefused \/ FilterBuilt
  \/ OpenFails \/ OpenInput \/ BadSample \/ UseSample
  \/ ReadLine \/ RunFails \/ NilReader \/ EndOfLines \/ Exited

CommandSpec == CommandInit /\ [][CommandNext]_dedupVars

-----------------------------------------------------------------------------
(* Properties *)

\* What the command is to take for one line: a URL tool goes by the options
\* alone.
OneResource(x, y) ==
  IF ByURL THEN Resource(x, call.options) = Resource(y, call.options)
  ELSE IF call.ignoreCase THEN SameButForCase(x, y) ELSE x = y

\* A slash, or an escaped one, that ends a path with an escaped slash in it.
SlashAfterEscape(line) ==
  /\ line.path # <<>> /\ Last(line.path) \in {Slash, EscapedSlash}
  /\ EscapedSlash \in ToSet(line.path)
  /\ ByURL /\ call.options.normalize

\* A line is skipped if it is blank or, by host, if it has none; two others are
\* one key exactly if they name one resource under the command's options: no
\* option merges or splits more than it says, whatever it is combined with
\* (Key, canonicalize, stripTrackingParams).  A URL with a scheme or after two
\* slashes names its resource however it is spelled; one that begins with its
\* host does so only if it has no port and no "://" (HasHost), and is a text
\* of its own otherwise.  Set apart is a path that ends in a slash, spelled
\* either way, and has an escaped one.
KeysAreResources ==
  /\ \A x \in ToSet(keyed) :
       x.key = NoKeyFor
         <=> (x.line.form = "blank" \/ (ByURL /\ call.options.domainOnly /\ ~HasHost(x.line)))
  /\ \A x, y \in ToSet(keyed) :
       (NoKeyFor \notin {x.key, y.key} /\ ~SlashAfterEscape(x.line) /\ ~SlashAfterEscape(y.line))
         => (x.key = y.key <=> OneResource(x.line, y.line))

\* A command reads its arguments, its file or its stdin, and at a terminal
\* without arguments a sample, to the end before it exits with 0.  The stream
\* commands do not: called at a terminal without a file they have no reader,
\* and no other call, whatever its flags, comes to a run without one
\* (OpenInput, main).
ReadsItsInput ==
  LET atTerminal == ToStdin /\ call.stdin = "terminal"
      content == IF atTerminal THEN SampleLines(SampleKind) ELSE given
  IN  dpc = "run" \/ outcome \in {"0", "panic"} =>
        IF atTerminal /\ ~FromLines
          THEN reader = "nil" /\ outcome # "0" /\ keyed = <<>>
          ELSE /\ reader # "nil" /\ outcome # "panic"
               /\ [i \in DOMAIN keyed |-> keyed[i].line] \o unread = content
               /\ outcome = "0" => unread = <<>>

\* dedup/input.go:16 treats zero arguments as stdin for the commands that read
\* a file: whatever stdin is, that is what their run reads.
ZeroArgumentsReadStdin == dpc = "run" /\ ~FromLines /\ ToStdin => reader = "stdin"

\* urldedup/options.go:5-6 says that -normalize makes trailing slashes equal:
\* one slash more at the end of a path is the same key.
TrailingSlashIgnored ==
  \A x, y \in ToSet(keyed) :
    (ByURL /\ call.options.normalize /\ NoKeyFor \notin {x.key, y.key}
      /\ (x.line.path = <<>> \/ Last(x.line.path) # Slash)
      /\ y.line = [x.line EXCEPT !.path = Append(@, Slash)]) => x.key = y.key

=============================================================================
