------------------------------ MODULE UrlKeys -------------------------------
(***************************************************************************)
(* From a line to the key it is deduplicated by: trimming and case         *)
(* (dedup/key.go) and URL canonicalisation (cmd/internal/urldedup).        *)
(*                                                                         *)
(* A line is a URL in its parts, as spelled: with a scheme ("abs"),        *)
(* without ("bare": host/path), protocol-relative ("rel": //host/path), or *)
(* it is no URL ("text") or blank.  A path is a sequence of its pieces, a  *)
(* slash, an escaped slash or a name; a query is the sequence of its       *)
(* parameters, each named at most once.  A line may hold another URL, as   *)
(* name, parameter or fragment: what of it can be told is "://".           *)
(***************************************************************************)
EXTENDS Integers, Sequences, SequencesExt

CONSTANTS
  Lower,        \* strings.ToLower on the parts of a line
  Name,         \* what a path has between its slashes
  ColonName,    \* the names that end in a colon
  Param,        \* the query parameters
  Encode,       \* Values.Encode: some parameters, in the order of their names
  Nested,       \* the parameters and fragments with "://" in them
  Tracking,     \* trackingParams, in lower case
  Malformed     \* the parameters url.ParseQuery refuses

ASSUME UrlAssumption ==
  /\ \A s \in DOMAIN Lower :
       Lower[s] \in DOMAIN Lower /\ Lower[Lower[s]] = Lower[s] /\ (Lower[s] = "" => s = "")
  /\ "https" \in DOMAIN Lower /\ Lower["https"] = "https"
  /\ Param \cup Name \cup {"/", "%2F"} \subseteq DOMAIN Lower
  /\ Malformed \subseteq Param /\ ColonName \subseteq Name
  /\ Encode \in [SUBSET Param -> Seq(Param)] /\ \A ps \in SUBSET Param : ToSet(Encode[ps]) = ps

Options ==
  [normalize : BOOLEAN, stripQuery : BOOLEAN, stripTracking : BOOLEAN,
   stripFragment : BOOLEAN, domainOnly : BOOLEAN]

Slash == "/"
EscapedSlash == "%2F"
Piece == Name \cup {Slash, EscapedSlash}

\* Every line there may be: a line without a scheme or slashes begins with a
\* host, a port has a host, a path begins with a slash and a query is asked for.
UrlLines ==
  {line \in [form : {"abs", "bare", "rel", "text", "blank"}, scheme : DOMAIN Lower,
             host : DOMAIN Lower, port : STRING, path : Seq(Piece), ask : BOOLEAN,
             query : Seq(Param), fragment : DOMAIN Lower] :
     /\ line.form = "abs" => line.scheme # ""
     /\ line.form = "bare" => line.host # ""
     /\ line.form \in {"text", "blank"} => line.host = ""
     /\ line.host = "" => line.port = ""
     /\ line.path # <<>> => line.path[1] = Slash
     /\ line.query # <<>> => line.ask}

-----------------------------------------------------------------------------
(* net/url *)

Decoded(path) == [i \in DOMAIN path |-> IF path[i] = EscapedSlash THEN Slash ELSE path[i]]

\* Without slashes before it a host is read as a path, and with a port as a
\* scheme (or refused).  RawPath is kept only where the decoded path does not
\* encode back to it.
UrlParse(line) ==
  [scheme |-> CASE line.form = "abs"                     -> Lower[line.scheme]
                [] line.form = "bare" /\ line.port # "" -> Lower[line.host]
                [] OTHER                                 -> "",
   host |-> IF line.form \in {"abs", "rel"} THEN line.host ELSE "",
   port |-> line.port,
   path |-> Decoded(line.path),
   rawPath |-> IF Decoded(line.path) = line.path THEN <<>> ELSE line.path,
   ask |-> line.ask, query |-> line.query, fragment |-> line.fragment]

EscapedPath(u) == IF u.rawPath # <<>> /\ Decoded(u.rawPath) = u.path THEN u.rawPath ELSE u.path

UrlString(u) ==
  [scheme |-> u.scheme, host |-> u.host, port |-> u.port, path |-> EscapedPath(u),
   ask |-> u.ask, query |-> u.query, fragment |-> u.fragment]

-----------------------------------------------------------------------------
(* urldedup *)

\* strings.Contains(raw, "://")
HasMark(line) ==
  \/ line.form = "abs"
  \/ \E i \in 1..Len(line.path) - 2 :
       line.path[i] \in ColonName /\ line.path[i + 1] = Slash /\ line.path[i + 2] = Slash
  \/ ToSet(line.query) \cap Nested # {}
  \/ line.fragment \in Nested

\* What is returned with ok = false has no host.
parseURL(line) ==
  LET u == UrlParse(line)
  IN  IF u.scheme = "" /\ u.host = "" /\ ~HasMark(line)
        THEN UrlParse([line EXCEPT !.form = "abs", !.scheme = "https"])
        ELSE u

stripDefaultPort(scheme, port) ==
  IF <<scheme, port>> \in {<<"http", "80">>, <<"https", "443">>} THEN "" ELSE port

TrimmedPath(path) ==
  IF path = <<>> THEN <<Slash>>
  ELSE IF Len(path) > 1 /\ Last(path) = Slash THEN Front(path) ELSE path

\* The port is stripped before the scheme is known.
canonicalizePortFirst(u) ==
  [u EXCEPT !.scheme = IF u.scheme = "" THEN "https" ELSE Lower[u.scheme],
            !.host = Lower[u.host], !.fragment = "",
            !.port = stripDefaultPort(u.scheme, u.port), !.path = TrimmedPath(u.path)]

canonicalize(u) ==
  LET scheme == IF u.scheme = "" THEN "https" ELSE Lower[u.scheme]
  IN  [u EXCEPT !.scheme = scheme, !.host = Lower[u.host], !.fragment = "",
                !.port = stripDefaultPort(scheme, u.port), !.path = TrimmedPath(u.path)]

stripTrackingParams(u) ==
  IF u.query = <<>> \/ ToSet(u.query) \cap Malformed # {} THEN u
  ELSE LET kept == Encode[{p \in ToSet(u.query) : Lower[p] \notin Tracking}]
       IN  [u EXCEPT !.query = kept, !.ask = kept # <<>>]

hostKey(u, normalize) ==
  [host |-> IF normalize THEN Lower[u.host] ELSE u.host,
   port |-> IF normalize THEN stripDefaultPort(u.scheme, u.port) ELSE u.port]

\* The options in the order Key applies them.
Rewritten(u, o) ==
  LET n == IF o.normalize THEN canonicalize(u) ELSE u
      t == IF o.stripTracking THEN stripTrackingParams(n) ELSE n
      q == IF o.stripQuery THEN [t EXCEPT !.query = <<>>, !.ask = FALSE] ELSE t
  IN  IF o.stripFragment THEN [q EXCEPT !.fragment = ""] ELSE q

\* A line that is skipped has no key.
NoKeyFor == [skipped |-> TRUE]

UrlKey(line, o) ==
  LET needParse == o.normalize \/ o.stripQuery \/ o.stripTracking \/ o.stripFragment \/ o.domainOnly
      parsed == parseURL(line).host # ""
      u == Rewritten(parseURL(line), o)
  IN  CASE line.form = "blank"                -> NoKeyFor
        [] line.form # "blank" /\ ~needParse  -> [line |-> line]
        [] needParse /\ line.form # "blank" /\ ~parsed ->
             IF o.domainOnly THEN NoKeyFor ELSE [line |-> line]
        [] OTHER -> IF o.domainOnly THEN hostKey(u, o.normalize) ELSE [url |-> UrlString(u)]

TrimKey(line) == IF line.form = "blank" THEN NoKeyFor ELSE [line |-> line]

IgnoreCaseKey(line) ==
  IF line.form = "blank" THEN NoKeyFor
  ELSE [line |-> [form |-> line.form, scheme |-> Lower[line.scheme], host |-> Lower[line.host],
                  port |-> line.port, path |-> [i \in DOMAIN line.path |-> Lower[line.path[i]]],
                  ask |-> line.ask, query |-> [i \in DOMAIN line.query |-> Lower[line.query[i]]],
                  fragment |-> Lower[line.fragment]]]

-----------------------------------------------------------------------------
(* What the options promise to tell apart *)

\* What the tools take for a URL: a host after slashes, or one that begins the
\* line, if no port follows it and the line has no "://" anywhere.
HasHost(line) ==
  /\ line.host # ""
  /\ line.form \in {"abs", "rel"} \/ (line.form = "bare" /\ line.port = "" /\ ~HasMark(line))

EffectivePort(scheme, port) ==
  CASE port # ""                       -> port
    [] port = "" /\ scheme = "http"    -> "80"
    [] port = "" /\ scheme = "https"   -> "443"
    [] OTHER                           -> ""

\* A path and the path with one more slash at its end are one, as are no path
\* and the root.
ResourcePath(path) ==
  LET cut == IF path # <<>> /\ Last(path) = Slash THEN Front(path) ELSE path
  IN  IF cut = <<>> THEN <<Slash>> ELSE cut

ResourceQuery(line, o) ==
  IF o.stripQuery THEN {}
  ELSE IF o.stripTracking /\ ToSet(line.query) \cap Malformed = {} /\ line.query # <<>>
    THEN {p \in ToSet(line.query) : Lower[p] \notin Tracking} \X {0}
    ELSE {<<line.query[i], i>> : i \in DOMAIN line.query}
           \cup (IF line.ask /\ line.query = <<>> THEN {<<"?", -1>>} ELSE {})

\* What a line names under the options: the parts that are not ignored, with
\* those the canonical form makes equal made equal.
Resource(line, o) ==
  LET asSpelled == \A f \in DOMAIN o : ~o[f]
      scheme == CASE line.form = "abs" -> Lower[line.scheme]
                  [] line.form = "bare" -> "https"
                  [] OTHER -> IF o.normalize THEN "https" ELSE ""
      port == IF o.normalize THEN EffectivePort(scheme, line.port) ELSE line.port
      host == IF o.normalize THEN Lower[line.host] ELSE line.host
  IN  CASE asSpelled \/ ~HasHost(line) -> [text |-> line]
        [] ~asSpelled /\ HasHost(line) /\ o.domainOnly ->
             [host |-> host, port |-> IF port = EffectivePort(scheme, "") /\ o.normalize THEN "" ELSE port]
        [] OTHER ->
             [scheme |-> scheme, host |-> host, port |-> port,
              path |-> IF o.normalize THEN ResourcePath(line.path) ELSE line.path,
              query |-> ResourceQuery(line, o),
              fragment |-> IF o.normalize \/ o.stripFragment THEN "" ELSE line.fragment]

SameButForCase(x, y) ==
  LET Same(a, b) == Lower[a] = Lower[b]
      SamePieces(s, t) == Len(s) = Len(t) /\ \A i \in DOMAIN s : Same(s[i], t[i])
  IN  /\ x.form = y.form /\ x.port = y.port /\ x.ask = y.ask
      /\ Same(x.scheme, y.scheme) /\ Same(x.host, y.host) /\ Same(x.fragment, y.fragment)
      /\ SamePieces(x.path, y.path) /\ SamePieces(x.query, y.query)

=============================================================================
