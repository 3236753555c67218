--------------------------- MODULE MCDedupCommands ---------------------------
EXTENDS DedupCommands

MCParam == {"UTM", "bad", "fbclid", "id", "id2", "url", "utm"}
MCLower ==
  [s \in MCParam \cup {"", "http", "https", "HTTPS", "g", "h", "H", "k", "/", "%2F", "%2f",
                       "a", "A", "b", "s:", "f", "http://"} |->
     CASE s = "HTTPS" -> "https" [] s = "H" -> "h" [] s = "UTM" -> "utm"
       [] s = "A" -> "a" [] s = "%2F" -> "%2f" [] OTHER -> s]
MCEncode == [ps \in SUBSET MCParam |->
  SelectSeq(<<"UTM", "bad", "fbclid", "id", "id2", "url", "utm">>, LAMBDA p : p \in ps)]

Line(form, scheme, host, port, path, query) ==
  [form |-> form, scheme |-> scheme, host |-> host, port |-> port, path |-> path,
   ask |-> query # <<>>, query |-> query, fragment |-> ""]

APath == <<Slash, "a">>
NoLine == Line("blank", "", "", "", <<>>, <<>>)
Text == Line("text", "", "", "", APath, <<>>)

\* The form, the scheme, the host and the port in every combination.
Sites == {Line(fs[1], fs[2], host, port, APath, <<>>) :
            fs \in {<<"abs", "http">>, <<"abs", "https">>, <<"abs", "HTTPS">>, <<"bare", "">>, <<"rel", "">>},
            host \in {"h", "H"}, port \in {"", "80", "443"}}

\* Paths with and without slashes at the end, escaped slashes, fragments.
Paths == { [Line("abs", "https", "h", "", path, <<>>) EXCEPT !.fragment = fragment] :
             fragment \in {"", "f"},
             path \in {<<>>, <<Slash>>, <<Slash, Slash>>, APath, APath \o <<Slash>>,
                       APath \o <<Slash, Slash>>, APath \o <<Slash, "b">>,
                       APath \o <<EscapedSlash>>, APath \o <<EscapedSlash, "b">>, APath \o <<EscapedSlash, "b", Slash>>} }

\* Queries: none, a question mark alone, tracking parameters in both cases,
\* both orders, and one that does not parse.
Queries == {Line("abs", "https", "h", "", APath, query) :
              query \in {<<>>, <<"id">>, <<"utm">>, <<"UTM">>, <<"id", "utm">>, <<"utm", "id">>,
                         <<"id", "id2">>, <<"id2", "id">>, <<"bad", "utm">>, <<"utm", "bad">>}}
             \cup {[Line("abs", "https", "h", "", APath, <<>>) EXCEPT !.ask = TRUE],
                   [Line("abs", "https", "h", "", APath, <<"id">>) EXCEPT !.fragment = "f"]}

\* Another URL in the path, the query (parameter "url") or the fragment.
Embedded == { [Line(fs[1], fs[2], "h", "", path, query) EXCEPT !.fragment = fragment] :
                fs \in {<<"abs", "https">>, <<"bare", "">>},
                path \in {APath, <<Slash, "s:", Slash, Slash, "b">>},
                query \in {<<>>, <<"url">>, <<"url", "utm">>},
                fragment \in {"", "http://"} }

NoHost == Line("abs", "http", "", "", APath, <<>>)
Skipped == {NoLine, Text, NoHost} \X (Sites \cup {NoLine, Text, NoHost})

Call(command, options) ==
  [command |-> command, novelOnly |-> FALSE, dupOnly |-> FALSE, ignoreCase |-> FALSE,
   options |-> options, url |-> FALSE, sample |-> "", filterOK |-> TRUE, args |-> 0,
   fileOK |-> TRUE, stdin |-> "pipe"]

\* Two lines from a pipe under every combination of the options.
KeyCalls == {Call("urldedup", o) : o \in Options}

\* Two spellings of one URL, in every way to call each command.
SomeOptions == {o \in Options : ~o.stripQuery /\ ~o.stripFragment /\ ~o.domainOnly}

FlagCalls ==
  {[Call(command, o) EXCEPT !.novelOnly = novelOnly, !.dupOnly = dupOnly, !.filterOK = filterOK] :
     command \in StreamCommands \cup {"dedupdemo"}, o \in SomeOptions,
     novelOnly, dupOnly, filterOK \in BOOLEAN}

StreamCalls ==
  {[Call(command, o) EXCEPT !.ignoreCase = ignoreCase, !.args = args, !.fileOK = fileOK, !.stdin = stdin] :
     command \in StreamCommands, o \in SomeOptions, ignoreCase, fileOK \in BOOLEAN,
     args \in 0..2, stdin \in {"terminal", "pipe", "no stat"}}

DemoCalls ==
  {[Call("dedupdemo", o) EXCEPT !.url = url, !.ignoreCase = ignoreCase, !.sample = sample,
                                !.args = args, !.stdin = stdin] :
     o \in SomeOptions, url, ignoreCase \in BOOLEAN, sample \in {"", "stream", "tracking", "urls"},
     args \in {0, 2}, stdin \in {"terminal", "pipe", "no stat"}}

MCCalls == KeyCalls \cup FlagCalls \cup StreamCalls \cup DemoCalls

MCLines(c) ==
  IF c \in KeyCalls
    THEN (Queries \X Queries) \cup (Embedded \X Embedded)
           \cup (IF c.options.stripTracking THEN {} ELSE Paths \X Paths)
           \cup (IF c.options.stripTracking \/ c.options.stripQuery THEN {}
                 ELSE (Sites \X Sites) \cup Skipped)
    ELSE {<<Line("abs", "https", "h", "", APath, <<>>), Line("abs", "HTTPS", "H", "443", APath, <<>>)>>,
          <<Line("bare", "", "h", "", APath, <<"utm">>), Line("bare", "", "H", "", <<Slash, "A">>, <<"UTM">>)>>}
=============================================================================
