--------------------------- MODULE MCCountingRun ----------------------------
(***************************************************************************)
(* Counting dedup streams on a small instance.  Key b is the text "-a": it *)
(* is what the line "-a" is classified as when there is no remove prefix,  *)
(* and the key of " -a", which does not begin with it.                     *)
(***************************************************************************)
EXTENDS CountingRun, FilterInstance

MCLine == {"a", "c", "-a", "-c", " -a", "- "}
MCPrefixed == {"-a", "-c", "- "}
MCKeyOf == [l \in MCLine |-> CASE l = "a" -> "a" [] l = "c" -> "c"
                               [] l \in {"-a", " -a"} -> "b" [] OTHER -> NoKey]
MCRestOf == [l \in MCPrefixed |-> CASE l = "-a" -> "a" [] l = "-c" -> "c" [] OTHER -> NoKey]

\* At width 2, with its real limit, a and b are in the filter together.  Width 8
\* stands for a limit that the second of two keys overflows.
MCLowMax == [w \in {2, 8} |-> IF w = 2 THEN 3 ELSE 2]

Plain == [quiet |-> FALSE, novelOnly |-> FALSE, dupOnly |-> FALSE, removal |-> TRUE]
MCOpts == {Plain, [Plain EXCEPT !.novelOnly = TRUE], [Plain EXCEPT !.dupOnly = TRUE],
           [Plain EXCEPT !.quiet = TRUE], [Plain EXCEPT !.removal = FALSE]}
MCOneOpt == {Plain}
=============================================================================
