--------------------------- MODULE MCRulesetCache ---------------------------
(* The ruleset cache on small instances.                                   *)
EXTENDS RulesetCache, TLC

CONSTANTS c1, c2, p1, p2

\* Two default sources, the second the larger one, and a source of one's own.
SmallProvides == "enthec" :> {"a"} @@ "httparchive" :> {"b", "c"} @@ "own" :> {"a"}
SmallKind == "enthec" :> "github" @@ "httparchive" :> "github" @@ "own" :> "path"
DefaultUrls == <<"enthec", "httparchive">>

\* Two calls of one process, and two processes on one cache directory.
OneOrTwo == {c1 :> p1 @@ c2 :> p1, c1 :> p1 @@ c2 :> p2}

PlainOptions == {[explicit |-> FALSE, degraded |-> FALSE]}
SomeOptions == PlainOptions \cup {[explicit |-> FALSE, degraded |-> TRUE], [explicit |-> TRUE, degraded |-> FALSE]}
============================================================================
