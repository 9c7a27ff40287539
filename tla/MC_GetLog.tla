------------------------------ MODULE MC_GetLog ------------------------------
(* Two paths, one below the other, and queries with and without snapshot,  *)
(* dictionary, patterns and limits.                                        *)
EXTENDS GetLog

A == <<<<"a">>>>
AB == <<<<"a">>, <<"b">>>>
MCPaths == {A, AB}
MCDefaults == [p \in {AB} |-> 99]
Whole == [DefaultParams EXCEPT !.withSnapshot = TRUE]
One == [DefaultParams EXCEPT !.withPathsDict = FALSE, !.recordCountLimit = 1]
Two == [DefaultParams EXCEPT !.withSnapshot = TRUE, !.recordCountLimit = 2, !.withPathsDict = FALSE]
Below == [DefaultParams EXCEPT !.pathPattern = <<AnyPath, <<"b">>>>, !.withSnapshot = TRUE]
Regex == [DefaultParams EXCEPT !.pathPattern = <<<<"a">>>>, !.patternType = "RegEx", !.domainPattern = "chng"]
Between(p, since, until) == [p EXCEPT !.since = since, !.until = until]
MCQueries ==
  { Between(Whole, since, NoTime) : since \in {1, 2, SinceLast} }
    \cup { Between(p, 1, NoTime) : p \in {One, Two, Below} }
    \cup { Between(p, NoTime, 2) : p \in {One, Regex} }
    \cup { Between(Whole, 1, 3), Between(One, SinceLast, NoTime) }
MCChanges ==
  { [path |-> A, dom |-> "chng", drop |-> FALSE], [path |-> AB, dom |-> "chng", drop |-> FALSE],
    [path |-> A, dom |-> "chng", drop |-> TRUE], [path |-> AB, dom |-> "cmdlog", drop |-> FALSE] }
=============================================================================
