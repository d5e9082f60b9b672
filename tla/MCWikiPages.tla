---------------------------- MODULE MCWikiPages ----------------------------
(* Two sources that propose a page each, under one slug or under two.      *)
EXTENDS WikiPages

CONSTANTS s1, s2, a, b

Budget(injects, candidates, rebuilds, faults) ==
    [injects |-> injects, candidates |-> candidates, rebuilds |-> rebuilds, faults |-> faults]

\* One rebuild or two candidates among three injections, or both between two;
\* two rebuilds, without faults.
Some == {Budget(3, 1, 1, 1), Budget(3, 2, 0, 1), Budget(2, 2, 1, 1), Budget(3, 1, 2, 0)}

Renamings == Permutations(Sources) \cup Permutations(Slugs)
=============================================================================
