------------------------ MODULE MCExtractionPipeline ------------------------
(* Small instances of ExtractionPipeline for TLC. *)
EXTENDS ExtractionPipeline, TLC

CONSTANTS s1, s2, q1, e1, e2, e3

OneStream == {s1}
TwoStreams == {s1, s2}
\* Both streams hash to the one shard.
OneShard == [s \in Streams |-> q1]
\* e2 is a long event: with TokenLimit 3 it shares a slice with no other.
LongSecond == [e \in EventIds |-> IF e = e2 THEN 3 ELSE 1]
\* e2 has a size of its own; the other events are interchangeable.
Symmetry == Permutations(JobIds) \cup Permutations(Processes)
            \cup Permutations(Versions) \cup Permutations(EventIds \ {e2})
=============================================================================
