---------------------------- MODULE MCRollingEpisode ----------------------------
(* Instances of RollingEpisode: slices s1 and s3 come from session st1, s2  *)
(* from st2; s2 has two new events.                                        *)
EXTENDS RollingEpisode, TLC

CONSTANTS p1, p2, w1, w2, s1, s2, s3, st1, st2

MCStreamOf == (s1 :> st1 @@ s2 :> st2 @@ s3 :> st1)
MCStreamOf2 == (s1 :> st1 @@ s2 :> st2)
MCToSequence == (s1 :> 1 @@ s2 :> 2 @@ s3 :> 2)
MCToSequence2 == (s1 :> 1 @@ s2 :> 2)
MCNewEvents == (s1 :> 1 @@ s2 :> 2 @@ s3 :> 1)
MCNewEvents2 == (s1 :> 1 @@ s2 :> 2)

CompactionConfigs == {[release |-> "v1", mode |-> "compaction"]}
SummaryConfigs    == {[release |-> "v1", mode |-> "summary"]}
PlainConfigs      == {[release |-> r, mode |-> "plain"] : r \in {"v1", "v2"}}
LiveConfigs       == {[release |-> "v1", mode |-> m] : m \in {"summary", "compaction"}}
RolloutConfigs    == {[release |-> "v1", mode |-> "summary"],
                      [release |-> "v1", mode |-> "compaction"],
                      [release |-> "v2", mode |-> "plain"]}

ProcSymmetry == Permutations(Procs)
=============================================================================
