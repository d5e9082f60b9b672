------------------------------ MODULE SliceWalk ------------------------------
(***************************************************************************)
(* One worker alone with a stream: the slices that repeated NextSlice and  *)
(* CommitSlice calls of ProcessExtraction cut out of it, for every log,    *)
(* every bound and every size of event.                                    *)
(***************************************************************************)
EXTENDS SlicePlanner, Sequences

CONSTANTS
    LastSeq,       \* bound on sequences
    Logs          \* the logs to walk over, sets of events of one stream

Stream == CHOOSE s \in Streams : TRUE

ASSUME LogsAssumption ==
    /\ Streams # {} /\ LastSeq \in Nat
    /\ \A evs \in Logs : evs \subseteq Event
    /\ \A evs \in Logs : \A e \in evs : e.stream = Stream /\ e.seq <= LastSeq
    /\ \A evs \in Logs : \A e, f \in evs : e.seq = f.seq => e = f

VARIABLES
    log,       \* the stream's stored events
    through,   \* SlicePolicy.ThroughSequence; 0 is no bound
    position,  \* the extraction cursor
    taken      \* the slices committed so far, with the cursor they started from

walkVars == <<log, through, position, taken>>

WalkTypeOK ==
    /\ log \in Logs
    /\ through \in 0..LastSeq
    /\ position \in 0..LastSeq
    /\ taken \in Seq([cursor : 0..LastSeq, new : SUBSET log, overlap : SUBSET log])

WalkInit ==
    /\ log \in Logs
    /\ through \in 0..LastSeq
    /\ position = 0
    /\ taken = << >>

\* One round of the loop of ProcessExtraction.
Walk ==
    LET next == NextSlice(log, Stream, position, through)
    IN  /\ next.new # {}
        /\ position' = ToSequence(next.new)
        /\ taken' = Append(taken, [cursor |-> position, new |-> next.new,
                                   overlap |-> next.overlap])
        /\ UNCHANGED <<log, through>>

WalkSpec == WalkInit /\ [][Walk]_walkVars

-----------------------------------------------------------------------------

Slices == {taken[i] : i \in DOMAIN taken}
Due == {e \in log : through = 0 \/ e.seq <= through}

\* A slice stays within SlicePolicy (lake.go): at most EventLimit new events
\* and Overlap earlier ones, and no more tokens than TokenLimit unless one
\* event alone is larger, which then comes without overlap.
SlicesFit ==
    \A s \in Slices :
        /\ Cardinality(s.new) <= EventLimit /\ Cardinality(s.overlap) <= Overlap
        /\ \/ EventTokens(s.new \cup s.overlap) <= TokenLimit
           \/ Cardinality(s.new) = 1 /\ s.overlap = {}

\* boundedEvents and overlapEvents stop only at a limit: the first event that a
\* slice leaves out after its new events, or before its overlap, would break
\* one (SlicePolicy is used as far as it goes, and no further).
SlicesMaximal ==
    SlicesFit /\ \A s \in Slices :
        LET rest == {e \in Due : e.seq > ToSequence(s.new)}
            older == {e \in log : e.seq <= s.cursor} \ s.overlap
        IN  /\ \A e \in rest : (\A f \in rest : e.seq <= f.seq) =>
                   \/ Cardinality(s.new) = EventLimit
                   \/ EventTokens(s.new \cup {e}) > TokenLimit
            /\ \A e \in older : (\A f \in older : f.seq <= e.seq) =>
                   \/ Cardinality(s.overlap) = Overlap
                   \/ EventTokens(s.new \cup s.overlap \cup {e}) > TokenLimit

\* The new events of the slices cut the stream into pieces, in order and
\* without a gap; a walk that ends has consumed all that was due, and overlap
\* is never consumed twice.
SlicesPartition ==
    /\ WalkTypeOK
    /\ UNION {s.new : s \in Slices} = {e \in log : e.seq <= position}
    /\ \A i, k \in DOMAIN taken : i < k =>
           /\ \A e \in taken[i].new, f \in taken[k].new : e.seq < f.seq
           /\ taken[k].overlap \subseteq UNION {taken[j].new : j \in 1..(k - 1)}
    /\ (NextSlice(log, Stream, position, through).new = {}) =>
           Due \subseteq UNION {s.new : s \in Slices}
=============================================================================
