---------------------------- MODULE SlicePlanner ----------------------------
(***************************************************************************)
(* How the Evidence Lake plans one extraction slice of an agent-session    *)
(* stream (internal/evidencelake/lake.go on top of the range queries of    *)
(* internal/platform/postgres/sessions.go).                                *)
(*                                                                         *)
(* A stored Session Event is a record of its id, its stream and its        *)
(* sequence.  Sequences are unique in a stream, so a set of events of one  *)
(* stream determines the ordered rows a query returns, and the input       *)
(* checksum, which hashes exactly the new events in order, is modelled by  *)
(* the set of new events itself.                                           *)
(***************************************************************************)
EXTENDS Integers, FiniteSets, FiniteSetsExt

CONSTANTS
    EventIds,     \* event ids, unique in the scope
    Streams,      \* (agent_id, session_id) streams of one scope
    EventLimit,   \* SlicePolicy.EventLimit
    TokenLimit,   \* SlicePolicy.TokenLimit
    Overlap,      \* SlicePolicy.Overlap
    Tokens        \* estimateEventTokens of the event with a given id

ASSUME PlannerAssumption ==
    /\ EventLimit \in Nat \ {0}
    /\ TokenLimit \in Nat \ {0}
    /\ Overlap \in Nat
    /\ Tokens \in [EventIds -> Nat \ {0}]

Event == [id : EventIds, stream : Streams, seq : Nat \ {0}]

\* estimateEventTokens summed over a set of events.
EventTokens(evs) == MapThenSumSet(LAMBDA e : Tokens[e.id], evs)

\* Mutant of SessionEvents: the row at the cursor is read again.
SessionEventsFromCursor(evs, s, after, limit) ==
    LET rows == {e \in evs : e.stream = s /\ e.seq >= after}
    IN  {e \in rows : Cardinality({f \in rows : f.seq <= e.seq}) <= limit}

\* The rows of stream s with sequence > after, the first `limit` by sequence.
SessionEvents(evs, s, after, limit) ==
    LET rows == {e \in evs : e.stream = s /\ e.seq > after}
    IN  {e \in rows : Cardinality({f \in rows : f.seq <= e.seq}) <= limit}

\* The rows of stream s with sequence <= through, the last `limit` of them.
SessionEventsBefore(evs, s, through, limit) ==
    LET rows == {e \in evs : e.stream = s /\ e.seq <= through}
    IN  {e \in rows : Cardinality({f \in rows : f.seq >= e.seq}) <= limit}

\* A positive bound cuts the rows at the first sequence beyond it.
EventsThrough(evs, through) ==
    IF through <= 0 THEN evs ELSE {e \in evs : e.seq <= through}

\* Mutants of boundedEvents: a first event that is too large does not fit
\* either, or a slice that fills the limit exactly counts as too large.
BoundedEventsStuck(evs, limit) ==
    {e \in evs : EventTokens({f \in evs : f.seq <= e.seq}) <= limit}
BoundedEventsTight(evs, limit) ==
    LET upTo(e) == {f \in evs : f.seq <= e.seq}
        fits(e) == Cardinality(upTo(e)) = 1 \/ EventTokens(upTo(e)) < limit
    IN  {e \in evs : \A f \in upTo(e) : fits(f)}

\* The rows before the first one that would pass the token limit; the first
\* row always fits.
BoundedEvents(evs, limit) ==
    LET upTo(e) == {f \in evs : f.seq <= e.seq}
        fits(e) == Cardinality(upTo(e)) = 1 \/ EventTokens(upTo(e)) <= limit
    IN  {e \in evs : \A f \in upTo(e) : fits(f)}

\* Earlier events as context: the longest suffix that the tokens left over by
\* the new events can hold.
OverlapEvents(evs, s, cursor, usedTokens) ==
    IF cursor = 0 \/ Overlap = 0 \/ usedTokens >= TokenLimit THEN {}
    ELSE LET before == SessionEventsBefore(evs, s, cursor, Overlap)
         IN  {e \in before : EventTokens({f \in before : f.seq >= e.seq})
                                <= TokenLimit - usedTokens}

\* Slice.NewEventIDs: what the slice consumes, and what its checksum hashes.
NewEvents(evs, s, cursor, through) ==
    BoundedEvents(EventsThrough(SessionEvents(evs, s, cursor, EventLimit), through),
                  TokenLimit)

\* Lake.NextSlice: an empty slice has no overlap either.
NextSlice(evs, s, cursor, through) ==
    LET new == NewEvents(evs, s, cursor, through)
    IN  [new     |-> new,
         overlap |-> IF new = {} THEN {}
                     ELSE OverlapEvents(evs, s, cursor, EventTokens(new))]

\* Slice.ToSequence of a slice that has new events.
ToSequence(new) == CHOOSE n \in {e.seq : e \in new} : \A e \in new : e.seq <= n
=============================================================================
