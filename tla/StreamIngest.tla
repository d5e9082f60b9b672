------------------------------ MODULE StreamIngest ------------------------------
(***************************************************************************)
(* SessionRepository.AppendStream: connectors push batches of events into  *)
(* generalized streams, and the server numbers the events in ingest order. *)
(* A transaction locks the stream's row, inserts the events one by one     *)
(* (READ COMMITTED; an insert that collides with an uncommitted row waits  *)
(* for that transaction) and stores the new head.  Event ids are unique in *)
(* the whole scope.  A reader pages through a stream with StreamEvents.    *)
(***************************************************************************)
EXTENDS Integers, Sequences, FiniteSets

CONSTANTS
  Connectors,  \* callers of AppendStream
  Streams,     \* (source, stream id) pairs
  EventIds,    \* event ids, unique within the scope
  Batches,     \* the batches connectors may send: sequences of event ids
  PageLimit,   \* the limit of StreamEvents
  MaxBatches,  \* bound on calls of AppendStream
  Nobody       \* the owner of a free row lock

ASSUME IngestAssumption ==
  /\ Nobody \notin Connectors
  /\ Batches \subseteq Seq(EventIds) /\ <<>> \notin Batches
  /\ PageLimit \in Nat \ {0} /\ MaxBatches \in Nat

VARIABLES
  events,  \* committed session_events rows
  last,    \* session_streams.last_sequence
  complete, \* session_streams.complete
  lock,    \* the holder of each stream's row lock
  tx,      \* each connector's transaction
  acked,   \* (stream, id) pairs of batches whose receipt was returned
  cursor,  \* how far the reader of each stream has read
  read,    \* the rows the readers have seen
  calls

vars == <<events, last, complete, lock, tx, acked, cursor, read, calls>>

NoTx == [pc |-> "idle"]

Init ==
  /\ events = {}
  /\ last = [s \in Streams |-> 0]
  /\ complete = [s \in Streams |-> FALSE]
  /\ lock = [s \in Streams |-> Nobody]
  /\ tx = [k \in Connectors |-> NoTx]
  /\ acked = {}
  /\ cursor = [s \in Streams |-> 0]
  /\ read = {}
  /\ calls = 0

Open(k) == tx[k].pc # "idle"

\* The row is made if it is missing, locked, and its head is read.
Begin(k, s, batch, done) ==
  /\ ~ Open(k) /\ calls < MaxBatches
  /\ lock[s] = Nobody
  /\ calls' = calls + 1
  /\ lock' = [lock EXCEPT ![s] = k]
  /\ tx' = [tx EXCEPT ![k] =
       [pc |-> "open", stream |-> s, batch |-> batch, rest |-> batch,
        head |-> last[s], done |-> done, rows |-> {}]]
  /\ UNCHANGED <<events, last, complete, acked, cursor, read>>

\* Rows a statement of connector k conflicts with.
Visible(k) == events \cup tx[k].rows

Uncommitted(k) == UNION {tx[j].rows : j \in {j \in Connectors \ {k} : Open(j)}}

\* The two unique keys of session_events: the event id and the stream's sequence.
Collides(r, row) == r.id = row.id \/ (r.stream = row.stream /\ r.seq = row.seq)

\* Mutant: a duplicate uses up a sequence number.
InsertEventCounts(k) ==
  LET id  == Head(tx[k].rest)
      row == [id |-> id, stream |-> tx[k].stream, seq |-> tx[k].head + 1]
  IN /\ Open(k) /\ tx[k].rest # <<>>
     /\ \A r \in Uncommitted(k) : ~ Collides(r, row)
     /\ tx' = [tx EXCEPT ![k] =
          [@ EXCEPT !.rest = Tail(@), !.head = @ + 1,
             !.rows = IF \E r \in Visible(k) : r.id = id THEN @ ELSE @ \cup {row}]]
     /\ UNCHANGED <<events, last, complete, lock, acked, cursor, read, calls>>

\* ON CONFLICT (scope_id, event_id) DO NOTHING: a duplicate uses no sequence.
\* A key that another transaction is inserting has to be waited for, and a
\* sequence that is taken fails the statement (Abort).
InsertEvent(k) ==
  LET id  == Head(tx[k].rest)
      row == [id |-> id, stream |-> tx[k].stream, seq |-> tx[k].head + 1]
  IN /\ Open(k) /\ tx[k].rest # <<>>
     /\ \A r \in Uncommitted(k) : ~ Collides(r, row)
     /\ (\E r \in Visible(k) : Collides(r, row)) => \E r \in Visible(k) : r.id = id
     /\ tx' = [tx EXCEPT ![k] =
          IF \E r \in Visible(k) : r.id = id
            THEN [tx[k] EXCEPT !.rest = Tail(@)]
            ELSE [tx[k] EXCEPT !.rest = Tail(@), !.head = @ + 1, !.rows = @ \cup {row}]]
     /\ UNCHANGED <<events, last, complete, lock, acked, cursor, read, calls>>

\* The new head is stored, the rows become visible, the receipt goes out.
Commit(k) ==
  LET s == tx[k].stream
  IN /\ Open(k) /\ tx[k].rest = <<>>
     /\ events' = events \cup tx[k].rows
     /\ last' = [last EXCEPT ![s] = tx[k].head]
     /\ complete' = [complete EXCEPT ![s] = @ \/ tx[k].done]
     /\ lock' = [lock EXCEPT ![s] = Nobody]
     /\ acked' = acked \cup {<<s, tx[k].batch[i]>> : i \in DOMAIN tx[k].batch}
     /\ tx' = [tx EXCEPT ![k] = NoTx]
     /\ UNCHANGED <<cursor, read, calls>>

\* An error, a lost connection, a crash, or the deadlock detector.
Abort(k) ==
  /\ Open(k)
  /\ lock' = [lock EXCEPT ![tx[k].stream] = Nobody]
  /\ tx' = [tx EXCEPT ![k] = NoTx]
  /\ UNCHANGED <<events, last, complete, acked, cursor, read, calls>>

\* Mutant: the page is taken from the wrong end (ORDER BY sequence DESC).
StreamEventsNewest(s, after) ==
  LET later == {e \in events : e.stream = s /\ e.seq > after}
  IN {e \in later : Cardinality({f \in later : f.seq > e.seq}) < PageLimit}

\* StreamEvents: the next page after a sequence, in sequence order.
StreamEvents(s, after) ==
  LET later == {e \in events : e.stream = s /\ e.seq > after}
  IN {e \in later : Cardinality({f \in later : f.seq < e.seq}) < PageLimit}

\* A reader that continues from the last sequence it has seen.
Poll(s) ==
  LET page == StreamEvents(s, cursor[s])
  IN /\ page # {}
     /\ read' = read \cup page
     /\ cursor' = [cursor EXCEPT ![s] =
          (CHOOSE e \in page : \A f \in page : f.seq <= e.seq).seq]
     /\ UNCHANGED <<events, last, complete, lock, tx, acked, calls>>

Next ==
  \/ \E k \in Connectors, s \in Streams, batch \in Batches, done \in BOOLEAN :
       Begin(k, s, batch, done)
  \/ \E k \in Connectors : InsertEvent(k) \/ Commit(k) \/ Abort(k)
  \/ \E s \in Streams : Poll(s)

Spec == Init /\ [][Next]_vars
-----------------------------------------------------------------------------
Row == [id : EventIds, stream : Streams, seq : Nat]

\* The state has its type, and a transaction is open exactly while it holds
\* the lock of its stream.
TypeOK ==
  /\ events \subseteq Row /\ read \subseteq Row
  /\ last \in [Streams -> Nat] /\ complete \in [Streams -> BOOLEAN] /\ cursor \in [Streams -> Nat]
  /\ lock \in [Streams -> Connectors \cup {Nobody}]
  /\ acked \subseteq Streams \X EventIds
  /\ \A k \in Connectors :
       Open(k) => /\ tx[k].rows \subseteq Row /\ tx[k].head \in Nat
                  /\ lock[tx[k].stream] = k
  /\ \A s \in Streams :
       lock[s] # Nobody => Open(lock[s]) /\ tx[lock[s]].stream = s

\* A stream's events are numbered 1 .. last_sequence without a gap and without
\* a repetition, and no event id is stored twice in the scope, whatever
\* batches overlap, repeat or are rolled back; every event of a batch whose
\* receipt was returned is among them (under the stream that brought the id
\* first).
Gapless ==
  /\ TypeOK
  /\ \A s \in Streams : {e.seq : e \in {e \in events : e.stream = s}} = 1 .. last[s]
  /\ \A e, f \in events :
       e # f => e.id # f.id /\ (e.stream = f.stream => e.seq # f.seq)
  /\ \A a \in acked : \E e \in events : e.id = a[2]

\* A reader that has reached a sequence has seen every event up to it: no
\* event ever becomes visible behind a reader's cursor.
NothingBehindCursor ==
  \A e \in events : e.seq <= cursor[e.stream] => e \in read
=============================================================================
