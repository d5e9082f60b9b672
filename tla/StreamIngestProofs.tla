------------------------- MODULE StreamIngestProofs -------------------------
(***************************************************************************)
(* Proofs about StreamIngest, for any number of connectors, streams,       *)
(* batches, event ids and calls, and every page limit.                     *)
(***************************************************************************)
EXTENDS StreamIngest, CommonLemmas, FiniteSetTheorems, TLAPS

-----------------------------------------------------------------------------
(* The inductive invariant *)

OpenTx ==
    [pc : {"open"}, stream : Streams, batch : Seq(EventIds), rest : Seq(EventIds),
     head : Nat, done : BOOLEAN, rows : SUBSET Row]

\* The types that TypeOK leaves out.
Types ==
    /\ tx \in [Connectors -> {NoTx} \cup OpenTx]
    /\ calls \in Nat
    /\ IsFiniteSet(events)
    /\ \A k \in Connectors : Open(k) => IsFiniteSet(tx[k].rows)

\* The committed rows of a stream are numbered 1 .. last_sequence.
Numbered ==
    /\ \A e \in events : 1 <= e.seq /\ e.seq <= last[e.stream]
    /\ \A s \in Streams : \A n \in 1 .. last[s] : \E e \in events : e.stream = s /\ e.seq = n

\* Neither unique key of session_events is violated among some rows.
KeysUnique(rows) ==
    \A e, f \in rows : e # f => e.id # f.id /\ (e.stream = f.stream => e.seq # f.seq)

\* An open transaction holds the rows last_sequence + 1 .. head of its stream,
\* whose ids no committed row and no other open transaction has.
TxRows(k) ==
    Open(k) =>
        /\ last[tx[k].stream] <= tx[k].head
        /\ \A r \in tx[k].rows :
              /\ r.stream = tx[k].stream
              /\ last[r.stream] < r.seq /\ r.seq <= tx[k].head
              /\ \A e \in events : e.id # r.id
        /\ \A n \in last[tx[k].stream] + 1 .. tx[k].head : \E r \in tx[k].rows : r.seq = n
        /\ KeysUnique(tx[k].rows)

TxDisjoint ==
    \A j, k \in Connectors :
        j # k /\ Open(j) /\ Open(k) =>
            \A r \in tx[j].rows, q \in tx[k].rows : r.id # q.id

\* What a transaction has left to insert, and what it sees, is its whole batch.
TxBatch(k) ==
    Open(k) =>
        \A i \in DOMAIN tx[k].batch :
            \/ \E j \in DOMAIN tx[k].rest : tx[k].rest[j] = tx[k].batch[i]
            \/ \E r \in Visible(k) : r.id = tx[k].batch[i]

Acknowledged == \A a \in acked : \E e \in events : e.id = a[2]

CursorBounded == \A s \in Streams : cursor[s] <= last[s]

IngestInv ==
    /\ TypeOK /\ Types
    /\ Numbered /\ KeysUnique(events)
    /\ \A k \in Connectors : TxRows(k) /\ TxBatch(k)
    /\ TxDisjoint
    /\ Acknowledged
    /\ CursorBounded /\ NothingBehindCursor

\* The empty store satisfies the invariant.
LEMMA InitInv == Init => IngestInv
<1> SUFFICES ASSUME Init PROVE IngestInv
  OBVIOUS
<1>1. \A k \in Connectors : ~ Open(k)
  BY DEF Init, Open, NoTx
<1>2. TypeOK
  BY <1>1, IngestAssumption DEF Init, TypeOK
<1>3. Types
  BY <1>1, FS_EmptySet DEF Init, Types, NoTx
<1> QED
  BY <1>1, <1>2, <1>3 DEF Init, IngestInv, Numbered, KeysUnique, TxRows, TxBatch, TxDisjoint,
     Acknowledged, CursorBounded, NothingBehindCursor

\* The invariant looks at every variable only.
LEMMA StutterInv == ASSUME IngestInv, UNCHANGED vars PROVE IngestInv'
  BY DEF IngestInv, vars, TypeOK, Types, Numbered, KeysUnique, TxRows, TxBatch, TxDisjoint,
     Acknowledged, CursorBounded, NothingBehindCursor, Open, Visible

-----------------------------------------------------------------------------
(* Transactions *)

\* The states of a transaction.
LEMMA TxShape ==
    ASSUME IngestInv, NEW k \in Connectors
    PROVE  /\ Open(k) => tx[k] \in OpenTx
           /\ ~ Open(k) => tx[k] = NoTx
  BY DEF IngestInv, Types, Open, OpenTx, NoTx

\* Two open transactions have locked different streams.
LEMMA OneTxPerStream ==
    ASSUME IngestInv, NEW j \in Connectors, NEW k \in Connectors, Open(j), Open(k), j # k
    PROVE  tx[j].stream # tx[k].stream
  BY DEF IngestInv, TypeOK

\* A transaction starts with no rows and its whole batch to insert.
LEMMA BeginInv ==
    ASSUME IngestInv, NEW k \in Connectors, NEW s \in Streams, NEW batch \in Batches,
           NEW done \in BOOLEAN, Begin(k, s, batch, done)
    PROVE  IngestInv'
<1> DEFINE new == [pc |-> "open", stream |-> s, batch |-> batch, rest |-> batch,
                   head |-> last[s], done |-> done, rows |-> {}]
<1>0. new \in OpenTx
  BY IngestAssumption DEF IngestInv, TypeOK, OpenTx
<1>1. /\ ~ Open(k) /\ lock[s] = Nobody /\ lock' = [lock EXCEPT ![s] = k]
      /\ tx' = [tx EXCEPT ![k] = new] /\ calls' = calls + 1
      /\ UNCHANGED <<events, last, complete, acked, cursor, read>>
  BY DEF Begin
<1>2. tx' \in [Connectors -> {NoTx} \cup OpenTx] /\ tx'[k] = new
  BY <1>0, <1>1 DEF IngestInv, Types
<1>3. /\ Open(k)' /\ tx'[k].pc = "open" /\ tx'[k].stream = s /\ tx'[k].batch = batch
      /\ tx'[k].rest = batch /\ tx'[k].head = last[s] /\ tx'[k].rows = {}
  BY <1>2 DEF Open
<1>4. \A j \in Connectors : j # k => tx'[j] = tx[j] /\ (Open(j)' <=> Open(j))
  <2>1. \A j \in Connectors : j # k => tx'[j] = tx[j]
    BY <1>1 DEF IngestInv, Types
  <2> QED
    BY <2>1 DEF Open
<1> HIDE DEF new
<1>5. TypeOK'
  <2>1. lock' \in [Streams -> Connectors \cup {Nobody}]
    BY <1>1 DEF IngestInv, TypeOK
  <2>2. ASSUME NEW j \in Connectors, Open(j)'
        PROVE  tx'[j].rows \subseteq Row /\ tx'[j].head \in Nat /\ lock'[tx'[j].stream] = j
    BY <2>2, <1>1, <1>3, <1>4, IngestAssumption DEF IngestInv, TypeOK
  <2>3. ASSUME NEW t \in Streams, lock'[t] # Nobody
        PROVE  (Open(lock[t]) /\ tx[lock[t]].stream = t)'
    <3>1. CASE t = s
      BY <3>1, <1>1, <1>3 DEF IngestInv, TypeOK
    <3>2. CASE t # s
      <4>1. lock'[t] = lock[t] /\ lock[t] \in Connectors /\ Open(lock[t]) /\ tx[lock[t]].stream = t
        BY <3>2, <2>3, <1>1 DEF IngestInv, TypeOK
      <4> QED
        BY <4>1, <1>1, <1>4
    <3> QED
      BY <3>1, <3>2
  <2> QED
    BY <2>1, <2>2, <2>3, <1>1 DEF IngestInv, TypeOK
<1>6. Types'
  BY <1>1, <1>2, <1>3, <1>4, FS_EmptySet DEF IngestInv, Types
<1>7. TxRows(k)' /\ TxBatch(k)'
  BY <1>1, <1>3, IngestAssumption DEF IngestInv, TypeOK, TxRows, TxBatch, KeysUnique
<1>8. ASSUME NEW j \in Connectors, j # k PROVE TxRows(j)' /\ TxBatch(j)'
  BY <1>1, <1>4, <1>8 DEF IngestInv, TxRows, TxBatch, KeysUnique, Visible
<1>9. TxDisjoint'
  BY <1>3, <1>4 DEF IngestInv, TxDisjoint
<1> QED
  BY <1>1, <1>5, <1>6, <1>7, <1>8, <1>9
     DEF IngestInv, Numbered, KeysUnique, Acknowledged, CursorBounded, NothingBehindCursor

\* A transaction that ends without a trace frees its stream.
LEMMA AbortInv ==
    ASSUME IngestInv, NEW k \in Connectors, Abort(k)
    PROVE  IngestInv'
<1>1. /\ Open(k) /\ tx[k] \in OpenTx
      /\ lock' = [lock EXCEPT ![tx[k].stream] = Nobody]
      /\ tx' = [tx EXCEPT ![k] = NoTx]
      /\ UNCHANGED <<events, last, complete, acked, cursor, read, calls>>
  BY TxShape DEF Abort
<1>2. tx[k].stream \in Streams
  BY <1>1 DEF OpenTx
<1>3. tx' \in [Connectors -> {NoTx} \cup OpenTx] /\ tx'[k] = NoTx /\ ~ Open(k)'
  BY <1>1 DEF IngestInv, Types, Open, NoTx
<1>4. \A j \in Connectors : j # k => tx'[j] = tx[j] /\ (Open(j)' <=> Open(j))
  <2>1. \A j \in Connectors : j # k => tx'[j] = tx[j]
    BY <1>1 DEF IngestInv, Types
  <2> QED
    BY <2>1 DEF Open
<1>5. TypeOK'
  <2>1. lock' \in [Streams -> Connectors \cup {Nobody}]
    BY <1>1 DEF IngestInv, TypeOK
  <2>2. ASSUME NEW j \in Connectors, Open(j)'
        PROVE  tx'[j].rows \subseteq Row /\ tx'[j].head \in Nat /\ lock'[tx'[j].stream] = j
    BY <2>2, <1>1, <1>2, <1>3, <1>4, OneTxPerStream, TxShape DEF IngestInv, TypeOK, OpenTx
  <2>3. ASSUME NEW t \in Streams, lock'[t] # Nobody
        PROVE  (Open(lock[t]) /\ tx[lock[t]].stream = t)'
    <3>1. t # tx[k].stream /\ lock'[t] = lock[t] /\ lock[t] \in Connectors
      BY <2>3, <1>1, <1>2 DEF IngestInv, TypeOK
    <3>2. Open(lock[t]) /\ tx[lock[t]].stream = t
      BY <2>3, <3>1 DEF IngestInv, TypeOK
    <3> QED
      BY <3>1, <3>2, <1>1, <1>4
  <2> QED
    BY <2>1, <2>2, <2>3, <1>1 DEF IngestInv, TypeOK
<1>6. Types'
  BY <1>1, <1>3, <1>4 DEF IngestInv, Types
<1>7. ASSUME NEW j \in Connectors PROVE TxRows(j)' /\ TxBatch(j)'
  BY <1>1, <1>3, <1>4 DEF IngestInv, TxRows, TxBatch, KeysUnique, Visible
<1>8. TxDisjoint'
  BY <1>3, <1>4 DEF IngestInv, TxDisjoint
<1> QED
  BY <1>1, <1>5, <1>6, <1>7, <1>8
     DEF IngestInv, Numbered, KeysUnique, Acknowledged, CursorBounded, NothingBehindCursor

\* What an insert does to the record of its transaction.
LEMMA TxUpdate ==
    ASSUME NEW t \in OpenTx, NEW rest \in Seq(EventIds), NEW head \in Nat,
           NEW rows \in SUBSET Row
    PROVE  /\ [t EXCEPT !.rest = rest] \in OpenTx
           /\ [t EXCEPT !.rest = rest, !.head = head, !.rows = rows] \in OpenTx
  BY DEF OpenTx

\* An insert adds a row after the head, under an id nobody else has, or skips
\* an id that the transaction sees.
LEMMA InsertEventInv ==
    ASSUME IngestInv, NEW k \in Connectors, InsertEvent(k)
    PROVE  IngestInv'
<1> DEFINE id  == Head(tx[k].rest)
           row == [id |-> id, stream |-> tx[k].stream, seq |-> tx[k].head + 1]
           dup == \E r \in Visible(k) : r.id = id
           skip == [tx[k] EXCEPT !.rest = Tail(@)]
           add  == [tx[k] EXCEPT !.rest = Tail(@), !.head = @ + 1, !.rows = @ \cup {row}]
<1>1. /\ Open(k) /\ tx[k] \in OpenTx /\ tx[k].rest # <<>>
      /\ \A r \in Uncommitted(k) : ~ Collides(r, row)
      /\ UNCHANGED <<events, last, complete, lock, acked, cursor, read, calls>>
  BY TxShape DEF InsertEvent
<1>2. tx' = [tx EXCEPT ![k] = IF dup THEN skip ELSE add]
  BY DEF InsertEvent, IngestInv, Types
<1>3. /\ tx[k].rest \in Seq(EventIds) /\ id \in EventIds /\ Tail(tx[k].rest) \in Seq(EventIds)
      /\ tx[k].stream \in Streams /\ tx[k].head \in Nat /\ tx[k].rows \subseteq Row
      /\ row \in Row
  BY <1>1 DEF OpenTx, Row
<1>4. /\ \A r \in Visible(k) : r \in Row
      /\ last[tx[k].stream] \in Nat
  BY <1>3 DEF IngestInv, TypeOK, Visible
<1>5. \A j \in DOMAIN tx[k].rest :
         tx[k].rest[j] = id \/ \E i \in DOMAIN Tail(tx[k].rest) : Tail(tx[k].rest)[i] = tx[k].rest[j]
  <2> SUFFICES ASSUME NEW j \in DOMAIN tx[k].rest, j # 1
               PROVE  \E i \in DOMAIN Tail(tx[k].rest) : Tail(tx[k].rest)[i] = tx[k].rest[j]
    BY <1>3
  <2>1. j - 1 \in DOMAIN Tail(tx[k].rest) /\ Tail(tx[k].rest)[j - 1] = tx[k].rest[j]
    BY <1>1, <1>3, SMTT(30)
  <2> QED
    BY <2>1
<1>6. /\ tx' \in [Connectors -> {NoTx} \cup OpenTx]
      /\ Open(k)' /\ tx'[k].stream = tx[k].stream /\ tx'[k].batch = tx[k].batch
      /\ tx'[k].rest = Tail(tx[k].rest)
      /\ dup => tx'[k].head = tx[k].head /\ tx'[k].rows = tx[k].rows
      /\ ~ dup => tx'[k].head = tx[k].head + 1 /\ tx'[k].rows = tx[k].rows \cup {row}
  <2>1. skip \in OpenTx /\ add \in OpenTx
    <3>1. tx[k].rows \cup {row} \in SUBSET Row /\ tx[k].head + 1 \in Nat
      BY <1>3
    <3> QED
      BY <1>1, <1>3, <3>1, TxUpdate, Zenon
  <2>2. tx' \in [Connectors -> {NoTx} \cup OpenTx] /\ tx'[k] = IF dup THEN skip ELSE add
    BY <2>1, <1>2 DEF IngestInv, Types
  <2>3. skip.pc = "open" /\ add.pc = "open"
    BY <2>1 DEF OpenTx
  <2>4. skip.stream = tx[k].stream /\ skip.batch = tx[k].batch /\ skip.rest = Tail(tx[k].rest)
        /\ skip.head = tx[k].head /\ skip.rows = tx[k].rows
    BY <1>1 DEF OpenTx
  <2>5. add.stream = tx[k].stream /\ add.batch = tx[k].batch /\ add.rest = Tail(tx[k].rest)
        /\ add.head = tx[k].head + 1 /\ add.rows = tx[k].rows \cup {row}
    BY <1>1 DEF OpenTx
  <2> HIDE DEF dup, skip, add
  <2> QED
    BY <2>2, <2>3, <2>4, <2>5 DEF Open
<1>7. \A j \in Connectors : j # k => tx'[j] = tx[j] /\ (Open(j)' <=> Open(j))
  BY <1>2 DEF IngestInv, Types, Open
<1>8. \A j \in Connectors : j # k /\ Open(j) => \A r \in tx[j].rows : r.id # id
  BY <1>1 DEF Uncommitted, Collides
<1>9. ~ dup => /\ \A e \in events : e.id # id
               /\ \A r \in tx[k].rows : r.id # id
  BY DEF Visible
<1>10. dup => Visible(k)' = Visible(k)
  BY <1>1, <1>6 DEF Visible
<1>11. ~ dup => Visible(k)' = Visible(k) \cup {row}
  BY <1>1, <1>6 DEF Visible
<1>12. row.id = id /\ row.stream = tx[k].stream /\ row.seq = tx[k].head + 1
  OBVIOUS
<1> HIDE DEF row, id
<1>13. TypeOK'
  <2>1. ASSUME NEW j \in Connectors, Open(j)'
        PROVE  tx'[j].rows \subseteq Row /\ tx'[j].head \in Nat /\ lock'[tx'[j].stream] = j
    <3>1. CASE j = k
      BY <3>1, <1>1, <1>3, <1>6 DEF IngestInv, TypeOK
    <3>2. CASE j # k
      BY <2>1, <3>2, <1>1, <1>7 DEF IngestInv, TypeOK
    <3> QED
      BY <3>1, <3>2
  <2>2. ASSUME NEW t \in Streams, lock'[t] # Nobody
        PROVE  (Open(lock[t]) /\ tx[lock[t]].stream = t)'
    <3>1. lock'[t] = lock[t] /\ lock[t] \in Connectors /\ Open(lock[t]) /\ tx[lock[t]].stream = t
      BY <2>2, <1>1 DEF IngestInv, TypeOK
    <3> QED
      BY <3>1, <1>6, <1>7
  <2> QED
    BY <2>1, <2>2, <1>1 DEF IngestInv, TypeOK
<1>14. Types'
  <2>1. IsFiniteSet(tx'[k].rows)
    BY <1>1, <1>6, FS_AddElement DEF IngestInv, Types
  <2> QED
    BY <2>1, <1>1, <1>6, <1>7 DEF IngestInv, Types
<1>15. TxRows(k)'
  <2>0. TxRows(k)
    BY DEF IngestInv
  <2>1. CASE dup
    BY <2>0, <2>1, <1>1, <1>6 DEF TxRows, KeysUnique
  <2>2. CASE ~ dup
    <3>1. \A r \in tx'[k].rows : r \in tx[k].rows \/ r = row
      BY <2>2, <1>6
    <3>2. last'[tx'[k].stream] <= tx'[k].head
      BY <2>0, <2>2, <1>1, <1>3, <1>4, <1>6 DEF TxRows
    <3>3. ASSUME NEW r \in tx'[k].rows
          PROVE  /\ r.stream = tx'[k].stream
                 /\ last'[r.stream] < r.seq /\ r.seq <= tx'[k].head
                 /\ \A e \in events' : e.id # r.id
      <4>1. CASE r = row
        BY <4>1, <2>0, <2>2, <1>1, <1>3, <1>4, <1>6, <1>9, <1>12 DEF TxRows
      <4>2. CASE r \in tx[k].rows
        <5>1. r \in Row
          BY <4>2, <1>3
        <5> QED
          BY <4>2, <5>1, <2>0, <2>2, <1>1, <1>3, <1>4, <1>6 DEF TxRows, Row
      <4> QED
        BY <4>1, <4>2, <3>1
    <3>4. ASSUME NEW n \in last'[tx'[k].stream] + 1 .. tx'[k].head
          PROVE  \E r \in tx'[k].rows : r.seq = n
      <4>1. n \in last[tx[k].stream] + 1 .. tx[k].head \/ n = tx[k].head + 1
        BY <2>2, <1>1, <1>3, <1>4, <1>6
      <4> QED
        BY <4>1, <2>0, <2>2, <1>1, <1>6, <1>12 DEF TxRows
    <3>5. KeysUnique(tx'[k].rows)
      <4>1. \A r \in tx[k].rows : r.id # row.id /\ r.seq # row.seq
        BY <2>0, <2>2, <1>1, <1>3, <1>9, <1>12 DEF TxRows, Row
      <4> QED
        BY <4>1, <3>1, <2>0, <1>1 DEF TxRows, KeysUnique
    <3> QED
      BY <3>2, <3>3, <3>4, <3>5 DEF TxRows, KeysUnique
  <2> QED
    BY <2>1, <2>2
<1>16. TxBatch(k)'
  <2> SUFFICES ASSUME NEW i \in DOMAIN tx[k].batch
               PROVE  \/ \E j \in DOMAIN tx'[k].rest : tx'[k].rest[j] = tx[k].batch[i]
                      \/ \E r \in Visible(k)' : r.id = tx[k].batch[i]
    BY <1>6 DEF TxBatch
  <2>1. CASE \E r \in Visible(k) : r.id = tx[k].batch[i]
    BY <2>1, <1>10, <1>11
  <2>2. CASE \E j \in DOMAIN tx[k].rest : tx[k].rest[j] = tx[k].batch[i]
    BY <2>2, <1>5, <1>6, <1>10, <1>11, <1>12
  <2> QED
    BY <2>1, <2>2, <1>1 DEF IngestInv, TxBatch
<1>17. ASSUME NEW j \in Connectors, j # k PROVE TxRows(j)' /\ TxBatch(j)'
  BY <1>1, <1>7, <1>17 DEF IngestInv, TxRows, TxBatch, KeysUnique, Visible
<1>18. TxDisjoint'
  <2> SUFFICES ASSUME NEW j \in Connectors, j # k, Open(j),
                      NEW r \in tx[j].rows, NEW q \in tx'[k].rows
               PROVE  r.id # q.id
    BY <1>7 DEF IngestInv, TxDisjoint
  <2>1. q \in tx[k].rows \/ q = row
    BY <1>6
  <2> QED
    BY <2>1, <1>1, <1>8, <1>12 DEF IngestInv, TxDisjoint
<1> QED
  BY <1>1, <1>13, <1>14, <1>15, <1>16, <1>17, <1>18
     DEF IngestInv, Numbered, KeysUnique, Acknowledged, CursorBounded, NothingBehindCursor

\* A commit publishes rows that continue the stream without a gap, under ids
\* that no other transaction holds, and with them the whole batch.
LEMMA CommitInv ==
    ASSUME IngestInv, NEW k \in Connectors, Commit(k)
    PROVE  IngestInv'
<1> DEFINE s == tx[k].stream
           rows == tx[k].rows
<1>1. /\ Open(k) /\ tx[k] \in OpenTx /\ tx[k].rest = <<>>
      /\ events' = events \cup rows
      /\ last' = [last EXCEPT ![s] = tx[k].head]
      /\ complete' = [complete EXCEPT ![s] = @ \/ tx[k].done]
      /\ lock' = [lock EXCEPT ![s] = Nobody]
      /\ acked' = acked \cup {<<s, tx[k].batch[i]>> : i \in DOMAIN tx[k].batch}
      /\ tx' = [tx EXCEPT ![k] = NoTx]
      /\ UNCHANGED <<cursor, read, calls>>
  BY TxShape DEF Commit
<1>2. /\ s \in Streams /\ tx[k].head \in Nat /\ rows \subseteq Row
      /\ tx[k].done \in BOOLEAN /\ tx[k].batch \in Seq(EventIds)
  BY <1>1 DEF OpenTx
<1>3. tx' \in [Connectors -> {NoTx} \cup OpenTx] /\ tx'[k] = NoTx /\ ~ Open(k)'
  BY <1>1 DEF IngestInv, Types, Open, NoTx
<1>4. \A j \in Connectors : j # k => tx'[j] = tx[j] /\ (Open(j)' <=> Open(j))
  <2>1. \A j \in Connectors : j # k => tx'[j] = tx[j]
    BY <1>1 DEF IngestInv, Types
  <2> QED
    BY <2>1 DEF Open
<1>5. \A j \in Connectors : j # k /\ Open(j) => tx[j].stream # s
  BY <1>1, OneTxPerStream
<1>6. TxRows(k) /\ TxBatch(k)
  BY DEF IngestInv
<1>7. /\ last \in [Streams -> Nat] /\ last' \in [Streams -> Nat]
      /\ last'[s] = tx[k].head /\ last[s] <= last'[s]
      /\ \A t \in Streams : t # s => last'[t] = last[t]
  BY <1>1, <1>2, <1>6 DEF IngestInv, TypeOK, TxRows
<1>8. \A r \in rows : r.stream = s /\ last[s] < r.seq /\ r.seq <= last'[s]
  BY <1>1, <1>6, <1>7 DEF TxRows
<1>9. events \subseteq Row /\ events' \subseteq Row
  BY <1>1, <1>2 DEF IngestInv, TypeOK
<1> HIDE DEF s, rows
<1>10. TypeOK'
  <2>1. lock' \in [Streams -> Connectors \cup {Nobody}]
    BY <1>1 DEF IngestInv, TypeOK
  <2>2. complete' \in [Streams -> BOOLEAN]
    BY <1>1, <1>2 DEF IngestInv, TypeOK
  <2>3. acked' \subseteq Streams \X EventIds
    <3>1. \A i \in DOMAIN tx[k].batch : tx[k].batch[i] \in EventIds
      BY <1>2
    <3> QED
      BY <3>1, <1>1, <1>2 DEF IngestInv, TypeOK
  <2>4. ASSUME NEW j \in Connectors, Open(j)'
        PROVE  tx'[j].rows \subseteq Row /\ tx'[j].head \in Nat /\ lock'[tx'[j].stream] = j
    <3>1. j # k /\ tx'[j] = tx[j] /\ Open(j)
      BY <2>4, <1>3, <1>4
    <3>2. tx[j].stream # s /\ tx[j].stream \in Streams
      BY <3>1, <1>5, TxShape DEF OpenTx
    <3> QED
      BY <3>1, <3>2, <1>1 DEF IngestInv, TypeOK
  <2>5. ASSUME NEW t \in Streams, lock'[t] # Nobody
        PROVE  (Open(lock[t]) /\ tx[lock[t]].stream = t)'
    <3>1. t # s /\ lock'[t] = lock[t] /\ lock[t] \in Connectors
      BY <2>5, <1>1, <1>2 DEF IngestInv, TypeOK
    <3>2. Open(lock[t]) /\ tx[lock[t]].stream = t
      BY <2>5, <3>1 DEF IngestInv, TypeOK
    <3>3. lock[t] # k
      BY <3>1, <3>2 DEF s
    <3> QED
      BY <3>1, <3>2, <3>3, <1>4
  <2> QED
    BY <2>1, <2>2, <2>3, <2>4, <2>5, <1>1, <1>7, <1>9 DEF IngestInv, TypeOK
<1>11. Types'
  <2>1. IsFiniteSet(events')
    BY <1>1, FS_Union DEF IngestInv, Types, rows
  <2> QED
    BY <2>1, <1>1, <1>3, <1>4 DEF IngestInv, Types
<1>12. Numbered'
  <2>1. ASSUME NEW e \in events' PROVE 1 <= e.seq /\ e.seq <= last'[e.stream]
    <3>1. e.seq \in Nat /\ e.stream \in Streams
      BY <1>9 DEF Row
    <3>2. CASE e \in rows
      BY <3>1, <3>2, <1>2, <1>7, <1>8
    <3>3. CASE e \in events
      <4>1. 1 <= e.seq /\ e.seq <= last[e.stream]
        BY <3>3 DEF IngestInv, Numbered
      <4>2. last[e.stream] <= last'[e.stream]
        BY <3>1, <1>2, <1>7
      <4> QED
        BY <3>1, <4>1, <4>2, <1>7
    <3> QED
      BY <3>2, <3>3, <1>1
  <2>2. ASSUME NEW t \in Streams, NEW n \in 1 .. last'[t]
        PROVE  \E e \in events' : e.stream = t /\ e.seq = n
    <3>1. CASE n \in 1 .. last[t]
      BY <3>1, <1>1 DEF IngestInv, Numbered
    <3>2. CASE n \notin 1 .. last[t]
      <4>1. t = s /\ n \in last[s] + 1 .. tx[k].head
        BY <3>2, <1>2, <1>7
      <4> QED
        BY <4>1, <1>1, <1>6, <1>8 DEF TxRows, s, rows
    <3> QED
      BY <3>1, <3>2
  <2> QED
    BY <2>1, <2>2 DEF Numbered
<1>13. KeysUnique(events)'
  <2>1. ASSUME NEW e \in events, NEW r \in rows
        PROVE  e.id # r.id /\ (e.stream = r.stream => e.seq # r.seq)
    <3>1. e.seq \in Nat /\ r.seq \in Nat /\ e.stream \in Streams
      BY <1>2, <1>9 DEF Row
    <3>2. e.seq <= last[e.stream] /\ e.id # r.id
      BY <1>1, <1>6 DEF IngestInv, Numbered, TxRows, rows
    <3> QED
      BY <3>1, <3>2, <1>7, <1>8
  <2>2. KeysUnique(events) /\ KeysUnique(rows)
    BY <1>1, <1>6 DEF IngestInv, TxRows, rows
  <2> QED
    BY <2>1, <2>2, <1>1 DEF KeysUnique
<1>14. ASSUME NEW j \in Connectors PROVE TxRows(j)' /\ TxBatch(j)'
  <2> SUFFICES ASSUME j # k, Open(j) PROVE TxRows(j)' /\ TxBatch(j)'
    BY <1>3, <1>4 DEF TxRows, TxBatch
  <2>1. /\ tx'[j] = tx[j] /\ tx[j].stream # s /\ tx[j].stream \in Streams
        /\ last'[tx[j].stream] = last[tx[j].stream]
    BY <1>4, <1>5, <1>7, TxShape DEF OpenTx
  <2>2. \A r \in tx[j].rows, q \in rows : r.id # q.id
    BY <1>1 DEF IngestInv, TxDisjoint, rows
  <2>3. TxRows(j) /\ TxBatch(j)
    BY DEF IngestInv
  <2>4. TxRows(j)'
    BY <2>1, <2>2, <2>3, <1>1 DEF TxRows, KeysUnique
  <2>5. TxBatch(j)'
    BY <2>1, <2>3, <1>1 DEF TxBatch, Visible
  <2> QED
    BY <2>4, <2>5
<1>15. TxDisjoint'
  BY <1>3, <1>4 DEF IngestInv, TxDisjoint
<1>16. Acknowledged'
  <2> SUFFICES ASSUME NEW i \in DOMAIN tx[k].batch
               PROVE  \E e \in events' : e.id = tx[k].batch[i]
    BY <1>1 DEF IngestInv, Acknowledged
  <2> QED
    BY <1>1, <1>6 DEF TxBatch, Visible, rows
<1>17. CursorBounded'
  <2> SUFFICES ASSUME NEW t \in Streams PROVE cursor[t] <= last'[t]
    BY <1>1 DEF CursorBounded
  <2>1. cursor[t] <= last[t] /\ cursor[t] \in Nat
    BY DEF IngestInv, CursorBounded, TypeOK
  <2> QED
    BY <2>1, <1>2, <1>7
<1>18. NothingBehindCursor'
  <2> SUFFICES ASSUME NEW r \in rows, r.seq <= cursor[r.stream] PROVE FALSE
    BY <1>1 DEF IngestInv, NothingBehindCursor
  <2>1. r.seq \in Nat /\ cursor[s] \in Nat /\ cursor[s] <= last[s] /\ last[s] \in Nat
    BY <1>2, <1>7 DEF IngestInv, CursorBounded, TypeOK, Row
  <2> QED
    BY <2>1, <1>8
<1> QED
  BY <1>10, <1>11, <1>12, <1>13, <1>14, <1>15, <1>16, <1>17, <1>18 DEF IngestInv

-----------------------------------------------------------------------------
(* Readers *)

\* StreamEvents returns rows of the stream beyond the sequence asked for, skips
\* none of them, and has a last one.
LEMMA PagePrefix ==
    ASSUME IngestInv, NEW s \in Streams
    PROVE  LET page == StreamEvents(s, cursor[s])
           IN /\ page \subseteq {e \in events : e.stream = s /\ e.seq > cursor[s]}
              /\ \A e \in events, f \in page :
                    e.stream = s /\ e.seq > cursor[s] /\ e.seq <= f.seq => e \in page
              /\ page # {} => \E e \in page : \A f \in page : f.seq <= e.seq
<1> DEFINE later == {e \in events : e.stream = s /\ e.seq > cursor[s]}
           before(e) == {f \in later : f.seq < e.seq}
           page == StreamEvents(s, cursor[s])
<1>1. page = {e \in later : Cardinality(before(e)) < PageLimit}
  BY DEF StreamEvents
<1>2. page \subseteq later /\ later \subseteq events /\ events \subseteq Row
  BY <1>1 DEF IngestInv, TypeOK
<1>3. ASSUME NEW e \in events, NEW f \in page, e.stream = s, e.seq > cursor[s], e.seq <= f.seq
      PROVE  e \in page
  <2>1. e \in later /\ f \in later
    BY <1>2, <1>3
  <2>2. before(e) \subseteq before(f)
    BY <1>2, <1>3, <2>1 DEF Row
  <2>3. IsFiniteSet(before(f))
    BY <1>2, FS_Subset DEF IngestInv, Types
  <2>4. /\ Cardinality(before(e)) <= Cardinality(before(f))
        /\ Cardinality(before(e)) \in Nat /\ Cardinality(before(f)) \in Nat
    BY <2>2, <2>3, FS_Subset, FS_CardinalityType
  <2>5. Cardinality(before(f)) < PageLimit
    BY <1>1, <1>3
  <2> HIDE DEF page, before, later
  <2> QED
    BY <1>1, <2>1, <2>4, <2>5, IngestAssumption
<1>4. ASSUME page # {} PROVE \E e \in page : \A f \in page : f.seq <= e.seq
  <2> DEFINE T == {e.seq : e \in page}
  <2>1. last[s] \in Nat /\ \A e \in page : e.seq \in Nat /\ e.seq <= last[s]
    BY <1>2 DEF IngestInv, TypeOK, Numbered, Row
  <2>2. T \in SUBSET (0 .. last[s]) /\ T # {}
    BY <1>4, <2>1
  <2>3. \E m \in T : \A n \in T : n <= m
    BY <2>1, <2>2, GreatestNat
  <2> QED
    BY <2>3
<1> QED
  BY <1>2, <1>3, <1>4

\* A reader that moves its cursor has seen everything up to it.
LEMMA PollInv ==
    ASSUME IngestInv, NEW s \in Streams, Poll(s)
    PROVE  IngestInv'
<1> DEFINE page == StreamEvents(s, cursor[s])
           top == CHOOSE e \in page : \A f \in page : f.seq <= e.seq
<1>1. /\ page # {} /\ read' = read \cup page
      /\ cursor' = [cursor EXCEPT ![s] = top.seq]
      /\ UNCHANGED <<events, last, complete, lock, tx, acked, calls>>
  BY DEF Poll
<1>2. top \in page /\ \A f \in page : f.seq <= top.seq
  BY <1>1, PagePrefix
<1>3. /\ page \subseteq {e \in events : e.stream = s /\ e.seq > cursor[s]}
      /\ \A e \in events, f \in page :
            e.stream = s /\ e.seq > cursor[s] /\ e.seq <= f.seq => e \in page
  BY PagePrefix
<1> HIDE DEF page, top
<1>4. /\ top \in events /\ top.stream = s /\ top.seq \in Nat /\ top.seq <= last[s]
      /\ page \subseteq Row /\ cursor \in [Streams -> Nat]
  BY <1>2, <1>3 DEF IngestInv, TypeOK, Numbered, Row
<1>5. TypeOK'
  BY <1>1, <1>4 DEF IngestInv, TypeOK, Open
<1>6. CursorBounded'
  BY <1>1, <1>4 DEF IngestInv, CursorBounded
<1>7. NothingBehindCursor'
  <2> SUFFICES ASSUME NEW e \in events, e.seq <= cursor'[e.stream], e \notin read
               PROVE  e \in page
    BY <1>1 DEF NothingBehindCursor
  <2>1. e.seq \in Nat /\ e.stream \in Streams /\ ~ (e.seq <= cursor[e.stream])
    BY DEF IngestInv, TypeOK, NothingBehindCursor, Row
  <2>2. e.stream = s /\ e.seq > cursor[s] /\ e.seq <= top.seq
    BY <2>1, <1>1, <1>4
  <2> QED
    BY <2>2, <1>2, <1>3
<1> QED
  BY <1>1, <1>5, <1>6, <1>7
     DEF IngestInv, Types, Numbered, KeysUnique, TxRows, TxBatch, TxDisjoint, Acknowledged,
         Open, Visible

-----------------------------------------------------------------------------
(* The theorems *)

\* Every step of AppendStream, StreamEvents and their failures keeps the
\* invariant.
LEMMA NextInv == ASSUME IngestInv, [Next]_vars PROVE IngestInv'
<1>1. CASE UNCHANGED vars
  BY <1>1, StutterInv
<1>2. CASE \E k \in Connectors, s \in Streams, batch \in Batches, done \in BOOLEAN :
             Begin(k, s, batch, done)
  BY <1>2, BeginInv
<1>3. CASE \E k \in Connectors : InsertEvent(k) \/ Commit(k) \/ Abort(k)
  BY <1>3, InsertEventInv, CommitInv, AbortInv
<1>4. CASE \E s \in Streams : Poll(s)
  BY <1>4, PollInv
<1> QED
  BY <1>1, <1>2, <1>3, <1>4 DEF Next

\* The inductive invariant holds in every reachable state.
THEOREM IngestCorrect == Spec => []IngestInv
<1>1. IngestInv /\ [Next]_vars => IngestInv'
  BY NextInv
<1> QED
  BY InitInv, <1>1, PTL DEF Spec

\* A stream's events are numbered without a gap or a repetition, no id is
\* stored twice and no acknowledged event is lost.
THEOREM StreamsGapless == Spec => []Gapless
<1>1. IngestInv => Gapless
  <2> SUFFICES ASSUME IngestInv PROVE Gapless
    OBVIOUS
  <2>1. ASSUME NEW s \in Streams
        PROVE  {e.seq : e \in {e \in events : e.stream = s}} = 1 .. last[s]
    <3>1. ASSUME NEW e \in events, e.stream = s PROVE e.seq \in 1 .. last[s]
      BY <3>1 DEF IngestInv, TypeOK, Numbered, Row
    <3>2. ASSUME NEW n \in 1 .. last[s] PROVE \E e \in events : e.stream = s /\ e.seq = n
      BY DEF IngestInv, Numbered
    <3> QED
      BY <3>1, <3>2
  <2> QED
    BY <2>1 DEF IngestInv, Gapless, KeysUnique, Acknowledged
<1> QED
  BY <1>1, IngestCorrect, PTL

\* No event becomes visible behind a reader's cursor.
THEOREM ReadersMissNothing == Spec => []NothingBehindCursor
<1>1. IngestInv => NothingBehindCursor
  BY DEF IngestInv
<1> QED
  BY <1>1, IngestCorrect, PTL

\* The number after the head of an open transaction's stream belongs to no row,
\* committed or not.
SequenceFree ==
    \A k \in Connectors :
        Open(k) => \A r \in Visible(k) \cup Uncommitted(k) :
                      r.stream = tx[k].stream => r.seq # tx[k].head + 1

\* An insert never fails on, and never waits for, a sequence that is taken: the
\* row lock alone keeps the sequences apart, and only event ids can collide.
THEOREM SequenceNeverTaken == Spec => []SequenceFree
<1>1. ASSUME IngestInv, NEW k \in Connectors, Open(k), NEW r \in Visible(k) \cup Uncommitted(k),
             r.stream = tx[k].stream
      PROVE  r.seq # tx[k].head + 1
  <2>1. /\ tx[k].head \in Nat /\ tx[k].stream \in Streams
        /\ last[tx[k].stream] \in Nat /\ last[tx[k].stream] <= tx[k].head
    BY <1>1, TxShape DEF IngestInv, TypeOK, TxRows, OpenTx
  <2>2. r \in Visible(k)
    <3> SUFFICES ASSUME NEW j \in Connectors, j # k, Open(j), r \in tx[j].rows PROVE FALSE
      BY <1>1 DEF Uncommitted
    <3>1. r.stream = tx[j].stream
      BY <1>1 DEF IngestInv, TxRows
    <3> QED
      BY <1>1, <3>1, OneTxPerStream
  <2>3. r.seq \in Nat /\ r.seq <= tx[k].head
    BY <1>1, <2>1, <2>2 DEF IngestInv, TypeOK, Numbered, TxRows, Visible, Row
  <2> QED
    BY <2>1, <2>3
<1>2. IngestInv => SequenceFree
  BY <1>1 DEF SequenceFree
<1> QED
  BY <1>2, IngestCorrect, PTL
=============================================================================
