-------------------------- MODULE NoteStoreProofs --------------------------
(***************************************************************************)
(* Proofs about NoteStore, for any number of clients, sessions, keys, runs *)
(* and candidates, any batches and any lease.                              *)
(***************************************************************************)
EXTENDS NoteStore, CommonLemmas, FiniteSetTheorems, TLAPS

-----------------------------------------------------------------------------
(* The inductive invariant *)

TxPcs == {"idle", "candidate", "lock", "admit", "quarantine", "refresh", "rows", "claim"}
Numbers == 0..Cardinality(Candidates)
OwnMap == UNION {[D -> Note] : D \in SUBSET Keys}
RunRow == [status : {"absent", "completed", "quarantined"}, result : Seq(Item)]

TxRecord ==
    [pc : TxPcs, run : Runs \cup {""}, next : Nat \ {0}, inserted : SUBSET Candidates,
     keys : SUBSET Keys, rows : SUBSET Keys, own : OwnMap, result : Seq(Item),
     session : Sessions \cup {""}, at : Nat, seen : SUBSET Claims, todo : SUBSET Keys,
     found : SUBSET (Keys \X Numbers), plan : SUBSET Claims, claims : SUBSET Claims]

Types ==
    /\ now \in 1..MaxTime
    /\ runs \in [Runs -> RunRow]
    /\ cands \in [Candidates -> {"absent", "admitted", "rejected"}]
    /\ notes \in [Keys -> Note]
    /\ deliveries \subseteq Claims /\ received \in [Claims -> Nat]
    /\ tx \in [Clients -> TxRecord]

\* The revisions of a note, each made by a candidate of its own.
Chain(n) ==
    /\ \A v \in n.history : /\ v.revision \in 1..n.revision
                            /\ v.expired = NULL <=> v.revision = n.revision
    /\ \A i \in 1..n.revision : \E v \in n.history : v.revision = i
    /\ \A v, w \in n.history : v.revision = w.revision \/ v.candidate = w.candidate => v = w
    /\ IF n.revision = 0 THEN n.state = "resolved" ELSE n.soft <= n.hard

\* Row m is what revisions of row n may have made of it.
Extends(n, m) ==
    /\ n.revision <= m.revision
    /\ n.revision # 0 => m.hard = n.hard
    /\ \A v \in n.history : \E w \in m.history :
          /\ w.revision = v.revision /\ w.candidate = v.candidate
          /\ v.expired # NULL => w.expired = v.expired

\* A client in the transaction of a run, what it carries, and the candidates
\* whose revision it has already written.
Open(c) == tx[c].pc \in {"candidate", "lock", "admit"}
Carried(r) == {Batch[r][i] : i \in DOMAIN Batch[r]}
Current(c) == IF tx[c].pc \in {"lock", "admit"} THEN {At(c)} ELSE {}
Done(c) == tx[c].inserted \ Current(c)

\* What a result says of a note is the note's past or its present.
ItemOK(item, n) ==
    item.revision <= n.revision /\ (item.revision = n.revision => item.state = n.state)

NoteOK(k) ==
    /\ Chain(notes[k])
    /\ \A v \in notes[k].history :
          cands[v.candidate] = "admitted" /\ Detail[v.candidate].key = k

RunOK(r) ==
    /\ runs[r].status = "completed" => \A x \in Carried(r) : cands[x] = "admitted"
    /\ \A item \in Range(runs[r].result) : ItemOK(item, notes[item.key])

CandOK(x) ==
    cands[x] = "admitted" =>
        /\ \E v \in notes[Detail[x].key].history : v.candidate = x
        /\ \E q \in Runs : runs[q].status = "completed" /\ x \in Carried(q)

\* Where the transaction of a run is in its batch.
BatchOK(c) ==
    IF Open(c)
      THEN /\ tx[c].run \in Runs /\ runs[tx[c].run].status = "absent"
           /\ tx[c].pc \in {"lock", "admit"} => /\ tx[c].next <= Len(Batch[tx[c].run])
                                                /\ At(c) \in tx[c].inserted
           /\ tx[c].pc = "admit" => KeyAt(c) \in tx[c].keys
           /\ \A x \in Done(c) : \E i \in DOMAIN Batch[tx[c].run] :
                 i < tx[c].next /\ Batch[tx[c].run][i] = x
           /\ \A i \in DOMAIN Batch[tx[c].run] : i < tx[c].next =>
                 \/ cands[Batch[tx[c].run][i]] = "admitted"
                 \/ Batch[tx[c].run][i] \in Done(c)
      ELSE /\ tx[c].inserted = {} /\ tx[c].keys = {} /\ DOMAIN tx[c].own = {}
           /\ tx[c].pc = "quarantine" => tx[c].run \in Runs
           /\ tx[c].pc = "rows" => tx[c].session \in Sessions

\* What it has written and not committed.
OwnOK(c) ==
    /\ DOMAIN tx[c].own \subseteq tx[c].keys \cap tx[c].rows
    /\ \A k \in DOMAIN tx[c].own :
          /\ Chain(tx[c].own[k]) /\ Extends(notes[k], tx[c].own[k])
          /\ tx[c].own[k].revision > notes[k].revision /\ tx[c].own[k].embedding = NULL
          /\ \A v \in tx[c].own[k].history :
                /\ cands[v.candidate] = "admitted" \/ v.candidate \in Done(c)
                /\ Detail[v.candidate].key = k
    /\ \A x \in Done(c) : /\ Detail[x].key \in DOMAIN tx[c].own
                          /\ \E v \in tx[c].own[Detail[x].key].history : v.candidate = x

\* What it holds against the others.
HeldOK(c) ==
    /\ \A x \in tx[c].inserted : cands[x] = "absent"
    /\ \A k \in tx[c].rows : notes[k].revision # 0 \/ k \in tx[c].keys
    /\ \A k \in tx[c].todo : notes[k].revision # 0
    /\ \A f \in tx[c].found : /\ f[1] \in tx[c].rows
                              /\ notes[f[1]].revision = f[2] /\ notes[f[1]].state = "active"
    /\ tx[c].claims \cap deliveries = {}

ResultOK(c) == \A item \in Range(tx[c].result) : ItemOK(item, Seen(c, item.key))

\* Two clients never hold the same lock.
Apart(c, d) ==
    /\ tx[c].keys \cap tx[d].keys = {} /\ tx[c].rows \cap tx[d].rows = {}
    /\ tx[c].inserted \cap tx[d].inserted = {} /\ tx[c].claims \cap tx[d].claims = {}
    /\ Open(c) /\ Open(d) => tx[c].run # tx[d].run

DataOK ==
    /\ \A k \in Keys : NoteOK(k)
    /\ \A r \in Runs : RunOK(r)
    /\ \A x \in Candidates : CandOK(x)
    /\ EmbeddingFresh /\ DeliveredOnce

ClientOK(c) == BatchOK(c) /\ OwnOK(c) /\ HeldOK(c) /\ ResultOK(c)

StoreInv ==
    /\ Types /\ DataOK
    /\ \A c \in Clients : ClientOK(c)
    /\ \A c, d \in Clients : c # d => Apart(c, d)

-----------------------------------------------------------------------------
(* Notes and their revisions *)

\* What saveNote does to an earlier revision.
Superseded(v, t) == [v EXCEPT !.expired = IF @ = NULL THEN t ELSE @]

\* A superseded revision keeps its number and its candidate.
LEMMA SupersededType ==
    ASSUME NEW v \in Revision, NEW t \in Nat \ {0}
    PROVE  /\ Superseded(v, t) \in Revision
           /\ Superseded(v, t).revision = v.revision /\ Superseded(v, t).candidate = v.candidate
           /\ Superseded(v, t).expired # NULL
           /\ v.expired # NULL => Superseded(v, t).expired = v.expired
  BY DEF Superseded, Revision, NULL

\* saveNote adds the current revision and supersedes the others.
LEMMA SaveNoteShape ==
    ASSUME NEW n \in Note, n.revision # 0, NEW x \in Candidates, NEW t \in Nat \ {0}
    PROVE  LET m == SaveNote(n, x, t)
               new == [revision |-> n.revision, candidate |-> x, expired |-> NULL]
           IN  /\ m \in Note /\ m.revision = n.revision /\ m.state = n.state
               /\ m.soft = n.soft /\ m.hard = n.hard /\ m.embedding = NULL
               /\ m.history = {Superseded(v, t) : v \in n.history} \cup {new}
               /\ new \in Revision
<1> DEFINE new == [revision |-> n.revision, candidate |-> x, expired |-> NULL]
           H == {Superseded(v, t) : v \in n.history} \cup {new}
<1>1. new \in Revision
  BY DEF Note, Revision, NULL
<1>2. H \in SUBSET Revision
  BY <1>1, SupersededType DEF Note
<1>3. SaveNote(n, x, t) = [n EXCEPT !.embedding = NULL, !.history = H]
  BY DEF SaveNote, Superseded
<1> HIDE DEF H
<1>4. LET m == [n EXCEPT !.embedding = NULL, !.history = H]
      IN  /\ m \in Note /\ m.revision = n.revision /\ m.state = n.state
          /\ m.soft = n.soft /\ m.hard = n.hard /\ m.embedding = NULL /\ m.history = H
  BY <1>2 DEF Note, NULL
<1> QED
  BY <1>1, <1>3, <1>4 DEF H

\* An admitted candidate makes the next revision of the note, within the hard
\* lease of the note.
LEMMA AdmitShape ==
    ASSUME NEW n \in Note, Chain(n), NEW d \in CandidateDetail, NEW t \in Nat, ~ Refused(d, n)
    PROVE  LET a == AdmitCandidate(d, n, t)
           IN  /\ a \in Note /\ a.revision = n.revision + 1 /\ a.history = n.history
               /\ n.revision # 0 => a.hard = n.hard
               /\ a.soft <= a.hard
<1>1. /\ d.invalid \in Nat /\ d.occurred \in Nat /\ SoftTTL \in Nat /\ HardTTL \in Nat
      /\ StateForValidity(t, d.invalid) \in States
  BY NoteStoreAssumption DEF CandidateDetail, StateForValidity, States
<1>2. /\ n.soft \in Nat /\ n.hard \in Nat /\ n.revision \in Nat
      /\ n.revision # 0 => n.soft <= n.hard
  BY DEF Note, Chain
<1>3. CASE d.action = "resolve"
  <2>1. n.revision # 0
    BY <1>3 DEF Refused
  <2>2. AdmitCandidate(d, n, t) = Resolve(d, n)
    BY <1>3 DEF AdmitCandidate
  <2>3. LET a == Resolve(d, n)
        IN  /\ a \in Note /\ a.revision = n.revision + 1 /\ a.history = n.history
            /\ a.hard = n.hard /\ a.soft = n.soft
    <3> DEFINE invalid == IF d.invalid # NULL THEN d.invalid ELSE d.occurred
               a == [n EXCEPT !.state = "resolved", !.revision = n.revision + 1,
                              !.invalid = invalid]
    <3>1. invalid \in Nat /\ n.revision + 1 \in Nat /\ "resolved" \in States
      BY <1>1, <1>2 DEF States
    <3>2. Resolve(d, n) = a
      BY DEF Resolve
    <3> HIDE DEF invalid
    <3>3. /\ a \in Note /\ a.revision = n.revision + 1 /\ a.history = n.history
          /\ a.hard = n.hard /\ a.soft = n.soft
      BY <3>1 DEF Note
    <3> QED
      BY <3>2, <3>3
  <2> QED
    BY <1>2, <2>1, <2>2, <2>3
<1>4. CASE d.action # "resolve" /\ n.revision = 0
  <2>1. AdmitCandidate(d, n, t) = Create(d, t)
    BY <1>4 DEF AdmitCandidate
  <2>2. n.history = {}
    BY <1>4 DEF Chain
  <2>3. LET a == Create(d, t)
        IN  a \in Note /\ a.revision = 1 /\ a.history = {} /\ a.soft <= a.hard
    <3> DEFINE state == StateForValidity(t, d.invalid)
               hard == t + HardTTL
               soft == MinTime(t + HardTTL, t + SoftTTL)
               a == [NoNote EXCEPT !.revision = 1, !.state = state, !.hard = hard,
                                   !.soft = soft, !.invalid = d.invalid]
    <3>0. NoNote \in Note /\ NoNote.history = {}
      BY DEF NoNote, Note, States, NULL
    <3>1. Create(d, t) = a
      BY DEF Create
    <3>2. state \in States /\ hard \in Nat /\ soft \in Nat /\ soft <= hard
      BY <1>1 DEF MinTime
    <3> HIDE DEF state, hard, soft
    <3>3. a \in Note /\ a.revision = 1 /\ a.history = {} /\ a.soft <= a.hard
      BY <1>1, <3>0, <3>2 DEF Note
    <3> QED
      BY <3>1, <3>3
  <2> QED
    BY <1>4, <2>1, <2>2, <2>3
<1>5. CASE d.action # "resolve" /\ n.revision # 0
  <2>1. AdmitCandidate(d, n, t) = Update(d, n, t)
    BY <1>5 DEF AdmitCandidate
  <2>2. MinTime(n.hard, t + SoftTTL) \in Nat /\ MinTime(n.hard, t + SoftTTL) <= n.hard
    BY <1>1, <1>2 DEF MinTime
  <2>3. LET a == Update(d, n, t)
        IN  /\ a \in Note /\ a.revision = n.revision + 1 /\ a.history = n.history
            /\ a.hard = n.hard /\ a.soft <= a.hard
    <3> DEFINE state == StateForValidity(t, d.invalid)
               soft == MinTime(n.hard, t + SoftTTL)
               a == [n EXCEPT !.revision = n.revision + 1, !.state = state, !.soft = soft,
                              !.invalid = d.invalid]
    <3>1. Update(d, n, t) = a
      BY DEF Update
    <3>2. state \in States /\ soft \in Nat /\ soft <= n.hard /\ n.revision + 1 \in Nat
      BY <1>1, <1>2, <2>2
    <3> HIDE DEF state, soft
    <3>3. /\ a \in Note /\ a.revision = n.revision + 1 /\ a.history = n.history
          /\ a.hard = n.hard /\ a.soft <= a.hard
      BY <1>1, <3>2 DEF Note
    <3> QED
      BY <3>1, <3>3
  <2> QED
    BY <1>2, <2>1, <2>3
<1> QED
  BY <1>3, <1>4, <1>5

\* A row extends itself, and what extends an extension extends the row.
LEMMA ExtendsOrder ==
    /\ \A n \in Note : Extends(n, n)
    /\ \A l, m, n \in Note : Chain(l) /\ Extends(l, m) /\ Extends(m, n) => Extends(l, n)
<1>1. ASSUME NEW n \in Note PROVE Extends(n, n)
  BY DEF Extends, Note
<1>2. ASSUME NEW l \in Note, NEW m \in Note, NEW n \in Note, Extends(l, m), Extends(m, n)
      PROVE  Extends(l, n)
  <2>1. l.revision \in Nat /\ m.revision \in Nat /\ n.revision \in Nat
    BY DEF Note
  <2>2. l.revision <= n.revision /\ (l.revision # 0 => n.hard = l.hard)
    BY <1>2, <2>1 DEF Extends
  <2>3. ASSUME NEW v \in l.history
        PROVE  \E w \in n.history : /\ w.revision = v.revision /\ w.candidate = v.candidate
                                    /\ v.expired # NULL => w.expired = v.expired
    <3>1. PICK u \in m.history : /\ u.revision = v.revision /\ u.candidate = v.candidate
                                 /\ v.expired # NULL => u.expired = v.expired
      BY <1>2 DEF Extends
    <3>2. PICK w \in n.history : /\ w.revision = u.revision /\ w.candidate = u.candidate
                                 /\ u.expired # NULL => w.expired = u.expired
      BY <1>2 DEF Extends
    <3> QED
      BY <3>1, <3>2
  <2> QED
    BY <2>2, <2>3 DEF Extends
<1> QED
  BY <1>1, <1>2

\* The row that applyRunCandidate writes for a candidate that the note has no
\* revision of.
LEMMA SavedRow ==
    ASSUME NEW n \in Note, Chain(n), NEW d \in CandidateDetail, NEW t \in Nat \ {0},
           ~ Refused(d, n), NEW x \in Candidates, \A v \in n.history : v.candidate # x
    PROVE  LET m == SaveNote(AdmitCandidate(d, n, t), x, t)
           IN  /\ m \in Note /\ Chain(m) /\ Extends(n, m)
               /\ m.revision = n.revision + 1 /\ m.embedding = NULL
               /\ \A w \in m.history : w.candidate = x
                                       \/ \E v \in n.history : w.candidate = v.candidate
               /\ \E w \in m.history : w.candidate = x
<1> DEFINE a == AdmitCandidate(d, n, t)
           m == SaveNote(a, x, t)
           new == [revision |-> a.revision, candidate |-> x, expired |-> NULL]
<1>1. /\ a \in Note /\ a.revision = n.revision + 1 /\ a.history = n.history
      /\ n.revision # 0 => a.hard = n.hard
      /\ a.soft <= a.hard
  BY AdmitShape
<1>2. n.revision \in Nat /\ a.revision # 0
  BY <1>1 DEF Note
<1> HIDE DEF a
<1>3. /\ m \in Note /\ m.revision = n.revision + 1 /\ m.state = a.state
      /\ m.soft = a.soft /\ m.hard = a.hard /\ m.embedding = NULL
      /\ m.history = {Superseded(v, t) : v \in n.history} \cup {new}
  <2>1. /\ m \in Note /\ m.revision = a.revision /\ m.state = a.state
        /\ m.soft = a.soft /\ m.hard = a.hard /\ m.embedding = NULL
        /\ m.history = {Superseded(v, t) : v \in a.history} \cup {new}
    BY <1>1, <1>2, SaveNoteShape, ZenonT(60)
  <2> QED
    BY <1>1, <2>1
<1>4. new.revision = n.revision + 1 /\ new.candidate = x /\ new.expired = NULL
  BY <1>1
<1>5. n.history \subseteq Revision
  BY DEF Note
<1> HIDE DEF m, new
<1>6. ASSUME NEW w \in m.history
      PROVE  w = new \/ \E v \in n.history : w = Superseded(v, t)
  BY <1>3
<1>7. \A v \in n.history : /\ Superseded(v, t) \in m.history
                           /\ Superseded(v, t).revision = v.revision
                           /\ Superseded(v, t).candidate = v.candidate
                           /\ Superseded(v, t).expired # NULL
                           /\ v.expired # NULL => Superseded(v, t).expired = v.expired
                           /\ v.revision \in 1..n.revision
  BY <1>3, <1>5, SupersededType DEF Chain
<1>8. new \in m.history
  BY <1>3
<1>9. Chain(m)
  <2>1. ASSUME NEW w \in m.history
        PROVE  w.revision \in 1..m.revision /\ (w.expired = NULL <=> w.revision = m.revision)
    BY <1>2, <1>3, <1>4, <1>6, <1>7
  <2>2. ASSUME NEW i \in 1..m.revision PROVE \E w \in m.history : w.revision = i
    <3>1. CASE i = n.revision + 1
      BY <3>1, <1>4, <1>8
    <3>2. CASE i # n.revision + 1
      <4>1. PICK v \in n.history : v.revision = i
        BY <3>2, <1>2, <1>3 DEF Chain
      <4> QED
        BY <4>1, <1>7
    <3> QED
      BY <3>1, <3>2
  <2>3. ASSUME NEW w1 \in m.history, NEW w2 \in m.history,
               w1.revision = w2.revision \/ w1.candidate = w2.candidate
        PROVE  w1 = w2
    <3>1. CASE w1 = new /\ w2 = new
      BY <3>1
    <3>2. ASSUME NEW v \in n.history
          PROVE  /\ Superseded(v, t).revision # new.revision
                 /\ Superseded(v, t).candidate # new.candidate
      BY <1>2, <1>4, <1>7
    <3>3. CASE w1 # new /\ w2 # new
      <4>1. PICK v1 \in n.history, v2 \in n.history :
               w1 = Superseded(v1, t) /\ w2 = Superseded(v2, t)
        BY <3>3, <1>6
      <4>2. v1 = v2
        BY <4>1, <2>3, <1>7 DEF Chain
      <4> QED
        BY <4>1, <4>2
    <3> QED
      BY <2>3, <3>1, <3>2, <3>3, <1>6
  <2>4. m.revision # 0 /\ m.soft <= m.hard
    BY <1>1, <1>2, <1>3
  <2> QED
    BY <2>1, <2>2, <2>3, <2>4 DEF Chain
<1>10. Extends(n, m)
  BY <1>1, <1>2, <1>3, <1>7 DEF Extends
<1> QED
  BY <1>3, <1>4, <1>6, <1>7, <1>8, <1>9, <1>10 DEF m, a

\* A note has as many revisions as its current number says.
LEMMA ChainCardinality ==
    ASSUME NEW n \in Note, Chain(n)
    PROVE  /\ {v.revision : v \in n.history} = 1..n.revision
           /\ Cardinality(n.history) = n.revision
<1> DEFINE f == [v \in n.history |-> v.revision]
           T == 1..n.revision
<1>1. n.revision \in Nat /\ IsFiniteSet(T) /\ Cardinality(T) = n.revision
  BY FS_Interval DEF Note
<1>2. {v.revision : v \in n.history} = T
  BY DEF Chain
<1>3. f \in Injection(n.history, T)
  BY DEF Chain, Injection, IsInjective
<1>4. f \in Surjection(n.history, T)
  <2>1. f \in [n.history -> T] /\ \A i \in T : \E v \in n.history : f[v] = i
    BY DEF Chain
  <2> QED
    BY <2>1, Zenon DEF Surjection
<1> QED
  BY <1>1, <1>2, <1>3, <1>4, FS_Injection

\* Every revision has a candidate of its own, so there are no more of them than
\* candidates.
LEMMA RevisionBound ==
    ASSUME NEW n \in Note, Chain(n)
    PROVE  n.revision \in Numbers
<1> DEFINE g == [v \in n.history |-> v.candidate]
<1>1. g \in Injection(n.history, Candidates)
  BY DEF Chain, Injection, IsInjective, Note, Revision
<1>2. /\ IsFiniteSet(n.history) /\ Cardinality(n.history) <= Cardinality(Candidates)
      /\ Cardinality(Candidates) \in Nat
  BY <1>1, FS_Injection, FS_CardinalityType, NoteStoreAssumption
<1> QED
  BY <1>2, ChainCardinality DEF Numbers, Note

-----------------------------------------------------------------------------
(* What a step leaves alone *)

\* The record of a client that does nothing.
LEMMA IdleTxType ==
    /\ IdleTx \in TxRecord
    /\ IdleTx.pc = "idle" /\ IdleTx.next = 1
    /\ IdleTx.inserted = {} /\ IdleTx.keys = {} /\ IdleTx.rows = {} /\ DOMAIN IdleTx.own = {}
    /\ IdleTx.result = << >> /\ IdleTx.todo = {} /\ IdleTx.found = {}
    /\ IdleTx.plan = {} /\ IdleTx.claims = {}
<1>1. << >> \in OwnMap
  BY DEF OwnMap
<1> QED
  BY <1>1 DEF IdleTx, TxRecord, TxPcs

\* Rows that differ in their embedding only, and rows of which one is later.
SameRow(n, m) ==
    /\ m.revision = n.revision /\ m.state = n.state /\ m.hard = n.hard /\ m.history = n.history
Later(n, m) == n.revision <= m.revision /\ (n.revision = m.revision => m.state = n.state)

\* A later row does not contradict a result.
LEMMA ItemLater ==
    ASSUME NEW item \in Item, NEW n \in Note, NEW m \in Note, ItemOK(item, n), Later(n, m)
    PROVE  ItemOK(item, m)
  BY DEF Item, Note, ItemOK, Later

\* The elements of a result and the rows they are about.
LEMMA TxShape ==
    ASSUME Types, NEW c \in Clients
    PROVE  /\ tx[c] \in TxRecord
           /\ tx[c].own \in OwnMap /\ DOMAIN tx[c].own \subseteq Keys
           /\ \A k \in DOMAIN tx[c].own : tx[c].own[k] \in Note
           /\ \A k \in Keys : notes[k] \in Note /\ Seen(c, k) \in Note
           /\ \A item \in Range(tx[c].result) : item \in Item /\ item.key \in Keys
<1>1. tx[c] \in TxRecord
  BY DEF Types
<1>2. tx[c].own \in OwnMap /\ tx[c].result \in Seq(Item)
  BY <1>1 DEF TxRecord
<1>3. DOMAIN tx[c].own \subseteq Keys /\ \A k \in DOMAIN tx[c].own : tx[c].own[k] \in Note
  BY <1>2 DEF OwnMap
<1>4. \A k \in Keys : notes[k] \in Note /\ Seen(c, k) \in Note
  BY <1>3 DEF Types, Seen
<1>5. \A item \in Range(tx[c].result) : item \in Item /\ item.key \in Keys
  <2>1. Range(tx[c].result) \subseteq Item
    BY <1>2, RangeSeq
  <2> QED
    BY <2>1 DEF Item
<1> QED
  BY <1>1, <1>2, <1>3, <1>4, <1>5

\* A client that takes no step keeps its part of the invariant, whatever the
\* others commit that it does not hold.
LEMMA ClientFrame ==
    ASSUME Types, Types', NEW d \in Clients, ClientOK(d), tx'[d] = tx[d],
           Open(d) => runs'[tx[d].run].status = "absent",
           \A x \in Candidates : cands[x] = "admitted" => cands'[x] = "admitted",
           \A x \in tx[d].inserted : cands'[x] = "absent",
           \A k \in Keys : Later(notes[k], notes'[k]),
           \A k \in tx[d].rows : SameRow(notes[k], notes'[k]),
           tx[d].claims \cap deliveries' = {}
    PROVE  ClientOK(d)'
<1>1. /\ Open(d)' <=> Open(d)
      /\ Done(d)' = Done(d)
  BY DEF Open, Done, Current, At
<1>2. /\ tx[d] \in TxRecord /\ tx[d].rows \subseteq Keys /\ tx[d].todo \subseteq Keys
      /\ tx[d].inserted \subseteq Candidates /\ DOMAIN tx[d].own \subseteq Keys
      /\ \A k \in DOMAIN tx[d].own : tx[d].own[k] \in Note
  BY TxShape DEF TxRecord
<1>3. \A k \in Keys : notes[k] \in Note /\ notes'[k] \in Note
  BY DEF Types
<1>4. BatchOK(d)'
  <2>1. CASE ~ Open(d)
    BY <1>1, <2>1 DEF ClientOK, BatchOK
  <2>2. CASE Open(d)
    <3>1. /\ tx[d].run \in Runs /\ Batch[tx[d].run] \in Seq(Candidates)
      BY <2>2, NoteStoreAssumption DEF ClientOK, BatchOK
    <3>2. \A i \in DOMAIN Batch[tx[d].run] : Batch[tx[d].run][i] \in Candidates
      BY <3>1
    <3> QED
      BY <1>1, <2>2, <3>1, <3>2 DEF ClientOK, BatchOK, At, KeyAt
  <2> QED
    BY <2>1, <2>2
<1>5. OwnOK(d)'
  <2>1. DOMAIN tx[d].own \subseteq tx[d].keys \cap tx[d].rows
    BY DEF ClientOK, OwnOK
  <2>2. ASSUME NEW k \in DOMAIN tx[d].own
        PROVE  /\ Chain(tx[d].own[k]) /\ Extends(notes'[k], tx[d].own[k])
               /\ tx[d].own[k].revision > notes'[k].revision /\ tx[d].own[k].embedding = NULL
    BY <2>1 DEF ClientOK, OwnOK, SameRow, Extends
  <2>3. ASSUME NEW k \in DOMAIN tx[d].own, NEW v \in tx[d].own[k].history
        PROVE  /\ cands'[v.candidate] = "admitted" \/ v.candidate \in Done(d)
               /\ Detail[v.candidate].key = k
    <3>1. v \in Revision /\ v.candidate \in Candidates
      BY <1>2 DEF Note, Revision
    <3> QED
      BY <3>1 DEF ClientOK, OwnOK
  <2>4. \A x \in Done(d) : /\ Detail[x].key \in DOMAIN tx[d].own
                           /\ \E v \in tx[d].own[Detail[x].key].history : v.candidate = x
    BY DEF ClientOK, OwnOK
  <2> QED
    BY <1>1, <2>1, <2>2, <2>3, <2>4 DEF OwnOK
<1>6. HeldOK(d)'
  <2>1. ASSUME NEW k \in Keys, notes[k].revision # 0 PROVE notes'[k].revision # 0
    BY <2>1, <1>3 DEF Later, Note
  <2>2. ASSUME NEW f \in tx[d].found
        PROVE  f[1] \in tx[d].rows /\ notes'[f[1]].revision = f[2] /\ notes'[f[1]].state = "active"
    BY DEF ClientOK, HeldOK, SameRow
  <2> QED
    BY <1>2, <2>1, <2>2 DEF ClientOK, HeldOK
<1>7. ResultOK(d)'
  <2> SUFFICES ASSUME NEW item \in Range(tx[d].result) PROVE ItemOK(item, Seen(d, item.key))'
    BY DEF ResultOK
  <2>1. item \in Item /\ item.key \in Keys /\ ItemOK(item, Seen(d, item.key))
    BY TxShape DEF ClientOK, ResultOK
  <2>2. CASE item.key \in DOMAIN tx[d].own
    BY <2>1, <2>2 DEF Seen, ItemOK
  <2>3. CASE item.key \notin DOMAIN tx[d].own
    <3>1. ItemOK(item, notes[item.key])
      BY <2>1, <2>3 DEF Seen
    <3>2. ItemOK(item, notes'[item.key])
      BY <2>1, <3>1, <1>3, ItemLater
    <3> QED
      BY <2>3, <3>2 DEF Seen, ItemOK
  <2> QED
    BY <2>2, <2>3
<1> QED
  BY <1>4, <1>5, <1>6, <1>7 DEF ClientOK

\* A step of one client that commits nothing.
LEMMA TxStep ==
    ASSUME StoreInv, NEW c \in Clients, NEW new \in TxRecord, tx' = [tx EXCEPT ![c] = new],
           UNCHANGED <<now, runs, cands, notes, deliveries, received>>,
           ClientOK(c)', \A d \in Clients : d # c => Apart(c, d)'
    PROVE  StoreInv'
<1>1. /\ tx'[c] = new /\ tx' \in [Clients -> TxRecord]
      /\ \A d \in Clients : d # c => tx'[d] = tx[d]
  BY DEF StoreInv, Types
<1>2. Types'
  BY <1>1 DEF StoreInv, Types
<1>3. DataOK'
  <2>1. /\ \A k \in Keys : NoteOK(k)'
        /\ \A r \in Runs : RunOK(r)'
        /\ \A x \in Candidates : CandOK(x)'
    BY DEF StoreInv, DataOK, NoteOK, RunOK, CandOK
  <2>2. EmbeddingFresh' /\ DeliveredOnce'
    BY DEF StoreInv, DataOK, EmbeddingFresh, DeliveredOnce
  <2> QED
    BY <2>1, <2>2 DEF DataOK
<1>4. ASSUME NEW d \in Clients PROVE ClientOK(d)'
  <2>1. CASE d = c
    BY <2>1
  <2>2. CASE d # c
    <3>1. ClientOK(d) /\ tx'[d] = tx[d] /\ Types
      BY <2>2, <1>1 DEF StoreInv
    <3>2. /\ Open(d) => runs'[tx[d].run].status = "absent"
          /\ \A x \in tx[d].inserted : cands'[x] = "absent"
          /\ tx[d].claims \cap deliveries' = {}
      BY <3>1 DEF ClientOK, BatchOK, HeldOK
    <3>3. /\ \A k \in Keys : Later(notes[k], notes'[k])
          /\ \A k \in tx[d].rows : SameRow(notes[k], notes'[k])
      BY <3>1 DEF Later, SameRow, Types, Note
    <3> QED
      BY <1>2, <3>1, <3>2, <3>3, ClientFrame
  <2> QED
    BY <2>1, <2>2
<1>5. ASSUME NEW d \in Clients, NEW e \in Clients, d # e PROVE Apart(d, e)'
  <2>1. CASE d # c /\ e # c
    BY <1>1, <1>5, <2>1 DEF StoreInv, Apart, Open
  <2>2. CASE d = c
    BY <1>5, <2>2
  <2>3. CASE e = c
    <3>1. Apart(c, d)'
      BY <1>5, <2>3
    <3> QED
      BY <2>3, <3>1 DEF Apart
  <2> QED
    BY <2>1, <2>2, <2>3
<1> QED
  BY <1>2, <1>3, <1>4, <1>5 DEF StoreInv

-----------------------------------------------------------------------------
(* Steps inside a transaction *)

\* A record that holds nothing: at most a result to embed, a run to quarantine,
\* or the rows and the plan of a recall.
Quiet(t) ==
    /\ t.pc \in {"idle", "quarantine", "refresh", "rows", "claim"}
    /\ t.inserted = {} /\ t.keys = {} /\ t.rows = {} /\ DOMAIN t.own = {}
    /\ t.found = {} /\ t.claims = {}
    /\ t.pc = "quarantine" => t.run \in Runs
    /\ t.pc = "rows" => t.session \in Sessions

\* Such a record is nobody's concern.
LEMMA QuietStep ==
    ASSUME StoreInv, NEW c \in Clients, NEW new \in TxRecord, tx' = [tx EXCEPT ![c] = new],
           UNCHANGED <<now, runs, cands, notes, deliveries, received>>,
           Quiet(new), \A k \in new.todo : notes[k].revision # 0,
           \A item \in Range(new.result) : ItemOK(item, notes[item.key])
    PROVE  StoreInv'
<1>1. tx'[c] = new
  BY DEF StoreInv, Types
<1>2. ~ Open(c)' /\ Done(c)' = {}
  BY <1>1 DEF Quiet, Open, Done
<1>3. BatchOK(c)'
  BY <1>1, <1>2 DEF Quiet, BatchOK
<1>4. OwnOK(c)' /\ HeldOK(c)'
  BY <1>1, <1>2 DEF Quiet, OwnOK, HeldOK
<1>5. ResultOK(c)'
  BY <1>1 DEF Quiet, ResultOK, Seen, ItemOK
<1>6. ASSUME NEW d \in Clients PROVE Apart(c, d)'
  BY <1>1, <1>2 DEF Quiet, Apart
<1> QED
  BY <1>3, <1>4, <1>5, <1>6, TxStep DEF ClientOK

\* IdleTx is quiet.
LEMMA IdleStep ==
    ASSUME StoreInv, NEW c \in Clients, tx' = [tx EXCEPT ![c] = IdleTx],
           UNCHANGED <<now, runs, cands, notes, deliveries, received>>
    PROVE  StoreInv'
<1>1. Quiet(IdleTx) /\ Range(IdleTx.result) = {} /\ IdleTx.todo = {}
  BY IdleTxType, RangeEmpty DEF Quiet
<1> QED
  BY <1>1, IdleTxType, QuietStep

\* The run row is inserted under this client's transaction, or the stored
\* result is replayed.
LEMMA EnsureInv ==
    ASSUME StoreInv, NEW c \in Clients, NEW r \in Runs, EnsureExtractionRun(c, r)
    PROVE  StoreInv'
<1>1. ~ RunHeld(c, r) /\ UNCHANGED <<now, runs, cands, notes, deliveries, received>>
  BY DEF EnsureExtractionRun
<1>2. runs[r] \in RunRow
  BY DEF StoreInv, Types
<1>3. CASE runs[r].status = "absent"
  <2> DEFINE new == [IdleTx EXCEPT !.pc = "candidate", !.run = r]
  <2>1. tx' = [tx EXCEPT ![c] = new]
    BY <1>3 DEF EnsureExtractionRun
  <2>2. /\ new \in TxRecord /\ new.pc = "candidate" /\ new.run = r /\ new.next = 1
        /\ new.inserted = {} /\ new.keys = {} /\ new.rows = {} /\ DOMAIN new.own = {}
        /\ new.result = << >> /\ new.todo = {} /\ new.found = {} /\ new.claims = {}
    BY IdleTxType DEF TxRecord, TxPcs
  <2> HIDE DEF new
  <2>3. tx'[c] = new /\ \A d \in Clients : d # c => tx'[d] = tx[d]
    BY <2>1 DEF StoreInv, Types
  <2>4. Open(c)' /\ Done(c)' = {}
    BY <2>2, <2>3 DEF Open, Done
  <2>5. BatchOK(c)'
    <3>1. Batch[r] \in Seq(Candidates)
      BY NoteStoreAssumption
    <3> QED
      BY <1>1, <1>3, <2>2, <2>3, <2>4, <3>1 DEF BatchOK
  <2>6. OwnOK(c)' /\ HeldOK(c)'
    BY <2>2, <2>3, <2>4 DEF OwnOK, HeldOK
  <2>7. ResultOK(c)'
    BY <2>2, <2>3, RangeEmpty DEF ResultOK
  <2>8. ASSUME NEW d \in Clients, d # c PROVE Apart(c, d)'
    <3>1. Open(d) => tx[d].run # r
      BY <2>8, <1>1 DEF RunHeld, Open
    <3> QED
      BY <2>2, <2>3, <2>8, <3>1 DEF Apart, Open
  <2> QED
    BY <1>1, <2>1, <2>2, <2>5, <2>6, <2>7, <2>8, TxStep DEF ClientOK
<1>4. CASE runs[r].status = "completed"
  <2> DEFINE new == [IdleTx EXCEPT !.pc = "refresh", !.result = runs[r].result]
  <2>1. tx' = [tx EXCEPT ![c] = new]
    BY <1>4 DEF EnsureExtractionRun
  <2>2. /\ new \in TxRecord /\ Quiet(new) /\ new.todo = {} /\ new.result = runs[r].result
    BY <1>2, IdleTxType DEF TxRecord, TxPcs, Quiet, RunRow
  <2> HIDE DEF new
  <2>3. \A item \in Range(runs[r].result) : ItemOK(item, notes[item.key])
    BY DEF StoreInv, DataOK, RunOK
  <2> QED
    BY <1>1, <2>1, <2>2, <2>3, QuietStep
<1>5. CASE runs[r].status \notin {"absent", "completed"}
  <2>1. tx' = [tx EXCEPT ![c] = IdleTx]
    BY <1>5 DEF EnsureExtractionRun
  <2> QED
    BY <1>1, <2>1, IdleStep
<1> QED
  BY <1>3, <1>4, <1>5

\* What a client in a run's transaction is at.
LEMMA RunShape ==
    ASSUME StoreInv, NEW c \in Clients, Open(c)
    PROVE  /\ tx[c].run \in Runs /\ Batch[tx[c].run] \in Seq(Candidates)
           /\ Len(Batch[tx[c].run]) \in Nat /\ tx[c].next \in Nat \ {0}
           /\ DOMAIN Batch[tx[c].run] = 1..Len(Batch[tx[c].run])
           /\ \A i, j \in DOMAIN Batch[tx[c].run] :
                 Batch[tx[c].run][i] = Batch[tx[c].run][j] => i = j
           /\ tx[c].next <= Len(Batch[tx[c].run]) =>
                 /\ tx[c].next \in DOMAIN Batch[tx[c].run] /\ At(c) \in Candidates
                 /\ Detail[At(c)] \in CandidateDetail /\ KeyAt(c) \in Keys
<1>1. tx[c].run \in Runs /\ tx[c].next \in Nat \ {0}
  BY DEF StoreInv, ClientOK, BatchOK, Types, TxRecord
<1>2. /\ Batch[tx[c].run] \in Seq(Candidates)
      /\ \A i, j \in DOMAIN Batch[tx[c].run] :
            Batch[tx[c].run][i] = Batch[tx[c].run][j] => i = j
  BY <1>1, NoteStoreAssumption
<1>3. ASSUME tx[c].next <= Len(Batch[tx[c].run])
      PROVE  /\ tx[c].next \in DOMAIN Batch[tx[c].run] /\ At(c) \in Candidates
             /\ Detail[At(c)] \in CandidateDetail /\ KeyAt(c) \in Keys
  <2>1. tx[c].next \in DOMAIN Batch[tx[c].run] /\ At(c) \in Candidates
    BY <1>1, <1>2, <1>3 DEF At
  <2>2. Detail[At(c)] \in CandidateDetail
    BY <2>1, NoteStoreAssumption
  <2> QED
    BY <2>1, <2>2 DEF KeyAt, CandidateDetail
<1> QED
  BY <1>1, <1>2, <1>3

\* The candidate the transaction is at is not one it has inserted before.
LEMMA AtIsNew ==
    ASSUME StoreInv, NEW c \in Clients, Open(c), tx[c].next <= Len(Batch[tx[c].run])
    PROVE  At(c) \notin Done(c)
<1> SUFFICES ASSUME At(c) \in Done(c) PROVE FALSE
  OBVIOUS
<1>1. PICK i \in DOMAIN Batch[tx[c].run] : i < tx[c].next /\ Batch[tx[c].run][i] = At(c)
  BY DEF StoreInv, ClientOK, BatchOK
<1>2. /\ tx[c].next \in DOMAIN Batch[tx[c].run] /\ At(c) = Batch[tx[c].run][tx[c].next]
      /\ tx[c].next \in Nat
      /\ \A j, k \in DOMAIN Batch[tx[c].run] :
            Batch[tx[c].run][j] = Batch[tx[c].run][k] => j = k
  BY RunShape DEF At
<1>3. i = tx[c].next
  BY <1>1, <1>2
<1> QED
  BY <1>1, <1>2, <1>3

\* A candidate is inserted, or has been admitted before and yields its note.
LEMMA InsertCandidateInv ==
    ASSUME StoreInv, NEW c \in Clients, InsertCandidate(c)
    PROVE  StoreInv'
<1> DEFINE x == At(c)
           r == tx[c].run
<1>1. /\ tx[c].pc = "candidate" /\ tx[c].next <= Len(Batch[tx[c].run]) /\ ~ CandidateHeld(c, x)
      /\ UNCHANGED <<now, runs, cands, notes, deliveries, received>>
  BY DEF InsertCandidate
<1>2. Open(c) /\ Done(c) = tx[c].inserted
  BY <1>1 DEF Open, Done, Current
<1>3. /\ r \in Runs /\ tx[c].next \in DOMAIN Batch[r] /\ x \in Candidates /\ KeyAt(c) \in Keys
      /\ tx[c].next \in Nat \ {0} /\ DOMAIN Batch[r] = 1..Len(Batch[r]) /\ Len(Batch[r]) \in Nat
      /\ x = Batch[r][tx[c].next] /\ x \notin tx[c].inserted
  BY <1>1, <1>2, RunShape, AtIsNew DEF At
<1>4. tx[c] \in TxRecord /\ BatchOK(c) /\ OwnOK(c) /\ HeldOK(c) /\ ResultOK(c)
  BY DEF StoreInv, Types, ClientOK
<1>5. CASE cands[x] = "absent"
  <2> DEFINE new == [tx[c] EXCEPT !.pc = "lock", !.inserted = @ \cup {x}]
  <2>1. tx' = [tx EXCEPT ![c] = new]
    BY <1>5 DEF InsertCandidate
  <2>2. /\ new \in TxRecord /\ new.pc = "lock" /\ new.inserted = tx[c].inserted \cup {x}
        /\ new.run = r /\ new.next = tx[c].next /\ new.keys = tx[c].keys /\ new.rows = tx[c].rows
        /\ new.own = tx[c].own /\ new.result = tx[c].result /\ new.todo = tx[c].todo
        /\ new.found = tx[c].found /\ new.claims = tx[c].claims
    BY <1>3, <1>4 DEF TxRecord, TxPcs
  <2> HIDE DEF new
  <2>3. tx'[c] = new /\ \A d \in Clients : d # c => tx'[d] = tx[d]
    BY <2>1 DEF StoreInv, Types
  <2>4. Open(c)' /\ At(c)' = x /\ Done(c)' = Done(c)
    BY <1>2, <1>3, <2>2, <2>3 DEF Open, At, Done, Current
  <2> HIDE DEF x
  <2>5. BatchOK(c)'
    BY <1>1, <1>2, <1>3, <1>4, <2>2, <2>3, <2>4 DEF BatchOK
  <2>6. OwnOK(c)'
    BY <1>1, <1>4, <2>2, <2>3, <2>4 DEF OwnOK
  <2>7. HeldOK(c)'
    BY <1>1, <1>4, <1>5, <2>2, <2>3 DEF HeldOK
  <2>8. ResultOK(c)'
    BY <1>1, <1>4, <2>2, <2>3 DEF ResultOK, Seen, ItemOK
  <2>9. ASSUME NEW d \in Clients, d # c PROVE Apart(c, d)'
    <3>1. x \notin tx[d].inserted
      BY <1>1, <2>9 DEF CandidateHeld
    <3>2. Apart(c, d)
      BY <2>9 DEF StoreInv
    <3> QED
      BY <1>2, <2>2, <2>3, <2>9, <3>1, <3>2 DEF Apart, Open
  <2> QED
    BY <1>1, <2>1, <2>2, <2>5, <2>6, <2>7, <2>8, <2>9, TxStep DEF ClientOK
<1>6. CASE cands[x] = "admitted"
  <2> DEFINE item == ItemOf(KeyAt(c), Seen(c, KeyAt(c)))
             result == Append(tx[c].result, item)
             new == [tx[c] EXCEPT !.next = tx[c].next + 1, !.result = result]
  <2>1. tx' = [tx EXCEPT ![c] = new]
    BY <1>6 DEF InsertCandidate
  <2>2. item \in Item /\ item.key = KeyAt(c) /\ ItemOK(item, Seen(c, KeyAt(c)))
    <3>1. Seen(c, KeyAt(c)) \in Note
      BY <1>3, TxShape DEF StoreInv
    <3> QED
      BY <1>3, <3>1 DEF ItemOf, Item, Note, ItemOK
  <2> HIDE DEF item
  <2>3. result \in Seq(Item) /\ \A y \in Range(result) : y = item \/ y \in Range(tx[c].result)
    <3>1. tx[c].result \in Seq(Item)
      BY <1>4 DEF TxRecord
    <3> QED
      BY <2>2, <3>1, RangeAppend
  <2> HIDE DEF result
  <2>4. /\ new \in TxRecord /\ new.pc = "candidate" /\ new.inserted = tx[c].inserted
        /\ new.run = r /\ new.next = tx[c].next + 1 /\ new.keys = tx[c].keys
        /\ new.rows = tx[c].rows /\ new.own = tx[c].own /\ new.result = result
        /\ new.todo = tx[c].todo /\ new.found = tx[c].found /\ new.claims = tx[c].claims
    <3> DEFINE next == tx[c].next + 1
    <3>1. next \in Nat \ {0}
      BY <1>3
    <3> HIDE DEF next
    <3>2. /\ [tx[c] EXCEPT !.next = next, !.result = result] \in TxRecord
          /\ [tx[c] EXCEPT !.next = next, !.result = result].next = next
          /\ [tx[c] EXCEPT !.next = next, !.result = result].result = result
      BY <1>4, <2>3, <3>1 DEF TxRecord
    <3> QED
      BY <1>1, <1>4, <3>2 DEF TxRecord, next
  <2> HIDE DEF new
  <2>5. tx'[c] = new /\ \A d \in Clients : d # c => tx'[d] = tx[d]
    BY <2>1 DEF StoreInv, Types
  <2>6. Open(c)' /\ Done(c)' = Done(c)
    BY <1>2, <2>4, <2>5 DEF Open, Done, Current
  <2> HIDE DEF x
  <2>7. BatchOK(c)'
    <3>1. \A y \in Done(c) : \E i \in DOMAIN Batch[r] : i < tx[c].next + 1 /\ Batch[r][i] = y
      BY <1>2, <1>3, <1>4 DEF BatchOK
    <3>2. ASSUME NEW i \in DOMAIN Batch[r], i < tx[c].next + 1
          PROVE  cands[Batch[r][i]] = "admitted" \/ Batch[r][i] \in Done(c)
      <4>1. CASE i < tx[c].next
        BY <4>1, <1>2, <1>4 DEF BatchOK
      <4>2. CASE i = tx[c].next
        BY <4>2, <1>3, <1>6
      <4> QED
        BY <3>2, <4>1, <4>2, <1>3
    <3> QED
      BY <1>1, <1>2, <1>4, <2>4, <2>5, <2>6, <3>1, <3>2 DEF BatchOK
  <2>8. OwnOK(c)' /\ HeldOK(c)'
    BY <1>1, <1>4, <2>4, <2>5, <2>6 DEF OwnOK, HeldOK
  <2>9. ResultOK(c)'
    BY <1>1, <1>4, <2>2, <2>3, <2>4, <2>5 DEF ResultOK, Seen, ItemOK
  <2>10. ASSUME NEW d \in Clients, d # c PROVE Apart(c, d)'
    BY <1>2, <2>4, <2>5, <2>10 DEF StoreInv, Apart, Open
  <2> QED
    BY <1>1, <2>1, <2>4, <2>7, <2>8, <2>9, <2>10, TxStep DEF ClientOK
<1>7. CASE cands[x] \notin {"absent", "admitted"}
  <2>1. tx' = [tx EXCEPT ![c] = IdleTx]
    BY <1>7 DEF InsertCandidate
  <2> QED
    BY <1>1, <2>1, IdleStep
<1> QED
  BY <1>5, <1>6, <1>7

\* The advisory lock of the key.
LEMMA LockNoteKeyInv ==
    ASSUME StoreInv, NEW c \in Clients, LockNoteKey(c)
    PROVE  StoreInv'
<1> DEFINE k == KeyAt(c)
           new == [tx[c] EXCEPT !.pc = "admit", !.keys = @ \cup {k}]
<1>1. /\ tx[c].pc = "lock" /\ ~ KeyHeld(c, k)
      /\ UNCHANGED <<now, runs, cands, notes, deliveries, received>>
  BY DEF LockNoteKey
<1>2. tx[c] \in TxRecord /\ BatchOK(c) /\ OwnOK(c) /\ HeldOK(c) /\ ResultOK(c) /\ Open(c)
  BY <1>1 DEF StoreInv, Types, ClientOK, Open
<1>3. tx' = [tx EXCEPT ![c] = new]
  BY DEF LockNoteKey, StoreInv, Types
<1>4. k \in Keys
  BY <1>1, <1>2, RunShape DEF BatchOK
<1>5. /\ new \in TxRecord /\ new.pc = "admit" /\ new.inserted = tx[c].inserted
      /\ new.run = tx[c].run /\ new.next = tx[c].next /\ new.keys = tx[c].keys \cup {k}
      /\ new.rows = tx[c].rows /\ new.own = tx[c].own /\ new.result = tx[c].result
      /\ new.todo = tx[c].todo /\ new.found = tx[c].found /\ new.claims = tx[c].claims
  BY <1>2, <1>4 DEF TxRecord, TxPcs
<1> HIDE DEF new
<1>6. tx'[c] = new /\ \A d \in Clients : d # c => tx'[d] = tx[d]
  BY <1>3 DEF StoreInv, Types
<1>7. Open(c)' /\ At(c)' = At(c) /\ KeyAt(c)' = k /\ Done(c)' = Done(c)
  BY <1>1, <1>5, <1>6 DEF Open, At, KeyAt, Done, Current
<1> HIDE DEF k
<1>8. BatchOK(c)'
  BY <1>1, <1>2, <1>5, <1>6, <1>7 DEF BatchOK
<1>9. OwnOK(c)' /\ HeldOK(c)'
  BY <1>1, <1>2, <1>5, <1>6, <1>7 DEF OwnOK, HeldOK
<1>10. ResultOK(c)'
  BY <1>1, <1>2, <1>5, <1>6 DEF ResultOK, Seen, ItemOK
<1>11. ASSUME NEW d \in Clients, d # c PROVE Apart(c, d)'
  <2>1. k \notin tx[d].keys /\ Apart(c, d)
    BY <1>1, <1>11 DEF KeyHeld, StoreInv
  <2> QED
    BY <1>2, <1>5, <1>6, <1>11, <2>1 DEF Apart, Open
<1> QED
  BY <1>1, <1>3, <1>5, <1>8, <1>9, <1>10, <1>11, TxStep DEF ClientOK

\* The row as the transaction sees it, and what it knows of it.
LEMMA SeenRow ==
    ASSUME StoreInv, NEW c \in Clients, NEW k \in Keys
    PROVE  /\ Seen(c, k) \in Note /\ notes[k] \in Note
           /\ Chain(Seen(c, k)) /\ Chain(notes[k]) /\ Extends(notes[k], Seen(c, k))
           /\ Later(notes[k], Seen(c, k))
           /\ \A v \in Seen(c, k).history :
                 /\ cands[v.candidate] = "admitted" \/ v.candidate \in Done(c)
                 /\ Detail[v.candidate].key = k
<1>1. Seen(c, k) \in Note /\ notes[k] \in Note
  BY TxShape DEF StoreInv
<1>2. Chain(notes[k]) /\ Extends(notes[k], notes[k]) /\ Later(notes[k], notes[k])
  BY <1>1, ExtendsOrder DEF StoreInv, DataOK, NoteOK, Later, Note
<1>3. CASE k \in DOMAIN tx[c].own
  <2>1. Seen(c, k) = tx[c].own[k]
    BY <1>3 DEF Seen
  <2>2. /\ Chain(tx[c].own[k]) /\ Extends(notes[k], tx[c].own[k])
        /\ tx[c].own[k].revision > notes[k].revision
        /\ \A v \in tx[c].own[k].history :
              /\ cands[v.candidate] = "admitted" \/ v.candidate \in Done(c)
              /\ Detail[v.candidate].key = k
    BY <1>3 DEF StoreInv, ClientOK, OwnOK
  <2>3. Later(notes[k], Seen(c, k))
    BY <1>1, <2>1, <2>2 DEF Later, Note
  <2> QED
    BY <1>1, <1>2, <2>1, <2>2, <2>3
<1>4. CASE k \notin DOMAIN tx[c].own
  <2>1. Seen(c, k) = notes[k]
    BY <1>4 DEF Seen
  <2>2. \A v \in notes[k].history :
              cands[v.candidate] = "admitted" /\ Detail[v.candidate].key = k
    BY DEF StoreInv, DataOK, NoteOK
  <2> QED
    BY <1>1, <1>2, <2>1, <2>2
<1> QED
  BY <1>3, <1>4

\* A candidate is refused, or makes the next revision of its note in the
\* transaction.
LEMMA AdmitRunCandidateInv ==
    ASSUME StoreInv, NEW c \in Clients, AdmitRunCandidate(c)
    PROVE  StoreInv'
<1> DEFINE k == KeyAt(c)
           x == At(c)
           r == tx[c].run
           n == Seen(c, k)
           m == SaveNote(AdmitCandidate(Detail[x], n, now), x, now)
           own == [j \in DOMAIN tx[c].own \cup {k} |-> IF j = k THEN m ELSE Seen(c, j)]
           result == Append(tx[c].result, ItemOf(k, m))
<1>1. /\ tx[c].pc = "admit" /\ ~ RowHeld(c, k)
      /\ UNCHANGED <<now, runs, cands, notes, deliveries, received>>
  BY DEF AdmitRunCandidate
<1>2. tx[c] \in TxRecord /\ BatchOK(c) /\ OwnOK(c) /\ HeldOK(c) /\ ResultOK(c) /\ Open(c)
  BY <1>1 DEF StoreInv, Types, ClientOK, Open
<1>3. /\ r \in Runs /\ tx[c].next \in DOMAIN Batch[r] /\ x \in Candidates /\ k \in Keys
      /\ tx[c].next \in Nat \ {0} /\ DOMAIN Batch[r] = 1..Len(Batch[r]) /\ Len(Batch[r]) \in Nat
      /\ x = Batch[r][tx[c].next] /\ x \notin Done(c) /\ x \in tx[c].inserted
      /\ Detail[x] \in CandidateDetail /\ Detail[x].key = k /\ k \in tx[c].keys
      /\ cands[x] = "absent"
  BY <1>1, <1>2, RunShape, AtIsNew DEF BatchOK, HeldOK, At, KeyAt
<1>4. CASE Refused(Detail[x], n)
  <2> DEFINE new == [IdleTx EXCEPT !.pc = "quarantine", !.run = r]
  <2>1. tx' = [tx EXCEPT ![c] = new]
    BY <1>4 DEF AdmitRunCandidate
  <2>2. new \in TxRecord /\ Quiet(new) /\ new.todo = {} /\ Range(new.result) = {}
    BY <1>3, IdleTxType, RangeEmpty DEF TxRecord, TxPcs, Quiet
  <2> HIDE DEF new
  <2> QED
    BY <1>1, <2>1, <2>2, QuietStep
<1>5. CASE ~ Refused(Detail[x], n)
  <2> DEFINE next == tx[c].next + 1
             new == [tx[c] EXCEPT !.pc = "candidate", !.next = next, !.rows = @ \cup {k},
                                  !.own = own, !.result = result]
  <2>1. tx' = [tx EXCEPT ![c] = new]
    BY <1>5 DEF AdmitRunCandidate
  <2>2. /\ n \in Note /\ notes[k] \in Note /\ Chain(n) /\ Chain(notes[k]) /\ Extends(notes[k], n)
        /\ \A v \in n.history : /\ cands[v.candidate] = "admitted" \/ v.candidate \in Done(c)
                                /\ Detail[v.candidate].key = k
    BY <1>3, SeenRow
  <2>3. \A v \in n.history : v.candidate # x
    BY <1>3, <2>2
  <2>4. now \in Nat \ {0}
    BY NoteStoreAssumption DEF StoreInv, Types
  <2> HIDE DEF n
  <2>5. /\ m \in Note /\ Chain(m) /\ Extends(n, m) /\ m.revision = n.revision + 1
        /\ m.embedding = NULL
        /\ \A w \in m.history : w.candidate = x \/ \E v \in n.history : w.candidate = v.candidate
        /\ \E w \in m.history : w.candidate = x
    <3> DEFINE d == Detail[x]
    <3>1. /\ n \in Note /\ Chain(n) /\ d \in CandidateDetail /\ ~ Refused(d, n)
          /\ x \in Candidates /\ now \in Nat \ {0} /\ \A v \in n.history : v.candidate # x
      BY <1>3, <1>5, <2>2, <2>3, <2>4
    <3> HIDE DEF x, d
    <3>2. LET a == SaveNote(AdmitCandidate(d, n, now), x, now)
          IN  /\ a \in Note /\ Chain(a) /\ Extends(n, a) /\ a.revision = n.revision + 1
              /\ a.embedding = NULL
              /\ \A w \in a.history : w.candidate = x \/ \E v \in n.history : w.candidate = v.candidate
              /\ \E w \in a.history : w.candidate = x
      BY <3>1, SavedRow
    <3> QED
      BY <3>2, Zenon DEF d
  <2> HIDE DEF m
  <2>6. /\ Extends(notes[k], m) /\ m.revision > notes[k].revision /\ m.revision > n.revision
    <3>1. Extends(notes[k], m)
      BY <2>2, <2>5, ExtendsOrder, Zenon
    <3>2. notes[k].revision \in Nat /\ n.revision \in Nat /\ notes[k].revision <= n.revision
      BY <2>2 DEF Extends, Note
    <3> QED
      BY <2>5, <3>1, <3>2
  <2>7. own \in OwnMap /\ DOMAIN own = DOMAIN tx[c].own \cup {k} /\ own[k] = m
        /\ \A j \in DOMAIN tx[c].own : j # k => own[j] = tx[c].own[j]
    <3>1. DOMAIN own = DOMAIN tx[c].own \cup {k} /\ own[k] = m
          /\ \A j \in DOMAIN tx[c].own : j # k => own[j] = tx[c].own[j]
      BY DEF Seen
    <3>2. DOMAIN own \in SUBSET Keys /\ \A j \in DOMAIN own : own[j] \in Note
      BY <1>3, <2>5, <3>1, TxShape DEF StoreInv
    <3>3. own \in [DOMAIN own -> Note]
      BY <3>2
    <3> QED
      BY <3>1, <3>2, <3>3 DEF OwnMap
  <2>8. /\ result \in Seq(Item)
        /\ \A y \in Range(result) : y = ItemOf(k, m) \/ y \in Range(tx[c].result)
    <3>1. tx[c].result \in Seq(Item) /\ ItemOf(k, m) \in Item
      BY <1>2, <1>3, <2>5 DEF TxRecord, ItemOf, Item, Note
    <3> QED
      BY <3>1, RangeAppend
  <2>9. next \in Nat \ {0}
    BY <1>3
  <2> HIDE DEF own, result, next
  <2>10. /\ new \in TxRecord /\ new.pc = "candidate" /\ new.inserted = tx[c].inserted
         /\ new.run = r /\ new.next = next /\ new.keys = tx[c].keys
         /\ new.rows = tx[c].rows \cup {k} /\ new.own = own /\ new.result = result
         /\ new.todo = tx[c].todo /\ new.found = tx[c].found /\ new.claims = tx[c].claims
    BY <1>2, <1>3, <2>7, <2>8, <2>9 DEF TxRecord, TxPcs
  <2> HIDE DEF new
  <2>11. tx'[c] = new /\ \A d \in Clients : d # c => tx'[d] = tx[d]
    BY <2>1 DEF StoreInv, Types
  <2>12. Open(c)' /\ Done(c)' = Done(c) \cup {x}
    BY <1>1, <1>3, <2>10, <2>11 DEF Open, Done, Current
  <2> HIDE DEF x, k
  <2>13. BatchOK(c)'
    <3>1. ASSUME NEW y \in Done(c) \cup {x}
          PROVE  \E i \in DOMAIN Batch[r] : i < next /\ Batch[r][i] = y
      <4>1. CASE y = x
        BY <4>1, <1>3 DEF next
      <4>2. CASE y \in Done(c)
        <5>1. PICK i \in DOMAIN Batch[r] : i < tx[c].next /\ Batch[r][i] = y
          BY <4>2, <1>2 DEF BatchOK
        <5> QED
          BY <5>1, <1>3 DEF next
      <4> QED
        BY <3>1, <4>1, <4>2
    <3>2. ASSUME NEW i \in DOMAIN Batch[r], i < next
          PROVE  cands[Batch[r][i]] = "admitted" \/ Batch[r][i] \in Done(c) \cup {x}
      <4>1. CASE i < tx[c].next
        BY <4>1, <1>2 DEF BatchOK
      <4>2. CASE i = tx[c].next
        BY <4>2, <1>3
      <4> QED
        BY <3>2, <4>1, <4>2, <1>3 DEF next
    <3> QED
      <4>1. /\ tx'[c].run = r /\ tx'[c].pc = "candidate" /\ tx'[c].next = next
            /\ runs'[r].status = "absent" /\ cands' = cands
        BY <1>1, <1>2, <2>10, <2>11 DEF BatchOK
      <4> QED
        BY <1>3, <2>12, <3>1, <3>2, <4>1, SMTT(30) DEF BatchOK
  <2>14. OwnOK(c)'
    <3>1. DOMAIN own \subseteq tx[c].keys \cap (tx[c].rows \cup {k})
      BY <1>2, <1>3, <2>7 DEF OwnOK
    <3>2. ASSUME NEW j \in DOMAIN own
          PROVE  /\ Chain(own[j]) /\ Extends(notes[j], own[j])
                 /\ own[j].revision > notes[j].revision /\ own[j].embedding = NULL
                 /\ \A v \in own[j].history :
                       /\ cands[v.candidate] = "admitted" \/ v.candidate \in Done(c) \cup {x}
                       /\ Detail[v.candidate].key = j
      <4>1. CASE j = k
        <5>1. \A v \in m.history :
                 /\ cands[v.candidate] = "admitted" \/ v.candidate \in Done(c) \cup {x}
                 /\ Detail[v.candidate].key = k
          BY <1>3, <2>2, <2>5
        <5> QED
          BY <4>1, <5>1, <2>5, <2>6, <2>7
      <4>2. CASE j # k
        BY <4>2, <1>2, <2>7 DEF OwnOK
      <4> QED
        BY <4>1, <4>2
    <3>3. ASSUME NEW y \in Done(c) \cup {x}
          PROVE  Detail[y].key \in DOMAIN own /\ \E v \in own[Detail[y].key].history : v.candidate = y
      <4>1. CASE y = x
        BY <4>1, <1>3, <2>5, <2>7
      <4>2. CASE y \in Done(c) /\ Detail[y].key # k
        BY <4>2, <1>2, <2>7 DEF OwnOK
      <4>3. CASE y \in Done(c) /\ Detail[y].key = k
        <5>1. PICK v \in tx[c].own[k].history : v.candidate = y
          BY <4>3, <1>2 DEF OwnOK
        <5>2. n = tx[c].own[k]
          BY <4>3, <1>2 DEF OwnOK, n, Seen, k
        <5>3. PICK w \in m.history : w.candidate = y
          BY <5>1, <5>2, <2>5 DEF Extends
        <5> QED
          BY <4>3, <5>3, <2>7
      <4> QED
        BY <3>3, <4>1, <4>2, <4>3
    <3> QED
      BY <1>1, <2>10, <2>11, <2>12, <3>1, <3>2, <3>3 DEF OwnOK
  <2>15. HeldOK(c)'
    BY <1>1, <1>2, <1>3, <2>10, <2>11 DEF HeldOK
  <2>16. ResultOK(c)'
    <3> SUFFICES ASSUME NEW item \in Range(result) PROVE ItemOK(item, Seen(c, item.key))'
      BY <2>10, <2>11 DEF ResultOK
    <3>1. \A j \in Keys : Seen(c, j)' = IF j = k THEN m ELSE Seen(c, j)
      BY <1>1, <2>7, <2>10, <2>11 DEF Seen
    <3>2. CASE item = ItemOf(k, m)
      <4>1. item.key = k /\ item.revision = m.revision /\ item.state = m.state
        BY <3>2 DEF ItemOf
      <4> QED
        BY <4>1, <3>1, <1>3, <2>5 DEF ItemOK, Note
    <3>3. CASE item \in Range(tx[c].result)
      <4>1. item \in Item /\ item.key \in Keys /\ ItemOK(item, Seen(c, item.key))
        BY <3>3, <1>2, TxShape DEF ResultOK, StoreInv
      <4>2. CASE item.key = k
        <5>1. ItemOK(item, n) /\ Later(n, m)
          BY <4>1, <4>2, <2>2, <2>5, <2>6 DEF n, k, Later, Note
        <5>2. ItemOK(item, m)
          BY <4>1, <5>1, <2>2, <2>5, ItemLater
        <5> QED
          BY <4>1, <4>2, <5>2, <3>1 DEF ItemOK
      <4>3. CASE item.key # k
        BY <4>1, <4>3, <3>1 DEF ItemOK
      <4> QED
        BY <4>2, <4>3
    <3> QED
      BY <2>8, <3>2, <3>3
  <2>17. ASSUME NEW d \in Clients, d # c PROVE Apart(c, d)'
    <3>1. Apart(c, d) /\ k \notin tx[d].keys
      BY <2>17, <1>3 DEF StoreInv, Apart
    <3>2. k \notin tx[d].rows
      BY <2>17, <3>1, <1>1 DEF RowHeld, StoreInv, ClientOK, HeldOK
    <3> QED
      BY <1>2, <2>10, <2>11, <2>17, <3>1, <3>2 DEF Apart, Open
  <2> QED
    BY <1>1, <2>1, <2>10, <2>13, <2>14, <2>15, <2>16, <2>17, TxStep DEF ClientOK
<1> QED
  BY <1>4, <1>5

\* A call returns or aborts, or starts to embed a note it has read.
LEMMA ReturnInv ==
    ASSUME StoreInv, NEW c \in Clients, ReturnNotes(c) \/ BackfillEmbeddings(c) \/ Abort(c)
    PROVE  StoreInv'
<1>1. UNCHANGED <<now, runs, cands, notes, deliveries, received>>
  BY DEF ReturnNotes, BackfillEmbeddings, Abort
<1>2. CASE tx' = [tx EXCEPT ![c] = IdleTx]
  BY <1>1, <1>2, IdleStep
<1>3. CASE BackfillEmbeddings(c)
  <2>1. PICK k \in Keys :
           tx' = [tx EXCEPT ![c] = [IdleTx EXCEPT !.pc = "refresh",
                                                  !.result = <<ItemOf(k, notes[k])>>]]
    BY <1>3 DEF BackfillEmbeddings
  <2> DEFINE item == ItemOf(k, notes[k])
             result == <<item>>
             new == [IdleTx EXCEPT !.pc = "refresh", !.result = result]
  <2>2. item \in Item /\ item.key = k /\ ItemOK(item, notes[k])
    BY DEF StoreInv, Types, ItemOf, Item, Note, ItemOK
  <2> HIDE DEF item
  <2>3. result \in Seq(Item) /\ \A y \in Range(result) : y = item
    BY <2>2 DEF Range
  <2>4. tx' = [tx EXCEPT ![c] = new]
    BY <2>1 DEF item
  <2> HIDE DEF result
  <2>5. new \in TxRecord /\ Quiet(new) /\ new.todo = {} /\ new.result = result
    BY <2>3, IdleTxType DEF TxRecord, TxPcs, Quiet
  <2> HIDE DEF new
  <2> QED
    BY <1>1, <2>2, <2>3, <2>4, <2>5, QuietStep
<1> QED
  BY <1>2, <1>3 DEF ReturnNotes, Abort

\* A recall starts with the rows of its snapshot, or with a plan of revisions.
LEMMA StartRecallInv ==
    ASSUME StoreInv, NEW c \in Clients, NEW s \in Sessions,
           BeginRecall(c, s) \/ RecallRevisions(c, s)
    PROVE  StoreInv'
<1>1. UNCHANGED <<now, runs, cands, notes, deliveries, received>>
  BY DEF BeginRecall, RecallRevisions
<1>2. CASE BeginRecall(c, s)
  <2> DEFINE todo == {k \in Keys : Recallable(k, notes[k], now, deliveries, s)}
             new == [IdleTx EXCEPT !.pc = "rows", !.session = s, !.at = now, !.seen = deliveries,
                                   !.todo = todo]
  <2>1. tx' = [tx EXCEPT ![c] = new]
    BY <1>2 DEF BeginRecall
  <2>2. todo \in SUBSET Keys /\ \A k \in todo : notes[k].revision # 0
    <3>1. ASSUME NEW k \in todo PROVE notes[k].revision # 0
      <4>1. k \in Keys /\ notes[k] \in Note /\ notes[k].soft > now
        BY DEF Recallable, StoreInv, Types
      <4>2. Chain(notes[k]) /\ notes[k].state = "active"
        BY <4>1 DEF Recallable, StoreInv, DataOK, NoteOK
      <4> QED
        BY <4>2 DEF Chain
    <3> QED
      BY <3>1
  <2>3. now \in Nat /\ deliveries \in SUBSET Claims
    BY DEF StoreInv, Types
  <2> HIDE DEF todo
  <2>4. new \in TxRecord /\ Quiet(new) /\ new.todo = todo /\ Range(new.result) = {}
    BY <2>2, <2>3, IdleTxType, RangeEmpty DEF TxRecord, TxPcs, Quiet
  <2> HIDE DEF new
  <2> QED
    BY <1>1, <2>1, <2>2, <2>4, QuietStep
<1>3. CASE RecallRevisions(c, s)
  <2>1. PICK plan \in SUBSET Claims :
           tx' = [tx EXCEPT ![c] = [IdleTx EXCEPT !.pc = "claim", !.session = s, !.plan = plan]]
    BY <1>3 DEF RecallRevisions
  <2> DEFINE new == [IdleTx EXCEPT !.pc = "claim", !.session = s, !.plan = plan]
  <2>2. new \in TxRecord /\ Quiet(new) /\ new.todo = {} /\ Range(new.result) = {}
    BY IdleTxType, RangeEmpty DEF TxRecord, TxPcs, Quiet
  <2> HIDE DEF new
  <2>3. tx' = [tx EXCEPT ![c] = new]
    BY <2>1 DEF new
  <2> QED
    BY <1>1, <2>2, <2>3, QuietStep
<1> QED
  BY <1>2, <1>3

\* What a recall that is under way may do: lock rows it had not, find what they
\* hold, claim what nobody else claims.
LEMMA RecallInv ==
    ASSUME StoreInv, NEW c \in Clients, NEW new \in TxRecord, tx' = [tx EXCEPT ![c] = new],
           UNCHANGED <<now, runs, cands, notes, deliveries, received>>,
           tx[c].pc \in {"rows", "claim"}, new.pc \in {"rows", "claim"},
           new.inserted = tx[c].inserted, new.keys = tx[c].keys, new.own = tx[c].own,
           new.result = tx[c].result, new.todo \subseteq tx[c].todo,
           new.pc = "rows" => new.session \in Sessions,
           \A k \in new.rows : notes[k].revision # 0,
           \A f \in new.found : f[1] \in new.rows /\ notes[f[1]].revision = f[2]
                                /\ notes[f[1]].state = "active",
           new.claims \cap deliveries = {},
           \A d \in Clients : d # c => /\ new.rows \cap tx[d].rows = {}
                                      /\ new.claims \cap tx[d].claims = {}
    PROVE  StoreInv'
<1>1. tx'[c] = new /\ \A d \in Clients : d # c => tx'[d] = tx[d]
  BY DEF StoreInv, Types
<1>2. /\ BatchOK(c) /\ OwnOK(c) /\ HeldOK(c) /\ ResultOK(c) /\ ~ Open(c)
      /\ tx[c].inserted = {} /\ tx[c].keys = {} /\ DOMAIN tx[c].own = {}
  BY DEF StoreInv, ClientOK, BatchOK, Open
<1>3. ~ Open(c)' /\ Done(c)' = {}
  BY <1>1, <1>2 DEF Open, Done
<1>4. BatchOK(c)'
  BY <1>1, <1>2, <1>3 DEF BatchOK
<1>5. OwnOK(c)'
  BY <1>1, <1>2, <1>3 DEF OwnOK
<1>7. HeldOK(c)'
  BY <1>1, <1>2 DEF HeldOK
<1>8. ResultOK(c)'
  BY <1>1, <1>2 DEF ResultOK, Seen, ItemOK
<1>9. ASSUME NEW d \in Clients, d # c PROVE Apart(c, d)'
  BY <1>1, <1>2, <1>3, <1>9 DEF Apart
<1> QED
  BY <1>4, <1>5, <1>7, <1>8, <1>9, TxStep DEF ClientOK

\* A row of the snapshot is locked and looked at again.
LEMMA LockRecallRowInv ==
    ASSUME StoreInv, NEW c \in Clients, LockRecallRow(c)
    PROVE  StoreInv'
<1>1. tx[c].pc = "rows" /\ UNCHANGED <<now, runs, cands, notes, deliveries, received>>
  BY DEF LockRecallRow
<1>2. PICK k \in tx[c].todo :
        /\ ~ RowHeld(c, k)
        /\ tx' = [tx EXCEPT ![c] =
              [tx[c] EXCEPT !.todo = @ \ {k}, !.rows = @ \cup {k},
                  !.found = IF Recallable(k, notes[k], tx[c].at, tx[c].seen, tx[c].session)
                            THEN @ \cup {<<k, notes[k].revision>>} ELSE @]]
  BY DEF LockRecallRow
<1>3. /\ tx[c] \in TxRecord /\ HeldOK(c) /\ k \in Keys /\ notes[k].revision \in Numbers
      /\ tx[c].found \in SUBSET (Keys \X Numbers)
  <2>1. tx[c] \in TxRecord /\ HeldOK(c)
    BY DEF StoreInv, Types, ClientOK
  <2>2. k \in Keys /\ tx[c].found \in SUBSET (Keys \X Numbers)
    BY <2>1 DEF TxRecord
  <2>3. notes[k] \in Note /\ Chain(notes[k])
    BY <2>2 DEF StoreInv, Types, DataOK, NoteOK
  <2> QED
    BY <2>1, <2>2, <2>3, RevisionBound
<1> DEFINE here == Recallable(k, notes[k], tx[c].at, tx[c].seen, tx[c].session)
           found == IF here THEN tx[c].found \cup {<<k, notes[k].revision>>} ELSE tx[c].found
           new == [tx[c] EXCEPT !.todo = @ \ {k}, !.rows = @ \cup {k}, !.found = found]
<1>4. here => notes[k].state = "active"
  BY DEF Recallable
<1> HIDE DEF here
<1>5. /\ found \in SUBSET (Keys \X Numbers)
      /\ \A f \in found : \/ f \in tx[c].found
                          \/ f[1] = k /\ f[2] = notes[k].revision /\ notes[k].state = "active"
  BY <1>3, <1>4
<1>6. tx' = [tx EXCEPT ![c] = new]
  BY <1>2 DEF here
<1> HIDE DEF found
<1>7. /\ new \in TxRecord /\ new.pc = "rows" /\ new.inserted = tx[c].inserted
      /\ new.keys = tx[c].keys /\ new.own = tx[c].own /\ new.result = tx[c].result
      /\ new.todo = tx[c].todo \ {k} /\ new.rows = tx[c].rows \cup {k} /\ new.found = found
      /\ new.claims = tx[c].claims /\ new.session = tx[c].session
  BY <1>1, <1>3, <1>5 DEF TxRecord
<1> HIDE DEF new
<1>8. \A f \in new.found : f[1] \in new.rows /\ notes[f[1]].revision = f[2]
                           /\ notes[f[1]].state = "active"
  BY <1>3, <1>5, <1>7 DEF HeldOK
<1>9. notes[k].revision # 0 /\ \A j \in new.rows : notes[j].revision # 0
  <2>1. notes[k].revision # 0
    BY <1>3 DEF HeldOK
  <2>2. ASSUME NEW j \in tx[c].rows PROVE notes[j].revision # 0
    BY <1>1, <1>3 DEF HeldOK, StoreInv, ClientOK, BatchOK, Open
  <2> QED
    BY <2>1, <2>2, <1>7
<1>10. new.claims \cap deliveries = {} /\ new.session \in Sessions
  BY <1>1, <1>3, <1>7 DEF HeldOK, StoreInv, ClientOK, BatchOK, Open
<1>11. ASSUME NEW d \in Clients, d # c
       PROVE  new.rows \cap tx[d].rows = {} /\ new.claims \cap tx[d].claims = {}
  <2>1. Apart(c, d) /\ k \notin tx[d].rows
    BY <1>2, <1>9, <1>11 DEF StoreInv, RowHeld
  <2> QED
    BY <1>7, <2>1 DEF Apart
<1> QED
  BY <1>1, <1>6, <1>7, <1>8, <1>9, <1>10, <1>11, RecallInv

\* The planner chooses what to claim.
LEMMA PlanRecallInv ==
    ASSUME StoreInv, NEW c \in Clients, PlanRecall(c)
    PROVE  StoreInv'
<1> DEFINE s == tx[c].session
           whole == {<<f[1], f[2], s>> : f \in tx[c].found}
           hints == {{<<f[1], Hint, s>>} : f \in tx[c].found}
<1>1. tx[c].pc = "rows" /\ UNCHANGED <<now, runs, cands, notes, deliveries, received>>
  BY DEF PlanRecall
<1>2. PICK plan \in (SUBSET whole) \cup hints :
        tx' = [tx EXCEPT ![c].pc = "claim", ![c].plan = plan, ![c].at = 0, ![c].seen = {}]
  BY DEF PlanRecall
<1>3. tx[c] \in TxRecord /\ HeldOK(c) /\ tx[c].found \in SUBSET (Keys \X Numbers)
  BY DEF StoreInv, Types, ClientOK, TxRecord
<1>4. plan \subseteq Claims
  <2>1. s \in Sessions /\ 0 \in Numbers
    <3>1. s \in Sessions
      BY <1>1 DEF StoreInv, ClientOK, BatchOK, Open
    <3> QED
      BY <3>1, FS_CardinalityType, NoteStoreAssumption DEF Numbers
  <2>2. ASSUME NEW f \in tx[c].found
        PROVE  <<f[1], f[2], s>> \in Claims /\ <<f[1], Hint, s>> \in Claims
    BY <1>3, <2>1 DEF Claims, Numbers, Hint
  <2> HIDE DEF s
  <2>3. CASE plan \in SUBSET whole
    <3>1. ASSUME NEW i \in plan PROVE i \in Claims
      <4>1. PICK f \in tx[c].found : i = <<f[1], f[2], s>>
        BY <2>3
      <4> QED
        BY <4>1, <2>2
    <3> QED
      BY <3>1
  <2>4. CASE plan \in hints
    <3>1. PICK f \in tx[c].found : plan = {<<f[1], Hint, s>>}
      BY <2>4
    <3> QED
      BY <3>1, <2>2
  <2> QED
    BY <2>3, <2>4
<1> DEFINE new == [tx[c] EXCEPT !.pc = "claim", !.plan = plan, !.at = 0, !.seen = {}]
<1>5. tx' = [tx EXCEPT ![c] = new]
  BY <1>2 DEF StoreInv, Types
<1>6. /\ new \in TxRecord /\ new.pc = "claim" /\ new.inserted = tx[c].inserted
      /\ new.keys = tx[c].keys /\ new.own = tx[c].own /\ new.result = tx[c].result
      /\ new.todo = tx[c].todo /\ new.rows = tx[c].rows /\ new.found = tx[c].found
      /\ new.claims = tx[c].claims
  BY <1>3, <1>4 DEF TxRecord, TxPcs
<1> HIDE DEF new
<1>7. \A f \in new.found : f[1] \in new.rows /\ notes[f[1]].revision = f[2]
                           /\ notes[f[1]].state = "active"
  BY <1>3, <1>6 DEF HeldOK
<1>8. \A k \in new.rows : notes[k].revision # 0
  BY <1>1, <1>3, <1>6 DEF HeldOK, StoreInv, ClientOK, BatchOK, Open
<1>9. new.claims \cap deliveries = {}
  BY <1>3, <1>6 DEF HeldOK
<1>10. \A d \in Clients : d # c => /\ new.rows \cap tx[d].rows = {}
                                 /\ new.claims \cap tx[d].claims = {}
  BY <1>6 DEF StoreInv, Apart
<1> QED
  BY <1>1, <1>5, <1>6, <1>7, <1>8, <1>9, <1>10, RecallInv

\* One claim of the plan is inserted, or turns out to be taken.
LEMMA InsertDeliveryInv ==
    ASSUME StoreInv, NEW c \in Clients, InsertDelivery(c)
    PROVE  StoreInv'
<1>1. tx[c].pc = "claim" /\ UNCHANGED <<now, runs, cands, notes, deliveries, received>>
  BY DEF InsertDelivery
<1>2. PICK i \in tx[c].plan :
        /\ ~ ClaimHeld(c, i)
        /\ tx' = [tx EXCEPT ![c].plan = @ \ {i},
                            ![c].claims = IF i \in deliveries THEN @ ELSE @ \cup {i}]
  BY DEF InsertDelivery
<1>3. tx[c] \in TxRecord /\ HeldOK(c) /\ i \in Claims /\ tx[c].claims \subseteq Claims
  BY DEF StoreInv, Types, ClientOK, TxRecord
<1> DEFINE claims == IF i \in deliveries THEN tx[c].claims ELSE tx[c].claims \cup {i}
           new == [tx[c] EXCEPT !.plan = @ \ {i}, !.claims = claims]
<1>4. /\ claims \in SUBSET Claims /\ claims \cap deliveries = {}
      /\ \A d \in Clients : d # c => claims \cap tx[d].claims = {}
  BY <1>2, <1>3 DEF HeldOK, ClaimHeld, StoreInv, Apart
<1>5. tx' = [tx EXCEPT ![c] = new]
  BY <1>2 DEF StoreInv, Types
<1> HIDE DEF claims
<1>6. /\ new \in TxRecord /\ new.pc = "claim" /\ new.inserted = tx[c].inserted
      /\ new.keys = tx[c].keys /\ new.own = tx[c].own /\ new.result = tx[c].result
      /\ new.todo = tx[c].todo /\ new.rows = tx[c].rows /\ new.found = tx[c].found
      /\ new.claims = claims
  BY <1>1, <1>3, <1>4 DEF TxRecord
<1> HIDE DEF new
<1>7. \A f \in new.found : f[1] \in new.rows /\ notes[f[1]].revision = f[2]
                           /\ notes[f[1]].state = "active"
  BY <1>3, <1>6 DEF HeldOK
<1>8. \A k \in new.rows : notes[k].revision # 0
  BY <1>1, <1>3, <1>6 DEF HeldOK, StoreInv, ClientOK, BatchOK, Open
<1>9. \A d \in Clients : d # c => new.rows \cap tx[d].rows = {}
  BY <1>6 DEF StoreInv, Apart
<1> QED
  BY <1>1, <1>4, <1>5, <1>6, <1>7, <1>8, <1>9, RecallInv, ZenonT(60)

-----------------------------------------------------------------------------
(* Steps that change what is committed *)

\* A quiet record after a commit.
LEMMA QuietClient ==
    ASSUME NEW c \in Clients, Quiet(tx'[c]), tx'[c].todo = {},
           \A item \in Range(tx'[c].result) : ItemOK(item, notes'[item.key])
    PROVE  ClientOK(c)' /\ \A d \in Clients : Apart(c, d)'
<1>1. ~ Open(c)' /\ Done(c)' = {}
  BY DEF Quiet, Open, Done
<1>2. BatchOK(c)'
  BY <1>1 DEF Quiet, BatchOK
<1>3. OwnOK(c)' /\ HeldOK(c)'
  BY <1>1 DEF Quiet, OwnOK, HeldOK
<1>4. ResultOK(c)'
  BY DEF Quiet, ResultOK, Seen, ItemOK
<1>5. ASSUME NEW d \in Clients PROVE Apart(c, d)'
  BY <1>1 DEF Quiet, Apart
<1> QED
  BY <1>2, <1>3, <1>4, <1>5 DEF ClientOK

\* A step of one client that commits what the others do not hold.
LEMMA CommitStep ==
    ASSUME StoreInv, Types', DataOK', NEW c \in Clients,
           \A d \in Clients : d # c => tx'[d] = tx[d],
           ClientOK(c)', \A d \in Clients : d # c => Apart(c, d)',
           \A x \in Candidates : cands[x] = "admitted" => cands'[x] = "admitted",
           \A k \in Keys : Later(notes[k], notes'[k]),
           \A d \in Clients : d # c =>
               /\ Open(d) => runs'[tx[d].run].status = "absent"
               /\ \A x \in tx[d].inserted : cands'[x] = "absent"
               /\ \A k \in tx[d].rows : SameRow(notes[k], notes'[k])
               /\ tx[d].claims \cap deliveries' = {}
    PROVE  StoreInv'
<1>1. ASSUME NEW d \in Clients PROVE ClientOK(d)'
  <2>1. CASE d = c
    BY <2>1
  <2>2. CASE d # c
    <3>1. ClientOK(d) /\ tx'[d] = tx[d] /\ Types
      BY <2>2 DEF StoreInv
    <3> QED
      BY <2>2, <3>1, ClientFrame
  <2> QED
    BY <2>1, <2>2
<1>2. ASSUME NEW d \in Clients, NEW e \in Clients, d # e PROVE Apart(d, e)'
  <2>1. CASE d # c /\ e # c
    BY <1>2, <2>1 DEF StoreInv, Apart, Open
  <2>2. CASE d = c
    BY <1>2, <2>2
  <2>3. CASE e = c
    <3>1. Apart(c, d)'
      BY <1>2, <2>3
    <3> QED
      BY <2>3, <3>1 DEF Apart
  <2> QED
    BY <2>1, <2>2, <2>3
<1> QED
  BY <1>1, <1>2 DEF StoreInv

\* The run commits: its notes, candidates and result become visible at once.
LEMMA CommitRunInv ==
    ASSUME StoreInv, NEW c \in Clients, CommitRun(c)
    PROVE  StoreInv'
<1> DEFINE r == tx[c].run
           done == tx[c].inserted
           rejected == {x \in Rejections[r] \ done : cands[x] = "absent"}
           row == [status |-> "completed", result |-> tx[c].result]
           new == [IdleTx EXCEPT !.pc = "refresh", !.result = tx[c].result]
<1>1. /\ tx[c].pc = "candidate" /\ tx[c].next > Len(Batch[r])
      /\ \A x \in Rejections[r] : ~ CandidateHeld(c, x)
      /\ runs' = [runs EXCEPT ![r] = row]
      /\ cands' = [x \in Candidates |-> IF x \in done THEN "admitted"
                                       ELSE IF x \in rejected THEN "rejected" ELSE cands[x]]
      /\ notes' = [k \in Keys |-> Seen(c, k)]
      /\ tx' = [tx EXCEPT ![c] = new]
      /\ UNCHANGED <<now, deliveries, received>>
  BY DEF CommitRun
<1>2. /\ tx[c] \in TxRecord /\ BatchOK(c) /\ OwnOK(c) /\ HeldOK(c) /\ ResultOK(c)
      /\ Open(c) /\ Done(c) = done
  BY <1>1 DEF StoreInv, Types, ClientOK, Open, Done, Current
<1>3. /\ r \in Runs /\ DOMAIN Batch[r] = 1..Len(Batch[r]) /\ Len(Batch[r]) \in Nat
      /\ tx[c].next \in Nat /\ done \subseteq Candidates /\ tx[c].result \in Seq(Item)
  BY <1>2, RunShape DEF TxRecord
<1>4. /\ new \in TxRecord /\ Quiet(new) /\ new.todo = {} /\ new.result = tx[c].result
  BY <1>3, IdleTxType DEF TxRecord, TxPcs, Quiet
<1>5. row \in RunRow /\ row.status = "completed" /\ row.result = tx[c].result
  BY <1>3 DEF RunRow
<1> HIDE DEF new, row
<1>6. tx'[c] = new /\ tx' \in [Clients -> TxRecord] /\ \A d \in Clients : d # c => tx'[d] = tx[d]
  BY <1>1, <1>4 DEF StoreInv, Types
<1>7. /\ \A x \in Candidates : cands[x] = "admitted" => cands'[x] = "admitted"
      /\ \A x \in done : cands'[x] = "admitted"
      /\ \A x \in Candidates : cands'[x] = "admitted" => cands[x] = "admitted" \/ x \in done
  BY <1>1, <1>3
<1>8. \A x \in Carried(r) : x \in Candidates /\ cands'[x] = "admitted"
  <2> SUFFICES ASSUME NEW i \in DOMAIN Batch[r]
               PROVE  Batch[r][i] \in Candidates /\ cands'[Batch[r][i]] = "admitted"
    BY DEF Carried
  <2>1. Batch[r][i] \in Candidates /\ i < tx[c].next
    BY <1>1, <1>3, NoteStoreAssumption
  <2>2. cands[Batch[r][i]] = "admitted" \/ Batch[r][i] \in done
    BY <1>2, <2>1 DEF BatchOK
  <2> QED
    BY <1>7, <2>1, <2>2
<1>9. \A k \in Keys : notes'[k] = Seen(c, k) /\ Later(notes[k], notes'[k]) /\ notes'[k] \in Note
  BY <1>1, SeenRow
<1>10. Types'
  <2>1. runs' \in [Runs -> RunRow]
    BY <1>1, <1>3, <1>5 DEF StoreInv, Types
  <2>2. cands' \in [Candidates -> {"absent", "admitted", "rejected"}]
    BY <1>1 DEF StoreInv, Types
  <2>3. notes' \in [Keys -> Note]
    BY <1>1, <1>9
  <2> QED
    BY <1>1, <1>6, <2>1, <2>2, <2>3 DEF StoreInv, Types
<1>11. \A q \in Runs : runs'[q] = IF q = r THEN row ELSE runs[q]
  BY <1>1 DEF StoreInv, Types
<1>12. ASSUME NEW k \in Keys PROVE NoteOK(k)'
  <2>1. \A v \in Seen(c, k).history : /\ v.candidate \in Candidates
                                      /\ cands[v.candidate] = "admitted" \/ v.candidate \in done
                                      /\ Detail[v.candidate].key = k
    BY <1>2, SeenRow DEF Note, Revision
  <2>2. Chain(notes'[k])
    BY <1>9, SeenRow
  <2> QED
    BY <1>7, <1>9, <2>1, <2>2 DEF NoteOK
<1>13. ASSUME NEW q \in Runs PROVE RunOK(q)'
  <2>1. CASE q = r
    <3>1. \A item \in Range(tx[c].result) : ItemOK(item, notes'[item.key])
      BY <1>2, <1>9, TxShape DEF ResultOK, StoreInv
    <3> QED
      BY <2>1, <3>1, <1>5, <1>8, <1>11 DEF RunOK, Carried
  <2>2. CASE q # r
    <3>1. RunOK(q) /\ runs'[q] = runs[q]
      BY <2>2, <1>11 DEF StoreInv, DataOK
    <3>2. \A x \in Carried(q) : x \in Candidates
      BY NoteStoreAssumption DEF Carried
    <3>3. ASSUME NEW item \in Range(runs[q].result) PROVE ItemOK(item, notes'[item.key])
      <4>1. runs[q].result \in Seq(Item)
        BY DEF StoreInv, Types, RunRow
      <4>2. Range(runs[q].result) \subseteq Item
        BY <4>1, RangeSeq
      <4>3. item \in Item /\ item.key \in Keys /\ ItemOK(item, notes[item.key])
        BY <4>2, <3>1 DEF Item, RunOK
      <4> QED
        BY <4>3, <1>9, ItemLater DEF StoreInv, Types
    <3> QED
      BY <3>1, <3>2, <3>3, <1>7 DEF RunOK, Carried
  <2> QED
    BY <2>1, <2>2
<1>14. ASSUME NEW x \in Candidates, cands'[x] = "admitted"
       PROVE  /\ \E v \in notes'[Detail[x].key].history : v.candidate = x
              /\ \E q \in Runs : runs'[q].status = "completed" /\ x \in Carried(q)
  <2>1. Detail[x].key \in Keys
    BY NoteStoreAssumption DEF CandidateDetail
  <2>2. CASE x \in done
    <3>1. x \in Carried(r)
      BY <2>2, <1>2 DEF BatchOK, Carried
    <3>2. Detail[x].key \in DOMAIN tx[c].own
          /\ \E v \in tx[c].own[Detail[x].key].history : v.candidate = x
      BY <2>2, <1>2 DEF OwnOK
    <3> QED
      BY <2>1, <3>1, <3>2, <1>3, <1>5, <1>9, <1>11 DEF Seen
  <2>3. CASE cands[x] = "admitted"
    <3>1. CandOK(x)
      BY DEF StoreInv, DataOK
    <3>2. PICK v \in notes[Detail[x].key].history : v.candidate = x
      BY <2>3, <3>1 DEF CandOK
    <3>3. PICK q \in Runs : runs[q].status = "completed" /\ x \in Carried(q)
      BY <2>3, <3>1 DEF CandOK
    <3>4. Extends(notes[Detail[x].key], notes'[Detail[x].key])
      BY <2>1, <1>9, SeenRow
    <3>5. \E w \in notes'[Detail[x].key].history : w.candidate = x
      BY <3>2, <3>4 DEF Extends
    <3>6. runs'[q].status = "completed"
      BY <3>3, <1>5, <1>11
    <3> QED
      BY <3>3, <3>5, <3>6
  <2> QED
    BY <1>7, <1>14, <2>2, <2>3
<1>15. EmbeddingFresh' /\ DeliveredOnce'
  <2>1. ASSUME NEW k \in Keys, notes'[k].embedding # NULL
        PROVE  notes'[k].embedding = notes'[k].revision /\ notes'[k].state = "active"
    <3>1. k \notin DOMAIN tx[c].own
      BY <2>1, <1>2, <1>9 DEF OwnOK, Seen
    <3> QED
      BY <2>1, <3>1, <1>9 DEF Seen, StoreInv, DataOK, EmbeddingFresh
  <2> QED
    BY <1>1, <2>1 DEF EmbeddingFresh, DeliveredOnce, StoreInv, DataOK
<1>16. DataOK'
  BY <1>12, <1>13, <1>14, <1>15 DEF DataOK, CandOK, Carried
<1>17. ClientOK(c)' /\ \A d \in Clients : Apart(c, d)'
  <2>1. \A item \in Range(tx'[c].result) : ItemOK(item, notes'[item.key])
    BY <1>2, <1>4, <1>6, <1>9, TxShape DEF ResultOK, StoreInv
  <2> QED
    BY <1>4, <1>6, <2>1, QuietClient
<1>18. ASSUME NEW d \in Clients, d # c
       PROVE  /\ Open(d) => runs'[tx[d].run].status = "absent"
              /\ \A x \in tx[d].inserted : cands'[x] = "absent"
              /\ \A k \in tx[d].rows : SameRow(notes[k], notes'[k])
              /\ tx[d].claims \cap deliveries' = {}
  <2>1. Apart(c, d) /\ ClientOK(d) /\ tx[d].rows \subseteq Keys /\ tx[d].inserted \subseteq Candidates
    BY <1>18 DEF StoreInv, Types, TxRecord
  <2>2. Open(d) => runs'[tx[d].run].status = "absent"
    BY <1>2, <1>11, <2>1 DEF Apart, ClientOK, BatchOK
  <2>3. ASSUME NEW x \in tx[d].inserted PROVE cands'[x] = "absent"
    <3>1. x \notin done /\ x \notin Rejections[r] /\ cands[x] = "absent"
      BY <1>1, <1>18, <2>1 DEF Apart, ClientOK, HeldOK, CandidateHeld
    <3> QED
      BY <3>1, <2>1, <1>1
  <2>4. ASSUME NEW k \in tx[d].rows PROVE SameRow(notes[k], notes'[k])
    BY <2>1, <1>2, <1>9 DEF Apart, OwnOK, Seen, SameRow
  <2>5. tx[d].claims \cap deliveries' = {}
    BY <1>1, <2>1 DEF ClientOK, HeldOK
  <2> QED
    BY <2>2, <2>3, <2>4, <2>5
<1> QED
  BY <1>6, <1>7, <1>9, <1>10, <1>16, <1>17, <1>18, CommitStep

\* The run is recorded as quarantined unless it has an outcome already.
LEMMA QuarantineInv ==
    ASSUME StoreInv, NEW c \in Clients, QuarantineExtractionRun(c)
    PROVE  StoreInv'
<1> DEFINE r == tx[c].run
           batch == {Batch[r][i] : i \in DOMAIN Batch[r]}
<1>1. /\ tx[c].pc = "quarantine" /\ ~ RunHeld(c, r)
      /\ runs[r].status = "absent" => \A x \in batch : ~ CandidateHeld(c, x)
      /\ runs' = IF runs[r].status # "absent" THEN runs
                 ELSE [runs EXCEPT ![r].status = "quarantined"]
      /\ cands' = [x \in Candidates |->
                      IF runs[r].status = "absent" /\ x \in batch /\ cands[x] = "absent"
                      THEN "rejected" ELSE cands[x]]
      /\ tx' = [tx EXCEPT ![c] = IdleTx]
      /\ UNCHANGED <<now, notes, deliveries, received>>
  BY DEF QuarantineExtractionRun
<1>2. r \in Runs /\ runs \in [Runs -> RunRow]
  BY <1>1 DEF StoreInv, Types, ClientOK, BatchOK, Open
<1>3. /\ runs' \in [Runs -> RunRow]
      /\ \A q \in Runs : runs'[q].result = runs[q].result
      /\ \A q \in Runs : runs'[q].status = "completed" <=> runs[q].status = "completed"
      /\ \A q \in Runs : q # r => runs'[q] = runs[q]
  <2>1. CASE runs[r].status # "absent"
    BY <1>1, <1>2, <2>1
  <2>2. CASE runs[r].status = "absent"
    <3> DEFINE row == [runs[r] EXCEPT !.status = "quarantined"]
    <3>1. row \in RunRow /\ row.status = "quarantined" /\ row.result = runs[r].result
      BY <1>2 DEF RunRow
    <3>2. runs' = [runs EXCEPT ![r] = row]
      BY <1>1, <1>2, <2>2
    <3> HIDE DEF row
    <3> QED
      BY <1>2, <2>2, <3>1, <3>2
  <2> QED
    BY <2>1, <2>2
<1>4. /\ cands' \in [Candidates -> {"absent", "admitted", "rejected"}]
      /\ \A x \in Candidates : cands'[x] = "admitted" <=> cands[x] = "admitted"
  BY <1>1 DEF StoreInv, Types
<1>5. tx'[c] = IdleTx /\ tx' \in [Clients -> TxRecord] /\ \A d \in Clients : d # c => tx'[d] = tx[d]
  BY <1>1, IdleTxType DEF StoreInv, Types
<1>6. Types'
  BY <1>1, <1>3, <1>4, <1>5 DEF StoreInv, Types
<1>7. ASSUME NEW k \in Keys PROVE NoteOK(k)'
  <2>1. notes[k] \in Note /\ NoteOK(k)
    BY DEF StoreInv, Types, DataOK
  <2>2. \A v \in notes[k].history : v.candidate \in Candidates
    BY <2>1 DEF Note, Revision
  <2> QED
    BY <1>1, <1>4, <2>1, <2>2 DEF NoteOK
<1>8. ASSUME NEW q \in Runs PROVE RunOK(q)'
  <2>1. RunOK(q) /\ \A x \in Carried(q) : x \in Candidates
    BY NoteStoreAssumption DEF StoreInv, DataOK, Carried
  <2> QED
    BY <1>1, <1>3, <1>4, <2>1 DEF RunOK, Carried, ItemOK
<1>9. ASSUME NEW x \in Candidates PROVE CandOK(x)'
  <2>1. CandOK(x)
    BY DEF StoreInv, DataOK
  <2> QED
    BY <1>1, <1>3, <1>4, <2>1 DEF CandOK, Carried
<1>10. DataOK'
  <2>1. EmbeddingFresh' /\ DeliveredOnce'
    BY <1>1 DEF StoreInv, DataOK, EmbeddingFresh, DeliveredOnce
  <2> QED
    BY <1>7, <1>8, <1>9, <2>1 DEF DataOK
<1>11. ClientOK(c)' /\ \A d \in Clients : Apart(c, d)'
  <2>1. Quiet(tx'[c]) /\ Range(tx'[c].result) = {} /\ tx'[c].todo = {}
    BY <1>5, IdleTxType, RangeEmpty DEF Quiet
  <2> QED
    BY <2>1, QuietClient
<1>12. \A k \in Keys : Later(notes[k], notes'[k]) /\ SameRow(notes[k], notes'[k])
  BY <1>1 DEF StoreInv, Types, Note, Later, SameRow
<1>13. ASSUME NEW d \in Clients, d # c
       PROVE  /\ Open(d) => runs'[tx[d].run].status = "absent"
              /\ \A x \in tx[d].inserted : cands'[x] = "absent"
              /\ \A k \in tx[d].rows : SameRow(notes[k], notes'[k])
              /\ tx[d].claims \cap deliveries' = {}
  <2>1. ClientOK(d) /\ tx[d].rows \subseteq Keys /\ tx[d].inserted \subseteq Candidates
    BY <1>13 DEF StoreInv, Types, TxRecord
  <2>2. ASSUME Open(d) PROVE runs'[tx[d].run].status = "absent"
    <3>1. tx[d].run # r /\ tx[d].run \in Runs /\ runs[tx[d].run].status = "absent"
      BY <1>1, <1>13, <2>1, <2>2 DEF RunHeld, Open, ClientOK, BatchOK
    <3> QED
      BY <3>1, <1>3
  <2>3. ASSUME NEW x \in tx[d].inserted PROVE cands'[x] = "absent"
    <3>1. cands[x] = "absent" /\ x \in Candidates
      BY <2>1 DEF ClientOK, HeldOK
    <3>2. runs[r].status = "absent" => x \notin batch
      BY <1>1, <1>13 DEF CandidateHeld
    <3> QED
      BY <3>1, <3>2, <1>1
  <2>4. tx[d].claims \cap deliveries' = {}
    BY <1>1, <2>1 DEF ClientOK, HeldOK
  <2> QED
    BY <1>12, <2>1, <2>2, <2>3, <2>4
<1> QED
  BY <1>4, <1>5, <1>6, <1>10, <1>11, <1>12, <1>13, CommitStep

\* An embedding is stored for the revision it was computed from, or not at all.
LEMMA RefreshEmbeddingInv ==
    ASSUME StoreInv, NEW c \in Clients, RefreshEmbedding(c)
    PROVE  StoreInv'
<1> DEFINE item == Head(tx[c].result)
           k == item.key
<1>1. /\ tx[c].pc = "refresh" /\ tx[c].result # << >>
      /\ tx' = [tx EXCEPT ![c].result = Tail(@)]
      /\ UNCHANGED <<now, runs, cands, deliveries, received>>
  BY DEF RefreshEmbedding
<1>2. /\ tx[c] \in TxRecord /\ BatchOK(c) /\ OwnOK(c) /\ HeldOK(c) /\ ResultOK(c) /\ ~ Open(c)
      /\ DOMAIN tx[c].own = {} /\ tx[c].result \in Seq(Item)
  BY <1>1 DEF StoreInv, Types, ClientOK, BatchOK, Open, TxRecord
<1>3. /\ item \in Range(tx[c].result) /\ Tail(tx[c].result) \in Seq(Item)
      /\ Range(Tail(tx[c].result)) \subseteq Range(tx[c].result)
  <2>1. /\ tx[c].result[1] \in Range(tx[c].result) /\ Tail(tx[c].result) \in Seq(Item)
        /\ Range(Tail(tx[c].result)) \subseteq Range(tx[c].result)
    BY <1>1, <1>2, RangeSeq
  <2>2. item = tx[c].result[1]
    BY <1>1, <1>2
  <2> QED
    BY <2>1, <2>2
<1>4. item \in Item /\ k \in Keys /\ ItemOK(item, notes[k]) /\ notes[k] \in Note
  BY <1>2, <1>3, TxShape DEF ResultOK, Seen, StoreInv
<1>5. PICK e \in BOOLEAN :
        notes' = [notes EXCEPT ![k].embedding =
            CASE item.state # "active" -> NULL
              [] item.state = "active" /\ notes[k].revision = item.revision ->
                    IF e THEN item.revision ELSE NULL
              [] OTHER -> @]
  BY DEF RefreshEmbedding
<1> DEFINE vector == CASE item.state # "active" -> NULL
                       [] item.state = "active" /\ notes[k].revision = item.revision ->
                             IF e THEN item.revision ELSE NULL
                       [] OTHER -> notes[k].embedding
           row == [notes[k] EXCEPT !.embedding = vector]
<1>6. notes' = [notes EXCEPT ![k] = row]
  BY <1>4, <1>5 DEF StoreInv, Types
<1>7. vector \in Nat /\ (vector # NULL => vector = notes[k].revision /\ notes[k].state = "active")
  <2>1. /\ item.revision \in Nat /\ notes[k].embedding \in Nat
        /\ item.revision = notes[k].revision => item.state = notes[k].state
    BY <1>4 DEF Item, Note, ItemOK
  <2>2. notes[k].embedding # NULL =>
            notes[k].embedding = notes[k].revision /\ notes[k].state = "active"
    BY <1>4 DEF StoreInv, DataOK, EmbeddingFresh
  <2> QED
    BY <2>1, <2>2 DEF NULL
<1> HIDE DEF vector
<1>8. row \in Note /\ SameRow(notes[k], row) /\ row.soft = notes[k].soft /\ row.embedding = vector
  BY <1>4, <1>7 DEF Note, SameRow
<1> HIDE DEF row
<1>9. /\ notes' \in [Keys -> Note] /\ notes'[k] = row
      /\ \A j \in Keys : j # k => notes'[j] = notes[j]
  BY <1>4, <1>6, <1>8 DEF StoreInv, Types
<1>10. \A j \in Keys : /\ SameRow(notes[j], notes'[j]) /\ notes'[j].soft = notes[j].soft
                       /\ Later(notes[j], notes'[j])
  <2>1. \A j \in Keys : SameRow(notes[j], notes'[j]) /\ notes'[j].soft = notes[j].soft
    BY <1>8, <1>9 DEF SameRow
  <2> QED
    BY <2>1 DEF SameRow, Later, StoreInv, Types, Note
<1> DEFINE rest == Tail(tx[c].result)
           new == [tx[c] EXCEPT !.result = rest]
<1>11. tx' = [tx EXCEPT ![c] = new]
  BY <1>1 DEF StoreInv, Types
<1>12. rest \in Seq(Item) /\ Range(rest) \subseteq Range(tx[c].result)
  BY <1>3
<1> HIDE DEF rest
<1>13. /\ new \in TxRecord /\ new.pc = "refresh" /\ new.result = rest
       /\ new.inserted = tx[c].inserted /\ new.keys = tx[c].keys /\ new.rows = tx[c].rows
       /\ new.own = tx[c].own /\ new.todo = tx[c].todo /\ new.found = tx[c].found
       /\ new.claims = tx[c].claims /\ new.run = tx[c].run
  BY <1>1, <1>2, <1>12 DEF TxRecord
<1> HIDE DEF new
<1>14. tx'[c] = new /\ tx' \in [Clients -> TxRecord] /\ \A d \in Clients : d # c => tx'[d] = tx[d]
  BY <1>11, <1>13 DEF StoreInv, Types
<1>15. Types'
  BY <1>1, <1>9, <1>14 DEF StoreInv, Types
<1>16. ASSUME NEW j \in Keys PROVE NoteOK(j)'
  <2>1. NoteOK(j) /\ SameRow(notes[j], notes'[j]) /\ notes'[j].soft = notes[j].soft
    BY <1>10 DEF StoreInv, DataOK
  <2>2. Chain(notes'[j])
    BY <2>1 DEF NoteOK, Chain, SameRow
  <2> QED
    BY <1>1, <2>1, <2>2 DEF NoteOK, SameRow
<1>17. ASSUME NEW q \in Runs PROVE RunOK(q)'
  <2>1. RunOK(q) /\ runs[q].result \in Seq(Item)
    BY DEF StoreInv, DataOK, Types, RunRow
  <2>2. Range(runs[q].result) \subseteq Item
    BY <2>1, RangeSeq
  <2>3. \A y \in Range(runs[q].result) : y.key \in Keys
    BY <2>2 DEF Item
  <2> QED
    BY <1>1, <1>10, <2>1, <2>3 DEF RunOK, Carried, ItemOK, SameRow
<1>18. ASSUME NEW x \in Candidates PROVE CandOK(x)'
  <2>1. CandOK(x) /\ Detail[x].key \in Keys
    BY NoteStoreAssumption DEF StoreInv, DataOK, CandidateDetail
  <2> QED
    BY <1>1, <1>10, <2>1 DEF CandOK, Carried, SameRow
<1>19. EmbeddingFresh' /\ DeliveredOnce'
  <2>1. ASSUME NEW j \in Keys, notes'[j].embedding # NULL
        PROVE  notes'[j].embedding = notes'[j].revision /\ notes'[j].state = "active"
    <3>1. CASE j = k
      BY <2>1, <3>1, <1>7, <1>8, <1>9 DEF SameRow
    <3>2. CASE j # k
      BY <2>1, <3>2, <1>9 DEF StoreInv, DataOK, EmbeddingFresh
    <3> QED
      BY <3>1, <3>2
  <2> QED
    BY <1>1, <2>1 DEF EmbeddingFresh, DeliveredOnce, StoreInv, DataOK
<1>20. DataOK'
  BY <1>16, <1>17, <1>18, <1>19 DEF DataOK
<1>21. ClientOK(c)'
  <2>1. ~ Open(c)' /\ Done(c)' = {} /\ tx[c].inserted = {} /\ tx[c].keys = {}
    BY <1>1, <1>2, <1>13, <1>14 DEF Open, Done, BatchOK
  <2>2. BatchOK(c)'
    BY <1>2, <1>13, <1>14, <2>1 DEF BatchOK
  <2>3. OwnOK(c)'
    BY <1>2, <1>13, <1>14, <2>1 DEF OwnOK
  <2>4. HeldOK(c)'
    <3>1. tx[c].rows \subseteq Keys /\ tx[c].todo \subseteq Keys
      BY <1>2 DEF TxRecord
    <3> QED
      BY <1>1, <1>2, <1>10, <1>13, <1>14, <2>1, <3>1 DEF HeldOK, SameRow
  <2>5. ResultOK(c)'
    <3>1. \A y \in Range(rest) : y.key \in Keys /\ ItemOK(y, notes[y.key])
      BY <1>2, <1>12, TxShape DEF ResultOK, Seen, StoreInv
    <3> QED
      BY <1>2, <1>10, <1>13, <1>14, <3>1 DEF ResultOK, Seen, ItemOK, SameRow
  <2> QED
    BY <2>2, <2>3, <2>4, <2>5 DEF ClientOK
<1>22. \A d \in Clients : d # c => Apart(c, d)'
  BY <1>1, <1>13, <1>14 DEF StoreInv, Apart, Open
<1>23. ASSUME NEW d \in Clients, d # c
       PROVE  /\ Open(d) => runs'[tx[d].run].status = "absent"
              /\ \A x \in tx[d].inserted : cands'[x] = "absent"
              /\ \A j \in tx[d].rows : SameRow(notes[j], notes'[j])
              /\ tx[d].claims \cap deliveries' = {}
  <2>1. ClientOK(d) /\ tx[d].rows \subseteq Keys
    BY DEF StoreInv, Types, TxRecord
  <2> QED
    BY <1>1, <1>10, <2>1 DEF ClientOK, BatchOK, HeldOK
<1> QED
  BY <1>1, <1>10, <1>14, <1>15, <1>20, <1>21, <1>22, <1>23, CommitStep

\* The claims of a recall become deliveries, and each is returned once.
LEMMA CommitRecallInv ==
    ASSUME StoreInv, NEW c \in Clients, CommitRecall(c)
    PROVE  StoreInv'
<1>1. /\ deliveries' = deliveries \cup tx[c].claims
      /\ received' = [i \in Claims |-> IF i \in tx[c].claims THEN received[i] + 1 ELSE received[i]]
      /\ tx' = [tx EXCEPT ![c] = IdleTx]
      /\ UNCHANGED <<now, runs, cands, notes>>
  BY DEF CommitRecall
<1>2. tx[c].claims \subseteq Claims /\ tx[c].claims \cap deliveries = {}
  BY DEF StoreInv, Types, TxRecord, ClientOK, HeldOK
<1>3. tx'[c] = IdleTx /\ tx' \in [Clients -> TxRecord] /\ \A d \in Clients : d # c => tx'[d] = tx[d]
  BY <1>1, IdleTxType DEF StoreInv, Types
<1>4. Types'
  BY <1>1, <1>2, <1>3 DEF StoreInv, Types
<1>5. DataOK'
  <2>1. /\ \A k \in Keys : NoteOK(k)'
        /\ \A r \in Runs : RunOK(r)'
        /\ \A x \in Candidates : CandOK(x)'
    BY <1>1 DEF StoreInv, DataOK, NoteOK, RunOK, CandOK
  <2>2. EmbeddingFresh'
    BY <1>1 DEF StoreInv, DataOK, EmbeddingFresh
  <2>3. DeliveredOnce'
    <3> SUFFICES ASSUME NEW i \in Claims
                 PROVE  received'[i] <= 1 /\ (received'[i] = 1 <=> i \in deliveries')
      BY DEF DeliveredOnce
    <3>1. /\ received[i] \in Nat /\ received[i] <= 1
          /\ received[i] = 1 <=> i \in deliveries
      BY DEF StoreInv, Types, DataOK, DeliveredOnce
    <3> QED
      BY <1>1, <1>2, <3>1
  <2> QED
    BY <2>1, <2>2, <2>3 DEF DataOK
<1>6. ClientOK(c)' /\ \A d \in Clients : Apart(c, d)'
  <2>1. Quiet(tx'[c]) /\ Range(tx'[c].result) = {} /\ tx'[c].todo = {}
    BY <1>3, IdleTxType, RangeEmpty DEF Quiet
  <2> QED
    BY <2>1, QuietClient
<1>7. \A k \in Keys : Later(notes[k], notes'[k]) /\ SameRow(notes[k], notes'[k])
  BY <1>1 DEF StoreInv, Types, Note, Later, SameRow
<1>8. ASSUME NEW d \in Clients, d # c
      PROVE  /\ Open(d) => runs'[tx[d].run].status = "absent"
             /\ \A x \in tx[d].inserted : cands'[x] = "absent"
             /\ \A k \in tx[d].rows : SameRow(notes[k], notes'[k])
             /\ tx[d].claims \cap deliveries' = {}
  <2>1. ClientOK(d) /\ tx[d].rows \subseteq Keys /\ Apart(c, d)
    BY <1>8 DEF StoreInv, Types, TxRecord
  <2> QED
    BY <1>1, <1>7, <2>1 DEF ClientOK, BatchOK, HeldOK, Apart
<1> QED
  BY <1>1, <1>3, <1>4, <1>5, <1>6, <1>7, <1>8, CommitStep

-----------------------------------------------------------------------------
(* The invariant is inductive *)

\* It holds in the empty store.
LEMMA InitInv == Init => StoreInv
<1> SUFFICES ASSUME Init PROVE StoreInv
  OBVIOUS
<1>1. /\ now = 1 /\ runs = [r \in Runs |-> [status |-> "absent", result |-> << >>]]
      /\ cands = [x \in Candidates |-> "absent"] /\ notes = [k \in Keys |-> NoNote]
      /\ deliveries = {} /\ received = [i \in Claims |-> 0] /\ tx = [c \in Clients |-> IdleTx]
  BY DEF Init
<1>2. NoNote \in Note /\ Chain(NoNote) /\ NoNote.history = {} /\ NoNote.embedding = NULL
  BY DEF NoNote, Note, States, NULL, Chain
<1>3. [status |-> "absent", result |-> << >>] \in RunRow
  BY DEF RunRow
<1>4. Types
  BY <1>1, <1>2, <1>3, IdleTxType, NoteStoreAssumption DEF Types
<1>5. DataOK
  <2>1. \A k \in Keys : NoteOK(k)
    BY <1>1, <1>2 DEF NoteOK
  <2>2. \A r \in Runs : RunOK(r)
    BY <1>1, RangeEmpty DEF RunOK
  <2>3. \A x \in Candidates : CandOK(x)
    BY <1>1 DEF CandOK
  <2>4. EmbeddingFresh /\ DeliveredOnce
    BY <1>1, <1>2 DEF EmbeddingFresh, DeliveredOnce
  <2> QED
    BY <2>1, <2>2, <2>3, <2>4 DEF DataOK
<1>6. ASSUME NEW c \in Clients PROVE ClientOK(c) /\ \A d \in Clients : Apart(c, d)
  <2>1. tx[c] = IdleTx /\ ~ Open(c) /\ Done(c) = {} /\ Range(tx[c].result) = {}
    BY <1>1, IdleTxType, RangeEmpty DEF Open, Done
  <2>2. BatchOK(c) /\ OwnOK(c) /\ HeldOK(c) /\ ResultOK(c)
    BY <2>1, IdleTxType DEF BatchOK, OwnOK, HeldOK, ResultOK
  <2> QED
    BY <2>1, <2>2, IdleTxType DEF ClientOK, Apart
<1> QED
  BY <1>4, <1>5, <1>6 DEF StoreInv

\* A step that changes nothing but the clock.
LEMMA TickInv ==
    ASSUME StoreInv, Tick \/ UNCHANGED vars
    PROVE  StoreInv'
<1>1. UNCHANGED <<runs, cands, notes, deliveries, received, tx>> /\ now' \in 1..MaxTime
  BY NoteStoreAssumption DEF Tick, vars, StoreInv, Types
<1>2. Types'
  BY <1>1 DEF StoreInv, Types
<1>3. DataOK'
  BY <1>1 DEF StoreInv, DataOK, NoteOK, RunOK, CandOK, EmbeddingFresh, DeliveredOnce
<1>4. ASSUME NEW c \in Clients PROVE ClientOK(c)'
  <2>1. ClientOK(c) /\ Done(c)' = Done(c) /\ (Open(c)' <=> Open(c))
    BY <1>1 DEF StoreInv, Done, Current, At, Open
  <2>2. BatchOK(c)' /\ OwnOK(c)'
    BY <1>1, <2>1 DEF ClientOK, BatchOK, OwnOK, At, KeyAt
  <2>3. HeldOK(c)' /\ ResultOK(c)'
    BY <1>1, <2>1 DEF ClientOK, HeldOK, ResultOK, Seen
  <2> QED
    BY <2>2, <2>3 DEF ClientOK
<1>5. ASSUME NEW c \in Clients, NEW d \in Clients, c # d PROVE Apart(c, d)'
  BY <1>1, <1>5 DEF StoreInv, Apart, Open
<1> QED
  BY <1>2, <1>3, <1>4, <1>5 DEF StoreInv

\* Every step of every client keeps it.
LEMMA NextInv ==
    ASSUME StoreInv, [Next]_vars
    PROVE  StoreInv'
<1>1. ASSUME NEW c \in Clients, ApplyStep(c) PROVE StoreInv'
  <2>1. ASSUME NEW r \in Runs, EnsureExtractionRun(c, r) PROVE StoreInv'
    BY <2>1, EnsureInv
  <2>2. CASE InsertCandidate(c)
    BY <2>2, InsertCandidateInv
  <2>3. CASE LockNoteKey(c)
    BY <2>3, LockNoteKeyInv
  <2>4. CASE AdmitRunCandidate(c)
    BY <2>4, AdmitRunCandidateInv
  <2>5. CASE CommitRun(c)
    BY <2>5, CommitRunInv
  <2>6. CASE QuarantineExtractionRun(c)
    BY <2>6, QuarantineInv
  <2>7. CASE RefreshEmbedding(c)
    BY <2>7, RefreshEmbeddingInv
  <2>8. CASE ReturnNotes(c) \/ BackfillEmbeddings(c)
    BY <2>8, ReturnInv
  <2> QED
    BY <1>1, <2>1, <2>2, <2>3, <2>4, <2>5, <2>6, <2>7, <2>8 DEF ApplyStep
<1>2. ASSUME NEW c \in Clients, RecallStep(c) PROVE StoreInv'
  <2>1. ASSUME NEW s \in Sessions, BeginRecall(c, s) \/ RecallRevisions(c, s) PROVE StoreInv'
    BY <2>1, StartRecallInv
  <2>2. CASE LockRecallRow(c)
    BY <2>2, LockRecallRowInv
  <2>3. CASE PlanRecall(c)
    BY <2>3, PlanRecallInv
  <2>4. CASE InsertDelivery(c)
    BY <2>4, InsertDeliveryInv
  <2>5. CASE CommitRecall(c)
    BY <2>5, CommitRecallInv
  <2> QED
    BY <1>2, <2>1, <2>2, <2>3, <2>4, <2>5 DEF RecallStep
<1>3. ASSUME NEW c \in Clients, Abort(c) PROVE StoreInv'
  BY <1>3, ReturnInv
<1> QED
  BY <1>1, <1>2, <1>3, TickInv DEF Next

-----------------------------------------------------------------------------
(* Theorems *)

\* The invariant holds in every reachable state, whatever the clients do and
\* however their transactions interleave.
THEOREM StoreCorrect == Spec => []StoreInv
<1>1. Init => StoreInv
  BY InitInv
<1>2. StoreInv /\ [Next]_vars => StoreInv'
  BY NextInv
<1> QED
  BY <1>1, <1>2, PTL DEF Spec

\* The revisions of every note are numbered without gap or repetition, and only
\* the current one is unexpired (applyRunCandidate, noteForUpdate, saveNote).
THEOREM RevisionsChained == Spec => []RevisionChain
<1>1. StoreInv => RevisionChain
  <2> SUFFICES ASSUME StoreInv PROVE RevisionChain
    OBVIOUS
  <2>1. TypeOK
    <3>1. ASSUME NEW c \in Clients
          PROVE  /\ tx[c].pc \in TxPcs /\ tx[c].claims \subseteq Claims
                 /\ DOMAIN tx[c].own \subseteq tx[c].keys
                 /\ \A k \in DOMAIN tx[c].own : tx[c].own[k] \in Note
      <4>1. tx[c].pc \in TxPcs /\ tx[c].claims \subseteq Claims
        BY DEF StoreInv, Types, TxRecord
      <4>2. DOMAIN tx[c].own \subseteq tx[c].keys
        BY DEF StoreInv, ClientOK, OwnOK
      <4> QED
        BY <4>1, <4>2, TxShape DEF StoreInv
    <3> QED
      BY <3>1 DEF StoreInv, Types, TypeOK, RunRow, TxPcs
  <2>2. ASSUME NEW k \in Keys
        PROVE  /\ {v.revision : v \in notes[k].history} = 1..notes[k].revision
               /\ Cardinality(notes[k].history) = notes[k].revision
               /\ \A v \in notes[k].history : v.expired = NULL <=> v.revision = notes[k].revision
    <3>1. notes[k] \in Note /\ Chain(notes[k])
      BY DEF StoreInv, Types, DataOK, NoteOK
    <3>2. \A v \in notes[k].history : v.expired = NULL <=> v.revision = notes[k].revision
      BY <3>1 DEF Chain
    <3> QED
      BY <3>1, <3>2, ChainCardinality
  <2> QED
    BY <2>1, <2>2 DEF RevisionChain
<1> QED
  BY <1>1, StoreCorrect, PTL

\* The rows that carry revisions of a candidate: one if it was admitted, none if
\* it was not.
LEMMA OneRevision ==
    ASSUME StoreInv, NEW x \in Candidates
    PROVE  Cardinality(UNION {{<<k, v.revision>> : v \in {w \in notes[k].history :
                                w.candidate = x}} : k \in Keys})
               = IF cands[x] = "admitted" THEN 1 ELSE 0
<1> DEFINE made(k) == {<<k, v.revision>> : v \in {w \in notes[k].history : w.candidate = x}}
           all == UNION {made(k) : k \in Keys}
           home == Detail[x].key
<1>1. ASSUME NEW p \in all
      PROVE  \E v \in notes[home].history : v.candidate = x /\ p = <<home, v.revision>>
                                            /\ cands[x] = "admitted"
  <2>1. PICK k \in Keys : p \in made(k)
    OBVIOUS
  <2>2. PICK v \in notes[k].history : v.candidate = x /\ p = <<k, v.revision>>
    BY <2>1
  <2>3. k = home /\ cands[x] = "admitted"
    BY <2>2 DEF StoreInv, DataOK, NoteOK
  <2> QED
    BY <2>2, <2>3
<1>2. CASE cands[x] = "admitted"
  <2>1. home \in Keys
    BY NoteStoreAssumption DEF CandidateDetail
  <2>2. PICK v \in notes[home].history : v.candidate = x
    BY <1>2 DEF StoreInv, DataOK, CandOK
  <2>3. <<home, v.revision>> \in all
    BY <2>1, <2>2
  <2>4. ASSUME NEW p \in all PROVE p = <<home, v.revision>>
    <3>1. PICK w \in notes[home].history : w.candidate = x /\ p = <<home, w.revision>>
      BY <1>1
    <3>2. w = v
      BY <2>1, <2>2, <3>1 DEF StoreInv, DataOK, NoteOK, Chain
    <3> QED
      BY <3>1, <3>2
  <2> HIDE DEF all, home
  <2>5. all = {<<home, v.revision>>}
    BY <2>3, <2>4
  <2>6. Cardinality(all) = 1
    BY <2>5, FS_Singleton
  <2> QED
    BY <1>2, <2>6 DEF all
<1>3. CASE cands[x] # "admitted"
  <2>1. all = {}
    BY <1>1, <1>3
  <2> HIDE DEF all
  <2>2. Cardinality(all) = 0
    BY <2>1, FS_EmptySet
  <2> QED
    BY <1>3, <2>2 DEF all
<1> QED
  BY <1>2, <1>3

\* A completed run has a revision for each of its candidates, a candidate never
\* makes two, a rejected one and a quarantined run make none
\* (ApplyExtractionRun, quarantineExtractionRun).
THEOREM RunsAtomic == Spec => []RunAtomic
<1>1. StoreInv => RunAtomic
  <2> SUFFICES ASSUME StoreInv PROVE RunAtomic
    OBVIOUS
  <2>1. ASSUME NEW r \in Runs, NEW i \in DOMAIN Batch[r]
        PROVE  /\ runs[r].status = "completed" => cands[Batch[r][i]] = "admitted"
               /\ cands[Batch[r][i]] = "admitted" =>
                     \E q \in Runs : /\ runs[q].status = "completed"
                                     /\ \E j \in DOMAIN Batch[q] : Batch[q][j] = Batch[r][i]
    <3>1. Batch[r][i] \in Candidates
      BY NoteStoreAssumption
    <3>2. runs[r].status = "completed" => cands[Batch[r][i]] = "admitted"
      BY DEF StoreInv, DataOK, RunOK, Carried
    <3>3. ASSUME cands[Batch[r][i]] = "admitted"
          PROVE  \E q \in Runs : /\ runs[q].status = "completed"
                                 /\ \E j \in DOMAIN Batch[q] : Batch[q][j] = Batch[r][i]
      BY <3>1, <3>3 DEF StoreInv, DataOK, CandOK, Carried
    <3> QED
      BY <3>2, <3>3
  <2> QED
    BY <2>1, OneRevision DEF RunAtomic
<1> QED
  BY <1>1, StoreCorrect, PTL

\* An embedding is that of the current revision of an active note, however late
\* saveEmbedding runs.
THEOREM EmbeddingsFresh == Spec => []EmbeddingFresh
<1>1. StoreInv => EmbeddingFresh
  BY DEF StoreInv, DataOK
<1> QED
  BY <1>1, StoreCorrect, PTL

\* A session is given a claim at most once (insertDelivery, insertHintDelivery).
THEOREM ClaimsGivenOnce == Spec => []DeliveredOnce
<1>1. StoreInv => DeliveredOnce
  BY DEF StoreInv, DataOK
<1> QED
  BY <1>1, StoreCorrect, PTL

\* What recallableNotes has found stays the current, active revision until the
\* recall ends: FOR UPDATE holds every run back.
THEOREM FoundStaysCurrent == Spec => []FoundCurrent
<1>1. StoreInv => FoundCurrent
  BY DEF StoreInv, ClientOK, HeldOK, FoundCurrent
<1> QED
  BY <1>1, StoreCorrect, PTL

-----------------------------------------------------------------------------
(* What a step does to the notes, and the contract *)

\* Only the commit of a run and the refresh of an embedding touch notes.
LEMMA NotesStep ==
    ASSUME StoreInv, [Next]_vars
    PROVE  \/ UNCHANGED notes
           \/ \E c \in Clients : CommitRun(c) \/ RefreshEmbedding(c)
  BY DEF Next, vars, ApplyStep, RecallStep, EnsureExtractionRun, InsertCandidate, LockNoteKey,
         AdmitRunCandidate, QuarantineExtractionRun, ReturnNotes, BackfillEmbeddings,
         BeginRecall, RecallRevisions, LockRecallRow, PlanRecall, InsertDelivery, CommitRecall,
         Abort, Tick

\* Every step extends every note.
LEMMA NotesExtend ==
    ASSUME StoreInv, [Next]_vars, NEW k \in Keys
    PROVE  Extends(notes[k], notes'[k])
<1>1. notes[k] \in Note /\ Extends(notes[k], notes[k])
  BY ExtendsOrder DEF StoreInv, Types
<1>2. CASE UNCHANGED notes
  BY <1>1, <1>2
<1>3. ASSUME NEW c \in Clients, CommitRun(c) PROVE Extends(notes[k], notes'[k])
  <2>1. notes'[k] = Seen(c, k)
    BY <1>3 DEF CommitRun
  <2>2. Extends(notes[k], Seen(c, k))
    BY SeenRow
  <2> QED
    BY <2>1, <2>2
<1>4. ASSUME NEW c \in Clients, RefreshEmbedding(c) PROVE Extends(notes[k], notes'[k])
  <2> DEFINE j == Head(tx[c].result).key
  <2>1. PICK vector : notes' = [notes EXCEPT ![j].embedding = vector]
    <3>1. PICK e \in BOOLEAN :
            notes' = [notes EXCEPT ![j].embedding =
                CASE Head(tx[c].result).state # "active" -> NULL
                  [] Head(tx[c].result).state = "active"
                        /\ notes[j].revision = Head(tx[c].result).revision ->
                        IF e THEN Head(tx[c].result).revision ELSE NULL
                  [] OTHER -> @]
      BY <1>4 DEF RefreshEmbedding
    <3> DEFINE vector == CASE Head(tx[c].result).state # "active" -> NULL
                           [] Head(tx[c].result).state = "active"
                                 /\ notes[j].revision = Head(tx[c].result).revision ->
                                 IF e THEN Head(tx[c].result).revision ELSE NULL
                           [] OTHER -> notes[j].embedding
    <3>2. notes' = [notes EXCEPT ![j].embedding = vector]
      BY <3>1
    <3> QED
      BY <3>2
  <2> HIDE DEF j
  <2>2. SameRow(notes[k], notes'[k])
    BY <2>1, <1>1 DEF StoreInv, Types, Note, SameRow
  <2> QED
    BY <1>1, <2>2 DEF SameRow, Extends
<1> QED
  BY <1>2, <1>3, <1>4, NotesStep

\* No step moves the hard expiry of a note, lets its soft lease outlive it, or
\* takes back or rewrites a revision other than by expiring it (saveNote,
\* AdmitCandidateWithAuthority).
THEOREM HistoryKept == Spec => HistoryStable
<1>1. StoreInv /\ StoreInv' /\ [Next]_vars => [HistoryStep]_vars
  <2> SUFFICES ASSUME StoreInv, StoreInv', [Next]_vars PROVE HistoryStep
    OBVIOUS
  <2> SUFFICES ASSUME NEW k \in Keys, notes[k].revision # 0
               PROVE  /\ notes'[k].hard = notes[k].hard /\ notes'[k].soft <= notes'[k].hard
                      /\ notes'[k].revision >= notes[k].revision
                      /\ \A v \in notes[k].history : \E w \in notes'[k].history :
                            /\ w.revision = v.revision /\ w.candidate = v.candidate
                            /\ v.expired # NULL => w.expired = v.expired
    BY DEF HistoryStep
  <2>1. Extends(notes[k], notes'[k]) /\ Chain(notes'[k])
    BY NotesExtend DEF StoreInv, DataOK, NoteOK
  <2>2. notes[k].revision \in Nat /\ notes'[k].revision \in Nat
    BY DEF StoreInv, Types, Note
  <2>3. notes'[k].revision # 0 /\ notes'[k].revision >= notes[k].revision
    BY <2>1, <2>2 DEF Extends
  <2> QED
    BY <2>1, <2>3 DEF Extends, Chain
<1> QED
  BY <1>1, StoreCorrect, PTL DEF Spec, HistoryStable

\* The commit of a run settles it and admits what it carries.
LEMMA CommitCompletes ==
    ASSUME StoreInv, StoreInv', NEW c \in Clients, CommitRun(c)
    PROVE  \E r \in Runs : Contract!Complete(r)
<1>0. PICK r \in Runs : r = tx[c].run
  BY DEF CommitRun, StoreInv, ClientOK, BatchOK, Open
<1> DEFINE row == [status |-> "completed", result |-> tx[c].result]
<1>1. /\ tx[c].pc = "candidate" /\ runs' = [runs EXCEPT ![r] = row] /\ UNCHANGED received
      /\ \A x \in Candidates : cands'[x] = "admitted" <=>
                               cands[x] = "admitted" \/ x \in tx[c].inserted
  BY <1>0 DEF CommitRun
<1>2. /\ r \in Runs /\ runs[r].status = "absent" /\ tx[c].inserted \subseteq Carried(r)
  <2>1. BatchOK(c) /\ Open(c) /\ Done(c) = tx[c].inserted
    BY <1>1 DEF StoreInv, ClientOK, Open, Done, Current
  <2>2. /\ r \in Runs /\ runs[r].status = "absent"
        /\ \A x \in tx[c].inserted : \E i \in DOMAIN Batch[r] : Batch[r][i] = x
    BY <1>0, <2>1 DEF BatchOK
  <2> QED
    BY <2>2 DEF Carried
<1>3. /\ runs'[r].status = "completed" /\ \A q \in Runs : q # r => runs'[q] = runs[q]
  BY <1>1, <1>2 DEF StoreInv, Types
<1>4. Carried(r) \subseteq Candidates /\ \A x \in Carried(r) : cands'[x] = "admitted"
  <2>1. \A q \in Runs : runs'[q].status = "completed" =>
                            \A x \in Carried(q) : cands'[x] = "admitted"
    BY DEF StoreInv, DataOK, RunOK, Carried
  <2>2. Carried(r) \subseteq Candidates
    BY <1>2, NoteStoreAssumption DEF Carried
  <2> QED
    BY <1>2, <1>3, <2>1, <2>2
<1>5. {x \in Candidates : cands'[x] = "admitted"}
        = {x \in Candidates : cands[x] = "admitted"} \cup Carried(r)
  BY <1>1, <1>2, <1>4
<1>6. [q \in Runs |-> runs'[q].status]
        = [[q \in Runs |-> runs[q].status] EXCEPT ![r] = "completed"]
  BY <1>2, <1>3
<1>7. Contract!Complete(r)
  BY <1>1, <1>2, <1>5, <1>6 DEF Contract!Complete, Carried
<1> QED
  BY <1>7

\* The quarantine settles a run that was not settled, and admits nothing.
LEMMA QuarantineSettles ==
    ASSUME StoreInv, NEW c \in Clients, QuarantineExtractionRun(c)
    PROVE  \/ UNCHANGED Contract!cvars
           \/ \E r \in Runs : Contract!Quarantine(r)
<1>0. PICK r \in Runs : r = tx[c].run
  BY DEF QuarantineExtractionRun, StoreInv, ClientOK, BatchOK, Open
<1>1. /\ tx[c].pc = "quarantine" /\ UNCHANGED received
      /\ runs' = IF runs[r].status # "absent" THEN runs
                 ELSE [runs EXCEPT ![r].status = "quarantined"]
      /\ \A x \in Candidates : cands'[x] = "admitted" <=> cands[x] = "admitted"
  BY <1>0 DEF QuarantineExtractionRun
<1>2. runs \in [Runs -> RunRow]
  BY DEF StoreInv, Types
<1>3. {x \in Candidates : cands'[x] = "admitted"} = {x \in Candidates : cands[x] = "admitted"}
  BY <1>1
<1>4. CASE runs[r].status # "absent"
  BY <1>1, <1>3, <1>4 DEF Contract!cvars
<1>5. CASE runs[r].status = "absent"
  <2>1. \A q \in Runs : runs'[q].status = IF q = r THEN "quarantined" ELSE runs[q].status
    BY <1>1, <1>2, <1>5 DEF RunRow
  <2>2. [q \in Runs |-> runs'[q].status]
          = [[q \in Runs |-> runs[q].status] EXCEPT ![r] = "quarantined"]
    BY <1>2, <2>1
  <2>3. Contract!Quarantine(r)
    BY <1>1, <1>2, <1>3, <1>5, <2>2 DEF Contract!Quarantine
  <2> QED
    BY <2>3
<1> QED
  BY <1>4, <1>5

\* The commit of a recall gives its claims out.
LEMMA RecallGives ==
    ASSUME StoreInv, StoreInv', NEW c \in Clients, CommitRecall(c)
    PROVE  Contract!Give
<1>1. /\ received' = [i \in Claims |-> IF i \in tx[c].claims THEN received[i] + 1 ELSE received[i]]
      /\ UNCHANGED <<runs, cands>>
  BY DEF CommitRecall
<1>2. received \in [Claims -> Nat] /\ received' \in [Claims -> Nat]
  BY DEF StoreInv, Types
<1>3. \A i \in Claims : received[i] <= received'[i] /\ received'[i] \in 0..1
  BY <1>1, <1>2 DEF StoreInv, DataOK, DeliveredOnce
<1>4. received' \in [Claims -> 0..1]
  BY <1>2, <1>3
<1> QED
  BY <1>1, <1>3, <1>4 DEF Contract!Give

\* Every step is one of the contract's, or invisible to it.
LEMMA ContractStep ==
    ASSUME StoreInv, StoreInv', [Next]_vars
    PROVE  [Contract!CNext]_(Contract!cvars)
<1>1. ASSUME NEW c \in Clients, CommitRun(c) PROVE Contract!CNext
  BY <1>1, CommitCompletes DEF Contract!CNext
<1>2. ASSUME NEW c \in Clients, QuarantineExtractionRun(c)
      PROVE  [Contract!CNext]_(Contract!cvars)
  BY <1>2, QuarantineSettles DEF Contract!CNext
<1>3. ASSUME NEW c \in Clients, CommitRecall(c) PROVE Contract!CNext
  BY <1>3, RecallGives DEF Contract!CNext
<1>4. \/ UNCHANGED <<runs, cands, received>>
      \/ \E c \in Clients : CommitRun(c) \/ QuarantineExtractionRun(c) \/ CommitRecall(c)
  BY ZenonT(60) DEF Next, vars, ApplyStep, RecallStep, EnsureExtractionRun, InsertCandidate, LockNoteKey,
         AdmitRunCandidate, RefreshEmbedding, ReturnNotes, BackfillEmbeddings,
         BeginRecall, RecallRevisions, LockRecallRow, PlanRecall, InsertDelivery,
         Abort, Tick
<1>5. CASE UNCHANGED <<runs, cands, received>>
  BY <1>5 DEF Contract!cvars
<1> QED
  BY <1>1, <1>2, <1>3, <1>4, <1>5

\* The store with its transactions, locks and retries implements the contract
\* its callers rely on: a run settles once and as a whole, a claim is given out
\* once.
THEOREM StoreImplementsContract == Spec => ImplementsContract
<1>1. Init => Contract!CInit
  <2> SUFFICES ASSUME Init PROVE Contract!CInit
    OBVIOUS
  <2>1. {x \in Candidates : cands[x] = "admitted"} = {}
    BY DEF Init
  <2>2. [r \in Runs |-> runs[r].status] = [r \in Runs |-> "absent"]
    BY DEF Init
  <2> QED
    BY <2>1, <2>2 DEF Init, Contract!CInit
<1>2. StoreInv /\ StoreInv' /\ [Next]_vars => [Contract!CNext]_(Contract!cvars)
  BY ContractStep
<1> QED
  BY <1>1, <1>2, StoreCorrect, PTL DEF Spec, ImplementsContract, Contract!CSpec
=============================================================================
