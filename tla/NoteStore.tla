----------------------------- MODULE NoteStore -----------------------------
(***************************************************************************)
(* The PostgreSQL note store: ApplyExtractionRun with its quarantine, the  *)
(* admission of candidates into note revisions, the embeddings refreshed   *)
(* after the commit, and RecallNotes with its delivery claims.             *)
(*                                                                         *)
(* Every client runs one transaction at a time at READ COMMITTED.  What it *)
(* writes stays in its tx record until it commits; the locks it takes (the *)
(* uncommitted run and candidate rows, advisory locks on note keys, row    *)
(* locks on team_notes) make the others wait.  A client that dies, loses   *)
(* its connection, gets an error or is the victim of PostgreSQL's deadlock *)
(* detection simply aborts, at any point.                                  *)
(*                                                                         *)
(* One scope is modelled.  A call that fails before its transaction starts *)
(* or on replay (an invalid run, another input for a known run id, a       *)
(* quarantined run) changes nothing and is left out; the pipeline module   *)
(* has what the caller makes of it.  Task, thread and audience filters,    *)
(* scores and token budgets are abstracted: every note is visible and the  *)
(* planner may choose any part of what is eligible.                        *)
(***************************************************************************)
EXTENDS Integers, Sequences, FiniteSets

CONSTANTS
    Clients,      \* connections: extraction workers and recall handlers
    Sessions,     \* recipient sessions
    Keys,         \* canonical note keys
    Candidates,   \* candidate ids
    Detail,       \* Detail[c]: what candidate c says
    Runs,         \* extraction run ids
    Batch,        \* Batch[r]: the candidates of run r, in order
    Rejections,   \* Rejections[r]: candidates the runtime filtered out of r
    SoftTTL, HardTTL,  \* the lease of the notes' kind
    MaxTime,      \* bound on the clock
    MaxDelivered  \* bound: no recall starts once so many claims are committed

NULL == 0  \* an absent timestamp, revision or embedding; times start at 1

\* sound: the candidate and its evidence pass validation; drops: it carries a
\* transition authority but drops a protected clause of the current body.
CandidateDetail ==
    [key : Keys, action : {"create", "update", "resolve"}, invalid : Nat,
     occurred : Nat \ {0}, sound : BOOLEAN, drops : BOOLEAN]

ASSUME NoteStoreAssumption ==
    /\ Detail \in [Candidates -> CandidateDetail]
    /\ Batch \in [Runs -> Seq(Candidates)]
    /\ \A r \in Runs : \A i, j \in DOMAIN Batch[r] :
            Batch[r][i] = Batch[r][j] => i = j
    /\ Rejections \in [Runs -> SUBSET Candidates]
    /\ SoftTTL \in Nat \ {0}
    /\ HardTTL \in Nat \ {0}
    /\ MaxTime \in Nat \ {0}
    /\ MaxDelivered \in Nat
    /\ IsFiniteSet(Candidates)

VARIABLES
    now,         \* the clock the clients read
    runs,        \* extraction_runs
    cands,       \* note_candidates
    notes,       \* team_notes with its note_revisions
    deliveries,  \* note_deliveries and recall_hint_deliveries
    received,    \* how often each claim was returned to its session
    tx           \* what each client is doing

vars == <<now, runs, cands, notes, deliveries, received, tx>>

----------------------------------------------------------------------------
(* Rows.                                                                   *)

States == {"active", "resolved"}
Revision == [revision : Nat \ {0}, candidate : Candidates, expired : Nat]
Note == [revision : Nat, state : States, soft : Nat, hard : Nat,
         invalid : Nat, embedding : Nat, history : SUBSET Revision]

\* No row: the key has never been admitted.
NoNote == [revision |-> 0, state |-> "resolved", soft |-> 0, hard |-> 0,
           invalid |-> NULL, embedding |-> NULL, history |-> {}]

\* A claim <<k, v, s>> gives revision v of note k to session s; v = Hint
\* gives s the recall hint that points at k.
Hint == 0
Claims == Keys \X (0..Cardinality(Candidates)) \X Sessions

\* What ApplyExtractionRun returns, and stores as the run's result, of a note.
Item == [key : Keys, revision : Nat, state : States]
ItemOf(k, n) == [key |-> k, revision |-> n.revision, state |-> n.state]

IdleTx == [pc |-> "idle", run |-> "", next |-> 1, inserted |-> {},
           keys |-> {}, rows |-> {}, own |-> << >>, result |-> << >>,
           session |-> "", at |-> 0, seen |-> {}, todo |-> {},
           found |-> {}, plan |-> {}, claims |-> {}]

\* note k as client c's transaction sees it: its own write or the committed row
Seen(c, k) == IF k \in DOMAIN tx[c].own THEN tx[c].own[k] ELSE notes[k]

\* The locks other clients' open transactions hold.
RunHeld(c, r) ==
    \E d \in Clients \ {c} :
        tx[d].pc \in {"candidate", "lock", "admit"} /\ tx[d].run = r
CandidateHeld(c, x) == \E d \in Clients \ {c} : x \in tx[d].inserted
KeyHeld(c, k) == \E d \in Clients \ {c} : k \in tx[d].keys
RowHeld(c, k) ==   \* a row that is not committed yet is nobody else's to lock
    notes[k].revision # 0 /\ \E d \in Clients \ {c} : k \in tx[d].rows
ClaimHeld(c, i) == \E d \in Clients \ {c} : i \in tx[d].claims

\* The candidate the client is at, and its key.
At(c) == Batch[tx[c].run][tx[c].next]
KeyAt(c) == Detail[At(c)].key

----------------------------------------------------------------------------
(* Admission.                                                              *)

StateForValidity(t, invalid) ==
    IF invalid # NULL /\ invalid <= t THEN "resolved" ELSE "active"

MinTime(a, b) == IF a < b THEN a ELSE b

\* The errors of AdmitCandidateWithAuthority, all of which quarantine the run:
\* invalid or without evidence, resolving nothing, a destructive revision.
Refused(d, current) ==
    \/ ~d.sound
    \/ d.action = "resolve" /\ current.revision = 0
    \/ d.action # "resolve" /\ current.revision # 0 /\ d.drops

Resolve(d, current) ==
    [current EXCEPT !.state = "resolved", !.revision = @ + 1,
        !.invalid = IF d.invalid # NULL THEN d.invalid ELSE d.occurred]

Create(d, t) ==
    [NoNote EXCEPT !.revision = 1, !.state = StateForValidity(t, d.invalid),
        !.hard = t + HardTTL, !.soft = MinTime(t + HardTTL, t + SoftTTL),
        !.invalid = d.invalid]

\* mutant: every update extends the life of the note
UpdateRenewsLease(d, current, t) ==
    [Create(d, t) EXCEPT !.revision = current.revision + 1,
        !.history = current.history]

Update(d, current, t) ==
    [current EXCEPT !.revision = @ + 1,
        !.state = StateForValidity(t, d.invalid),
        !.soft = MinTime(current.hard, t + SoftTTL), !.invalid = d.invalid]

AdmitCandidate(d, current, t) ==
    CASE d.action = "resolve" -> Resolve(d, current)
      [] d.action # "resolve" /\ current.revision = 0 -> Create(d, t)
      [] OTHER -> Update(d, current, t)

\* mutant: the previous revision stays open
SaveNoteKeepsPrevious(note, x, t) ==
    [note EXCEPT
        !.embedding = NULL,
        !.history = note.history \cup
            {[revision |-> note.revision, candidate |-> x, expired |-> NULL]}]

\* saveNote: the row loses its embedding, the unexpired revisions expire and
\* the new one is added.
SaveNote(note, x, t) ==
    [note EXCEPT
        !.embedding = NULL,
        !.history =
            {[v EXCEPT !.expired = IF @ = NULL THEN t ELSE @] :
                v \in note.history}
            \cup {[revision |-> note.revision, candidate |-> x,
                   expired |-> NULL]}]

----------------------------------------------------------------------------
(* ApplyExtractionRun.                                                     *)

Init ==
    /\ now = 1
    /\ runs = [r \in Runs |-> [status |-> "absent", result |-> << >>]]
    /\ cands = [x \in Candidates |-> "absent"]
    /\ notes = [k \in Keys |-> NoNote]
    /\ deliveries = {}
    /\ received = [i \in Claims |-> 0]
    /\ tx = [c \in Clients |-> IdleTx]

\* ensureExtractionRun: the insert of the run row waits for another open
\* transaction that has inserted it.  A completed run is replayed from its
\* stored result, and what it returned then is embedded again.
EnsureExtractionRun(c, r) ==
    /\ tx[c].pc = "idle"
    /\ ~RunHeld(c, r)
    /\ tx' = [tx EXCEPT ![c] =
        CASE runs[r].status = "absent" ->
                [IdleTx EXCEPT !.pc = "candidate", !.run = r]
          [] runs[r].status = "completed" ->
                [IdleTx EXCEPT !.pc = "refresh", !.result = runs[r].result]
          [] OTHER -> IdleTx]
    /\ UNCHANGED <<now, runs, cands, notes, deliveries, received>>

\* insertCandidate: a candidate with a row yields the note it was admitted
\* into, and an error if it never was (noteForCandidate finds no row).
InsertCandidate(c) ==
    /\ tx[c].pc = "candidate"
    /\ tx[c].next <= Len(Batch[tx[c].run])
    /\ ~CandidateHeld(c, At(c))
    /\ tx' = [tx EXCEPT ![c] =
        CASE cands[At(c)] = "absent" ->
                [tx[c] EXCEPT !.pc = "lock", !.inserted = @ \cup {At(c)}]
          [] cands[At(c)] = "admitted" ->
                [tx[c] EXCEPT !.next = @ + 1,
                    !.result = Append(@, ItemOf(KeyAt(c), Seen(c, KeyAt(c))))]
          [] OTHER -> IdleTx]
    /\ UNCHANGED <<now, runs, cands, notes, deliveries, received>>

\* mutant: the lock does not wait for its holder
LockNoteKeyShared(c) ==
    /\ tx[c].pc = "lock"
    /\ tx' = [tx EXCEPT ![c].pc = "admit", ![c].keys = @ \cup {KeyAt(c)}]
    /\ UNCHANGED <<now, runs, cands, notes, deliveries, received>>

\* lockNoteKey: the advisory lock is held until the transaction ends.
LockNoteKey(c) ==
    /\ tx[c].pc = "lock"
    /\ ~KeyHeld(c, KeyAt(c))
    /\ tx' = [tx EXCEPT ![c].pc = "admit", ![c].keys = @ \cup {KeyAt(c)}]
    /\ UNCHANGED <<now, runs, cands, notes, deliveries, received>>

\* noteForUpdate, AdmitCandidateWithAuthority, saveNote, saveEvidence.  A
\* refusal rolls the transaction back before the run is quarantined.
AdmitRunCandidate(c) ==
    LET k == KeyAt(c)
        d == Detail[At(c)]
        admitted == AdmitCandidate(d, Seen(c, k), now)
        saved == SaveNote(admitted, At(c), now)
    IN  /\ tx[c].pc = "admit"
        /\ ~RowHeld(c, k)
        /\ tx' = [tx EXCEPT ![c] =
            IF Refused(d, Seen(c, k))
            THEN [IdleTx EXCEPT !.pc = "quarantine", !.run = tx[c].run]
            ELSE [tx[c] EXCEPT !.pc = "candidate", !.next = @ + 1,
                    !.rows = @ \cup {k},
                    !.own = [j \in DOMAIN tx[c].own \cup {k} |->
                                IF j = k THEN saved ELSE Seen(c, j)],
                    !.result = Append(@, ItemOf(k, saved))]]
        /\ UNCHANGED <<now, runs, cands, notes, deliveries, received>>

\* The rejections are recorded, the run is marked completed and the
\* transaction commits: everything it wrote becomes visible at once.
CommitRun(c) ==
    LET r == tx[c].run
        rejected == {x \in Rejections[r] \ tx[c].inserted :
                        cands[x] = "absent"}
    IN  /\ tx[c].pc = "candidate"
        /\ tx[c].next > Len(Batch[r])
        /\ \A x \in Rejections[r] : ~CandidateHeld(c, x)
        /\ runs' = [runs EXCEPT ![r] =
                        [status |-> "completed", result |-> tx[c].result]]
        /\ cands' = [x \in Candidates |->
                        IF x \in tx[c].inserted THEN "admitted"
                        ELSE IF x \in rejected THEN "rejected"
                        ELSE cands[x]]
        /\ notes' = [k \in Keys |-> Seen(c, k)]
        /\ tx' = [tx EXCEPT ![c] =
                    [IdleTx EXCEPT !.pc = "refresh", !.result = tx[c].result]]
        /\ UNCHANGED <<now, deliveries, received>>

\* mutant: the quarantine overwrites the outcome another client has stored
QuarantineOverwrites(c) ==
    /\ tx[c].pc = "quarantine"
    /\ runs' = [runs EXCEPT ![tx[c].run].status = "quarantined"]
    /\ tx' = [tx EXCEPT ![c] = IdleTx]
    /\ UNCHANGED <<now, cands, notes, deliveries, received>>

\* quarantineExtractionRun, in a transaction of its own: only the client that
\* inserts the run row records the candidates as rejected.
QuarantineExtractionRun(c) ==
    LET r == tx[c].run
        batch == {Batch[r][i] : i \in DOMAIN Batch[r]}
    IN  /\ tx[c].pc = "quarantine"
        /\ ~RunHeld(c, r)
        /\ runs[r].status = "absent" => \A x \in batch : ~CandidateHeld(c, x)
        /\ runs' = IF runs[r].status # "absent" THEN runs
                   ELSE [runs EXCEPT ![r].status = "quarantined"]
        /\ cands' = [x \in Candidates |->
                        IF /\ runs[r].status = "absent"
                           /\ x \in batch
                           /\ cands[x] = "absent"
                        THEN "rejected" ELSE cands[x]]
        /\ tx' = [tx EXCEPT ![c] = IdleTx]
        /\ UNCHANGED <<now, notes, deliveries, received>>

----------------------------------------------------------------------------
(* Embeddings, outside any transaction of the run.                         *)

\* mutant: the vector is saved whatever revision the note has by then
RefreshEmbeddingLate(c) ==
    LET item == Head(tx[c].result)
    IN  /\ tx[c].pc = "refresh"
        /\ tx[c].result # << >>
        /\ ~RowHeld(c, item.key)
        /\ notes' = [notes EXCEPT ![item.key].embedding =
                        IF item.state = "active" THEN item.revision ELSE NULL]
        /\ tx' = [tx EXCEPT ![c].result = Tail(@)]
        /\ UNCHANGED <<now, runs, cands, deliveries, received>>

\* refreshEmbedding of the next note that was returned.  A note that was not
\* active loses its embedding whatever its row has become; saveEmbedding and
\* recordEmbeddingError only touch the revision they were computed for.
RefreshEmbedding(c) ==
    LET item == Head(tx[c].result)
        current == notes[item.key].revision = item.revision
    IN  /\ tx[c].pc = "refresh"
        /\ tx[c].result # << >>
        /\ ~RowHeld(c, item.key)
        /\ \E embedded \in BOOLEAN :
            notes' = [notes EXCEPT ![item.key].embedding =
                CASE item.state # "active" -> NULL
                  [] item.state = "active" /\ current ->
                        IF embedded THEN item.revision ELSE NULL
                  [] OTHER -> @]
        /\ tx' = [tx EXCEPT ![c].result = Tail(@)]
        /\ UNCHANGED <<now, runs, cands, deliveries, received>>

\* All notes are refreshed: the call returns.
ReturnNotes(c) ==
    /\ tx[c].pc = "refresh"
    /\ tx[c].result = << >>
    /\ tx' = [tx EXCEPT ![c] = IdleTx]
    /\ UNCHANGED <<now, runs, cands, notes, deliveries, received>>

\* BackfillEmbeddings reads the notes without an embedding of their current
\* revision; the vectors are saved later, note by note.
BackfillEmbeddings(c) ==
    /\ tx[c].pc = "idle"
    /\ \E k \in Keys :
        /\ notes[k].state = "active" /\ notes[k].invalid = NULL
        /\ notes[k].soft > now /\ notes[k].hard > now
        /\ notes[k].embedding # notes[k].revision
        /\ tx' = [tx EXCEPT ![c] =
                    [IdleTx EXCEPT !.pc = "refresh",
                                   !.result = <<ItemOf(k, notes[k])>>]]
    /\ UNCHANGED <<now, runs, cands, notes, deliveries, received>>

----------------------------------------------------------------------------
(* RecallNotes.                                                            *)

\* The WHERE clause of recallableNotes on row n of key k, at time t, with the
\* deliveries the statement's snapshot shows.
Recallable(k, n, t, shown, s) ==
    /\ n.state = "active"
    /\ n.invalid = NULL
    /\ n.soft > t
    /\ n.hard > t
    /\ <<k, n.revision, s>> \notin shown

\* Current mode: the query starts with a snapshot of notes and deliveries.
BeginRecall(c, s) ==
    /\ tx[c].pc = "idle"
    /\ Cardinality(deliveries) < MaxDelivered
    /\ tx' = [tx EXCEPT ![c] =
        [IdleTx EXCEPT !.pc = "rows", !.session = s, !.at = now,
            !.seen = deliveries,
            !.todo = {k \in Keys :
                        Recallable(k, notes[k], now, deliveries, s)}]]
    /\ UNCHANGED <<now, runs, cands, notes, deliveries, received>>

\* mutant: the rows are read without FOR UPDATE
ReadRecallRow(c) ==
    /\ tx[c].pc = "rows"
    /\ \E k \in tx[c].todo :
        tx' = [tx EXCEPT ![c] =
            [tx[c] EXCEPT !.todo = @ \ {k},
                !.found = @ \cup {<<k, notes[k].revision>>}]]
    /\ UNCHANGED <<now, runs, cands, notes, deliveries, received>>

\* FOR UPDATE OF team_notes: each row of the snapshot is locked, after waiting
\* for its holder, and the condition is evaluated again on the row as it is
\* now, but with the deliveries of the snapshot.
LockRecallRow(c) ==
    /\ tx[c].pc = "rows"
    /\ \E k \in tx[c].todo :
        /\ ~RowHeld(c, k)
        /\ tx' = [tx EXCEPT ![c] =
            [tx[c] EXCEPT !.todo = @ \ {k}, !.rows = @ \cup {k},
                !.found = IF Recallable(k, notes[k], tx[c].at, tx[c].seen,
                                        tx[c].session)
                          THEN @ \cup {<<k, notes[k].revision>>} ELSE @]]
    /\ UNCHANGED <<now, runs, cands, notes, deliveries, received>>

\* PlanRecall selects some of the notes or, when it selects none, possibly a
\* hint at one of them.
PlanRecall(c) ==
    LET s == tx[c].session
        whole == {<<f[1], f[2], s>> : f \in tx[c].found}
        hints == {{<<f[1], Hint, s>>} : f \in tx[c].found}
    IN  /\ tx[c].pc = "rows"
        /\ tx[c].todo = {}
        /\ \E plan \in (SUBSET whole) \cup hints :
            tx' = [tx EXCEPT ![c].pc = "claim", ![c].plan = plan,
                             ![c].at = 0, ![c].seen = {}]
        /\ UNCHANGED <<now, runs, cands, notes, deliveries, received>>

\* As-of and history modes read committed revisions and lock nothing.
RecallRevisions(c, s) ==
    /\ tx[c].pc = "idle"
    /\ Cardinality(deliveries) < MaxDelivered
    /\ \E plan \in SUBSET {i \in Claims :
            /\ i[3] = s
            /\ \E v \in notes[i[1]].history : v.revision = i[2]
            /\ i \notin deliveries} :
        tx' = [tx EXCEPT ![c] =
            [IdleTx EXCEPT !.pc = "claim", !.session = s, !.plan = plan]]
    /\ UNCHANGED <<now, runs, cands, notes, deliveries, received>>

\* insertDelivery and insertHintDelivery, ON CONFLICT DO NOTHING: the insert
\* waits for another open transaction with the same claim and is lost if that
\* one, or any earlier recall, has committed it.
InsertDelivery(c) ==
    /\ tx[c].pc = "claim"
    /\ \E i \in tx[c].plan :
        /\ ~ClaimHeld(c, i)
        /\ tx' = [tx EXCEPT ![c].plan = @ \ {i},
                            ![c].claims = IF i \in deliveries THEN @
                                          ELSE @ \cup {i}]
    /\ UNCHANGED <<now, runs, cands, notes, deliveries, received>>

\* mutant: the envelope is returned but the claims are not committed
CommitRecallUnsaved(c) ==
    /\ tx[c].pc = "claim"
    /\ tx[c].plan = {}
    /\ received' = [i \in Claims |-> IF i \in tx[c].claims
                                     THEN received[i] + 1 ELSE received[i]]
    /\ tx' = [tx EXCEPT ![c] = IdleTx]
    /\ UNCHANGED <<now, runs, cands, notes, deliveries>>

\* The observation is saved, the transaction commits and the envelope with the
\* claimed notes is returned.
CommitRecall(c) ==
    /\ tx[c].pc = "claim"
    /\ tx[c].plan = {}
    /\ deliveries' = deliveries \cup tx[c].claims
    /\ received' = [i \in Claims |-> IF i \in tx[c].claims
                                     THEN received[i] + 1 ELSE received[i]]
    /\ tx' = [tx EXCEPT ![c] = IdleTx]
    /\ UNCHANGED <<now, runs, cands, notes>>

----------------------------------------------------------------------------

\* An error, a crash or a deadlock victim: the open transaction is rolled
\* back, or the work after a commit is dropped.
Abort(c) ==
    /\ tx[c].pc # "idle"
    /\ tx' = [tx EXCEPT ![c] = IdleTx]
    /\ UNCHANGED <<now, runs, cands, notes, deliveries, received>>

Tick ==
    /\ now < MaxTime
    /\ now' = now + 1
    /\ UNCHANGED <<runs, cands, notes, deliveries, received, tx>>

ApplyStep(c) ==
    \/ \E r \in Runs : EnsureExtractionRun(c, r)
    \/ InsertCandidate(c)
    \/ LockNoteKey(c)
    \/ AdmitRunCandidate(c)
    \/ CommitRun(c)
    \/ QuarantineExtractionRun(c)
    \/ RefreshEmbedding(c)
    \/ ReturnNotes(c)
    \/ BackfillEmbeddings(c)

RecallStep(c) ==
    \/ \E s \in Sessions : BeginRecall(c, s) \/ RecallRevisions(c, s)
    \/ LockRecallRow(c)
    \/ PlanRecall(c)
    \/ InsertDelivery(c)
    \/ CommitRecall(c)

Next ==
    \/ \E c \in Clients : ApplyStep(c) \/ RecallStep(c) \/ Abort(c)
    \/ Tick

Spec == Init /\ [][Next]_vars

----------------------------------------------------------------------------
(* Properties.                                                             *)

\* Every row and every transaction has its type.
TypeOK ==
    /\ now \in 1..MaxTime
    /\ runs \in [Runs -> [status : {"absent", "completed", "quarantined"},
                          result : Seq(Item)]]
    /\ cands \in [Candidates -> {"absent", "admitted", "rejected"}]
    /\ notes \in [Keys -> Note]
    /\ deliveries \subseteq Claims
    /\ received \in [Claims -> Nat]
    /\ DOMAIN tx = Clients
    /\ \A c \in Clients :
        /\ tx[c].pc \in {"idle", "candidate", "lock", "admit", "quarantine",
                         "refresh", "rows", "claim"}
        /\ DOMAIN tx[c].own \subseteq tx[c].keys
        /\ \A k \in DOMAIN tx[c].own : tx[c].own[k] \in Note
        /\ tx[c].claims \subseteq Claims

\* The revisions of a note are numbered 1 to its current revision without a
\* gap or a repetition, and exactly the current one is unexpired: what
\* applyRunCandidate's key lock, noteForUpdate and saveNote guarantee against
\* two runs that revise, or create, the same note.
RevisionChain ==
    TypeOK /\ \A k \in Keys : LET n == notes[k] IN
        /\ {v.revision : v \in n.history} = 1..n.revision
        /\ Cardinality(n.history) = n.revision
        /\ \A v \in n.history : v.expired = NULL <=> v.revision = n.revision

\* ApplyExtractionRun is all or nothing and idempotent per candidate: a
\* completed run has a revision for every candidate it carried, a candidate
\* never makes two, a rejected one none, and a quarantined run leaves no
\* revision of a candidate that no completed run shares.
RunAtomic ==
    /\ \A x \in Candidates :
        Cardinality(UNION {{<<k, v.revision>> : v \in {w \in notes[k].history :
                                w.candidate = x}} : k \in Keys})
            = IF cands[x] = "admitted" THEN 1 ELSE 0
    /\ \A r \in Runs : \A i \in DOMAIN Batch[r] :
        /\ runs[r].status = "completed" => cands[Batch[r][i]] = "admitted"
        /\ cands[Batch[r][i]] = "admitted" =>
            \E q \in Runs : /\ runs[q].status = "completed"
                            /\ \E j \in DOMAIN Batch[q] :
                                    Batch[q][j] = Batch[r][i]

\* What a step may never do to a note: move its hard expiry, let the soft lease
\* end after it (eligibleNotes checks the soft boundary alone), take a revision
\* back, or change a revision other than by expiring it.
HistoryStep ==
    \A k \in Keys : notes[k].revision # 0 =>
        /\ notes'[k].hard = notes[k].hard /\ notes'[k].soft <= notes'[k].hard
        /\ notes'[k].revision >= notes[k].revision
        /\ \A v \in notes[k].history : \E w \in notes'[k].history :
            /\ w.revision = v.revision /\ w.candidate = v.candidate
            /\ v.expired # NULL => w.expired = v.expired
HistoryStable == [][HistoryStep]_vars

\* An embedding is the current revision's, and only an active note has one:
\* a vector computed for an older revision is never stored over a newer one,
\* however late saveEmbedding runs.
EmbeddingFresh ==
    \A k \in Keys : notes[k].embedding # NULL =>
        notes[k].embedding = notes[k].revision /\ notes[k].state = "active"

\* A session is given a revision of a note, or a hint, at most once, although
\* two recalls of one session may both find it undelivered.
DeliveredOnce ==
    \A i \in Claims :
        received[i] <= 1 /\ (received[i] = 1 <=> i \in deliveries)

\* What recallableNotes has found stays the current, active revision until the
\* recall commits: no run revises or resolves the note in between.
FoundCurrent ==
    \A c \in Clients : \A f \in tx[c].found :
        notes[f[1]].revision = f[2] /\ notes[f[1]].state = "active"

Contract == INSTANCE NoteContract WITH
    Content <- [r \in Runs |-> {Batch[r][i] : i \in DOMAIN Batch[r]}],
    settled <- [r \in Runs |-> runs[r].status],
    admitted <- {x \in Candidates : cands[x] = "admitted"},
    given <- received

\* The store implements its contract: runs settle once and as a whole, claims
\* are given out once.
ImplementsContract == Contract!CSpec

=============================================================================
