# TLA+ models of PAX Nexus

PAX Nexus is the server behind PAX memory: agents push the events of their
sessions into an append-only *Evidence Lake*, background processors turn them
into *Team Notes*, wiki pages and audit rows, and agents recall what is known
when they need it.  The modules here model the parts of the server whose
correctness depends on the order in which things happen: transactions, queue
jobs, worker crashes, retries, parallel processes.  TLC checks them on small
instances; TLAPS proves the main safety properties for every instance.

## 1. The system and its parts

| Part | State it keeps | Operations | Where it is hard |
|---|---|---|---|
| Evidence Lake and session repository (`internal/evidencelake`, `internal/platform/postgres/{sessions,streams}.go`) | `session_events`, `session_streams` (`last_sequence`, `complete`, `extraction_cursor`, `extracted_at`) | `AppendSession`, `AppendStream`, `NextSlice`, `CommitSlice`, `IsCurrent` | batches out of order or repeated, reads that are not one transaction, slice limits |
| Extraction queue (`internal/teamnote/extractionqueue`) | River jobs, one queue per shard | `EnqueueTx`, `Work` (complete, fail, snooze) | retries, rescued jobs, one worker per shard *per process* |
| Runtime (`internal/teamnote/runtime`) | none of its own | `ProcessExtraction`: plan, extract, apply, commit, loop | a crash between any two of its database calls |
| Extraction runs, ledger and note store (`internal/teamnote`, `internal/platform/postgres/notes.go`) | `extraction_runs`, candidates, notes, revisions, deliveries | `ApplyExtractionRun`, quarantine, replay, `RecallNotes` | replays with other outputs, notes that change between read and claim |
| Rolling extractor (`internal/teamnote/extractor`) | episodes (messages, run cache, summary, source cursor), background work | `Extract`, compaction, periodic summary, `Close` | lost compare-and-swap, a background result for an episode that moved on |
| Recall (`internal/recall`, `internal/teamnote/recall*.go`) | recall generations, delivery claims | plan, route, select, claim | concurrent recalls of one session |
| Page Wiki session consumer (`internal/pagewiki/sessionconsumer`, `internal/platform/postgres/pagewiki_consumer.go`) | a cursor per stream, `auto_inject` per scope; in memory: wakeup channel, in-flight marks, slots, rebuild slots, backoff, scope locks | scan loop, scope jobs, `InjectSession`, `Rebuild` | a rebuild between an injection and its cursor, a wakeup sent while the job it is for is leaving, a failing tenant that starves the others |
| Page Wiki pages (`internal/pagewiki`, its `memory` and `postgres` repositories) | publications, retirements and maintenance runs as rows; a mirror of them in memory on which everything is decided | inject (plan, prepare, publish, save the run), curation rounds, rebuild, hydration | the mirror is written before the row, two kinds of writers on one page, death between the two writes |
| Todo app (`internal/todoapp`) | `todoapp_suggestions`, `todoapp_todos` | create, complete, accept, dismiss, refresh (sweep or user), reports to the lake | every call reads a row and writes it back in statements of their own |
| Session audit (`internal/audit`) | audit events, consumer cursor | consumer, projector | projections replayed after a crash |
| On-prem identity (`internal/deployment/onprem`) | users, agents, enrollments, credentials, channels, operations | enrol, rotate, revoke, OIDC login | single-use tokens, revocation racing use |
| SaaS control plane (`internal/deployment/saas`) | tenants, credentials, memberships | provisioning, credential issue and rotation | the same, across tenants |

Events enter through `AppendSession`, which stores the rows, moves the
stream's head and inserts a River job in one transaction.  A worker of the
job's shard runs `ProcessExtraction`: it reads the stream's cursor and the
events after it, asks the extractor for candidates, applies the extraction run
to the note store, and only then advances the cursor.  Each of these is a
separate database call, so between any two of them the process may die,
another process may work on the same stream, or a new batch may arrive.

### What makes it correct

- **Nothing is skipped.** The cursor passes an event only if a durable
  extraction run (completed or quarantined) has it.
- **Nothing is forgotten.** While an event waits above the cursor there is a
  job that will get to it, although most jobs leave as soon as they see that a
  newer batch has overtaken them.
- **Nothing is taken back.** Heads, cursors and the complete flag only grow.
- **Everything is processed in the end**, if errors do not use up the attempts
  of a job.
- **The wiki has what its cursor says.**  A cursor stands only where the
  present wiki has a succeeded run (or where a lookback put it); a tenant whose
  sessions fail for ever does not keep another one waiting; a rebuild that was
  asked for is run.
- **A restart finds the wiki that was there.**  The rows replay to the mirror,
  a succeeded run has its revisions stored, a merge loses no evidence.
- **A decision on a todo sticks.**  An accepted suggestion has its todo, a
  completion is reported once and is not undone by a retry, and an action item
  that stays among the newest (50) is suggested in the end.

### What is hard to test

`PROJECT.json` lists the hazards one by one, at the line where each bites, with
the properties that cover it.  Where the code allows the very case a hazard
names, no property can forbid it: the hazard's note says which part is not
covered, and section 6 describes it.
In short: every call of `ProcessExtraction` can be cut between its database
calls; "one worker per shard" holds per process only; a job decides to leave
because a newer one exists and acts on that answer later; a run may be durable
while its caller saw an error; two transactions lock note keys in opposite
orders; a recall decides on a snapshot and claims afterwards; an episode is
loaded, extended by a slow model call and saved under a version check while
background results for an older state of it arrive; `Close` races the start of
background work; batches repeat, overlap and overtake each other; a rebuild
empties the wiki while a session is being injected into it; a page is in memory
before it is a row; two users decide on the same suggestion.

## 2. Modules

| Module | Models | Composes |
|---|---|---|
| `SlicePlanner` | `NextSlice` and its helpers (`lake.go`) and the reads of `sessions.go`, as pure operators | |
| `SliceWalk` | the loop of `ProcessExtraction` over a fixed log, to check the planner's operators against what a slicing should be | `SlicePlanner` |
| `ConsumerContract` | abstract: what any processor of the lake promises | |
| `ExtractionPipeline` | lake, River queue, runtime and `extraction_runs` together | extends `SlicePlanner`, refines `ConsumerContract` |
| `ExtractionPipelineProofs` | the theorems of `ExtractionPipeline` and `SliceWalk` | `CommonLemmas` |
| `NoteContract` | abstract: runs settle once and whole, claims are given once | |
| `NoteStore` | `ApplyExtractionRun`, admission, embeddings, `RecallNotes` as interleaved READ COMMITTED transactions | refines `NoteContract` |
| `RollingEpisode` | one extraction episode shared by the extractors of several processes | |
| `ExtractorLifecycle` | `lifecycleCoordinator` | |
| `ExtractorProofs` | the theorems of `RollingEpisode` and `ExtractorLifecycle` | `CommonLemmas` |
| `StreamIngest` | `AppendStream` and `StreamEvents` | |
| `WikiConsumer` | the Page Wiki session consumer: loop, jobs, slots, rebuilds, callers | |
| `WikiPages` | the pages of one scope: mirror, rows, injection, curation, rebuild, hydration | |
| `TodoApp` | suggestions and todos of one scope as interleaved calls | |
| `NoteStoreProofs`, `StreamIngestProofs`, `WikiConsumerProofs`, `WikiPagesProofs`, `TodoAppProofs` | the theorems of the module each is named after | `CommonLemmas` |
| `CommonLemmas` | lemmas that several proofs need: least and greatest numbers of a set, the elements of a sequence | |
| `MC*` | instances for TLC | |

The pipeline and the note store meet in `ApplyExtractionRun`.  The pipeline has
the call as one step with the outcomes a caller sees (applied, quarantined,
replayed, conflict, durable but failed afterwards); the note store opens the
step up into its statements and shows that it is atomic (`NoteContract`).  The
extractor is a third party in both: in the pipeline it either fails or answers,
in `RollingEpisode` its answer is any member of `Answers`.  `WikiConsumer` and
`WikiPages` meet in the injection: for the consumer it is an outcome (a
succeeded run for the listed head, or an error), `WikiPages` opens it up into
plan, drafts, publications and the run row.  `WikiPages!SucceededBacked` is what
entitles the consumer to advance its cursor on a succeeded run.

Operators that carry the word *mutant* in their comment are deliberately wrong
variants of the operator that follows them.  They are used nowhere in the
specifications; replacing the operator by its mutant breaks the property that
`PROJECT.json` names with it, which is how each property is known to have
teeth.

### ExtractionPipeline

| Variable | In the code |
|---|---|
| `events`, `stamped` | rows of `session_events`; those with `extracted_at` |
| `last`, `complete`, `cursor` | `session_streams.last_sequence`, `.complete`, `.extraction_cursor` |
| `jobs` | River jobs: state, stream, `ExpectedCursor` (`through`), `RequireCurrent`, attempt |
| `runs` | `extraction_runs`, identified by the slice's new events (the input checksum) |
| `version` | model, prompt and extraction version a process runs; `NoVersion` while it is down |
| `pc`, `held`, `seen`, `slice`, `slices` | the local state of one call of `worker.Work` / `ProcessExtraction` |

| Action | In the code |
|---|---|
| `Ingest` / `AppendSession` | `AppendSession`: validation, insert with `ON CONFLICT DO NOTHING`, `upsertStream`, `EnqueueTx`, one transaction |
| `Claim` | River hands the job to the shard's only worker of a process |
| `IsCurrent` | the `RequireCurrent` check at the start of `ProcessExtraction` |
| `ReadCursor`, `ReadEvents` | the separate statements of `NextSlice`, and the end of the loop |
| `ApplyNew`, `Replay`, `Conflict`, `ApplyThenFail` | `ApplyExtractionRun` as its caller sees it |
| `CommitSlice` | `AdvanceExtractionCursor` |
| `Complete`, `Snooze`, `Fail` | the three ends of `Work` |
| `Crash`, `Restart`, `Rescue` | process death, restart (perhaps with another release), River's rescuer |

`OrderedProducer` says whether producers append a stream in sequence order.
The code does not enforce it.  Everything that is true of the pipeline without
that assumption is proved without it.

### NoteStore

`notes` holds a `team_notes` row together with its `note_revisions`; `runs`,
`cands` and `deliveries` are the tables of the same names; `tx[c]` is what
client `c` has open: its uncommitted writes (`own`, `inserted`, `claims`) and its
locks (`keys`, `rows`).  `received` is a history variable that counts what
sessions were given.  Each action is one statement or one group of statements
that nothing can interleave with: `EnsureExtractionRun`, `InsertCandidate`,
`LockNoteKey`, `AdmitRunCandidate`, `CommitRun`, `QuarantineExtractionRun`,
`RefreshEmbedding`, `BackfillEmbeddings`, `BeginRecall` (the statement's
snapshot), `LockRecallRow` (`FOR UPDATE` re-evaluates the condition on the
current row, but not the subquery on deliveries), `PlanRecall`,
`RecallRevisions`, `InsertDelivery`, `CommitRecall`.  `Abort` is any error,
lost connection or deadlock victim.  Leases are modelled with a clock (`now`).

### RollingEpisode

`store` is the row of `extraction_episodes` (transcript, checkpoint, run cache,
source cursors, version); each worker has the copy it loaded.  `lease`
serialises workers and the summariser of one process, `store.version` is all
there is between processes.  A worker goes through `AcquireEpisode`,
`LoadEpisode`, the branches of `prepareEpisode`, the prompt cap, the model call
and `SaveRun`; `Conflict` is the retry after `ErrEpisodeConflict`.  Compaction
and summary flights run beside it.  The content of a checkpoint is the set of
messages the model saw when it wrote it, which is what lets `ContextKept` say
that nothing leaves the transcript unrecorded.  `log` (the runs saved since the
last reset) and `past` (the slices saved before it) are history variables.
`ContextKept` is about transcripts in which no slice was saved twice; section 6
says what may happen to the others.

### ExtractorLifecycle

The fields of `lifecycleCoordinator`, plus where each extraction, background
call and waiter is.  All methods run under one mutex and are single actions;
the wait loop gives the mutex up between remembering the channel and sleeping
on it, which is `signalled`.  `excused` is a history variable: the failed calls
whose error is a cancellation as well (section 6).

### StreamIngest

`tx[k]` is a connector's open transaction; `lock` the row lock on
`session_streams`.  `InsertEvent` waits for another open transaction that holds
the same event id or sequence, as PostgreSQL's unique indexes make it wait.

### WikiConsumer

The server is one process: `deploy/terraform/staging/README.md:37` says that the
API runs as a single instance because this consumer holds no database lease.
`Crash` loses everything but PostgreSQL.

| Variable | In the code |
|---|---|
| `head`, `age` | `session_streams.last_sequence`, and the order of `updated_at` that the scan lists by |
| `cursor`, `seeded` | the processor's cursor rows; the value a lookback rebuild seeded |
| `runs` | heads with a succeeded maintenance run in the present wiki |
| `auto` | `pagewiki_ingestion_settings.auto_inject` |
| `trigger`, `dispatch` | the one-slot wakeup channel; the jobs a tick has still to start |
| `inFlight`, `used`, `job`, `leaving` | in-flight marks, the slot semaphore, where each scope's job is, jobs that have cleared their mark and not yet looked again |
| `rebuild`, `failures`, `lock` | rebuild slot, backoff entry and mutex of each scope or stream |
| `caller` | users inside `InjectSession` or `Rebuild` |

| Action | In the code |
|---|---|
| `Tick`, `Dispatch`, `AcquireSlot`, `StartJob` | the loop: scan with its quotas per scope and in total, and one goroutine per scope that waits for a slot |
| `RunRebuild`, `FailRebuild`, `FinishRebuild` | the queued rebuild, before the job's streams |
| `NextStream`, `Inject`, `InjectFails`, `AdvanceCursor`, `AdvanceFails` | the streams of a job, under the scope's lock |
| `LeaveScope`, `Recheck` | the end of a job, and the look at the rebuild slot after it |
| `WindowEnds` | the end of a stream's backoff |
| `Rebuild`, `PingAfterRebuild`, `InjectSession`, `Caller*` | the two calls of users |
| `SetAutoInject`, `AppendEvent`, `Crash` | the environment |

A scan is the set of streams that the query returns (`PendingStreams`, by
`Rank` and `Precedes`); the jobs of a tick are any sequence that respects the
query's order (`BuildScopeJobs`), the scopes that only have a rebuild queued in
any order: the code sorts them by name, and nothing is known of names here.

A user's `InjectSession` forgets the stream's failure (`CallerClear`) before it
waits for the scope's lock (`CallerInject`).  That `consume` finds no events does
not happen: it is called for streams with a head above 0, and events are not
deleted.

Two steps merge what the code does one after the other without a lock.  `Tick`
scans and then reads the rebuild queue; a request in between could as well have
come before the tick, since the scan does not read the queue.  `LeaveScope`
gives the slot back and then clears the in-flight mark; whoever takes the slot in
between has been dispatched already, so the two commute.

### WikiPages

`page`, `done` and `broken` are the mirror (`memory.Repository`); `log`, `life`
and `runs` are the rows of `pagewiki_publications`, `pagewiki_page_lifecycle`
and `pagewiki_maintenance_runs`.  `inject` and `round` are the two writers, each
somewhere between the mirror's compare-and-set and its insert.  `Hydrate` is the
replay of the rows, used by `Restart` and by the properties alike: `ReplayStep`
for one publication, of which the first that does not fit fails the whole
replay, then `RetireStep` for one retirement, which is skipped if it does not
fit.  `torn` is a history variable: the pages of which an insert failed, or was
overtaken, after the mirror had been written (section 6 says what becomes of
them); the properties are about all others.  A statement that fails may have
been committed, with only its reply lost (`Attempted`, and `runs'` in `SaveRun`):
the code cannot tell, and its page is torn all the same.  `ClearTables` starts it afresh,
since it empties the tables.  Until `ResetMirror` the mirror still has the pages
that were torn before, so `MirrorReplays` and `EvidenceKept` are not about the
time in between.

`Applied` compares the whole page record, as `isApplied` does: a publication that
revives a page carries the record as it was retired, so it never counts as
applied.  A run's row is replaced by a retry of the run (`RunRecorded`).

An injection is `BeginInject`, then `PrepareTarget`, `CommitTarget` (or
`PassTarget`) and `InsertPublication` for each target, and `SaveRun`.  A round
is `BeginRound`, then for each candidate `KeepCandidate`, `Rewrite` or
`RetireOnly` with `InsertCurated`, `RetirePage` and `InsertRetirement`, and
`EndRound`.  A rebuild is `ClearTables` and `ResetMirror`.

### TodoApp

`suggestion` and `todo` are the status columns; `call[u]` is what user `u` has
read and not yet written back; `refresh` the single-flight refresh;
`completing` the mutex of `completeTodoOnce`; `reported` counts the events sent to
the lake.  `overlapped` is a history variable: the suggestions that two accepts
decided on at the same time (section 6).

A refresh loads the items and the known suggestions once (`BeginRefresh`) and
then passes, saves or skips one item after the other (`PassItem`, `SaveItem`,
`SkipItem`).

## 3. Runs

Every run stops within five minutes on two cores.  "Deadlock off" means that
the bounded inputs run out and the system may then rest; the note store never
rests (a replay is always possible), so deadlock is checked there.  The type
invariant of a module is the first conjunct of its first safety invariant.

| Run | Instance | What it shows |
|---|---|---|
| `pipeline_crash` | 1 process, 1 stream, 3 events (one fills a slice by itself), 2 jobs, 2 releases, 2 faults, 2 attempts, slices of 2 events, snooze after 1 slice; 0.8 million states | `CursorCovered`, `StampedCovered`, `BacklogHasJob`, `ExtractedOnce` |
| `pipeline_parallel` | 2 processes on one stream, 2 events, 2 jobs, 1 fault and 2 attempts | `PipelineInv` (the inductive invariant), `LakeMonotonic`, `ImplementsContract`, `EventuallyExtracted` |
| `pipeline_upgrade` | a restart with another release | **violates** `EventuallyExtracted`, see section 6 |
| `slice_walk` | every log of up to 4 events of three sizes at 5 sequences, every `through` | `SlicesMaximal` (within the limits, and stopping only at one), `SlicesPartition` |
| `notes` | 2 clients that apply or recall, 3 runs, 4 candidates, 2 keys, 1 session, recalls until 2 claims are committed; 1.3 million states | `RevisionChain`, `RunAtomic`, `EmbeddingFresh`, `DeliveredOnce`, `FoundCurrent`, `HistoryStable`, `ImplementsContract` |
| `episode_rollout` | 2 processes, any mix of compaction, summary and another release, 3 slices, run cache of 2, 3 extractions, 1 fault; 1.2 million states | `TranscriptIsTail`, `ContextKept`, `ReplayWindow`, `AppendedOnce`, `CursorsCurrent` |
| `episode_live` | 2 workers of one process, a flight or a summariser | `ExtractReturns` |
| `lifecycle` | 2 extractions, 2 background calls, 2 waiters | `QuietAfterClose`, `ErrorsReportedOnce`, `LifecycleInv`, `CloseReturns` |
| `stream_ingest` | 2 connectors, 2 streams, 3 ids, 4 calls, pages of 1 | `Gapless` (and what was acknowledged is stored), `NothingBehindCursor` |
| `wiki_consumer` | 2 scopes with 3 streams, 1 slot, scans of 2 streams per scope and 2 in total, 7 scenarios; 0.24 million states | `CursorCovered`, `WakeupPending`, `RebuildRuns`, `EventuallyInjected` |
| `wiki_pages` | 2 sources under 1 or 2 slugs, 2 or 3 injections, 1 or 2 curated candidates, 1 rebuild and 1 fault, or 2 rebuilds; 3.4 million states | `MirrorReplays`, `SucceededBacked`, `EvidenceKept` |
| `todo` | 2 notes, 1 manual todo, 2 users, 4 calls, refreshes of 1 item, 1 fault; 0.4 million states | `AcceptedHasTodo`, `CompletedOnce`, `CompletionKept`, `EventuallySuggested` |

### Why the bounds are enough

All safety properties are also proved without bounds (section 4); the runs show
that the formulas can be violated by a wrong model, and that their premises are
met.

- Pipeline: two jobs of one stream are what it takes for one to overtake the
  other; two events that fit a slice and one that does not give every way a
  slice can end; `MaxSlicesPerJob = 1` makes a snooze happen; two faults reach
  an error after a crash and the last attempt of a job.  Two processes are
  enough to have a commit between any two steps of a worker.
- Notes: two keys locked in opposite orders; a candidate that two runs share; a
  resolve that is refused or admitted depending on what commits first; a
  destructive candidate; one with an invalidity boundary; a candidate that one
  run rejects and another admits.  A run may be refused in one client and
  succeed in the other before the first has quarantined it.  The clock passes
  the soft expiry.  A recall may start until two claims are committed, so that
  recalls race each other, race a writer, and follow a delivery.
- Episodes: a slice answers `usage` 3 (below) or 4 (at the start of
  compaction), the hard limit 5 is one more, and the cache of 2 runs overflows
  with 3 slices.
- Wiki consumer: one slot that two scopes want, one scope that fails for ever
  and has streams enough to fill the scan (`TotalCap = 2`) until the other one
  gets its stream, which then has to displace one of them, and seven scenarios that each
  add what the others leave out (a second stream of the session, a head that
  moves, two requests that meet, a crash, a toggle, a rebuild that waits for
  the slot).  Behaviours that combine several of these are out of reach of a
  liveness check and not covered.
- Wiki pages: two sources can compete for a slug, merge, and be revived; three
  injections allow an update of a page that a round has judged; one fault is a
  failed insert, with or without its row, or a restart at any point; with two rebuilds a page that the
  first one tears is still in the mirror when the second one begins.
- Todo: two users suffice for every overlap of two calls; a limit of one makes
  action items crowd each other out.
- Symmetry is used over jobs, processes, clients, connectors, releases, the two
  events of equal size, and the wiki's sources and slugs, and in safety runs
  only.

### Fairness

- Pipeline: weak fairness of every worker's own steps (the Go scheduler runs a
  runnable goroutine and calls have timeouts), of claiming (River polls each
  queue), of restarting a dead process (the supervisor) and of rescuing a job
  whose worker is gone (River's rescuer).  Errors and crashes are not fair, and
  nothing makes producers send.
- Episodes: weak fairness of each worker's and each background goroutine's
  steps.  A mutex that is handed on and a model call that ends in an answer, an
  error or a timeout justify it.  Starvation of one waiter by others is
  excluded by the bound on extractions.
- Wiki consumer: weak fairness of the loop (a ticker wakes it) and of every step
  of a job or a caller: an injection ends, in success or in failure.  Strong
  fairness of taking a slot (a channel serves its waiters in turn), and, for a
  *healthy* scope only, of an injection that succeeds, a cursor that is written
  and a backoff window that ends.  Nothing of the kind is assumed of the other
  scope.
- Todo: weak fairness of the sweep (a ticker), of saving the next item and of
  ending the refresh: rewriter and database do not fail for ever.  Users and
  notes are not fair.
- Lifecycle: weak fairness of ending extractions and background calls (they are
  cancelled by `Close`, or time out) and of waking up from a closed channel.

## 4. Theorems

Every proof is for any number of streams, processes, users, jobs, slices and so
on, and for any limits.  The assumptions are those of the modules
(`PlannerAssumption`, `PipelineAssumption`, `NoneAssumption`,
`LifecycleAssumption`, `NoteStoreAssumption`, `EpisodeAssumption`,
`IngestAssumption`, `WikiAssumption`, `WikiPagesAssumption`, `LogsAssumption`,
`TodoAssumption`): constants have their types, limits that the configuration requires to be positive are positive,
"none" is not a job, a worker or a user, a batch does not carry one candidate
twice.  Candidates, scopes, streams of the wiki consumer, extractions and
background calls are finite sets.  No proof depends
on the value of a bound.

Each component has one inductive invariant (`...Inv`), which TLC checked on small
instances before it was proved; one lemma per action, or per group of
actions that change the same things, shows that the invariant is preserved.

**Pipeline.**  `CursorCovered` is not inductive: a commit moves the cursor over
whatever lies below the end of the slice in hand, so one has to know that
nothing there is missing from the slice, although the slice was read steps ago
and from statements that were not one transaction.  `PipelineInv` says so:

- `StructInv`: types; rows are unique per sequence and within the head
  (`LakeInv`); a job's bound was the head once (`JobsInv`); a busy worker holds
  a running job nobody else holds (`HoldInv`); a slice in hand is a non-empty
  set of rows whose run is durable before `commit` (`SliceInv`).  This part needs no
  assumption on producers.
- With ordered producers: between the cursor and the end of a slice in hand
  there is no row outside the slice (`PrefixOf`); a finished job for the
  stream's head leaves no backlog (`StopOf`); stamps are at or below the cursor
  (`StampInv`).
- `CursorCovered` and `BacklogHasJob` themselves.

Each action preserves each part; the two interesting cases are an append (a new
row is beyond `last`, hence beyond every slice in hand) and a commit by a
worker that another one has overtaken (the cursor takes the maximum, and both
slices were prefixes of what was waiting).  From it follow:

| Theorem | States |
|---|---|
| `TypeCorrect` | `Spec => []TypeOK` |
| `PipelineCorrect` | `Spec => []PipelineInv` |
| `CursorNeverSkips` | `Spec => []CursorCovered` |
| `BacklogNeverForgotten` | `Spec => []BacklogHasJob` |
| `StampsAreCovered` | ordered producers: `Spec => []StampedCovered` |
| `LakeNeverShrinks` | `Spec => LakeMonotonic`, any producer |
| `PipelineImplementsContract` | ordered producers: the pipeline refines `ConsumerContract` |
| `EventsExtractedOnce` | `Spec => []ExtractedOnce`, any producer |

`ExtractedOnce` has an invariant of its own, `SerialInv`: until the first error
or crash of a single process a worker has jobs of its shard only, the cursor it
has read is still the cursor, and a durable run lies at or below the cursor or
is about to be committed.  Hence no two workers have a slice of one stream, and
a slice that is applied shares nothing with an earlier run.

**Slices.**  `WalkInv` says of every slice taken so far that it is what
`NewEvents` and `OverlapEvents` give for the cursor it started from, and that
the slices before it have consumed exactly the events up to that cursor.  The
next slice is a prefix of what waits (`SliceOfLog`), so `ToSequence` moves the
cursor to its end and over nothing else.  It gives `StreamIsPartitioned`
(`WalkSpec => []SlicesPartition`).  `SlicesStopAtALimit` (`[]SlicesMaximal`) needs in
addition what `boundedEvents` and `overlapEvents` compute: a sum of sizes over a
finite set grows by the size of the event that is added, and the largest set
that fits is bounded by the first event that does not.

**Lifecycle.**  `LifecycleInv`: the two counters are the cardinalities of the
active extractions and running calls; a closer has set `closed`; an error is
accumulated, or was returned by exactly one wait, or was dropped because it
also said "cancelled".  It proves `QuietAfterClose` and `ErrorsReportedOnce`
for any finite number of calls (`LifecycleCorrect`, `CloseLeavesNothingRunning`,
`RealErrorsReportedOnce`).

**Note store.**  `StoreInv` describes what PostgreSQL's locks give a transaction
that is open while others commit.  Its parts: the revisions of a row form a
chain (`Chain`, also for rows not yet committed); a run's transaction is at a
known place of its batch, and every candidate before it is admitted or among
its own (`BatchOK`); its uncommitted rows extend the committed ones and it holds
their key and row locks (`OwnOK`, `HeldOK`); two clients hold no lock in common
(`Apart`); a committed run and an admitted candidate have each other (`RunOK`,
`CandOK`).  `RevisionChain` and `RunAtomic` alone are not inductive: a commit
installs rows that were computed statements ago, and only the locks say that
the committed rows are still the ones these were computed from.

| Theorem | States |
|---|---|
| `StoreCorrect` | `Spec => []StoreInv` |
| `RevisionsChained`, `RunsAtomic`, `EmbeddingsFresh`, `ClaimsGivenOnce`, `FoundStaysCurrent` | `Spec => []P` for `RevisionChain`, `RunAtomic`, `EmbeddingFresh`, `DeliveredOnce`, `FoundCurrent` |
| `HistoryKept` | `Spec => HistoryStable`, an action property |
| `StoreImplementsContract` | the store refines `NoteContract` |

**Rolling episode.**  `EpisodeInv` relates three kinds of copies to the log of
saved runs: the stored episode (`Fits`), the copies that workers loaded
(`CopyOK`: what is said of a copy is conditional on its version still being the
stored one, because only then can it be saved), and the snapshots that background
calls were shown (`FlightOK`, `SummaryOK`).  `Fits(ep, L, P)` says that the
messages are the newest part of what the runs of `L` appended, that the run cache
has the last `RunLimit` of them with rising ordinals, that the cursors are the
highest sequences, and, if nothing was saved twice, that nothing has left the
episode unrecorded.  `Snapshot` is what makes a late result safe: if the first
message of its base is in the transcript, the new checkpoint has everything
before it that was not dropped.  It survives extensions, cuts, other results and
resets in between (`Evolves`).

| Theorem | States |
|---|---|
| `EpisodeCorrect` | `Spec => []EpisodeInv` |
| `TranscriptTail`, `ContextNeverLost`, `RetriesReplayed`, `RunsAppendedOnce`, `CursorsNeverBehind` | `Spec => []P` for `TranscriptIsTail`, `ContextKept`, `ReplayWindow`, `AppendedOnce`, `CursorsCurrent` |

**Stream ingest.**  `IngestInv`: the rows of an open transaction are numbered
from the committed head to its own (`TxRows`), ids are apart between
transactions (`TxDisjoint`), and the part of the batch that is not yet inserted
and the rows it sees make up the batch (`TxBatch`).  The row lock is what makes
`TxRows` stable: nobody else moves the head.  It gives `IngestCorrect`,
`StreamsGapless` (`Gapless`), `ReadersMissNothing` (`NothingBehindCursor`) and
`SequenceNeverTaken`: the number an insert uses belongs to no row, committed or
not, so that only event ids can collide.

**Wiki consumer.**  `ConsumerInv` is `DataInv` and `LoopInv`.  `DataInv`: listed
heads are heads that the stream has had; whoever is between a succeeded run and
its cursor holds the scope's lock and the run is in the wiki, and nobody else
holds a lock.  That is why a rebuild cannot slip in between.  `LoopInv`: a scope
is marked in flight exactly while it has a job, `used` counts the jobs with a
slot, and a queued rebuild has somebody to notice it.  It gives
`ConsumerCorrect`, `CursorsCovered` (`CursorCovered`) and `RebuildsNoticed`
(`WakeupPending`).

**Wiki pages.**  None of the three properties is inductive, and they need each
other's strengthenings.  `WikiInv` has them as conjuncts of their own:

- `TableInv`: the rows have their types, no revision is retired twice, and
  replaying the publications gives a wiki with unique slugs, whose every revision
  is a row and which, if nothing failed, is not behind any row (`Tables`).
- `MirrorInv`: each writer's page in the mirror is what it is about to insert
  (`Mirrored`), and, outside a rebuild, the rows follow the mirror
  (`RowsFollow`): a page that nobody is inserting is what publications and
  retirements make of it (`Follows`); of one that is being inserted the rows
  have the revision before (`Grows`), and no retirement of the new one.
- `RebuildInv`: between the two steps of a rebuild only torn pages have rows.
- `RunsInv`: a target that is ready builds on a revision that is stored, or that
  the round is about to store; a succeeded one is stored.
- `EvidenceInv`: the evidence of a merged page is held by its successor in the
  mirror, for every stored retirement also in the replayed rows, and for a
  retirement that is still on its way in both.  The last part is what an
  injection between judgement and retirement could break: it would make
  `Retirable` false.

What a replay yields is proved for every log, without an induction theorem:
`FoldLeft` chooses a function over sets of positions.  `FoldExists` shows, from the
least length for which there would be none (`LeastNat`), that there is such a
function, `FoldsAgree` that the one for a longer log continues the one for a
shorter, and `ReplayRows` that replaying one more row is one more `ReplayStep`.
`RetirementsFollow` is the same for the retirements: a page ends up retired if
and only if one of them is of the revision that its publications end with.

| Theorem | States |
|---|---|
| `WikiPagesCorrect` | `Spec => []WikiInv` |
| `WikiSurvivesRestarts`, `SucceededRunsAreStored`, `MergesKeepEvidence` | `Spec => []P` for `MirrorReplays`, `SucceededBacked`, `EvidenceKept` |

The attempt to prove `EvidenceKept` as it first stood, for the time of a rebuild
too, failed, and TLC then found why: a page is torn by a round that writes into
a first rebuild, and a second one forgets it while the mirror still has it.

**Todo app.**  `TodoInv`: what a call has read still holds where it matters (the
todo that is being completed is open, an accept that writes its decision has its
todo), two accepts under way on one suggestion are in `overlapped`, and a
completion is reported or about to be reported by one call only.  It gives
`TodoCorrect`, `AcceptedSuggestionsHaveTodos` (`AcceptedHasTodo`),
`CompletionsReportedOnce` (`CompletedOnce`) and the action property
`CompletionsKept` (`CompletionKept`).

### Only model-checked

- Liveness (`EventuallyExtracted`, `ExtractReturns`, `CloseReturns`,
  `RebuildRuns`, `EventuallyInjected`, `EventuallySuggested`): TLAPS handles
  neither fairness nor `ENABLED`.

Every other property of a passing run is the subject of a theorem.

## 5. Abstractions

An event is an id, a stream, a sequence and a size in tokens; bodies,
visibility, actors and scopes are left out (one scope is modelled).  Input
checksums are the sets they are computed from.  Waiting (debounce, batch
timeout, backoff, snooze) is "any time later".  A note's body is left out; that
a revision drops a protected clause is an attribute of the candidate.  The
recall planner may choose any subset of what is eligible.  A text weighs one
token in an episode.  Observability is left out.

In the wiki a revision is the sequence of drafts that led to it and a draft
the set of sources whose quotes it holds; planner, editor and curator may answer
anything.  A todo is identified with the suggestion it comes from.

### Not modelled

Most of the repository's lines are not behaviour of the kind a model checker
reaches: about 146,000 of its 231,000 lines are generated transport models, and
much of the rest is the evaluation harness.  `PROJECT.json` gives the reason for
every component; in short:

- transports, the web portal, operations and explorer queries: no state of
  their own, or read-only;
- extraction protocols, revision qualifiers, scoring and ranking: text analysis
  whose outcome is an input of the models;
- the recall planner's packing and the recall router: the note store lets the
  planner choose any part of what is eligible.  The router is a plain call of
  `RecallNotes` in both deployments, because the wiring passes no wiki path
  (`app/wiring.go:633`, `app/saas_wiring.go:119`); its parallel search is not
  reachable yet;
- session audit: one goroutine that reads a window and writes projections and
  cursor in one transaction, so the single process has nothing to interleave
  it with.  `ApplyBatch` adds up counters without looking at the cursor its
  window was read from (`platform/postgres/audit.go:252`); a second process
  would count twice;
- the topic tree: a queue of placements of one worker that decides nothing about
  pages or cursors;
- of the pages: batches of linked pages, slug changes of an update, embeddings,
  and the fingerprints that make a curation round skip what it has judged;
- identity, registry, agent channel and the SaaS control plane: see the plan.

## 6. Where code and documents disagree

`pipeline_upgrade`: after a crash between `ApplyExtractionRun` and
`CommitSlice`, a process that comes back with another prompt version gets
`ErrExtractionRunConflict` for that slice on every retry.  The conflict is not
quarantined, so the stream waits until another batch changes the slice, and for
ever if the slice is full.

The others were met while translating; no run is spent on them, and the
properties are stated so that they do not contradict the code.  A property that
leaves a case out says nothing about it:

| Hazard | Property | Left out |
|---|---|---|
| late event, `sessions.go:207` | `CursorCovered`, `StampedCovered` | producers that are not ordered |
| dropped errors, `lifecycle.go:86` | `ErrorsReportedOnce` | errors joined with a cancellation (`excused`) |
| failed insert, `pagewiki/postgres/repository.go:233` | `MirrorReplays`, `SucceededBacked`, `EvidenceKept` | states with torn pages (`EvidenceKept`: those pages) |
| two decisions, `todoapp/service.go:309` | `AcceptedHasTodo`, `CompletionKept` | an accept and a dismiss that both succeed; accepts that overlap |
| crowded out, `todoapp/service.go:222` | `EventuallySuggested` | items that do not stay among the newest |
| full scan, `pagewiki_consumer.go:63` | `EventuallyInjected` | as many failing tenants as the scan has rows |
| repeated slice, `rolling.go:547` | `ContextKept` | transcripts with a repeated slice |

In detail:

- An event that a producer sends with a sequence below the cursor is in no
  slice, yet the next commit stamps it `extracted_at` (`sessions.go:185`), which
  `docs/superpowers/specs/2026-07-15-eval-v2-extraction-timing.md:9` and
  `docs/decisions/2026-07-22-on-prem-operations-monitor-and-storage.md:207` read
  as "extracted".  `StampedCovered` is checked and proved for ordered producers.
- `ShouldQuarantineExtractionRun` (`extraction_run.go:90`) reports errors that
  "can never succeed" on retry and counts `ErrNoteNotFound` among them.  A
  resolve that is applied before another stream's create of the same note is
  quarantined, although it would be admitted after it.
- `stateForValidity` (`ledger.go:510`) "keeps a note recallable until its
  invalidity boundary passes, matching the durable adapter"; the adapter's
  query (`notes.go:734`) requires `invalid_at IS NULL`, so a note with a future
  boundary is never recalled.
- `RecordRecallDeliveryClaimLoss` (`recall_v3.go:593`) takes a note whose claim
  was lost out of the delivered items and leaves it, with the related notes of
  its bundle, in the selected set, from which `SummarizeRecallDecision` counts
  the covered facts.  The note was given to the session before, but its related
  notes need not have been: `evidence_sufficient` may count facts that the
  session never got.
- `recordMaxItemsDrops` (`recall.go:483`) also rejects candidates that an earlier
  bundle has selected as related.  `finalizeRecallTrace` removes the rejection,
  but the candidate's trace keeps the disposition `suppress`, where
  `docs/decisions/2026-07-16-general-recall-v3-optimization.md:589` has "final
  evidence or suppress dispositions".
- `applyCompaction` (`rolling.go:546`) and `applyPeriodicSummary`
  (`summary.go:168`) accept a background result when its base messages are a
  prefix of the transcript, and do not look at what the checkpoint was in
  between.  A slice whose run has left the cache of 64, or that is sent again
  after a reset by another release, appends the same messages when its answer
  is the same; a flight that was started before fits once more, and its older
  checkpoint replaces a newer one, with whatever only that had.
  `docs/decisions/2026-07-16-rolling-extraction-context.md:37` says that
  "Installing its checkpoint removes only the prefix included in the compaction
  snapshot".  `ContextKept` therefore excuses transcripts with a repeated slice
  (`NoneRepeated`); the proof of `EpisodeInv` shows that nothing else has to be
  excused.
- `finishBackground` (`lifecycle.go:86`) drops the joined error of a closed
  extractor if any part of it is a cancellation, also when another part is a
  real failure; the comment on `WaitForBackground` (`openai.go:214`) promises
  the errors accumulated since the last wait.  `ErrorsReportedOnce` therefore
  excuses such errors.
- A scope job runs the queued rebuild and then injects the streams it had listed
  before it (`consumer.go:352`), also those outside the lookback, of which
  `web/src/pages/wiki-status/WikiRebuildDialog.tsx:24` says that "older sessions
  will be skipped until a wider rebuild".  No cursor is wrong afterwards
  (`CursorCovered`); the wiki has more than was asked for.
- `PublishPage` (`pagewiki/postgres/repository.go:232`) writes the mirror before
  the row.  After a failed insert the retry finds an equivalent draft in the
  mirror and the run is saved as succeeded, without the row that the comments
  in `pagewiki/memory/repository.go:870` and `pagewiki/postgres/repository.go:260`
  rely on; a later update of the page then has a base that the next process
  cannot find.  `torn` is the set of these pages.
- A rebuild excludes injections but not a curation round, and the inserts of two
  writers of one page may land in the opposite order of their mirror writes.
  Both tear the page as well.
- Two accepts of one suggestion at the same time may both find no todo, and the
  later write takes back a completion in between (`todoapp/service.go:348`); the
  comment above it says that a repeated accept goes on "preserving any
  completion".  `CompletionKept` excuses `overlapped` suggestions only.
- An accept and a dismiss of one suggestion at the same time both read it as
  pending (`todoapp/service.go:309`) and both succeed; the status is that of the
  later write, the todo stays, and both decisions are reported.  The comments on
  both (`todoapp/service.go:289` and `:390`) say that "the suggestion must be in
  pending status, otherwise returns ErrInvalidTransition".  `AcceptedHasTodo`
  is about what is accepted and does not forbid a dismissed suggestion with a
  todo.
- A refresh looks at the 50 newest action items (`todoapp/service.go:222`), those
  included that have a suggestion already.  An item that stays behind 50 newer
  ones, because they are neither resolved nor expire before it, is never
  suggested.  No document promises otherwise; `EventuallySuggested` has it as
  its premise that the item stays among the newest.
- `PendingStreams` (`platform/postgres/pagewiki_consumer.go:53`) interleaves the
  scopes "so no tenant's backlog can starve another".  One tenant's cannot
  (`EventuallyInjected`), but a stream that is backed off is still listed, and
  the scan ends after 100 rows: 100 tenants whose oldest streams fail for ever
  fill it, and a healthy tenant whose stream is younger is never listed.  With
  `TotalCap = 1`, and without its premise, TLC refutes `EventuallyInjected` in
  the instance of `wiki_consumer`.
- A curated page drops the anchor of a quote that is part of a longer one
  (`pagewiki/curation_publish.go:97`).  The text stays, so `EvidenceKept` counts
  it.

## 7. Plan

Done: the slice planner, the pipeline, the note store, the episode, the
lifecycle, stream ingest, the Page Wiki consumer and pages, and the todo app are
modelled, checked and proved.

Next, in this order:

1. On-prem identity and registry, then the agent channel and the SaaS variants:
   bootstrap, enrollment, rotation and the cascade of a device as READ COMMITTED
   transactions.  Rotation and cascade lock different rows; what the cascade
   sees of a key that is being rotated is the first question.
2. The recall planner as a pure algorithm: the packing stays within budget and
   item limit and leaves out nothing that would have fitted; the router with
   its two paths once a wiki path is wired in.
3. The topic tree and the batches of linked pages.
