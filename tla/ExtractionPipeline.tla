------------------------- MODULE ExtractionPipeline -------------------------
(***************************************************************************)
(* The durable path from an ingested session batch to the extraction       *)
(* cursor: SessionRepository.AppendSession, the River extraction queue,    *)
(* runtime.App.ProcessExtraction and the extraction_runs table.            *)
(*                                                                         *)
(* The PostgreSQL rows are events, last, complete, cursor and stamped      *)
(* (session_events, session_streams), jobs (River) and runs                *)
(* (extraction_runs).  A worker is one shard's single worker in one        *)
(* process; each of its database calls is a step of its own, so anything   *)
(* may happen between the reads of one ProcessExtraction call.  Waiting    *)
(* (debounce, batch timeout, retry backoff) is abstracted to "any time     *)
(* later".  The extractor's own state is another module's business: here   *)
(* Extract either fails (Fail) or leads on to ApplyExtractionRun.          *)
(***************************************************************************)
EXTENDS SlicePlanner

CONSTANTS
    Processes,        \* server processes that run a River client
    Shards,           \* extraction queue shards
    ShardOf,          \* shardFor: the shard of a stream's jobs
    JobIds,           \* River jobs that may be inserted
    MaxSeq,           \* bound on event sequences
    MaxBatch,         \* bound on the events of one batch
    MaxAttempts,      \* Config.MaxAttempts
    MaxSlicesPerJob,  \* Config.MaxSlicesPerJob
    MaxFaults,        \* bound on errors and crashes
    Versions,         \* releases: model, prompt and extraction version
    OrderedProducer,  \* TRUE: producers append a stream in sequence order
    NoJob             \* a job id that has not been inserted, a worker without one

ASSUME PipelineAssumption ==
    /\ ShardOf \in [Streams -> Shards]
    /\ MaxSeq \in Nat \ {0}
    /\ MaxBatch \in Nat \ {0}
    /\ MaxAttempts \in Nat \ {0}
    /\ MaxSlicesPerJob \in Nat \ {0}
    /\ MaxFaults \in Nat
    /\ OrderedProducer \in BOOLEAN

VARIABLES
    events,     \* session_events rows
    last,       \* session_streams.last_sequence
    complete,   \* session_streams.complete
    cursor,     \* session_streams.extraction_cursor
    stamped,    \* events whose extracted_at is set
    jobs,       \* River jobs
    runs,       \* extraction_runs rows, keyed by their new events
    version,    \* the release each process runs; NoVersion while it is down
    pc,         \* where each worker is in Work / ProcessExtraction
    held,       \* the job a busy worker holds
    seen,       \* the extraction cursor NextSlice has read
    slice,      \* the new events of the slice in hand
    slices,     \* slices committed by this call of ProcessExtraction
    faults      \* errors and crashes so far

lakeVars == <<events, last, complete, cursor, stamped>>
workerVars == <<pc, held, seen, slice, slices>>
vars == <<lakeVars, jobs, runs, version, workerVars, faults>>

NoVersion == "down"
Seqs == 1..MaxSeq
Workers == Processes \X Shards

Job == [state : {"available", "running", "completed", "discarded"},
        stream : Streams, through : Seqs, requireCurrent : BOOLEAN,
        attempt : 0..MaxAttempts]
Run == [new : SUBSET Event, version : Versions,
        status : {"completed", "quarantined"}]

ASSUME NoneAssumption ==
    NoJob \notin JobIds /\ NoJob \notin Job /\ NoVersion \notin Versions

\* Where the error paths of ProcessExtraction can be left from.
Working == {"check", "plan", "read", "apply", "commit"}

TypeOK ==
    /\ events \subseteq Event
    /\ last \in [Streams -> 0..MaxSeq]
    /\ complete \in [Streams -> BOOLEAN]
    /\ cursor \in [Streams -> 0..MaxSeq]
    /\ stamped \subseteq events
    /\ jobs \in [JobIds -> Job \cup {NoJob}]
    /\ runs \subseteq Run
    /\ version \in [Processes -> Versions \cup {NoVersion}]
    /\ pc \in [Workers -> Working \cup {"idle", "stop", "snooze"}]
    /\ held \in [Workers -> JobIds \cup {NoJob}]
    /\ seen \in [Workers -> 0..MaxSeq]
    /\ slice \in [Workers -> SUBSET Event]
    /\ slices \in [Workers -> 0..MaxSlicesPerJob]
    /\ faults \in 0..MaxFaults

Init ==
    /\ events = {}
    /\ last = [s \in Streams |-> 0]
    /\ complete = [s \in Streams |-> FALSE]
    /\ cursor = [s \in Streams |-> 0]
    /\ stamped = {}
    /\ jobs = [j \in JobIds |-> NoJob]
    /\ runs = {}
    /\ version \in [Processes -> Versions]
    /\ pc = [w \in Workers |-> "idle"]
    /\ held = [w \in Workers |-> NoJob]
    /\ seen = [w \in Workers |-> 0]
    /\ slice = [w \in Workers |-> {}]
    /\ slices = [w \in Workers |-> 0]
    /\ faults = 0

-----------------------------------------------------------------------------
(* Ingestion *)

\* validateBatch: a batch is not empty and has one actor.
Batches(s) == {b \in SUBSET [id : EventIds, stream : {s}, seq : Seqs] :
                  /\ b # {} /\ IsFiniteSet(b)
                  /\ Cardinality(b) <= MaxBatch
                  /\ \A e, f \in b : e # f => e.id # f.id /\ e.seq # f.seq}

\* ON CONFLICT (scope_id, event_id) DO NOTHING: the batch's rows that are new.
Accepted(b) == {e \in b : \A f \in events : f.id # e.id}

\* What an ordered producer sends: stored events again, or later ones.
InOrder(s, b) == \A e \in b : e \in events \/ (e \in Accepted(b) /\ e.seq > last[s])

\* AppendSession: rows, stream head and job in one transaction.  The unique
\* index on (stream, sequence) aborts a batch that reuses a sequence.
AppendSession(s, b, head, done, j) ==
    /\ OrderedProducer => InOrder(s, b)
    /\ \A e \in Accepted(b), f \in events : f.stream = s => f.seq # e.seq
    /\ jobs[j] = NoJob
    /\ events' = events \cup Accepted(b)
    /\ last' = [last EXCEPT ![s] = IF head > @ THEN head ELSE @]
    /\ complete' = [complete EXCEPT ![s] = @ \/ done]
    /\ jobs' = [jobs EXCEPT ![j] =
                  [state |-> "available", stream |-> s, through |-> head,
                   requireCurrent |-> ~done, attempt |-> 0]]
    /\ UNCHANGED <<cursor, stamped, runs, version, workerVars, faults>>

Ingest ==
    \E s \in Streams, done \in BOOLEAN, j \in {i \in JobIds : jobs[i] = NoJob} :
        \E b \in Batches(s) : \E head \in {e.seq : e \in b} :
            /\ \A e \in b : e.seq <= head
            /\ AppendSession(s, b, head, done, j)

-----------------------------------------------------------------------------
(* The queue and its workers *)

HeldJob(w) == jobs[held[w]]

\* River hands an available job to the idle worker of its shard.
Claim(w, j) ==
    /\ pc[w] = "idle" /\ version[w[1]] # NoVersion
    /\ jobs[j] # NoJob
    /\ jobs[j].state = "available" /\ ShardOf[jobs[j].stream] = w[2]
    /\ jobs' = [jobs EXCEPT ![j].state = "running", ![j].attempt = @ + 1]
    /\ held' = [held EXCEPT ![w] = j]
    /\ slices' = [slices EXCEPT ![w] = 0]
    /\ pc' = [pc EXCEPT ![w] = IF jobs[j].requireCurrent THEN "check" ELSE "plan"]
    /\ UNCHANGED <<lakeVars, runs, version, seen, slice, faults>>

\* The worker lets go of its job, which River leaves in state st.
Release(w, st, attempt) ==
    /\ jobs' = [jobs EXCEPT ![held[w]].state = st, ![held[w]].attempt = attempt]
    /\ pc' = [pc EXCEPT ![w] = "idle"]
    /\ held' = [held EXCEPT ![w] = NoJob]
    /\ slice' = [slice EXCEPT ![w] = {}]
    /\ UNCHANGED <<seen, slices>>

\* River retries a failed or rescued job until its attempts are used up.
AfterError(job) == IF job.attempt < MaxAttempts THEN "available" ELSE "discarded"

\* Work returns an error: nothing but the job changes.
Fail(w) ==
    /\ pc[w] \in Working
    /\ faults < MaxFaults
    /\ faults' = faults + 1
    /\ Release(w, AfterError(HeldJob(w)), HeldJob(w).attempt)
    /\ UNCHANGED <<lakeVars, runs, version>>

\* Work returns nil.
Complete(w) ==
    /\ pc[w] = "stop"
    /\ Release(w, "completed", HeldJob(w).attempt)
    /\ UNCHANGED <<lakeVars, runs, version, faults>>

\* Mutants of Snooze: the job counts as done, or loses an attempt.
SnoozeCompletes(w) ==
    /\ pc[w] = "snooze"
    /\ Release(w, "completed", HeldJob(w).attempt)
    /\ UNCHANGED <<lakeVars, runs, version, faults>>
SnoozeUsesAttempt(w) ==
    /\ pc[w] = "snooze"
    /\ Release(w, AfterError(HeldJob(w)), HeldJob(w).attempt)
    /\ UNCHANGED <<lakeVars, runs, version, faults>>

\* Work returns JobSnooze(0): the job is available again, the attempt is
\* given back.
Snooze(w) ==
    /\ pc[w] = "snooze"
    /\ Release(w, "available", HeldJob(w).attempt - 1)
    /\ UNCHANGED <<lakeVars, runs, version, faults>>

\* A process dies: its workers' memory is gone, their jobs stay "running".
Crash(p) ==
    /\ version[p] # NoVersion
    /\ faults < MaxFaults
    /\ faults' = faults + 1
    /\ version' = [version EXCEPT ![p] = NoVersion]
    /\ pc' = [w \in Workers |-> IF w[1] = p THEN "idle" ELSE pc[w]]
    /\ held' = [w \in Workers |-> IF w[1] = p THEN NoJob ELSE held[w]]
    /\ slice' = [w \in Workers |-> IF w[1] = p THEN {} ELSE slice[w]]
    /\ UNCHANGED <<lakeVars, jobs, runs, seen, slices>>

\* The process comes back, perhaps with another release.
Restart(p) ==
    /\ version[p] = NoVersion
    /\ \E v \in Versions : version' = [version EXCEPT ![p] = v]
    /\ UNCHANGED <<lakeVars, jobs, runs, workerVars, faults>>

\* River's rescuer finds a running job that no worker holds any more.
Rescue(j) ==
    /\ jobs[j] # NoJob
    /\ jobs[j].state = "running"
    /\ \A w \in Workers : held[w] # j
    /\ \E p \in Processes : version[p] # NoVersion
    /\ jobs' = [jobs EXCEPT ![j].state = AfterError(jobs[j])]
    /\ UNCHANGED <<lakeVars, runs, version, workerVars, faults>>

-----------------------------------------------------------------------------
(* ProcessExtraction *)

\* Mutant of IsCurrent: only a job that was overtaken goes on.
IsCurrentInverted(w) ==
    /\ pc[w] = "check"
    /\ pc' = [pc EXCEPT ![w] = IF last[HeldJob(w).stream] > HeldJob(w).through
                               THEN "plan" ELSE "stop"]
    /\ UNCHANGED <<lakeVars, jobs, runs, version, held, seen, slice, slices, faults>>

\* Lake.IsCurrent: a job whose captured head was overtaken does nothing.
IsCurrent(w) ==
    /\ pc[w] = "check"
    /\ pc' = [pc EXCEPT ![w] = IF last[HeldJob(w).stream] = HeldJob(w).through
                               THEN "plan" ELSE "stop"]
    /\ UNCHANGED <<lakeVars, jobs, runs, version, held, seen, slice, slices, faults>>

\* NextSlice, first read: the cursor.
ReadCursor(w) ==
    /\ pc[w] = "plan"
    /\ seen' = [seen EXCEPT ![w] = cursor[HeldJob(w).stream]]
    /\ pc' = [pc EXCEPT ![w] = "read"]
    /\ UNCHANGED <<lakeVars, jobs, runs, version, held, slice, slices, faults>>

\* NextSlice, second read: the events.  After MaxSlicesPerJob slices the same
\* plan only decides whether there is more to do.
ReadEvents(w) ==
    LET new == NewEvents(events, HeldJob(w).stream, seen[w], HeldJob(w).through)
    IN  /\ pc[w] = "read"
        /\ \/ /\ new = {}
              /\ pc' = [pc EXCEPT ![w] = "stop"]
              /\ UNCHANGED slice
           \/ /\ new # {} /\ slices[w] = MaxSlicesPerJob
              /\ pc' = [pc EXCEPT ![w] = "snooze"]
              /\ UNCHANGED slice
           \/ /\ new # {} /\ slices[w] < MaxSlicesPerJob
              /\ pc' = [pc EXCEPT ![w] = "apply"]
              /\ slice' = [slice EXCEPT ![w] = new]
        /\ UNCHANGED <<lakeVars, jobs, runs, version, held, seen, slices, faults>>

\* The durable run of the slice in hand, if there is one.
Stored(w) == {r \in runs : r.new = slice[w]}

\* ApplyExtractionRun on a new run: the candidates are admitted, or the run is
\* quarantined by a second transaction after the first was rolled back.
ApplyNew(w, status) ==
    /\ pc[w] = "apply"
    /\ Stored(w) = {}
    /\ runs' = runs \cup {[new |-> slice[w], version |-> version[w[1]], status |-> status]}
    /\ pc' = [pc EXCEPT ![w] = "commit"]
    /\ UNCHANGED <<lakeVars, jobs, version, held, seen, slice, slices, faults>>

\* The run is admitted and committed, and refreshing an embedding fails after
\* the commit: the call returns the error.
ApplyThenFail(w) ==
    /\ pc[w] = "apply"
    /\ Stored(w) = {}
    /\ faults < MaxFaults
    /\ faults' = faults + 1
    /\ runs' = runs \cup {[new |-> slice[w], version |-> version[w[1]],
                           status |-> "completed"]}
    /\ Release(w, AfterError(HeldJob(w)), HeldJob(w).attempt)
    /\ UNCHANGED <<lakeVars, version>>

\* The run is durable already: a replay of the same input reuses its result,
\* completed or quarantined.
Replay(w) ==
    /\ pc[w] = "apply"
    /\ \E r \in Stored(w) : r.version = version[w[1]]
    /\ pc' = [pc EXCEPT ![w] = "commit"]
    /\ UNCHANGED <<lakeVars, jobs, runs, version, held, seen, slice, slices, faults>>

\* ... and another model or prompt version is ErrExtractionRunConflict.  A run
\* of another extraction version has an id of its own, but the unique key on
\* the input checksum rejects it too.  Both are errors that are retried.
Conflict(w) ==
    /\ pc[w] = "apply"
    /\ Stored(w) # {}
    /\ \A r \in Stored(w) : r.version # version[w[1]]
    /\ Release(w, AfterError(HeldJob(w)), HeldJob(w).attempt)
    /\ UNCHANGED <<lakeVars, runs, version, faults>>

\* Mutants of CommitSlice: it does not wait for ApplyExtractionRun, it writes
\* the cursor without GREATEST, or it stamps the whole stream.
CommitEarly(w) ==
    LET s == HeldJob(w).stream
        to == ToSequence(slice[w])
    IN  /\ pc[w] \in {"apply", "commit"}
        /\ cursor' = [cursor EXCEPT ![s] = IF to > @ THEN to ELSE @]
        /\ stamped' = stamped \cup {e \in events : e.stream = s /\ e.seq <= to}
        /\ slices' = [slices EXCEPT ![w] = @ + 1]
        /\ slice' = [slice EXCEPT ![w] = {}]
        /\ pc' = [pc EXCEPT ![w] = "plan"]
        /\ UNCHANGED <<events, last, complete, jobs, runs, version, held, seen, faults>>
CommitOverwrites(w) ==
    LET s == HeldJob(w).stream
        to == ToSequence(slice[w])
    IN  /\ pc[w] = "commit"
        /\ cursor' = [cursor EXCEPT ![s] = to]
        /\ stamped' = stamped \cup {e \in events : e.stream = s /\ e.seq <= to}
        /\ slices' = [slices EXCEPT ![w] = @ + 1]
        /\ slice' = [slice EXCEPT ![w] = {}]
        /\ pc' = [pc EXCEPT ![w] = "plan"]
        /\ UNCHANGED <<events, last, complete, jobs, runs, version, held, seen, faults>>
CommitStampsAll(w) ==
    LET s == HeldJob(w).stream
        to == ToSequence(slice[w])
    IN  /\ pc[w] = "commit"
        /\ cursor' = [cursor EXCEPT ![s] = IF to > @ THEN to ELSE @]
        /\ stamped' = stamped \cup {e \in events : e.stream = s}
        /\ slices' = [slices EXCEPT ![w] = @ + 1]
        /\ slice' = [slice EXCEPT ![w] = {}]
        /\ pc' = [pc EXCEPT ![w] = "plan"]
        /\ UNCHANGED <<events, last, complete, jobs, runs, version, held, seen, faults>>

\* CommitSlice / AdvanceExtractionCursor: the cursor never moves back, and
\* every stored event up to the slice's end is stamped as extracted.
CommitSlice(w) ==
    LET s == HeldJob(w).stream
        to == ToSequence(slice[w])
    IN  /\ pc[w] = "commit"
        /\ last[s] >= to
        /\ cursor' = [cursor EXCEPT ![s] = IF to > @ THEN to ELSE @]
        /\ stamped' = stamped \cup {e \in events : e.stream = s /\ e.seq <= to}
        /\ slices' = [slices EXCEPT ![w] = @ + 1]
        /\ slice' = [slice EXCEPT ![w] = {}]
        /\ pc' = [pc EXCEPT ![w] = "plan"]
        /\ UNCHANGED <<events, last, complete, jobs, runs, version, held, seen, faults>>

-----------------------------------------------------------------------------

Step(w) ==
    \/ IsCurrent(w) \/ ReadCursor(w) \/ ReadEvents(w)
    \/ ApplyNew(w, "completed") \/ ApplyNew(w, "quarantined")
    \/ Replay(w) \/ Conflict(w) \/ CommitSlice(w)
    \/ Complete(w) \/ Snooze(w)

Next ==
    \/ Ingest
    \/ \E w \in Workers : Step(w) \/ Fail(w) \/ ApplyThenFail(w)
    \/ \E w \in Workers, j \in JobIds : Claim(w, j)
    \/ \E p \in Processes : Crash(p) \/ Restart(p)
    \/ \E j \in JobIds : Rescue(j)

Spec == Init /\ [][Next]_vars

\* Go's scheduler runs a worker that can run, River polls every queue and runs
\* its rescuer, and the supervisor restarts a dead process.
Fairness ==
    /\ \A w \in Workers : WF_vars(Step(w))
    /\ \A w \in Workers : WF_vars(\E j \in JobIds : Claim(w, j))
    /\ \A p \in Processes : WF_vars(Restart(p))
    /\ \A j \in JobIds : WF_vars(Rescue(j))

FairSpec == Spec /\ Fairness

-----------------------------------------------------------------------------
(* Safety properties *)

\* The events that some durable run, completed or quarantined, has as new.
Covered == UNION {r.new : r \in runs}

\* The runtime persists the complete Extraction Run before it advances the
\* cursor (ProcessExtraction, app.go), whatever crashes, retries and parallel
\* workers do: with producers that append in order, every stored event at or
\* below the cursor is a new event of a durable run, so none is skipped.
CursorCovered ==
    OrderedProducer => \A e \in events : e.seq <= cursor[e.stream] => e \in Covered

\* extracted_at (AdvanceExtractionCursor, sessions.go) is only set on events
\* that extraction covered.
StampedCovered == stamped \subseteq Covered

\* A job that will look at everything up to the stream's head, or one that
\* River gave up on.
HeadJob(s, j) ==
    /\ jobs[j] # NoJob
    /\ jobs[j].stream = s /\ jobs[j].through = last[s]
    /\ jobs[j].state # "completed"

\* No backlog is forgotten: the jobs that exit because a newer batch overtook
\* them (IsCurrent) leave it to a job that does not.  While an event waits
\* above the cursor, a job for the stream's head is still to run, or has used
\* up its attempts.
BacklogHasJob ==
    OrderedProducer =>
        \A e \in events : e.seq > cursor[e.stream] =>
            \E j \in JobIds : HeadJob(e.stream, j)

\* One process, and neither an error nor a crash so far.
Serial == faults = 0 /\ \A p, q \in Processes : p = q

\* With one process a stream is extracted serially (one worker per shard,
\* queue.go): until the first error or crash no event is extracted twice,
\* however its batches repeat, overlap or overtake each other.
ExtractedOnce ==
    Serial => \A r1, r2 \in runs : r1 # r2 => r1.new \cap r2.new = {}

\* What a step does to the lake: events stay, heads, cursors, stamps and the
\* sticky complete flag only grow.
LakeStep ==
    /\ events \subseteq events' /\ stamped \subseteq stamped'
    /\ \A s \in Streams : /\ last[s] <= last'[s]
                          /\ cursor[s] <= cursor'[s]
                          /\ complete[s] => complete'[s]

\* No step of any actor takes anything back: a late batch does not lower a
\* stream's head (upsertStream), and a worker that commits a slice another
\* worker has overtaken does not lower the cursor (AdvanceExtractionCursor).
LakeMonotonic == [][LakeStep]_vars

-----------------------------------------------------------------------------
(* Why they hold: the inductive invariant *)

\* Rows: finite, one per sequence of a stream, none beyond the stream's head.
LakeInv ==
    /\ IsFiniteSet(events)
    /\ \A e, f \in events : e.stream = f.stream /\ e.seq = f.seq => e = f
    /\ \A e \in events : e.seq <= last[e.stream]
    /\ \A s \in Streams : cursor[s] <= last[s]
    /\ Covered \subseteq events

\* A job's bound was the head when it was inserted; an available job has an
\* attempt left, a running one has used one.
JobsInv ==
    \A j \in JobIds : jobs[j] # NoJob =>
        /\ jobs[j].through <= last[jobs[j].stream]
        /\ jobs[j].state = "available" => jobs[j].attempt < MaxAttempts
        /\ jobs[j].state = "running" => jobs[j].attempt > 0

\* A busy worker holds a running job that no other worker holds.
HoldInv ==
    /\ \A w \in Workers :
          \/ pc[w] = "idle" /\ held[w] = NoJob
          \/ /\ pc[w] # "idle" /\ held[w] \in JobIds
             /\ HeldJob(w) # NoJob /\ HeldJob(w).state = "running"
             /\ version[w[1]] \in Versions
    /\ \A w1, w2 \in Workers : held[w1] = held[w2] /\ held[w1] # NoJob => w1 = w2

\* The slice in hand is a set of the stream's rows, and its run is durable
\* before the cursor moves.
SliceInv ==
    \A w \in Workers : pc[w] \in {"apply", "commit"} =>
        /\ slice[w] # {} /\ slices[w] < MaxSlicesPerJob
        /\ slice[w] \subseteq {e \in events : e.stream = HeldJob(w).stream}
        /\ pc[w] = "commit" => slice[w] \subseteq Covered

\* What in-order appends add: nothing is ever stored between the cursor and
\* the end of a slice in hand that the slice does not have ...
PrefixOf(w) ==
    /\ pc[w] = "read" => seen[w] <= cursor[HeldJob(w).stream]
    /\ pc[w] \in {"apply", "commit"} =>
          \A e \in events, f \in slice[w] :
              e.stream = f.stream /\ e.seq <= f.seq =>
                  e \in slice[w] \/ e.seq <= cursor[e.stream]

\* ... and a job for the stream's head that is done leaves no backlog.
StopOf(w) ==
    pc[w] = "stop" /\ HeldJob(w).through = last[HeldJob(w).stream] =>
        \A e \in events : e.stream = HeldJob(w).stream => e.seq <= cursor[e.stream]

StampInv == \A e \in stamped : e.seq <= cursor[e.stream]

StructInv == TypeOK /\ LakeInv /\ JobsInv /\ HoldInv /\ SliceInv

\* The inductive invariant of the pipeline: rows, jobs and workers agree at
\* every step, and fed in order no worker holds a slice with a hole in it.
PipelineInv ==
    /\ StructInv
    /\ OrderedProducer => StampInv /\ \A w \in Workers : PrefixOf(w) /\ StopOf(w)
    /\ CursorCovered /\ BacklogHasJob

-----------------------------------------------------------------------------
(* Refinement and liveness *)

Contract == INSTANCE ConsumerContract WITH
                stored <- events, covered <- Covered, position <- cursor

\* The pipeline, fed in order, implements the processor contract.
ImplementsContract == Contract!ContractSpec

\* Every accepted event is extracted in the end, if the errors do not use up a
\* job's attempts.
EventuallyExtracted ==
    \A e \in [id : EventIds, stream : Streams, seq : Seqs] :
        (e \in events) ~> (e \in Covered /\ e.seq <= cursor[e.stream])
=============================================================================
