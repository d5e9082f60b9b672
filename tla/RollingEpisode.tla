----------------------------- MODULE RollingEpisode -----------------------------
(***************************************************************************)
(* One rolling extraction episode: the transcript that the extractors of   *)
(* several server processes extend with one slice at a time, compact or    *)
(* summarise in the background, and store under an optimistic version.     *)
(*                                                                         *)
(* A slice reaches an extractor through Extract.  Inside a process a lease *)
(* serialises the advances of the episode; between processes only the      *)
(* version does, so everything between LoadEpisode and SaveEpisode may be  *)
(* stale.  A text (prompt, answer, checkpoint) weighs one token.  What a   *)
(* checkpoint says is abstracted to the messages the model was shown when  *)
(* it wrote it.                                                            *)
(***************************************************************************)
EXTENDS Integers, Sequences, FiniteSets

CONSTANTS
  Procs,                \* server processes
  Workers,              \* extraction workers of one process
  Slices,               \* slices of the episode's scope, by input checksum
  Streams,              \* producer sessions
  StreamOf,             \* the session a slice was cut from
  ToSequence,           \* the last sequence of a slice
  NewEvents,            \* the number of new events in a slice
  Answers,              \* what the model may answer to a prompt
  NoAnswer,             \* the answer field of a prompt
  Configs,              \* configurations: release and background mode
  Usages,               \* token counts the provider may report for a call
  RunLimit,             \* saved runs kept in an episode
  CompactStartTokens, CompactTokens,
  SummaryTailTokens, SummaryTriggerTokens, MaxPromptTokens,
  Nobody, Summariser,   \* lease owners that are not workers
  MaxExtracts, MaxFaults  \* bounds on calls of Extract, and on faults

Modes == {"plain", "compaction", "summary"}

ASSUME EpisodeAssumption ==
  /\ Workers \cap {Nobody, Summariser} = {} /\ Nobody # Summariser
  /\ NoAnswer \notin Answers
  /\ StreamOf \in [Slices -> Streams]
  /\ ToSequence \in [Slices -> Nat \ {0}]
  /\ NewEvents \in [Slices -> Nat \ {0}]
  /\ \A c \in Configs : c.mode \in Modes
  /\ Usages \subseteq Nat
  /\ RunLimit \in Nat \ {0}
  /\ CompactStartTokens \in Nat \ {0}
  /\ CompactTokens \in Nat /\ CompactTokens >= CompactStartTokens
  /\ SummaryTailTokens \in Nat \ {0} /\ SummaryTriggerTokens \in Nat \ {0}
  /\ MaxPromptTokens \in Nat
  /\ MaxExtracts \in Nat /\ MaxFaults \in Nat

VARIABLES
  store,    \* the row of extraction_episodes
  conf,     \* the configuration each process runs with
  lease,    \* the holder of the episode lease in each process
  worker,   \* the workers: where they are and their copy of the episode
  flight,   \* the compaction flight of each process
  summary,  \* the summary flight of each process
  log,      \* the runs saved since the episode was last reset (history)
  past,     \* the slices of the runs saved before that (history)
  extracts, faults

vars == <<store, conf, lease, worker, flight, summary, log, past, extracts, faults>>
-----------------------------------------------------------------------------
(* Episodes.                                                               *)

Releases == {c.release : c \in Configs}

Run == [slice : Slices, answer : Answers]

Message == [role : {"user"}, slice : Slices, answer : {NoAnswer}]
             \cup [role : {"assistant"}, slice : Slices, answer : Answers]

Prompt(s) == [role |-> "user", slice |-> s, answer |-> NoAnswer]

Response(s, a) == [role |-> "assistant", slice |-> s, answer |-> a]

\* The empty function: no saved runs.
NoRuns == [s \in {} |-> 0]

NoEpisode ==
  [version |-> 0, release |-> "none", messages |-> <<>>, content |-> {},
   dropped |-> {}, tokens |-> 0, eventCount |-> 0, runs |-> NoRuns,
   cursors |-> [st \in Streams |-> 0]]

MessagesOf(ms) == {ms[i] : i \in DOMAIN ms}

SlicesOf(runs) == {runs[i].slice : i \in DOMAIN runs}

Suffix(ms, i) == SubSeq(ms, i, Len(ms))

\* A checkpoint adds itself and the acknowledgement after it to a request.
CheckpointTokens(content) == IF content = {} THEN 0 ELSE 2

\* The system prompt, the checkpoint and the transcript.
EstimateEpisodeTokens(content, ms) == 1 + CheckpointTokens(content) + Len(ms)

\* A user message and the answer to it stay together; the newest pair stays
\* whatever it weighs.
RecentMessageTail(ms, budget) ==
  LET starts == {i \in DOMAIN ms : ~ ( /\ ms[i].role = "assistant" /\ i > 1
                                       /\ ms[i - 1].role = "user" )}
      fits   == {i \in starts : Len(Suffix(ms, i)) <= budget}
  IN IF ms = <<>> THEN <<>>
     ELSE IF fits = {} THEN Suffix(ms, CHOOSE i \in starts : \A j \in starts : j <= i)
     ELSE Suffix(ms, CHOOSE i \in fits : \A j \in fits : i <= j)

\* Messages go one by one, so an answer may stay without its prompt.
TruncateEpisodeMessages(ep) ==
  LET fits == {i \in DOMAIN ep.messages :
                 \/ i = Len(ep.messages)
                 \/ EstimateEpisodeTokens(ep.content, Suffix(ep.messages, i))
                      < CompactStartTokens}
      kept == Suffix(ep.messages, CHOOSE i \in fits : \A j \in fits : i <= j)
  IN [ep EXCEPT !.messages = kept,
                !.dropped = @ \cup (MessagesOf(ep.messages) \ MessagesOf(kept)),
                !.tokens = EstimateEpisodeTokens(ep.content, kept)]

\* The messages a background call was shown are still the transcript's first.
BaseIsPrefix(base, ms) ==
  Len(base) <= Len(ms) /\ SubSeq(ms, 1, Len(base)) = base

\* The checkpoint replaces the messages it was made from, and only those.
ApplyCompaction(ep, f) ==
  LET tail == Suffix(ep.messages, Len(f.base) + 1)
  IN [ep EXCEPT !.messages = tail, !.content = f.content,
                !.tokens = EstimateEpisodeTokens(f.content, tail)]

\* Mutant: the messages appended since are forgotten.
ApplyPeriodicSummaryToBase(ep, f) ==
  LET ms == RecentMessageTail(SubSeq(ep.messages, 1, Len(f.base)), SummaryTailTokens)
  IN [ep EXCEPT !.messages = ms, !.content = f.content,
                !.tokens = EstimateEpisodeTokens(f.content, ms)]

\* The summary replaces the checkpoint; the newest of the summarised messages
\* stay, and so do those appended since.
ApplyPeriodicSummary(ep, f) ==
  LET ms == RecentMessageTail(SubSeq(ep.messages, 1, Len(f.base)), SummaryTailTokens)
              \o Suffix(ep.messages, Len(f.base) + 1)
  IN [ep EXCEPT !.messages = ms, !.content = f.content,
                !.tokens = EstimateEpisodeTokens(f.content, ms)]

\* The oldest runs go first.
PruneEpisodeRuns(runs) ==
  LET younger(s) == {t \in DOMAIN runs : runs[t].ordinal > runs[s].ordinal}
  IN [s \in {s \in DOMAIN runs : Cardinality(younger(s)) < RunLimit} |-> runs[s]]

\* Mutant: the cursor follows the last slice saved.
FollowSourceCursor(cursors, s) == [cursors EXCEPT ![StreamOf[s]] = ToSequence[s]]

UpdateSourceCursor(cursors, s) ==
  IF ToSequence[s] > cursors[StreamOf[s]]
    THEN [cursors EXCEPT ![StreamOf[s]] = ToSequence[s]] ELSE cursors

\* What a successful provider call makes of the episode.
AppendRun(ep, s, a, usage) ==
  LET count == ep.eventCount + NewEvents[s]
      runs  == [t \in DOMAIN ep.runs \cup {s} |->
                  IF t = s THEN [answer |-> a, ordinal |-> count] ELSE ep.runs[t]]
  IN [ep EXCEPT !.messages = @ \o <<Prompt(s), Response(s, a)>>,
                !.tokens = usage, !.eventCount = count,
                !.cursors = UpdateSourceCursor(@, s),
                !.runs = PruneEpisodeRuns(runs)]
-----------------------------------------------------------------------------
(* The initial state, and the steps a worker's calls share.                *)

IdleWorker == [pc |-> "idle"]
NoFlight   == [state |-> "none"]

Init ==
  /\ store = NoEpisode
  /\ conf \in [Procs -> Configs]
  /\ lease = [p \in Procs |-> Nobody]
  /\ worker = [p \in Procs |-> [w \in Workers |-> IdleWorker]]
  /\ flight = [p \in Procs |-> NoFlight]
  /\ summary = [p \in Procs |-> NoFlight]
  /\ log = <<>> /\ past = {}
  /\ extracts = 0 /\ faults = 0

At(p, w, label) == worker[p][w].pc = label

\* advanceEpisodeAttempt goes on with episode ep.
Goto(p, w, label, ep) ==
  /\ worker' = [worker EXCEPT ![p][w].pc = label, ![p][w].ep = ep]
  /\ UNCHANGED lease

\* advanceEpisode returns: the lease is released.
Return(p, w) ==
  /\ worker' = [worker EXCEPT ![p][w] = IdleWorker]
  /\ lease' = [lease EXCEPT ![p] = Nobody]

\* A conflict is retried once.
Conflict(p, w) ==
  IF worker[p][w].attempt = 1
    THEN /\ worker' = [worker EXCEPT ![p][w].pc = "load", ![p][w].attempt = 2]
         /\ UNCHANGED lease
    ELSE Return(p, w)

\* Mutant: the version is not checked.
SavesAnyVersion(ep) == ep.version >= 0

\* SaveEpisode: insert or update under the version that was loaded.
Saves(ep) == store.version = ep.version

Saved(ep) == [ep EXCEPT !.version = @ + 1]

\* Mutant: the call is not shown the checkpoint.
StartedWithoutCheckpoint(f, ep) ==
  IF f.state = "none"
    THEN [state |-> "running", base |-> ep.messages, content |-> MessagesOf(ep.messages)]
    ELSE f

\* One flight per process: an existing one is not replaced.
Started(f, ep) ==
  IF f.state = "none"
    THEN [state |-> "running", base |-> ep.messages,
          content |-> ep.content \cup MessagesOf(ep.messages)]
    ELSE f
-----------------------------------------------------------------------------
(* Extract, for the group of a slice that belongs to this episode.         *)

Extract(p, w, s) ==
  /\ At(p, w, "idle") /\ extracts < MaxExtracts
  /\ worker' = [worker EXCEPT ![p][w] =
       [pc |-> "acquire", slice |-> s, attempt |-> 1, ep |-> NoEpisode, reset |-> FALSE]]
  /\ extracts' = extracts + 1
  /\ UNCHANGED <<store, conf, lease, flight, summary, log, past, faults>>

AcquireEpisode(p, w) ==
  /\ At(p, w, "acquire") /\ lease[p] = Nobody
  /\ lease' = [lease EXCEPT ![p] = w]
  /\ worker' = [worker EXCEPT ![p][w].pc = "load"]
  /\ UNCHANGED <<store, conf, flight, summary, log, past, extracts, faults>>

\* An incompatible episode is replaced, under its version.
Loaded(p) ==
  LET fresh == [NoEpisode EXCEPT !.version = store.version]
  IN [(IF store.release = conf[p].release THEN store ELSE fresh)
        EXCEPT !.release = conf[p].release]

\* A run that is already saved is replayed without a provider call.
LoadEpisode(p, w) ==
  LET ep == Loaded(p)
  IN IF worker[p][w].slice \in DOMAIN ep.runs
       THEN Return(p, w)
       ELSE /\ worker' = [worker EXCEPT ![p][w].pc = "prepare", ![p][w].ep = ep,
                                       ![p][w].reset = store.release # conf[p].release]
            /\ UNCHANGED lease

\* consumeReadySummary comes first: a summary that could not be persisted
\* fails the attempt once, unless it was only interrupted.
Load(p, w) ==
  /\ At(p, w, "load")
  /\ IF summary[p].state = "done"
       THEN /\ summary' = [summary EXCEPT ![p] = NoFlight]
            /\ CASE summary[p].persistErr = "conflict" -> Conflict(p, w)
                 [] summary[p].persistErr = "error"    -> Return(p, w)
                 [] OTHER                              -> LoadEpisode(p, w)
       ELSE /\ LoadEpisode(p, w)
            /\ UNCHANGED summary
  /\ UNCHANGED <<store, conf, flight, log, past, extracts, faults>>

HardLimit(ep) == ep.tokens + 1 >= CompactTokens

Compacts(p, ep) == conf[p].mode = "compaction" /\ ep.messages # <<>>

\* No flight, or one that need not be waited for.
PrepareSkip(p, w) ==
  LET ep == worker[p][w].ep
  IN /\ At(p, w, "prepare")
     /\ \/ ~ Compacts(p, ep)
        \/ flight[p].state = "none" /\ ~ HardLimit(ep) /\ ep.tokens < CompactStartTokens
        \/ flight[p].state = "running" /\ ~ HardLimit(ep)
     /\ Goto(p, w, "bound", ep)
     /\ UNCHANGED <<store, conf, flight, summary, log, past, extracts, faults>>

PrepareStart(p, w) ==
  LET ep == worker[p][w].ep
  IN /\ At(p, w, "prepare")
     /\ Compacts(p, ep) /\ flight[p].state = "none"
     /\ HardLimit(ep) \/ ep.tokens >= CompactStartTokens
     /\ flight' = [flight EXCEPT ![p] = Started(@, ep)]
     /\ UNCHANGED <<store, conf, lease, worker, summary, log, past, extracts, faults>>

\* A finished flight is used once.  At the hard limit a failed or stale one
\* is replaced by a call of the worker's own.
PrepareConsume(p, w) ==
  LET ep == worker[p][w].ep
      f  == flight[p]
  IN /\ At(p, w, "prepare")
     /\ Compacts(p, ep) /\ f.state = "done"
     /\ flight' = [flight EXCEPT ![p] = NoFlight]
     /\ IF f.ok /\ BaseIsPrefix(f.base, ep.messages)
          THEN Goto(p, w, "bound", ApplyCompaction(ep, f))
          ELSE Goto(p, w, IF HardLimit(ep) THEN "recompute" ELSE "bound", ep)
     /\ UNCHANGED <<store, conf, summary, log, past, extracts, faults>>

Recompute(p, w) ==
  LET ep == worker[p][w].ep
  IN /\ At(p, w, "recompute")
     /\ \/ Goto(p, w, "bound", ApplyCompaction(ep, Started(NoFlight, ep)))
        \/ Goto(p, w, "bound", TruncateEpisodeMessages(ep))
     /\ UNCHANGED <<store, conf, flight, summary, log, past, extracts, faults>>

\* A request above the cap loses its oldest pairs, and the shortened episode
\* is saved before the provider is called.
BoundEpisodePrompt(p, w) ==
  LET ep       == worker[p][w].ep
      overhead == EstimateEpisodeTokens(ep.content, <<>>) + 1
      tail     == RecentMessageTail(ep.messages, (3 * MaxPromptTokens) \div 4 - overhead)
      trimmed  == [ep EXCEPT !.messages = tail,
                     !.dropped = @ \cup (MessagesOf(ep.messages) \ MessagesOf(tail)),
                     !.tokens = EstimateEpisodeTokens(ep.content, tail)]
  IN /\ At(p, w, "bound")
     /\ IF overhead + Len(ep.messages) <= MaxPromptTokens \/ tail = ep.messages
          THEN Goto(p, w, "call", ep) /\ UNCHANGED store
          ELSE IF Saves(trimmed)
                 THEN /\ store' = Saved(trimmed)
                      /\ Goto(p, w, "call", Saved(trimmed))
                 ELSE Conflict(p, w) /\ UNCHANGED store
     /\ UNCHANGED <<conf, flight, summary, log, past, extracts, faults>>

\* The provider answers, the run is appended and saved, and the background
\* work that the new transcript calls for is started.
SaveRun(p, w, a, usage) ==
  LET s  == worker[p][w].slice
      ep == AppendRun(worker[p][w].ep, s, a, usage)
  IN /\ At(p, w, "call")
     /\ IF Saves(ep)
          THEN /\ store' = Saved(ep)
               /\ log' = Append(IF worker[p][w].reset THEN <<>> ELSE log,
                                [slice |-> s, answer |-> a])
               /\ past' = past \cup (IF worker[p][w].reset THEN SlicesOf(log) ELSE {})
               /\ flight' = [flight EXCEPT ![p] =
                    IF conf[p].mode = "compaction" /\ usage >= CompactStartTokens
                      THEN Started(@, ep) ELSE @]
               /\ summary' = [summary EXCEPT ![p] =
                    IF /\ conf[p].mode = "summary"
                       /\ Len(ep.messages) >= SummaryTailTokens + SummaryTriggerTokens
                      THEN Started(@, ep) ELSE @]
               /\ Return(p, w)
          ELSE /\ Conflict(p, w)
               /\ UNCHANGED <<store, log, past, flight, summary>>
     /\ UNCHANGED <<conf, extracts, faults>>

\* A failed load, save or provider call, a cancelled wait: Extract fails.
Fail(p, w) ==
  /\ worker[p][w].pc \in {"load", "prepare", "bound", "call"}
  /\ faults < MaxFaults
  /\ faults' = faults + 1
  /\ Return(p, w)
  /\ UNCHANGED <<store, conf, flight, summary, log, past, extracts>>
-----------------------------------------------------------------------------
(* Background calls, and what happens to processes.                        *)

CompactionEnds(p, ok) ==
  /\ flight[p].state = "running"
  /\ flight' = [flight EXCEPT ![p] =
       [state |-> "done", ok |-> ok, base |-> @.base, content |-> @.content]]
  /\ UNCHANGED <<store, conf, lease, worker, summary, log, past, extracts, faults>>

SummaryEnds(p, ok) ==
  /\ summary[p].state = "running"
  /\ summary' = [summary EXCEPT ![p] =
       [state |-> "computed", ok |-> ok, base |-> @.base, content |-> @.content]]
  /\ UNCHANGED <<store, conf, lease, worker, flight, log, past, extracts, faults>>

\* The summary is applied to the episode as it is now; one that failed or no
\* longer fits only counts as a failed attempt.
PersistLoad(p) ==
  LET f == summary[p]
  IN /\ f.state = "computed" /\ lease[p] = Nobody
     /\ lease' = [lease EXCEPT ![p] = Summariser]
     /\ summary' = [summary EXCEPT ![p] =
          [state |-> "persist",
           ep |-> IF f.ok /\ BaseIsPrefix(f.base, store.messages)
                    THEN ApplyPeriodicSummary(store, f) ELSE store]]
     /\ UNCHANGED <<store, conf, worker, flight, log, past, extracts, faults>>

\* Mutant: the lease is not released.
SummaryDoneKeepsLease(p, err) ==
  /\ summary' = [summary EXCEPT ![p] = [state |-> "persisted", persistErr |-> err]]
  /\ UNCHANGED lease

\* persistSummaryOutcome returns: the lease is released before the flight is
\* marked as done.
SummaryDone(p, err) ==
  /\ summary' = [summary EXCEPT ![p] = [state |-> "persisted", persistErr |-> err]]
  /\ lease' = [lease EXCEPT ![p] = Nobody]

\* Mutant: the summary is saved over whatever is stored.
PersistSaveBlind(p) ==
  /\ summary[p].state = "persist"
  /\ store' = [summary[p].ep EXCEPT !.version = store.version + 1]
  /\ SummaryDone(p, "none")
  /\ UNCHANGED <<conf, worker, flight, log, past, extracts, faults>>

PersistSave(p) ==
  LET ep == summary[p].ep
  IN /\ summary[p].state = "persist"
     /\ IF Saves(ep)
          THEN store' = Saved(ep) /\ SummaryDone(p, "none")
          ELSE UNCHANGED store /\ SummaryDone(p, "conflict")
     /\ UNCHANGED <<conf, worker, flight, log, past, extracts, faults>>

PersistFail(p, err) ==
  /\ summary[p].state = "persist"
  /\ faults < MaxFaults
  /\ faults' = faults + 1
  /\ SummaryDone(p, err)
  /\ UNCHANGED <<store, conf, worker, flight, log, past, extracts>>

CloseSummary(p) ==
  /\ summary[p].state = "persisted"
  /\ summary' = [summary EXCEPT ![p].state = "done"]
  /\ UNCHANGED <<store, conf, lease, worker, flight, log, past, extracts, faults>>

\* A process dies and comes back, perhaps with another configuration: what
\* it held in memory is gone.
Restart(p, c) ==
  /\ faults < MaxFaults
  /\ faults' = faults + 1
  /\ conf' = [conf EXCEPT ![p] = c]
  /\ lease' = [lease EXCEPT ![p] = Nobody]
  /\ worker' = [worker EXCEPT ![p] = [w \in Workers |-> IdleWorker]]
  /\ flight' = [flight EXCEPT ![p] = NoFlight]
  /\ summary' = [summary EXCEPT ![p] = NoFlight]
  /\ UNCHANGED <<store, log, past, extracts>>

WorkerStep(p, w) ==
  \/ AcquireEpisode(p, w)
  \/ Load(p, w)
  \/ PrepareSkip(p, w)
  \/ PrepareStart(p, w)
  \/ PrepareConsume(p, w)
  \/ Recompute(p, w)
  \/ BoundEpisodePrompt(p, w)
  \/ \E a \in Answers, u \in Usages : SaveRun(p, w, a, u)

BackgroundStep(p) ==
  \/ \E ok \in BOOLEAN : CompactionEnds(p, ok) \/ SummaryEnds(p, ok)
  \/ PersistLoad(p)
  \/ PersistSave(p)
  \/ CloseSummary(p)

Next ==
  \E p \in Procs :
    \/ \E w \in Workers, s \in Slices : Extract(p, w, s)
    \/ \E w \in Workers : WorkerStep(p, w) \/ Fail(p, w)
    \/ BackgroundStep(p)
    \/ \E err \in {"error", "interrupted"} : PersistFail(p, err)
    \/ \E c \in Configs : Restart(p, c)

Spec == Init /\ [][Next]_vars

\* Goroutines run, mutexes are handed on and provider calls have a timeout.
FairSpec ==
  /\ Spec
  /\ \A p \in Procs : WF_vars(BackgroundStep(p))
  /\ \A p \in Procs, w \in Workers : WF_vars(WorkerStep(p, w))
-----------------------------------------------------------------------------
(* Properties.                                                             *)

IsEpisode(ep) ==
  /\ ep.version \in Nat /\ ep.tokens \in Nat /\ ep.eventCount \in Nat
  /\ ep.release \in Releases \cup {"none"}
  /\ ep.messages \in Seq(Message)
  /\ ep.content \subseteq Message /\ ep.dropped \subseteq Message
  /\ ep.cursors \in [Streams -> Nat]
  /\ DOMAIN ep.runs \subseteq Slices
  /\ \A s \in DOMAIN ep.runs :
       ep.runs[s].answer \in Answers /\ ep.runs[s].ordinal \in 1 .. ep.eventCount

IsBusy(w) ==
  /\ w.pc \in {"acquire", "load", "prepare", "recompute", "bound", "call"}
  /\ w.slice \in Slices /\ w.attempt \in {1, 2} /\ w.reset \in BOOLEAN
  /\ IsEpisode(w.ep)

Holds(p, w) == worker[p][w].pc \notin {"idle", "acquire"}

\* The state has its type, and the lease of a process has exactly the holder
\* that works on the episode: advanceEpisode and persistSummaryOutcome exclude
\* each other.
TypeOK ==
  /\ IsEpisode(store)
  /\ conf \in [Procs -> Configs]
  /\ lease \in [Procs -> Workers \cup {Nobody, Summariser}]
  /\ \A p \in Procs, w \in Workers :
       /\ worker[p][w] = IdleWorker \/ IsBusy(worker[p][w])
       /\ Holds(p, w) <=> lease[p] = w
  /\ \A p \in Procs : summary[p].state = "persist" <=> lease[p] = Summariser
  /\ log \in Seq(Run) /\ past \subseteq Slices
  /\ extracts \in 0 .. MaxExtracts /\ faults \in 0 .. MaxFaults

\* The transcript that the saved runs add up to.
Transcript == [i \in 1 .. 2 * Len(log) |->
                 LET r == log[(i + 1) \div 2]
                 IN IF i % 2 = 1 THEN Prompt(r.slice) ELSE Response(r.slice, r.answer)]

\* The stored transcript is the newest part of what the saved runs appended:
\* compaction, summary, truncation and the prompt cap only ever cut off a
\* prefix, although each may work on an episode that has moved on.
TranscriptIsTail ==
  /\ TypeOK
  /\ Len(store.messages) <= Len(Transcript)
  /\ store.messages = Suffix(Transcript, Len(Transcript) - Len(store.messages) + 1)

\* No slice of the transcript was saved twice, before a reset or after it.
NoneRepeated ==
  /\ \A i, j \in DOMAIN log : log[i].slice = log[j].slice => i = j
  /\ \A i \in DOMAIN log : log[i].slice \notin past

\* A message leaves the transcript only when the stored checkpoint was made
\* from it, or when it was dropped deliberately (truncateEpisodeMessages at the
\* hard limit, boundEpisodePrompt above the cap).  A slice whose run was pruned
\* or reset may be saved again with the same messages; a flight started before
\* then fits once more (applyCompaction compares messages), and its checkpoint
\* may be older than the stored one.
ContextKept ==
  NoneRepeated =>
    MessagesOf(Transcript) \subseteq
      MessagesOf(store.messages) \cup store.content \cup store.dropped

\* A retry of any of the last RunLimit saved slices is answered from the
\* episode, with the answer that was saved.
ReplayWindow ==
  \A i \in DOMAIN log :
    i > Len(log) - RunLimit =>
      /\ log[i].slice \in DOMAIN store.runs
      /\ store.runs[log[i].slice].answer = log[i].answer

\* No slice is appended a second time while its run is within the window, not
\* even when two processes extract it at the same time: the loser of the
\* version check reloads and finds the winner's run.
AppendedOnce ==
  \A i, j \in DOMAIN log :
    i < j /\ j - i <= RunLimit => log[i].slice # log[j].slice

\* The source cursor of every session is the highest sequence of its saved
\* slices: no save, compaction or summary takes it back.
CursorsCurrent ==
  \A st \in Streams :
    LET tos == {ToSequence[log[i].slice] : i \in {i \in DOMAIN log : StreamOf[log[i].slice] = st}}
    IN /\ store.cursors[st] \in tos \cup {0}
       /\ \A to \in tos : to <= store.cursors[st]

\* Every call of Extract returns: the lease, the wait for a compaction flight
\* at the hard limit and the conflict retry never block each other for good.
ExtractReturns ==
  \A p \in Procs, w \in Workers : ~ At(p, w, "idle") ~> At(p, w, "idle")
=============================================================================
