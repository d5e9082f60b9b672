---------------------------- MODULE WikiConsumer ----------------------------
(***************************************************************************)
(* The Page Wiki session consumer: one loop that scans every scope for     *)
(* streams beyond their cursor, a pool of slots in which one job per scope *)
(* rebuilds the scope's wiki and injects its streams, and the callers of   *)
(* InjectSession and Rebuild.  There is one server process (the rebuild    *)
(* state, the backoff and the wiki mirror live in its memory); it may      *)
(* crash and start again, and only what is in PostgreSQL survives.         *)
(*                                                                         *)
(* An injection is abstracted to its outcome: a succeeded maintenance run  *)
(* for the listed head, or an error (which may also be a run that did not  *)
(* succeed, an injector that cannot be resolved or events that cannot be   *)
(* read).  A listed stream has the event of its head, which nothing        *)
(* deletes, so consume's return on a stream without events is not reached. *)
(* Status and Progress only read and are left out.                         *)
(***************************************************************************)
EXTENDS Integers, Sequences, FiniteSets, SequencesExt

CONSTANTS
    Scopes,       \* tenants
    Streams,      \* agent-session streams
    ScopeOf,      \* the scope of each stream
    Sessions,     \* what InjectSession may name: the streams of a session
    Callers,      \* users of InjectSession and Rebuild
    Slots,        \* WithInjectConcurrency
    ScopeCap,     \* rows of one scope in a scan (20 in the code)
    TotalCap,     \* rows of a scan (100 in the code)
    Healthy,      \* scopes whose injections do not fail for ever
    Asking,       \* scopes whose users ask for a rebuild
    Cutoffs,      \* TRUE: a Rebuild may ask for a lookback
    Recent,       \* streams whose events lie at or after its cutoff
    Scenarios,    \* bounds: the streams that have an event, oldest first, those
                  \* that get one more, and how many requests, crashes and
                  \* toggles there are
    Nobody        \* the holder of a free lock

ASSUME WikiAssumption ==
    /\ IsFiniteSet(Scopes) /\ IsFiniteSet(Streams)
    /\ ScopeOf \in [Streams -> Scopes]
    /\ Sessions \subseteq Seq(Streams)
    /\ Slots \in Nat \ {0} /\ ScopeCap \in Nat \ {0} /\ TotalCap \in Nat \ {0}
    /\ Recent \subseteq Streams
    /\ Healthy \subseteq Scopes /\ Asking \subseteq Scopes /\ Cutoffs \subseteq BOOLEAN
    /\ Scenarios \subseteq [backlog : Seq(Streams), arrivals : Seq(Streams),
                             requests : Nat, crashes : Nat, toggles : Nat]
    /\ Nobody \notin Scopes \cup Callers /\ Scopes \cap Callers = {}

VARIABLES
    \* PostgreSQL
    head,      \* session_streams.last_sequence; 0 is no row yet
    age,       \* the streams by updated_at, oldest first
    cursor,    \* the processor's cursor; 0 is no row
    seeded,    \* the cursor a lookback rebuild gave the stream
    runs,      \* heads with a succeeded maintenance run in the scope's wiki
    auto,      \* pagewiki_ingestion_settings.auto_inject
    \* the process
    trigger,   \* the one-slot wakeup channel
    dispatch,  \* jobs the tick under way has still to start
    inFlight,  \* scopes with a job
    used,      \* slots taken
    job,       \* what the job of each scope is doing
    leaving,   \* scopes of which a job has cleared inFlight and not pinged
    rebuild,   \* the rebuild slot of each scope
    failures,  \* the head a stream failed at, and whether its window is over
    lock,      \* the holder of each scope's lock
    caller,    \* what each caller is doing
    left       \* what the scenario has left

dbVars == <<head, age, cursor, seeded, runs, auto>>
loopVars == <<trigger, dispatch, inFlight, used, leaving>>
vars == <<head, age, cursor, seeded, runs, auto, trigger, dispatch, inFlight,
          used, job, leaving, rebuild, failures, lock, caller, left>>

NoJob == [pc |-> "none", todo |-> << >>]
IdleCaller == [pc |-> "idle", todo |-> << >>]
IdleRebuild == [state |-> "idle", lookback |-> FALSE]
NoFailure == [head |-> 0, over |-> FALSE]

Init ==
    /\ left \in Scenarios
    /\ age = left.backlog
    /\ head = [s \in Streams |-> IF s \in Range(age) THEN 1 ELSE 0]
    /\ cursor = [s \in Streams |-> 0]
    /\ seeded = [s \in Streams |-> 0]
    /\ runs = [s \in Streams |-> {}]
    /\ auto = [c \in Scopes |-> TRUE]
    /\ trigger = FALSE /\ dispatch = << >> /\ inFlight = {} /\ used = 0
    /\ job = [c \in Scopes |-> NoJob] /\ leaving = {}
    /\ rebuild = [c \in Scopes |-> IdleRebuild]
    /\ failures = [s \in Streams |-> NoFailure]
    /\ lock = [c \in Scopes |-> Nobody]
    /\ caller = [u \in Callers |-> IdleCaller]

\* One thing less of the kind may happen from now on.
Spend(kind) == left[kind] > 0 /\ left' = [left EXCEPT ![kind] = @ - 1]

Listed(s) == [stream |-> s, head |-> head[s]]
HeadOf(todo) == todo[1]

----------------------------------------------------------------------------
(* The lake and the settings.                                              *)

\* An event arrives.
AppendEvent(s) ==
    /\ left.arrivals # << >> /\ s = Head(left.arrivals)
    /\ left' = [left EXCEPT !.arrivals = Tail(@)]
    /\ head' = [head EXCEPT ![s] = @ + 1]
    /\ age' = Append(SelectSeq(age, LAMBDA t : t # s), s)
    /\ UNCHANGED <<cursor, seeded, runs, auto, loopVars, job, rebuild, failures, lock,
                   caller>>

SetAutoInject(c) ==
    /\ Spend("toggles")
    /\ auto' = [auto EXCEPT ![c] = ~ @]
    /\ UNCHANGED <<head, age, cursor, seeded, runs, loopVars, job, rebuild,
                   failures, lock, caller>>

----------------------------------------------------------------------------
(* The loop.                                                               *)

Queued(c) == rebuild[c].state = "queued"
Waiting(c) ==   \* injectWaitingFor
    \E u \in Callers : /\ caller[u].pc \in {"clear", "inject", "advance"}
                       /\ ScopeOf[HeadOf(caller[u].todo).stream] = c

Pending(s) == auto[ScopeOf[s]] /\ head[s] > cursor[s]

\* The order of a query or of a slice: s comes before t in seq.
Earlier(seq, s, t) == \E i, j \in DOMAIN seq : i < j /\ seq[i] = s /\ seq[j] = t

\* The sequences of the elements of S that respect an order.
Orders(S, before(_, _)) ==
    {q \in [1..Cardinality(S) -> S] :
        Range(q) = S /\ \A i, j \in DOMAIN q : i < j => ~ before(q[j], q[i])}

ListAll(seq) == [i \in DOMAIN seq |-> Listed(seq[i])]

\* ROW_NUMBER() within the scope, by updated_at.
Rank(s) ==
    Cardinality({t \in Streams : /\ Pending(t) /\ ScopeOf[t] = ScopeOf[s]
                                 /\ ~ Earlier(age, s, t)})
Precedes(s, t) ==
    Rank(s) < Rank(t) \/ (Rank(s) = Rank(t) /\ Earlier(age, s, t))

\* Mutant: no quota per scope, the oldest streams of all scopes.
PendingStreamsUnranked ==
    {s \in Streams :
        /\ Pending(s)
        /\ Cardinality({t \in Streams : Pending(t) /\ Earlier(age, t, s)}) < TotalCap}

\* At most ScopeCap streams of a scope, oldest first, the scopes interleaved by
\* rank, and TotalCap of them.
PendingStreams ==
    LET ranked == {s \in Streams : Pending(s) /\ Rank(s) <= ScopeCap}
    IN {s \in ranked : Cardinality({t \in ranked : Precedes(t, s)}) < TotalCap}

\* The streams of a scan that are a scope's, the scopes that get a job, in the
\* order of first appearance and then those that only have a rebuild to run, by
\* name, of which nothing is known here; and the rows of each scope as scanned.
OfScope(streams, c) == {s \in streams : ScopeOf[s] = c}
JobScopes(streams) == {c \in Scopes : Queued(c) \/ OfScope(streams, c) # {}}
ScopeOrders(streams) ==
    LET before(c, d) ==
            \E s \in OfScope(streams, c) : \A t \in OfScope(streams, d) : Precedes(s, t)
    IN Orders(JobScopes(streams), before)
ScopeLists(streams) ==
    LET listings(c) == Orders(OfScope(streams, c), Precedes)
    IN {f \in [JobScopes(streams) -> UNION {listings(c) : c \in Scopes}] :
            \A c \in JobScopes(streams) : f[c] \in listings(c)}

\* One job per scope.
BuildScopeJobs(streams) ==
    {[i \in DOMAIN order |-> [scope |-> order[i], streams |-> ListAll(list[order[i]])]] :
        order \in ScopeOrders(streams), list \in ScopeLists(streams)}

\* The ticker fires or the trigger is taken; the scan may fail, and queued
\* rebuilds still get their job.  The queue is read after the scan.  What may
\* come in between, a request or a job that takes one, does not change what the
\* scan reads, so it is as good as before the tick.
Tick(woken, scanned) ==
    /\ dispatch = << >>
    /\ woken => trigger
    /\ trigger' = (trigger /\ ~ woken)
    /\ UNCHANGED <<dbVars, inFlight, used, leaving, job, rebuild, failures, lock, caller,
                   left>>
    /\ dispatch' \in BuildScopeJobs(IF scanned THEN PendingStreams ELSE {})

\* markInFlight, and the slot if one is free.
Dispatch ==
    LET next == Head(dispatch)
        c == next.scope
        free == used < Slots
    IN /\ dispatch # << >>
       /\ dispatch' = Tail(dispatch)
       /\ IF c \in inFlight
            THEN UNCHANGED <<inFlight, used, job>>
            ELSE /\ inFlight' = inFlight \cup {c}
                 /\ used' = IF free THEN used + 1 ELSE used
                 /\ job' = [job EXCEPT ![c] =
                        [pc |-> IF free THEN "start" ELSE "slot",
                         todo |-> next.streams]]
       /\ UNCHANGED <<dbVars, trigger, leaving, rebuild, failures, lock, caller, left>>

----------------------------------------------------------------------------
(* A scope's job.                                                          *)

AtJob(c, pc) == job[c].pc = pc
Goto(c, pc) == job' = [job EXCEPT ![c].pc = pc]

AcquireSlot(c) ==
    /\ AtJob(c, "slot") /\ used < Slots
    /\ used' = used + 1
    /\ Goto(c, "start")
    /\ UNCHANGED <<dbVars, trigger, dispatch, inFlight, leaving, rebuild, failures, lock,
                   caller, left>>

\* A queued rebuild is taken first.  The clock, which the job compares with its
\* streams' retry windows, is read once, before the first stream.
StartJob(c) ==
    /\ AtJob(c, "start")
    /\ IF Queued(c)
         THEN /\ rebuild' = [rebuild EXCEPT ![c].state = "running"]
              /\ Goto(c, "rebuild")
         ELSE Goto(c, "streams") /\ UNCHANGED rebuild
    /\ UNCHANGED <<dbVars, loopVars, failures, lock, caller, left>>

\* Streams with no event at or after the cutoff: NOT EXISTS in the seed query.
Skipped(c) ==
    IF rebuild[c].lookback
      THEN {s \in Streams : ScopeOf[s] = c /\ head[s] > 0 /\ s \notin Recent}
      ELSE {}

\* The transaction of RebuildPageWiki.
Wipe(c) ==
    LET mine == {s \in Streams : ScopeOf[s] = c}
    IN /\ runs' = [s \in Streams |-> IF s \in mine THEN {} ELSE runs[s]]
       /\ seeded' = [s \in Streams |->
            IF s \in Skipped(c) THEN head[s] ELSE IF s \in mine THEN 0 ELSE seeded[s]]
       /\ cursor' = [s \in Streams |->
            IF s \in Skipped(c) THEN head[s] ELSE IF s \in mine THEN 0 ELSE cursor[s]]
       /\ auto' = [auto EXCEPT ![c] = TRUE]

\* Mutant: the rebuild does not take the scope's lock.
RunRebuildUnlocked(c) ==
    /\ AtJob(c, "rebuild")
    /\ Wipe(c)
    /\ failures' = [s \in Streams |-> IF ScopeOf[s] = c THEN NoFailure ELSE failures[s]]
    /\ Goto(c, "rebuilt")
    /\ UNCHANGED <<head, age, loopVars, rebuild, lock, caller, left>>

\* Under the scope's lock; a success clears the scope's backoff.
RunRebuild(c) ==
    /\ AtJob(c, "rebuild") /\ lock[c] = Nobody
    /\ Wipe(c)
    /\ failures' = [s \in Streams |-> IF ScopeOf[s] = c THEN NoFailure ELSE failures[s]]
    /\ Goto(c, "rebuilt")
    /\ UNCHANGED <<head, age, loopVars, rebuild, lock, caller, left>>

\* Nothing was committed, or all of it and the replay of the type registry
\* failed: the status says failed in both cases.
FailRebuild(c, committed) ==
    /\ AtJob(c, "rebuild")
    /\ IF committed THEN lock[c] = Nobody /\ Wipe(c)
                    ELSE UNCHANGED <<runs, seeded, cursor, auto>>
    /\ Goto(c, "unbuilt")
    /\ UNCHANGED <<head, age, loopVars, rebuild, failures, lock, caller, left>>

\* The terminal state is recorded after the lock was given back.
FinishRebuild(c) ==
    /\ job[c].pc \in {"rebuilt", "unbuilt"}
    /\ rebuild' = [rebuild EXCEPT ![c] =
            [state |-> IF AtJob(c, "rebuilt") THEN "idle" ELSE "failed",
             lookback |-> FALSE]]
    /\ Goto(c, "streams")
    /\ UNCHANGED <<dbVars, loopVars, failures, lock, caller, left>>

BackedOff(x) == failures[x.stream].head = x.head /\ ~ failures[x.stream].over

\* The checkpoint between two streams, which skips what is backed off.
NextStream(c) ==
    /\ AtJob(c, "streams") /\ job[c].todo # << >>
    /\ ~ Queued(c) /\ ~ Waiting(c)
    /\ IF BackedOff(HeadOf(job[c].todo)) THEN job' = [job EXCEPT ![c].todo = Tail(@)]
                                         ELSE Goto(c, "inject")
    /\ UNCHANGED <<dbVars, loopVars, rebuild, failures, lock, caller, left>>

RecordFailure(x) ==
    failures' = [failures EXCEPT ![x.stream] = [head |-> x.head, over |-> FALSE]]
ClearFailure(x) == failures' = [failures EXCEPT ![x.stream] = NoFailure]

\* consume up to a succeeded run; the lock is kept.
Inject(c) ==
    LET x == HeadOf(job[c].todo)
    IN /\ AtJob(c, "inject") /\ lock[c] = Nobody
       /\ lock' = [lock EXCEPT ![c] = c]
       /\ runs' = [runs EXCEPT ![x.stream] = @ \cup {x.head}]
       /\ Goto(c, "advance")
       /\ UNCHANGED <<head, age, cursor, seeded, auto, loopVars, rebuild, failures,
                      caller, left>>

\* consume fails before a run has succeeded.
InjectFails(c) ==
    /\ AtJob(c, "inject")
    /\ RecordFailure(HeadOf(job[c].todo))
    /\ job' = [job EXCEPT ![c].pc = "streams", ![c].todo = Tail(@)]
    /\ UNCHANGED <<dbVars, loopVars, rebuild, lock, caller, left>>

Greatest(a, b) == IF a > b THEN a ELSE b

\* AdvanceCursor to the listed head, the lock is released.
AdvanceCursor(c) ==
    LET x == HeadOf(job[c].todo)
    IN /\ AtJob(c, "advance")
       /\ cursor' = [cursor EXCEPT ![x.stream] = Greatest(@, x.head)]
       /\ ClearFailure(x)
       /\ lock' = [lock EXCEPT ![c] = Nobody]
       /\ job' = [job EXCEPT ![c].pc = "streams", ![c].todo = Tail(@)]
       /\ UNCHANGED <<head, age, seeded, runs, auto, loopVars, rebuild, caller, left>>

AdvanceFails(c) ==
    /\ AtJob(c, "advance")
    /\ RecordFailure(HeadOf(job[c].todo))
    /\ lock' = [lock EXCEPT ![c] = Nobody]
    /\ job' = [job EXCEPT ![c].pc = "streams", ![c].todo = Tail(@)]
    /\ UNCHANGED <<dbVars, loopVars, rebuild, caller, left>>

\* Mutant: the recheck and the ping come before inFlight is cleared.
LeaveScopePinged(c) ==
    /\ \/ /\ AtJob(c, "streams")
          /\ job[c].todo = << >> \/ Queued(c) \/ Waiting(c)
          /\ trigger' = (trigger \/ Queued(c))
          /\ Goto(c, "pinged")
          /\ UNCHANGED <<inFlight, used>>
       \/ /\ AtJob(c, "pinged")
          /\ used' = used - 1
          /\ inFlight' = inFlight \ {c}
          /\ job' = [job EXCEPT ![c] = NoJob]
          /\ UNCHANGED trigger
    /\ UNCHANGED <<dbVars, dispatch, leaving, rebuild, failures, lock, caller, left>>

\* Mutant: an early exit that keeps the slot.
LeaveScopeHolding(c) ==
    /\ AtJob(c, "streams") /\ c \notin leaving
    /\ job[c].todo = << >> \/ Queued(c) \/ Waiting(c)
    /\ inFlight' = inFlight \ {c}
    /\ leaving' = leaving \cup {c}
    /\ job' = [job EXCEPT ![c] = NoJob]
    /\ UNCHANGED <<dbVars, trigger, dispatch, used, rebuild, failures, lock, caller, left>>

\* The pass is over, or yields to a rebuild or to a caller.  The slot is given
\* back and then inFlight cleared, in one step here: who takes the slot in
\* between and what is dispatched do not depend on each other.  The goroutine has
\* still to look at the rebuild.  (At most one per scope is kept in that window.)
LeaveScope(c) ==
    /\ AtJob(c, "streams") /\ c \notin leaving
    /\ job[c].todo = << >> \/ Queued(c) \/ Waiting(c)
    /\ used' = used - 1
    /\ inFlight' = inFlight \ {c}
    /\ leaving' = leaving \cup {c}
    /\ job' = [job EXCEPT ![c] = NoJob]
    /\ UNCHANGED <<dbVars, trigger, dispatch, rebuild, failures, lock, caller, left>>

\* The deferred recheck and ping.
Recheck(c) ==
    /\ c \in leaving
    /\ leaving' = leaving \ {c}
    /\ trigger' = (trigger \/ Queued(c))
    /\ UNCHANGED <<dbVars, dispatch, inFlight, used, job, rebuild, failures, lock, caller,
                   left>>

\* The retry window of a failure ends.  For a job that is at its streams, which
\* keeps the time it had read before the first of them, it has not.
WindowEnds(s) ==
    /\ failures[s].head # 0 /\ ~ failures[s].over
    /\ job[ScopeOf[s]].pc \notin {"streams", "inject", "advance"}
    /\ failures' = [failures EXCEPT ![s].over = TRUE]
    /\ UNCHANGED <<dbVars, loopVars, job, rebuild, lock, caller, left>>

----------------------------------------------------------------------------
(* The callers.                                                            *)

\* Rebuild arms the slot of the scope, or joins the one that is armed or runs.
Rebuild(u, c, lookback) ==
    /\ caller[u].pc = "idle" /\ Spend("requests")
    /\ rebuild' = IF rebuild[c].state \in {"queued", "running"} THEN rebuild
                  ELSE [rebuild EXCEPT ![c] = [state |-> "queued", lookback |-> lookback]]
    /\ caller' = [caller EXCEPT ![u].pc = "ping"]
    /\ UNCHANGED <<dbVars, loopVars, job, failures, lock>>

PingAfterRebuild(u) ==
    /\ caller[u].pc = "ping"
    /\ caller' = [caller EXCEPT ![u] = IdleCaller]
    /\ trigger' = TRUE
    /\ UNCHANGED <<dbVars, dispatch, inFlight, used, leaving, job, rebuild, failures, lock,
                   left>>

\* InjectSession lists the streams of the session, by agent, and registers as a
\* waiter.
InjectSession(u, session) ==
    LET before(s, t) == Earlier(session, s, t)
    IN /\ caller[u].pc = "idle" /\ Spend("requests")
       /\ \E found \in Orders({s \in Range(session) : head[s] > 0}, before) :
            /\ found # << >>
            /\ caller' = [caller EXCEPT ![u] = [pc |-> "clear", todo |-> ListAll(found)]]
       /\ UNCHANGED <<dbVars, loopVars, job, rebuild, failures, lock>>

\* The stream's backoff is forgotten before the lock is waited for.
CallerClear(u) ==
    /\ caller[u].pc = "clear"
    /\ ClearFailure(HeadOf(caller[u].todo))
    /\ caller' = [caller EXCEPT ![u].pc = "inject"]
    /\ UNCHANGED <<dbVars, loopVars, job, rebuild, lock, left>>

CallerInject(u) ==
    LET x == HeadOf(caller[u].todo)
        c == ScopeOf[x.stream]
    IN /\ caller[u].pc = "inject" /\ lock[c] = Nobody
       /\ lock' = [lock EXCEPT ![c] = u]
       /\ runs' = [runs EXCEPT ![x.stream] = @ \cup {x.head}]
       /\ caller' = [caller EXCEPT ![u].pc = "advance"]
       /\ UNCHANGED <<head, age, cursor, seeded, auto, loopVars, job, rebuild, failures,
                      left>>

\* An error before the run has succeeded; the caller gets it.
CallerFails(u) ==
    /\ caller[u].pc = "inject"
    /\ caller' = [caller EXCEPT ![u] = IdleCaller]
    /\ UNCHANGED <<dbVars, loopVars, job, rebuild, failures, lock, left>>

CallerAdvance(u) ==
    LET x == HeadOf(caller[u].todo)
        rest == Tail(caller[u].todo)
    IN /\ caller[u].pc = "advance"
       /\ cursor' = [cursor EXCEPT ![x.stream] = Greatest(@, x.head)]
       /\ lock' = [lock EXCEPT ![ScopeOf[x.stream]] = Nobody]
       /\ caller' = [caller EXCEPT ![u] =
            IF rest = << >> THEN IdleCaller ELSE [pc |-> "clear", todo |-> rest]]
       /\ UNCHANGED <<head, age, seeded, runs, auto, loopVars, job, rebuild, failures,
                      left>>

CallerAdvanceFails(u) ==
    /\ caller[u].pc = "advance"
    /\ lock' = [lock EXCEPT ![ScopeOf[HeadOf(caller[u].todo).stream]] = Nobody]
    /\ caller' = [caller EXCEPT ![u] = IdleCaller]
    /\ UNCHANGED <<dbVars, loopVars, job, rebuild, failures, left>>

\* The process dies, or is stopped, and a new one starts.
Crash ==
    /\ Spend("crashes")
    /\ trigger' = FALSE /\ dispatch' = << >> /\ inFlight' = {} /\ used' = 0
    /\ job' = [c \in Scopes |-> NoJob] /\ leaving' = {}
    /\ rebuild' = [c \in Scopes |-> IdleRebuild]
    /\ failures' = [s \in Streams |-> NoFailure]
    /\ lock' = [c \in Scopes |-> Nobody]
    /\ caller' = [u \in Callers |-> IdleCaller]
    /\ UNCHANGED dbVars

----------------------------------------------------------------------------
JobStep(c) ==
    \/ StartJob(c) \/ RunRebuild(c) \/ FinishRebuild(c) \/ NextStream(c)
    \/ AdvanceCursor(c) \/ LeaveScope(c) \/ Recheck(c)
CallerStep(u) ==
    PingAfterRebuild(u) \/ CallerClear(u) \/ CallerInject(u) \/ CallerAdvance(u)

Next ==
    \/ \E s \in Streams : AppendEvent(s)
    \/ \E c \in Scopes : SetAutoInject(c)
    \/ \E woken, scanned \in BOOLEAN : Tick(woken, scanned)
    \/ Dispatch
    \/ \E c \in Scopes : AcquireSlot(c) \/ JobStep(c) \/ Inject(c) \/ InjectFails(c)
                         \/ AdvanceFails(c)
    \/ \E c \in Scopes, b \in BOOLEAN : FailRebuild(c, b)
    \/ \E s \in Streams : WindowEnds(s)
    \/ \E u \in Callers, c \in Asking, b \in Cutoffs : Rebuild(u, c, b)
    \/ \E u \in Callers, session \in Sessions : InjectSession(u, session)
    \/ \E u \in Callers : CallerStep(u) \/ CallerFails(u) \/ CallerAdvanceFails(u)
    \/ Crash

Spec == Init /\ [][Next]_vars

\* A step of the loop that changes anything is enabled.
LoopReady ==
    dispatch # << >> \/ (\E s \in Streams : Pending(s)) \/ \E c \in Scopes : Queued(c)

\* The goroutines run (the first conjunct is weak fairness of the loop, with
\* ENABLED spelled out); channels and mutexes serve their waiters in turn; a
\* scan, and an injection of a healthy scope, does not fail for ever; the
\* clock moves.  Nothing is assumed of the injections of other scopes but
\* that they end.
Fairness ==
    /\ []<>(~ LoopReady) \/ []<><<Dispatch \/ Tick(FALSE, TRUE)>>_vars
    /\ \A c \in Scopes :
        /\ SF_vars(AcquireSlot(c))
        /\ WF_vars(JobStep(c) \/ Inject(c) \/ InjectFails(c) \/ AdvanceFails(c)
                   \/ FailRebuild(c, FALSE))
    /\ \A c \in Healthy : SF_vars(Inject(c)) /\ SF_vars(AdvanceCursor(c))
    /\ \A s \in Streams : ScopeOf[s] \in Healthy => SF_vars(WindowEnds(s))
    /\ \A u \in Callers : WF_vars(CallerStep(u) \/ CallerFails(u) \/ CallerAdvanceFails(u))

FairSpec == Spec /\ Fairness
----------------------------------------------------------------------------
JobPcs == {"none", "slot", "start", "rebuild", "rebuilt", "unbuilt", "streams", "inject",
           "advance"}

\* The state has its type; slots are counted right and a scope is in flight
\* exactly while it has a job; the lock of a scope is held exactly by whoever
\* has injected there and not yet advanced the cursor.
TypeOK ==
    /\ head \in [Streams -> Nat] /\ seeded \in [Streams -> Nat]
    /\ \A s \in Streams : cursor[s] \in 0..head[s] /\ runs[s] \subseteq 1..head[s]
    /\ trigger \in BOOLEAN /\ leaving \subseteq Scopes
    /\ \A c \in Scopes :
        /\ job[c].pc \in JobPcs
        /\ c \in inFlight <=> job[c].pc # "none"
        /\ job[c].pc \in {"inject", "advance"} => job[c].todo # << >>
        /\ lock[c] = c <=> AtJob(c, "advance")
    /\ used = Cardinality({c \in Scopes : job[c].pc \notin {"none", "slot"}}) /\ used <= Slots
    /\ \A u \in Callers :
        caller[u].pc = "advance" <=> \E c \in Scopes : lock[c] = u

\* A cursor stands only where the present wiki has a succeeded run, or where
\* the lookback rebuild put it: a rebuild never slips between the run of an
\* injection and its cursor, so no session is lost from the rebuilt wiki.
CursorCovered ==
    TypeOK /\ \A s \in Streams : cursor[s] > 0 => cursor[s] = seeded[s] \/ cursor[s] \in runs[s]

\* A queued rebuild always has somebody left to notice it without waiting for
\* the ticker: a wakeup in the channel or about to be sent, a job to be
\* dispatched, or a job that will look again after it has left.
WakeupPending ==
    \A c \in Scopes : Queued(c) =>
        \/ trigger \/ c \in inFlight \/ c \in leaving
        \/ \E u \in Callers : caller[u].pc = "ping"
        \/ \E i \in DOMAIN dispatch : dispatch[i].scope = c

\* A queued rebuild is run (or lost with the process), even while the jobs of
\* other scopes hold the slots.
RebuildRuns == \A c \in Asking : Queued(c) ~> ~ Queued(c)

\* What is pending in a healthy scope gets injected, whatever happens in the
\* others: streams that fail for ever there neither fill the scan nor keep
\* the slots.  Each scope has one row in the scan before any has a second one,
\* so only as many failing scopes as a scan has rows could fill it for ever.
EventuallyInjected ==
    Cardinality(Scopes \ Healthy) < TotalCap =>
        \A s \in Streams : ScopeOf[s] \in Healthy => (Pending(s) ~> ~ Pending(s))
=============================================================================
