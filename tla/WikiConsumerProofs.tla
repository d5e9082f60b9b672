------------------------- MODULE WikiConsumerProofs -------------------------
(***************************************************************************)
(* Proofs about WikiConsumer, for any number of scopes, streams, callers,  *)
(* slots, quotas and scenarios.                                            *)
(***************************************************************************)
EXTENDS WikiConsumer, CommonLemmas, FiniteSetTheorems, TLAPS

-----------------------------------------------------------------------------
(* The inductive invariant *)

Row == [stream : Streams, head : Nat]
JobRecord == [pc : JobPcs, todo : Seq(Row)]
CallerRecord == [pc : {"idle", "ping", "clear", "inject", "advance"}, todo : Seq(Row)]
RebuildRecord == [state : {"idle", "queued", "running", "failed"}, lookback : BOOLEAN]

Types ==
    /\ head \in [Streams -> Nat] /\ seeded \in [Streams -> Nat]
    /\ cursor \in [Streams -> Nat] /\ runs \in [Streams -> SUBSET Nat]
    /\ trigger \in BOOLEAN /\ inFlight \subseteq Scopes /\ leaving \subseteq Scopes
    /\ dispatch \in Seq([scope : Scopes, streams : Seq(Row)])
    /\ job \in [Scopes -> JobRecord]
    /\ caller \in [Callers -> CallerRecord]
    /\ rebuild \in [Scopes -> RebuildRecord]
    /\ lock \in [Scopes -> Scopes \cup Callers \cup {Nobody}]

\* A listed row names a head that the stream has had.
Current(x) == 1 <= x.head /\ x.head <= head[x.stream]

Bounded ==
    \A s \in Streams : cursor[s] <= head[s] /\ runs[s] \subseteq 1..head[s]

DispatchOK ==
    \A d \in Range(dispatch) : \A x \in Range(d.streams) :
        Current(x) /\ ScopeOf[x.stream] = d.scope

\* A job works on rows of its scope; between a succeeded run and the cursor it
\* has the lock and the run is in the wiki.
JobOK(c) ==
    /\ job[c].pc \in {"inject", "advance"} => job[c].todo # << >>
    /\ \A x \in Range(job[c].todo) : Current(x) /\ ScopeOf[x.stream] = c
    /\ job[c].pc = "advance" =>
          /\ lock[c] = c
          /\ HeadOf(job[c].todo).head \in runs[HeadOf(job[c].todo).stream]

CallerScope(u) == ScopeOf[HeadOf(caller[u].todo).stream]

\* The same for a call of InjectSession.
CallerOK(u) ==
    /\ caller[u].pc \in {"clear", "inject", "advance"} => caller[u].todo # << >>
    /\ \A x \in Range(caller[u].todo) : Current(x)
    /\ caller[u].pc = "advance" =>
          /\ lock[CallerScope(u)] = u
          /\ HeadOf(caller[u].todo).head \in runs[HeadOf(caller[u].todo).stream]

\* Whoever holds a lock is between a succeeded run of the scope and its cursor.
LockOK(c) ==
    /\ lock[c] \in Scopes => lock[c] = c /\ job[c].pc = "advance"
    /\ lock[c] \in Callers => caller[lock[c]].pc = "advance" /\ CallerScope(lock[c]) = c

Covered ==
    \A s \in Streams : cursor[s] > 0 => cursor[s] = seeded[s] \/ cursor[s] \in runs[s]

DataInv ==
    /\ Types /\ Bounded /\ Covered /\ DispatchOK
    /\ \A c \in Scopes : JobOK(c) /\ LockOK(c)
    /\ \A u \in Callers : CallerOK(u)

\* The jobs that hold a slot.
Running == {c \in Scopes : job[c].pc \notin {"none", "slot"}}

\* The slots are counted right, a scope has at most one job, and a queued
\* rebuild has somebody to notice it.
LoopInv ==
    /\ \A c \in Scopes : c \in inFlight <=> job[c].pc # "none"
    /\ IsFiniteSet(Running) /\ used = Cardinality(Running) /\ used <= Slots
    /\ WakeupPending

ConsumerInv == DataInv /\ LoopInv

-----------------------------------------------------------------------------
\* Nothing is listed, injected or locked at the start.
LEMMA InitInv == Init => ConsumerInv
<1> SUFFICES ASSUME Init PROVE ConsumerInv
  OBVIOUS
<1>1. /\ \A c \in Scopes : job[c] = NoJob /\ lock[c] = Nobody /\ rebuild[c] = IdleRebuild
      /\ \A u \in Callers : caller[u] = IdleCaller
      /\ dispatch = << >>
  BY DEF Init
<1>2. Types
  <2>1. /\ NoJob \in JobRecord /\ IdleCaller \in CallerRecord /\ IdleRebuild \in RebuildRecord
    BY DEF NoJob, IdleCaller, IdleRebuild, JobRecord, CallerRecord, RebuildRecord, JobPcs
  <2>2. head \in [Streams -> Nat]
    BY DEF Init
  <2>3. dispatch \in Seq([scope : Scopes, streams : Seq(Row)])
    BY <1>1
  <2>4. /\ job \in [Scopes -> JobRecord] /\ caller \in [Callers -> CallerRecord]
        /\ rebuild \in [Scopes -> RebuildRecord]
    BY <2>1 DEF Init
  <2> QED
    BY <2>2, <2>3, <2>4 DEF Init, Types
<1>3. Bounded /\ Covered /\ DispatchOK
  BY <1>1, RangeEmpty DEF Init, Bounded, Covered, DispatchOK
<1>4. ASSUME NEW c \in Scopes PROVE JobOK(c) /\ LockOK(c)
  BY <1>1, RangeEmpty, WikiAssumption DEF JobOK, LockOK, NoJob
<1>5. ASSUME NEW u \in Callers PROVE CallerOK(u)
  BY <1>1, RangeEmpty DEF CallerOK, IdleCaller
<1>6. Running = {}
  BY <1>1 DEF Running, NoJob
<1>7. LoopInv
  BY <1>1, <1>6, FS_EmptySet, WikiAssumption
     DEF Init, LoopInv, WakeupPending, NoJob, IdleRebuild, Queued
<1> QED
  BY <1>2, <1>3, <1>4, <1>5, <1>7 DEF ConsumerInv, DataInv

-----------------------------------------------------------------------------
(* Steps that touch neither the tables nor the locks *)

\* A job or a call that goes on with rows it had, and neither enters nor leaves
\* the section between a run and the cursor.
JobMoves(c) ==
    /\ Range(job'[c].todo) \subseteq Range(job[c].todo)
    /\ job'[c].pc = "inject" => job'[c].todo # << >>
    /\ job'[c].pc = "advance" \/ job[c].pc = "advance" => job'[c] = job[c]

CallerMoves(u) ==
    /\ Range(caller'[u].todo) \subseteq Range(caller[u].todo)
    /\ caller'[u].pc \in {"clear", "inject"} => caller'[u].todo # << >>
    /\ caller'[u].pc = "advance" \/ caller[u].pc = "advance" => caller'[u] = caller[u]

\* Such steps keep the data part of the invariant.
LEMMA DataKept ==
    ASSUME DataInv, UNCHANGED <<head, cursor, seeded, runs, lock>>, Types', DispatchOK',
           \A c \in Scopes : JobMoves(c),
           \A u \in Callers : CallerMoves(u)
    PROVE  DataInv'
<1>1. Bounded' /\ Covered'
  BY DEF DataInv, Bounded, Covered
<1>2. ASSUME NEW c \in Scopes PROVE JobOK(c)'
  BY DEF DataInv, JobOK, JobMoves, Current
<1>3. ASSUME NEW u \in Callers PROVE CallerOK(u)'
  BY DEF DataInv, CallerOK, CallerMoves, Current, CallerScope
<1>4. ASSUME NEW c \in Scopes PROVE LockOK(c)'
  BY DEF DataInv, LockOK, JobMoves, CallerMoves, CallerScope
<1> QED
  BY <1>1, <1>2, <1>3, <1>4 DEF DataInv

\* What stays is not disturbed.
LEMMA MovesNot ==
    /\ \A c \in Scopes : job'[c] = job[c] /\ JobOK(c) => JobMoves(c)
    /\ \A u \in Callers : caller'[u] = caller[u] /\ CallerOK(u) => CallerMoves(u)
    /\ dispatch' = dispatch /\ head' = head /\ DispatchOK => DispatchOK'
  BY DEF JobMoves, CallerMoves, DispatchOK, Current, JobOK, CallerOK

\* A step that starts and ends no job and takes no slot.
LEMMA LoopKept ==
    ASSUME LoopInv, UNCHANGED <<inFlight, used>>, WakeupPending',
           \A c \in Scopes : /\ job'[c].pc = "none" <=> job[c].pc = "none"
                             /\ job'[c].pc = "slot" <=> job[c].pc = "slot"
    PROVE  LoopInv'
<1>1. Running' = Running
  BY DEF Running
<1> QED
  BY <1>1 DEF LoopInv

\* The wakeup of a rebuild is not forgotten while nobody takes it.
LEMMA WakeupKept ==
    ASSUME WakeupPending, trigger => trigger', inFlight \subseteq inFlight',
           leaving \subseteq leaving', dispatch' = dispatch,
           \A u \in Callers : caller[u].pc = "ping" => caller'[u].pc = "ping" \/ trigger',
           \A c \in Scopes : Queued(c)' => Queued(c) \/ \E u \in Callers : caller'[u].pc = "ping"
    PROVE  WakeupPending'
  BY Zenon DEF WakeupPending

\* The invariant looks at every variable only.
LEMMA StutterInv == ASSUME ConsumerInv, UNCHANGED vars PROVE ConsumerInv'
<1>1. Types'
  BY DEF ConsumerInv, DataInv, Types, vars
<1>2. /\ \A c \in Scopes : JobMoves(c)
      /\ \A u \in Callers : CallerMoves(u)
      /\ DispatchOK'
  BY MovesNot DEF ConsumerInv, DataInv, vars
<1>3. DataInv'
  BY <1>1, <1>2, DataKept DEF ConsumerInv, vars
<1>4. WakeupPending'
  BY DEF ConsumerInv, LoopInv, WakeupPending, Queued, vars
<1>5. LoopInv'
  BY <1>4, LoopKept DEF ConsumerInv, vars
<1> QED
  BY <1>3, <1>5 DEF ConsumerInv

\* The record of a job that a step replaces.
LEMMA JobStepType ==
    ASSUME DataInv, NEW c \in Scopes, NEW new \in JobRecord, job' = [job EXCEPT ![c] = new]
    PROVE  /\ job' \in [Scopes -> JobRecord] /\ job'[c] = new
           /\ \A d \in Scopes : d # c => job'[d] = job[d]
  BY DEF DataInv, Types

\* What Goto does to a job.
LEMMA GotoType ==
    ASSUME DataInv, NEW c \in Scopes, NEW pc \in JobPcs, Goto(c, pc)
    PROVE  /\ job' \in [Scopes -> JobRecord]
           /\ job'[c].pc = pc /\ job'[c].todo = job[c].todo
           /\ \A d \in Scopes : d # c => job'[d] = job[d]
<1>1. job[c] \in JobRecord /\ job' = [job EXCEPT ![c] = [job[c] EXCEPT !.pc = pc]]
  BY DEF DataInv, Types, Goto
<1>2. /\ [job[c] EXCEPT !.pc = pc] \in JobRecord
      /\ [job[c] EXCEPT !.pc = pc].pc = pc /\ [job[c] EXCEPT !.pc = pc].todo = job[c].todo
  BY <1>1 DEF JobRecord
<1> QED
  BY <1>1, <1>2, JobStepType

\* A job goes on to its next stream.
LEMMA NextTodoType ==
    ASSUME DataInv, NEW c \in Scopes, job[c].todo # << >>,
           job' = [job EXCEPT ![c].pc = "streams", ![c].todo = Tail(@)]
    PROVE  /\ job' \in [Scopes -> JobRecord]
           /\ job'[c].pc = "streams" /\ Range(job'[c].todo) \subseteq Range(job[c].todo)
           /\ \A d \in Scopes : d # c => job'[d] = job[d]
<1> DEFINE new == [job[c] EXCEPT !.pc = "streams", !.todo = Tail(job[c].todo)]
<1>1. job[c] \in JobRecord /\ job[c].todo \in Seq(Row)
  BY DEF DataInv, Types, JobRecord
<1>2. Tail(job[c].todo) \in Seq(Row) /\ Range(Tail(job[c].todo)) \subseteq Range(job[c].todo)
  BY <1>1, RangeSeq
<1>3. new \in JobRecord /\ new.pc = "streams" /\ new.todo = Tail(job[c].todo)
  BY <1>1, <1>2 DEF JobRecord, JobPcs
<1>4. job' = [job EXCEPT ![c] = new]
  BY DEF DataInv, Types
<1> QED
  BY <1>2, <1>3, <1>4, JobStepType

\* A step of one job that keeps the data part.
LEMMA OneJobMoves ==
    ASSUME DataInv, NEW c \in Scopes, job' \in [Scopes -> JobRecord], JobMoves(c),
           \A d \in Scopes : d # c => job'[d] = job[d],
           UNCHANGED <<head, cursor, seeded, runs, lock, dispatch, caller>>,
           trigger' \in BOOLEAN, inFlight' \subseteq Scopes, leaving' \subseteq Scopes,
           rebuild' \in [Scopes -> RebuildRecord]
    PROVE  DataInv'
<1>1. Types'
  BY DEF DataInv, Types
<1>2. /\ \A d \in Scopes : JobMoves(d)
      /\ \A u \in Callers : CallerMoves(u)
      /\ DispatchOK'
  BY MovesNot DEF DataInv
<1> QED
  BY <1>1, <1>2, DataKept

\* The settings, the clock, and the recheck of a job that has left.
LEMMA BackgroundInv ==
    ASSUME ConsumerInv,
           \/ \E c \in Scopes : SetAutoInject(c) \/ Recheck(c)
           \/ \E s \in Streams : WindowEnds(s)
    PROVE  ConsumerInv'
<1>1. /\ UNCHANGED <<head, cursor, seeded, runs, lock, dispatch, caller, job, rebuild, inFlight,
                     used>>
      /\ trigger' \in BOOLEAN /\ leaving' \subseteq Scopes
  BY DEF ConsumerInv, DataInv, Types, SetAutoInject, Recheck, WindowEnds, dbVars, loopVars
<1>2. Types'
  BY <1>1 DEF ConsumerInv, DataInv, Types
<1>3. /\ \A c \in Scopes : JobMoves(c)
      /\ \A u \in Callers : CallerMoves(u)
      /\ DispatchOK'
  BY <1>1, MovesNot DEF ConsumerInv, DataInv
<1>4. DataInv'
  BY <1>1, <1>2, <1>3, DataKept DEF ConsumerInv
<1>5. WakeupPending'
  <2>1. CASE UNCHANGED <<trigger, leaving>>
    BY <1>1, <2>1 DEF ConsumerInv, LoopInv, WakeupPending, Queued
  <2>2. ASSUME NEW c \in Scopes, Recheck(c) PROVE WakeupPending'
    <3>1. leaving' = leaving \ {c} /\ trigger' = (trigger \/ Queued(c))
      BY <2>2 DEF Recheck
    <3>2. ASSUME NEW d \in Scopes, Queued(d)' PROVE Queued(d)
      BY <1>1, <3>2 DEF Queued
    <3> QED
      BY <1>1, <3>1, <3>2, Zenon DEF ConsumerInv, LoopInv, WakeupPending
  <2> QED
    BY <2>1, <2>2 DEF SetAutoInject, WindowEnds, loopVars
<1>6. LoopInv'
  BY <1>1, <1>5, LoopKept DEF ConsumerInv
<1> QED
  BY <1>4, <1>6 DEF ConsumerInv

\* A job takes a slot that is free.
LEMMA AcquireSlotInv ==
    ASSUME ConsumerInv, NEW c \in Scopes, AcquireSlot(c)
    PROVE  ConsumerInv'
<1>1. /\ job[c].pc = "slot" /\ used < Slots /\ used' = used + 1
      /\ UNCHANGED <<head, cursor, seeded, runs, lock, dispatch, caller, rebuild, inFlight,
                     trigger, leaving>>
  BY DEF AcquireSlot, AtJob, dbVars
<1>2. /\ job' \in [Scopes -> JobRecord] /\ job'[c].pc = "start" /\ job'[c].todo = job[c].todo
      /\ \A d \in Scopes : d # c => job'[d] = job[d]
  BY GotoType DEF AcquireSlot, ConsumerInv, JobPcs
<1>3. JobMoves(c)
  BY <1>1, <1>2 DEF JobMoves
<1>4. DataInv'
  BY <1>1, <1>2, <1>3, OneJobMoves DEF ConsumerInv, DataInv, Types
<1>5. Running' = Running \cup {c} /\ c \notin Running
  BY <1>1, <1>2 DEF Running
<1>6. IsFiniteSet(Running') /\ used' = Cardinality(Running') /\ used' <= Slots
  BY <1>1, <1>5, FS_AddElement, FS_CardinalityType, WikiAssumption DEF ConsumerInv, LoopInv
<1>7. WakeupPending'
  BY <1>1, WakeupKept DEF ConsumerInv, LoopInv, Queued
<1>8. \A d \in Scopes : d \in inFlight' <=> job'[d].pc # "none"
  BY <1>1, <1>2 DEF ConsumerInv, LoopInv
<1> QED
  BY <1>4, <1>6, <1>7, <1>8 DEF ConsumerInv, LoopInv

\* A job takes a queued rebuild, or its first stream; a rebuild fails before
\* anything is committed, or ends; the next stream is taken or skipped; an
\* injection fails.
LEMMA JobMovesInv ==
    ASSUME ConsumerInv, NEW c \in Scopes,
           \/ StartJob(c) \/ FailRebuild(c, FALSE) \/ FinishRebuild(c) \/ NextStream(c)
           \/ InjectFails(c)
    PROVE  ConsumerInv'
<1>1. /\ UNCHANGED <<head, cursor, seeded, runs, lock, dispatch, caller, inFlight, used, trigger,
                     leaving>>
      /\ rebuild' \in [Scopes -> RebuildRecord]
      /\ \A d \in Scopes : Queued(d)' => Queued(d)
  <2>1. rebuild \in [Scopes -> RebuildRecord]
    BY DEF ConsumerInv, DataInv, Types
  <2>2. CASE UNCHANGED rebuild
    BY <2>1, <2>2
       DEF StartJob, FailRebuild, FinishRebuild, NextStream, InjectFails, dbVars, loopVars, Queued
  <2>3. CASE StartJob(c) /\ rebuild' = [rebuild EXCEPT ![c].state = "running"]
    BY <2>1, <2>3 DEF StartJob, dbVars, loopVars, Queued, RebuildRecord
  <2>4. CASE FinishRebuild(c)
    BY <2>1, <2>4 DEF FinishRebuild, dbVars, loopVars, Queued, RebuildRecord
  <2> QED
    BY <2>2, <2>3, <2>4 DEF StartJob, FailRebuild, NextStream, InjectFails
<1>2. /\ job' \in [Scopes -> JobRecord]
      /\ job[c].pc \in JobPcs \ {"none", "slot", "advance"}
      /\ job'[c].pc \in JobPcs \ {"none", "slot", "advance"}
      /\ Range(job'[c].todo) \subseteq Range(job[c].todo)
      /\ job'[c].pc = "inject" => job'[c].todo # << >>
      /\ \A d \in Scopes : d # c => job'[d] = job[d]
  <2>0. DataInv
    BY DEF ConsumerInv
  <2>1. CASE StartJob(c)
    <3>1. \E pc \in {"rebuild", "streams"} : Goto(c, pc)
      BY <2>1 DEF StartJob
    <3> QED
      BY <2>0, <2>1, <3>1, GotoType DEF StartJob, AtJob, JobPcs
  <2>2. CASE FailRebuild(c, FALSE)
    BY <2>0, <2>2, GotoType DEF FailRebuild, AtJob, JobPcs
  <2>3. CASE FinishRebuild(c)
    BY <2>0, <2>3, GotoType DEF FinishRebuild, AtJob, JobPcs
  <2>4. CASE NextStream(c)
    <3>1. job[c] \in JobRecord /\ job[c].todo # << >> /\ job[c].pc = "streams"
      BY <2>0, <2>4 DEF NextStream, AtJob, DataInv, Types
    <3>2. /\ Tail(job[c].todo) \in Seq(Row)
          /\ Range(Tail(job[c].todo)) \subseteq Range(job[c].todo)
      BY <3>1, RangeSeq DEF JobRecord
    <3>3. \/ job' = [job EXCEPT ![c] = [job[c] EXCEPT !.todo = Tail(job[c].todo)]]
          \/ job' = [job EXCEPT ![c] = [job[c] EXCEPT !.pc = "inject"]]
      BY <2>0, <2>4 DEF NextStream, Goto, DataInv, Types
    <3>4. /\ [job[c] EXCEPT !.todo = Tail(job[c].todo)] \in JobRecord
          /\ [job[c] EXCEPT !.pc = "inject"] \in JobRecord
          /\ [job[c] EXCEPT !.todo = Tail(job[c].todo)].todo = Tail(job[c].todo)
          /\ [job[c] EXCEPT !.todo = Tail(job[c].todo)].pc = "streams"
          /\ [job[c] EXCEPT !.pc = "inject"].pc = "inject"
          /\ [job[c] EXCEPT !.pc = "inject"].todo = job[c].todo
      BY <3>1, <3>2 DEF JobRecord, JobPcs
    <3>5. CASE job' = [job EXCEPT ![c] = [job[c] EXCEPT !.todo = Tail(job[c].todo)]]
      BY <2>0, <3>1, <3>2, <3>4, <3>5, JobStepType DEF JobPcs
    <3>6. CASE job' = [job EXCEPT ![c] = [job[c] EXCEPT !.pc = "inject"]]
      BY <2>0, <3>1, <3>2, <3>4, <3>6, JobStepType DEF JobPcs
    <3> QED
      BY <3>3, <3>5, <3>6
  <2>5. CASE InjectFails(c)
    <3>1. job[c].pc = "inject" /\ job[c].todo # << >>
      BY <2>0, <2>5 DEF InjectFails, AtJob, DataInv, JobOK
    <3> QED
      BY <2>0, <2>5, <3>1, NextTodoType DEF InjectFails, JobPcs
  <2> QED
    BY <2>1, <2>2, <2>3, <2>4, <2>5
<1>3. JobMoves(c)
  BY <1>2 DEF JobMoves
<1>4. DataInv'
  BY <1>1, <1>2, <1>3, OneJobMoves DEF ConsumerInv, DataInv, Types
<1>5. WakeupPending'
  BY <1>1, WakeupKept DEF ConsumerInv, LoopInv
<1>6. LoopInv'
  BY <1>1, <1>2, <1>5, LoopKept DEF ConsumerInv
<1> QED
  BY <1>4, <1>6 DEF ConsumerInv

\* A job leaves: its slot is free, and it will look at the rebuild once more.
LEMMA LeaveScopeInv ==
    ASSUME ConsumerInv, NEW c \in Scopes, LeaveScope(c)
    PROVE  ConsumerInv'
<1>1. /\ job[c].pc = "streams" /\ used' = used - 1 /\ inFlight' = inFlight \ {c}
      /\ leaving' = leaving \cup {c} /\ job' = [job EXCEPT ![c] = NoJob]
      /\ UNCHANGED <<head, cursor, seeded, runs, lock, dispatch, caller, rebuild, trigger>>
  BY DEF LeaveScope, AtJob, dbVars
<1>2. /\ NoJob \in JobRecord /\ NoJob.pc = "none" /\ NoJob.todo = << >>
  BY DEF NoJob, JobRecord, JobPcs
<1>3. /\ job' \in [Scopes -> JobRecord] /\ job'[c] = NoJob
      /\ \A d \in Scopes : d # c => job'[d] = job[d]
  BY <1>1, <1>2, JobStepType DEF ConsumerInv
<1>4. JobMoves(c)
  BY <1>1, <1>2, <1>3, RangeEmpty DEF JobMoves
<1>5. DataInv'
  BY <1>1, <1>3, <1>4, OneJobMoves DEF ConsumerInv, DataInv, Types
<1>6. Running' = Running \ {c} /\ c \in Running
  BY <1>1, <1>2, <1>3 DEF Running
<1>7. IsFiniteSet(Running') /\ used' = Cardinality(Running') /\ used' <= Slots
  BY <1>1, <1>6, FS_RemoveElement, FS_CardinalityType, WikiAssumption DEF ConsumerInv, LoopInv
<1>8. WakeupPending'
  <2>1. ASSUME NEW d \in Scopes, Queued(d)' PROVE Queued(d)
    BY <1>1, <2>1 DEF Queued
  <2> QED
    BY <1>1, <2>1, Zenon DEF ConsumerInv, LoopInv, WakeupPending
<1>9. \A d \in Scopes : d \in inFlight' <=> job'[d].pc # "none"
  BY <1>1, <1>2, <1>3 DEF ConsumerInv, LoopInv
<1> QED
  BY <1>5, <1>7, <1>8, <1>9 DEF ConsumerInv, LoopInv

\* A user asks for a rebuild, pings the loop, clears a backoff or is told of an
\* error.
LEMMA CallerMovesInv ==
    ASSUME ConsumerInv, NEW u \in Callers,
           \/ \E c \in Asking, b \in Cutoffs : Rebuild(u, c, b)
           \/ PingAfterRebuild(u) \/ CallerClear(u) \/ CallerFails(u)
    PROVE  ConsumerInv'
<1>1. /\ UNCHANGED <<head, cursor, seeded, runs, lock, dispatch, job, inFlight, used, leaving>>
      /\ trigger' \in BOOLEAN /\ (trigger => trigger')
  BY DEF ConsumerInv, DataInv, Types, Rebuild, PingAfterRebuild, CallerClear, CallerFails,
         dbVars, loopVars
<1>2. /\ caller' \in [Callers -> CallerRecord]
      /\ caller[u].pc # "advance" /\ caller'[u].pc \in {"idle", "ping", "inject"}
      /\ caller'[u].pc = "inject" => caller'[u].todo # << >>
      /\ Range(caller'[u].todo) \subseteq Range(caller[u].todo)
      /\ \A v \in Callers : v # u => caller'[v] = caller[v]
  <2>0. caller \in [Callers -> CallerRecord] /\ caller[u] \in CallerRecord
    BY DEF ConsumerInv, DataInv, Types
  <2>1. CASE \E c \in Asking, b \in Cutoffs : Rebuild(u, c, b)
    <3>1. caller[u].pc = "idle" /\ caller' = [caller EXCEPT ![u] = [caller[u] EXCEPT !.pc = "ping"]]
      BY <2>0, <2>1 DEF Rebuild
    <3>2. /\ [caller[u] EXCEPT !.pc = "ping"] \in CallerRecord
          /\ [caller[u] EXCEPT !.pc = "ping"].pc = "ping"
          /\ [caller[u] EXCEPT !.pc = "ping"].todo = caller[u].todo
      BY <2>0 DEF CallerRecord
    <3> QED
      BY <2>0, <3>1, <3>2
  <2>2. CASE PingAfterRebuild(u) \/ CallerFails(u)
    <3>1. caller[u].pc \in {"ping", "inject"} /\ caller' = [caller EXCEPT ![u] = IdleCaller]
      BY <2>2 DEF PingAfterRebuild, CallerFails
    <3>2. IdleCaller \in CallerRecord /\ IdleCaller.pc = "idle" /\ IdleCaller.todo = << >>
      BY DEF IdleCaller, CallerRecord
    <3> QED
      BY <2>0, <3>1, <3>2, RangeEmpty
  <2>3. CASE CallerClear(u)
    <3>1. /\ caller[u].pc = "clear" /\ caller[u].todo # << >>
          /\ caller' = [caller EXCEPT ![u] = [caller[u] EXCEPT !.pc = "inject"]]
      BY <2>0, <2>3 DEF CallerClear, ConsumerInv, DataInv, CallerOK
    <3>2. /\ [caller[u] EXCEPT !.pc = "inject"] \in CallerRecord
          /\ [caller[u] EXCEPT !.pc = "inject"].pc = "inject"
          /\ [caller[u] EXCEPT !.pc = "inject"].todo = caller[u].todo
      BY <2>0 DEF CallerRecord
    <3> QED
      BY <2>0, <3>1, <3>2
  <2> QED
    BY <2>1, <2>2, <2>3
<1>3. /\ rebuild' \in [Scopes -> RebuildRecord]
      /\ \A d \in Scopes : Queued(d)' => Queued(d) \/ \E v \in Callers : caller'[v].pc = "ping"
  <2>0. rebuild \in [Scopes -> RebuildRecord]
    BY DEF ConsumerInv, DataInv, Types
  <2>1. ASSUME NEW c \in Asking, NEW b \in Cutoffs, Rebuild(u, c, b)
        PROVE  rebuild' \in [Scopes -> RebuildRecord] /\ caller'[u].pc = "ping"
    <3>1. [state |-> "queued", lookback |-> b] \in RebuildRecord
      BY WikiAssumption DEF RebuildRecord
    <3>2. rebuild' \in [Scopes -> RebuildRecord]
      BY <2>0, <2>1, <3>1 DEF Rebuild
    <3>3. caller[u] \in CallerRecord /\ caller' = [caller EXCEPT ![u].pc = "ping"]
      BY <2>1 DEF Rebuild, ConsumerInv, DataInv, Types
    <3> QED
      BY <3>2, <3>3 DEF CallerRecord, ConsumerInv, DataInv, Types
  <2>2. CASE PingAfterRebuild(u) \/ CallerClear(u) \/ CallerFails(u)
    BY <2>0, <2>2 DEF PingAfterRebuild, CallerClear, CallerFails, Queued
  <2> QED
    BY <2>1, <2>2
<1>4. CallerMoves(u)
  BY <1>2 DEF CallerMoves
<1>5. Types'
  BY <1>1, <1>2, <1>3 DEF ConsumerInv, DataInv, Types
<1>6. /\ \A c \in Scopes : JobMoves(c)
      /\ \A v \in Callers : CallerMoves(v)
      /\ DispatchOK'
  BY <1>1, <1>2, <1>4, MovesNot DEF ConsumerInv, DataInv
<1>7. DataInv'
  BY <1>1, <1>5, <1>6, DataKept DEF ConsumerInv
<1>8. \A v \in Callers : caller[v].pc = "ping" => caller'[v].pc = "ping" \/ trigger'
  <2>1. caller[u].pc = "ping" => trigger'
    BY DEF Rebuild, PingAfterRebuild, CallerClear, CallerFails
  <2> QED
    BY <1>2, <2>1
<1>9. WakeupPending'
  BY <1>1, <1>3, <1>8, WakeupKept DEF ConsumerInv, LoopInv
<1>10. LoopInv'
  BY <1>1, <1>9, LoopKept DEF ConsumerInv
<1> QED
  BY <1>7, <1>10 DEF ConsumerInv

-----------------------------------------------------------------------------
(* The scan and the jobs it makes *)

\* What is listed is the head of the stream at that moment.
LEMMA ListAllRows ==
    ASSUME DataInv, NEW S \in SUBSET Streams, NEW q \in Seq(S), \A s \in S : head[s] >= 1
    PROVE  /\ ListAll(q) \in Seq(Row)
           /\ \A x \in Range(ListAll(q)) : Current(x) /\ x.stream \in S
           /\ q # << >> => ListAll(q) # << >>
<1>1. head \in [Streams -> Nat] /\ DOMAIN q = 1..Len(q) /\ Len(q) \in Nat
      /\ \A i \in 1..Len(q) : q[i] \in S
  BY DEF DataInv, Types
<1>2. ListAll(q) = [i \in 1..Len(q) |-> [stream |-> q[i], head |-> head[q[i]]]]
  BY <1>1 DEF ListAll, Listed
<1>3. \A i \in 1..Len(q) : [stream |-> q[i], head |-> head[q[i]]] \in Row
  BY <1>1 DEF Row
<1>4. ListAll(q) \in Seq(Row)
  BY <1>1, <1>2, <1>3
<1>5. ASSUME NEW x \in Range(ListAll(q)) PROVE Current(x) /\ x.stream \in S
  <2>1. PICK i \in 1..Len(q) : x = [stream |-> q[i], head |-> head[q[i]]]
    BY <1>1, <1>2 DEF Range
  <2> QED
    BY <1>1, <2>1 DEF Current
<1>6. q # << >> => ListAll(q) # << >>
  BY <1>1, <1>2, SMTT(30)
<1> QED
  BY <1>4, <1>5, <1>6

\* The jobs of a tick: rows of their own scope, and a job for every rebuild.
LEMMA BuildScopeJobsType ==
    ASSUME DataInv, NEW S \in SUBSET Streams, \A s \in S : head[s] >= 1,
           NEW jobs \in BuildScopeJobs(S)
    PROVE  /\ jobs \in Seq([scope : Scopes, streams : Seq(Row)])
           /\ \A d \in Range(jobs) : \A x \in Range(d.streams) :
                 Current(x) /\ ScopeOf[x.stream] = d.scope
           /\ \A c \in Scopes : Queued(c) => \E i \in DOMAIN jobs : jobs[i].scope = c
<1> DEFINE mine(c) == OfScope(S, c)
           scopes == JobScopes(S)
           N == Cardinality(scopes)
<1>1. PICK order \in ScopeOrders(S), list \in ScopeLists(S) :
         jobs = [i \in DOMAIN order |->
                    [scope |-> order[i], streams |-> ListAll(list[order[i]])]]
  BY DEF BuildScopeJobs
<1>2. /\ N \in Nat
      /\ \A c \in scopes : mine(c) \in SUBSET Streams /\ Cardinality(mine(c)) \in Nat
  <2>1. IsFiniteSet(scopes)
    BY FS_Subset, WikiAssumption DEF JobScopes
  <2>2. ASSUME NEW c \in scopes PROVE IsFiniteSet(mine(c)) /\ mine(c) \in SUBSET Streams
    BY FS_Subset, WikiAssumption DEF OfScope
  <2> QED
    BY <2>1, <2>2, FS_CardinalityType
<1>3. order \in [1..N -> scopes] /\ Range(order) = scopes
  BY <1>1 DEF ScopeOrders, Orders
<1>4. \A c \in scopes : list[c] \in [1..Cardinality(mine(c)) -> mine(c)]
  BY <1>1 DEF ScopeLists, Orders
<1>5. scopes \subseteq Scopes /\ \A c \in scopes : \A s \in mine(c) : ScopeOf[s] = c /\ head[s] >= 1
  BY DEF JobScopes, OfScope
<1>6. \A c \in Scopes : Queued(c) => c \in scopes
  BY DEF JobScopes
<1> HIDE DEF mine, scopes, N
<1>7. ASSUME NEW c \in scopes
      PROVE  /\ ListAll(list[c]) \in Seq(Row)
             /\ \A x \in Range(ListAll(list[c])) : Current(x) /\ ScopeOf[x.stream] = c
  <2>1. list[c] \in Seq(mine(c))
    BY <1>2, <1>4
  <2> QED
    BY <2>1, <1>2, <1>5, ListAllRows
<1> DEFINE entry(c) == [scope |-> c, streams |-> ListAll(list[c])]
<1>8. jobs = [i \in 1..N |-> entry(order[i])]
  BY <1>1, <1>3
<1>9. ASSUME NEW c \in scopes
      PROVE  /\ entry(c) \in [scope : Scopes, streams : Seq(Row)]
             /\ entry(c).scope = c /\ entry(c).streams = ListAll(list[c])
  BY <1>5, <1>7
<1> HIDE DEF entry
<1>10. jobs \in Seq([scope : Scopes, streams : Seq(Row)])
  <2>1. \A i \in 1..N : entry(order[i]) \in [scope : Scopes, streams : Seq(Row)]
    BY <1>3, <1>9
  <2>2. jobs \in [1..N -> [scope : Scopes, streams : Seq(Row)]]
    BY <1>8, <2>1
  <2>3. ASSUME NEW R, NEW q \in [1..N -> R] PROVE q \in Seq(R)
    BY <1>2
  <2> QED
    BY <2>2, <2>3, Zenon
<1>11. ASSUME NEW d \in Range(jobs) PROVE \E c \in scopes : d = entry(c)
  BY <1>3, <1>8 DEF Range
<1>12. \A d \in Range(jobs) : \A x \in Range(d.streams) :
          Current(x) /\ ScopeOf[x.stream] = d.scope
  BY <1>7, <1>9, <1>11
<1>13. ASSUME NEW c \in Scopes, Queued(c) PROVE \E i \in DOMAIN jobs : jobs[i].scope = c
  <2>1. PICK i \in 1..N : order[i] = c
    BY <1>3, <1>6, <1>13 DEF Range
  <2> QED
    BY <2>1, <1>6, <1>8, <1>9, <1>13
<1> QED
  BY <1>10, <1>12, <1>13

\* A tick finds every queued rebuild.
LEMMA TickInv ==
    ASSUME ConsumerInv, NEW woken \in BOOLEAN, NEW scanned \in BOOLEAN, Tick(woken, scanned)
    PROVE  ConsumerInv'
<1> DEFINE S == IF scanned THEN PendingStreams ELSE {}
<1>1. /\ UNCHANGED <<head, cursor, seeded, runs, lock, caller, job, rebuild, inFlight, used, leaving>>
      /\ trigger' \in BOOLEAN /\ dispatch' \in BuildScopeJobs(S)
  BY DEF Tick, dbVars
<1>2. S \in SUBSET Streams /\ \A s \in S : head[s] >= 1
  <2>1. \A s \in S : s \in Streams /\ Pending(s)
    BY DEF PendingStreams
  <2> HIDE DEF S
  <2> QED
    BY <2>1 DEF Pending, ConsumerInv, DataInv, Types
<1> HIDE DEF S
<1>3. /\ dispatch' \in Seq([scope : Scopes, streams : Seq(Row)])
      /\ \A d \in Range(dispatch') : \A x \in Range(d.streams) :
            Current(x) /\ ScopeOf[x.stream] = d.scope
      /\ \A c \in Scopes : Queued(c) => \E i \in DOMAIN dispatch' : dispatch'[i].scope = c
  BY <1>1, <1>2, BuildScopeJobsType DEF ConsumerInv
<1>4. Types'
  BY <1>1, <1>3 DEF ConsumerInv, DataInv, Types
<1>5. DispatchOK'
  BY <1>1, <1>3 DEF DispatchOK, Current
<1>6. /\ \A c \in Scopes : JobMoves(c)
      /\ \A u \in Callers : CallerMoves(u)
  BY <1>1, MovesNot DEF ConsumerInv, DataInv
<1>7. DataInv'
  BY <1>1, <1>4, <1>5, <1>6, DataKept DEF ConsumerInv
<1>8. WakeupPending'
  BY <1>1, <1>3 DEF WakeupPending, Queued
<1>9. LoopInv'
  BY <1>1, <1>8, LoopKept DEF ConsumerInv
<1> QED
  BY <1>7, <1>9 DEF ConsumerInv

\* A scope that has no job gets one, with the slot if there is a free one.
LEMMA DispatchInv == ASSUME ConsumerInv, Dispatch PROVE ConsumerInv'
<1> DEFINE next == Head(dispatch)
           c == next.scope
           free == used < Slots
           new == [pc |-> IF free THEN "start" ELSE "slot", todo |-> next.streams]
<1>1. /\ dispatch # << >> /\ dispatch' = Tail(dispatch)
      /\ UNCHANGED <<head, cursor, seeded, runs, lock, caller, rebuild, trigger, leaving>>
  BY DEF Dispatch, dbVars
<1>2. /\ c \in inFlight => UNCHANGED <<inFlight, used, job>>
      /\ c \notin inFlight => /\ inFlight' = inFlight \cup {c}
                              /\ used' = IF free THEN used + 1 ELSE used
                              /\ job' = [job EXCEPT ![c] = new]
  BY DEF Dispatch
<1>3. dispatch \in Seq([scope : Scopes, streams : Seq(Row)])
  BY DEF ConsumerInv, DataInv, Types
<1>4. /\ next \in [scope : Scopes, streams : Seq(Row)] /\ next \in Range(dispatch)
      /\ dispatch' \in Seq([scope : Scopes, streams : Seq(Row)])
      /\ Range(dispatch') \subseteq Range(dispatch)
      /\ \A d \in Range(dispatch) : d = next \/ d \in Range(dispatch')
  <2>1. next = dispatch[1]
    BY <1>1, <1>3
  <2> HIDE DEF next
  <2> QED
    BY <1>1, <1>3, <2>1, RangeSeq
<1>5. c \in Scopes /\ next.streams \in Seq(Row)
  BY <1>4
<1>6. new \in JobRecord /\ new.pc \in {"start", "slot"} /\ new.todo = next.streams
  BY <1>5 DEF JobRecord, JobPcs
<1>7. /\ (new.pc = "start") <=> free
  OBVIOUS
<1>8. \A x \in Range(next.streams) : Current(x) /\ ScopeOf[x.stream] = c
  BY <1>4 DEF ConsumerInv, DataInv, DispatchOK
<1>9. DispatchOK'
  BY <1>1, <1>4 DEF ConsumerInv, DataInv, DispatchOK, Current
<1> HIDE DEF next, c, new, free
<1>10. WakeupPending'
  <2> SUFFICES ASSUME NEW d \in Scopes, Queued(d), ~ trigger, d \notin inFlight', d \notin leaving,
                      \A u \in Callers : caller[u].pc # "ping"
               PROVE  \E i \in DOMAIN dispatch' : dispatch'[i].scope = d
    BY <1>1 DEF WakeupPending, Queued
  <2>1. d \notin inFlight /\ d # c
    BY <1>2
  <2>2. PICK e \in Range(dispatch) : e.scope = d
    BY <2>1 DEF ConsumerInv, LoopInv, WakeupPending, Range
  <2>3. e \in Range(dispatch')
    BY <2>1, <2>2, <1>4 DEF c
  <2> QED
    BY <2>2, <2>3 DEF Range
<1>11. CASE c \in inFlight
  <2>1. Types'
    BY <1>1, <1>2, <1>4, <1>11 DEF ConsumerInv, DataInv, Types
  <2>2. /\ \A d \in Scopes : JobMoves(d)
        /\ \A u \in Callers : CallerMoves(u)
    BY <1>1, <1>2, <1>11, MovesNot DEF ConsumerInv, DataInv
  <2>3. DataInv'
    BY <1>1, <1>9, <2>1, <2>2, DataKept DEF ConsumerInv
  <2>4. LoopInv'
    BY <1>2, <1>10, <1>11, LoopKept DEF ConsumerInv
  <2> QED
    BY <2>3, <2>4 DEF ConsumerInv
<1>12. CASE c \notin inFlight
  <2>1. job[c].pc = "none"
    BY <1>5, <1>12 DEF ConsumerInv, LoopInv
  <2>2. /\ job' \in [Scopes -> JobRecord] /\ job'[c] = new
        /\ \A d \in Scopes : d # c => job'[d] = job[d]
    BY <1>2, <1>5, <1>6, <1>12, JobStepType DEF ConsumerInv
  <2>3. Types'
    BY <1>1, <1>2, <1>4, <1>5, <1>12, <2>2 DEF ConsumerInv, DataInv, Types
  <2>4. Bounded' /\ Covered'
    BY <1>1 DEF ConsumerInv, DataInv, Bounded, Covered
  <2>5. ASSUME NEW d \in Scopes PROVE JobOK(d)' /\ LockOK(d)'
    <3>1. CASE d = c
      BY <3>1, <1>1, <1>6, <1>8, <2>1, <2>2
         DEF ConsumerInv, DataInv, JobOK, LockOK, Current, CallerScope
    <3>2. CASE d # c
      BY <3>2, <1>1, <2>2 DEF ConsumerInv, DataInv, JobOK, LockOK, Current, CallerScope
    <3> QED
      BY <3>1, <3>2
  <2>6. ASSUME NEW u \in Callers PROVE CallerOK(u)'
    BY <1>1 DEF ConsumerInv, DataInv, CallerOK, CallerScope, Current
  <2>7. DataInv'
    BY <1>9, <2>3, <2>4, <2>5, <2>6 DEF DataInv
  <2>8. IsFiniteSet(Running') /\ used' = Cardinality(Running') /\ used' <= Slots
    <3>1. CASE free
      <4>1. Running' = Running \cup {c} /\ c \notin Running
        BY <3>1, <1>5, <1>7, <2>1, <2>2 DEF Running
      <4> QED
        BY <3>1, <4>1, <1>2, <1>12, FS_AddElement, FS_CardinalityType, WikiAssumption
           DEF ConsumerInv, LoopInv, free
    <3>2. CASE ~ free
      <4>1. new.pc = "slot"
        BY <3>2, <1>6, <1>7
      <4>2. Running' = Running
        BY <4>1, <1>5, <2>1, <2>2 DEF Running
      <4> QED
        BY <3>2, <4>2, <1>2, <1>12 DEF ConsumerInv, LoopInv
    <3> QED
      BY <3>1, <3>2
  <2>9. \A d \in Scopes : d \in inFlight' <=> job'[d].pc # "none"
    BY <1>2, <1>6, <1>12, <2>2 DEF ConsumerInv, LoopInv
  <2> QED
    BY <1>10, <2>7, <2>8, <2>9 DEF ConsumerInv, LoopInv
<1> QED
  BY <1>11, <1>12

-----------------------------------------------------------------------------
(* Steps that write to the tables or take and give back a lock *)

\* What a job, a call or the loop works on are rows.
LEMMA RowsTyped ==
    ASSUME DataInv
    PROVE  /\ \A c \in Scopes : job[c].todo \in Seq(Row) /\ Range(job[c].todo) \subseteq Row
           /\ \A u \in Callers : caller[u].todo \in Seq(Row) /\ Range(caller[u].todo) \subseteq Row
           /\ \A d \in Range(dispatch) : Range(d.streams) \subseteq Row
<1>1. ASSUME NEW c \in Scopes PROVE job[c].todo \in Seq(Row) /\ Range(job[c].todo) \subseteq Row
  <2>1. job[c].todo \in Seq(Row)
    BY DEF DataInv, Types, JobRecord
  <2> QED
    BY <2>1, RangeSeq
<1>2. ASSUME NEW u \in Callers
      PROVE  caller[u].todo \in Seq(Row) /\ Range(caller[u].todo) \subseteq Row
  <2>1. caller[u].todo \in Seq(Row)
    BY DEF DataInv, Types, CallerRecord
  <2> QED
    BY <2>1, RangeSeq
<1>3. ASSUME NEW d \in Range(dispatch) PROVE Range(d.streams) \subseteq Row
  <2>1. dispatch \in Seq([scope : Scopes, streams : Seq(Row)])
    BY DEF DataInv, Types
  <2>2. d \in [scope : Scopes, streams : Seq(Row)]
    BY <2>1, RangeSeq
  <2>3. d.streams \in Seq(Row)
    BY <2>2
  <2> QED
    BY <2>3, RangeSeq
<1> QED
  BY <1>1, <1>2, <1>3

\* A head only grows, so what was listed stays current.
LEMMA AppendEventInv ==
    ASSUME ConsumerInv, NEW s \in Streams, AppendEvent(s)
    PROVE  ConsumerInv'
<1>1. /\ UNCHANGED <<cursor, seeded, runs, lock, dispatch, caller, job, rebuild, inFlight, used,
                     trigger, leaving>>
      /\ head' = [head EXCEPT ![s] = @ + 1]
  BY DEF AppendEvent, loopVars
<1>2. head' \in [Streams -> Nat] /\ \A t \in Streams : head[t] <= head'[t]
  BY <1>1 DEF ConsumerInv, DataInv, Types
<1>3. Types'
  BY <1>1, <1>2 DEF ConsumerInv, DataInv, Types
<1>4. \A x \in Row : Current(x) => Current(x)'
  BY <1>2 DEF Row, Current, ConsumerInv, DataInv, Types
<1>5. Bounded' /\ Covered'
  BY <1>1, <1>2 DEF ConsumerInv, DataInv, Types, Bounded, Covered
<1>6. DispatchOK'
  BY <1>1, <1>4, RowsTyped DEF ConsumerInv, DataInv, DispatchOK
<1>7. ASSUME NEW c \in Scopes PROVE JobOK(c)' /\ LockOK(c)'
  BY <1>1, <1>4, RowsTyped DEF ConsumerInv, DataInv, JobOK, LockOK, CallerScope
<1>8. ASSUME NEW u \in Callers PROVE CallerOK(u)'
  BY <1>1, <1>4, RowsTyped DEF ConsumerInv, DataInv, CallerOK, CallerScope
<1>9. DataInv'
  BY <1>3, <1>5, <1>6, <1>7, <1>8 DEF DataInv
<1>10. WakeupPending'
  BY <1>1 DEF ConsumerInv, LoopInv, WakeupPending, Queued
<1>11. LoopInv'
  BY <1>1, <1>10, LoopKept DEF ConsumerInv
<1> QED
  BY <1>9, <1>11 DEF ConsumerInv

\* Nobody is between a run and the cursor of a scope whose lock is free.
LEMMA FreeScope ==
    ASSUME DataInv, NEW c \in Scopes, lock[c] = Nobody
    PROVE  /\ job[c].pc # "advance"
           /\ \A u \in Callers : caller[u].pc = "advance" => CallerScope(u) # c
  BY WikiAssumption DEF DataInv, JobOK, CallerOK

\* A rebuild empties the wiki of its scope while nobody is between a run and
\* the cursor there.
LEMMA WipeInv ==
    ASSUME ConsumerInv, NEW c \in Scopes, RunRebuild(c) \/ FailRebuild(c, TRUE)
    PROVE  ConsumerInv'
<1>1. /\ job[c].pc = "rebuild" /\ lock[c] = Nobody /\ Wipe(c)
      /\ UNCHANGED <<head, lock, dispatch, caller, rebuild, inFlight, used, trigger, leaving>>
  BY DEF RunRebuild, FailRebuild, AtJob, loopVars
<1>2. /\ job' \in [Scopes -> JobRecord]
      /\ job'[c].pc \in {"rebuilt", "unbuilt"} /\ job'[c].todo = job[c].todo
      /\ \A d \in Scopes : d # c => job'[d] = job[d]
  <2>1. Goto(c, "rebuilt") \/ Goto(c, "unbuilt")
    BY DEF RunRebuild, FailRebuild
  <2> QED
    BY <2>1, GotoType DEF ConsumerInv, JobPcs
<1>3. \A s \in Skipped(c) : s \in Streams /\ ScopeOf[s] = c
  BY DEF Skipped
<1>4. /\ runs' \in [Streams -> SUBSET Nat] /\ cursor' \in [Streams -> Nat]
      /\ seeded' \in [Streams -> Nat]
      /\ \A s \in Streams : ScopeOf[s] # c => /\ runs'[s] = runs[s] /\ cursor'[s] = cursor[s]
                                              /\ seeded'[s] = seeded[s]
      /\ \A s \in Streams : ScopeOf[s] = c => /\ runs'[s] = {} /\ cursor'[s] = seeded'[s]
                                              /\ cursor'[s] <= head[s]
  BY <1>1, <1>3 DEF Wipe, ConsumerInv, DataInv, Types
<1>5. Types'
  BY <1>1, <1>2, <1>4 DEF ConsumerInv, DataInv, Types
<1>6. Bounded' /\ Covered'
  BY <1>1, <1>4 DEF ConsumerInv, DataInv, Bounded, Covered
<1>7. DispatchOK'
  BY <1>1, MovesNot DEF ConsumerInv, DataInv
<1>8. ASSUME NEW d \in Scopes PROVE JobOK(d)'
  <2>1. CASE d = c
    BY <2>1, <1>1, <1>2 DEF ConsumerInv, DataInv, JobOK, Current
  <2>2. CASE d # c
    <3>1. job[d].pc = "advance" => /\ HeadOf(job[d].todo) \in Range(job[d].todo)
                                   /\ HeadOf(job[d].todo).stream \in Streams
      BY RowsTyped, RangeSeq DEF ConsumerInv, DataInv, JobOK, HeadOf, Row
    <3>2. job[d].pc = "advance" => ScopeOf[HeadOf(job[d].todo).stream] # c
      BY <2>2, <3>1 DEF ConsumerInv, DataInv, JobOK
    <3> QED
      BY <2>2, <3>1, <3>2, <1>1, <1>2, <1>4 DEF ConsumerInv, DataInv, JobOK, Current
  <2> QED
    BY <2>1, <2>2
<1>9. ASSUME NEW u \in Callers PROVE CallerOK(u)'
  <2>1. caller[u].pc = "advance" => HeadOf(caller[u].todo).stream \in Streams
    BY RowsTyped, RangeSeq DEF ConsumerInv, DataInv, CallerOK, HeadOf, Row
  <2> QED
    BY <2>1, <1>1, <1>4, FreeScope, SMTT(30) DEF ConsumerInv, DataInv, CallerOK, Current, CallerScope
<1>10. ASSUME NEW d \in Scopes PROVE LockOK(d)'
  BY <1>1, <1>2, WikiAssumption DEF ConsumerInv, DataInv, LockOK, CallerScope
<1>11. DataInv'
  BY <1>5, <1>6, <1>7, <1>8, <1>9, <1>10 DEF DataInv
<1>12. WakeupPending'
  BY <1>1, WakeupKept DEF ConsumerInv, LoopInv, Queued
<1>13. LoopInv'
  BY <1>1, <1>2, <1>12, LoopKept DEF ConsumerInv
<1> QED
  BY <1>11, <1>13 DEF ConsumerInv

\* The row that a job or a call is at.
LEMMA FirstRow ==
    ASSUME DataInv
    PROVE  /\ \A c \in Scopes : job[c].pc \in {"inject", "advance"} =>
                 /\ HeadOf(job[c].todo) \in Row /\ Current(HeadOf(job[c].todo))
                 /\ ScopeOf[HeadOf(job[c].todo).stream] = c
           /\ \A u \in Callers : caller[u].pc \in {"inject", "advance"} =>
                 /\ HeadOf(caller[u].todo) \in Row /\ Current(HeadOf(caller[u].todo))
                 /\ CallerScope(u) \in Scopes
<1>1. ASSUME NEW c \in Scopes, job[c].pc \in {"inject", "advance"}
      PROVE  /\ HeadOf(job[c].todo) \in Row /\ Current(HeadOf(job[c].todo))
             /\ ScopeOf[HeadOf(job[c].todo).stream] = c
  <2>1. HeadOf(job[c].todo) \in Range(job[c].todo)
    BY <1>1, RowsTyped, RangeSeq DEF DataInv, JobOK, HeadOf
  <2> QED
    BY <2>1, RowsTyped DEF DataInv, JobOK
<1>2. ASSUME NEW u \in Callers, caller[u].pc \in {"inject", "advance"}
      PROVE  /\ HeadOf(caller[u].todo) \in Row /\ Current(HeadOf(caller[u].todo))
             /\ CallerScope(u) \in Scopes
  <2>1. HeadOf(caller[u].todo) \in Range(caller[u].todo)
    BY <1>2, RowsTyped, RangeSeq DEF DataInv, CallerOK, HeadOf
  <2>2. HeadOf(caller[u].todo) \in Row /\ Current(HeadOf(caller[u].todo))
    BY <2>1, RowsTyped DEF DataInv, CallerOK
  <2> QED
    BY <2>2, WikiAssumption DEF CallerScope, Row
<1> QED
  BY <1>1, <1>2

\* A succeeded run is added to the wiki.
LEMMA RunAdded ==
    ASSUME DataInv, NEW x \in Row, Current(x), UNCHANGED <<head, cursor, seeded>>,
           runs' = [runs EXCEPT ![x.stream] = @ \cup {x.head}]
    PROVE  /\ runs' \in [Streams -> SUBSET Nat] /\ Bounded' /\ Covered'
           /\ x.head \in runs'[x.stream]
           /\ \A s \in Streams : runs[s] \subseteq runs'[s]
<1>1. x.stream \in Streams /\ x.head \in Nat /\ x.head \in 1..head[x.stream]
  BY DEF Row, Current, DataInv, Types
<1>2. /\ runs' \in [Streams -> SUBSET Nat] /\ x.head \in runs'[x.stream]
      /\ \A s \in Streams : /\ runs[s] \subseteq runs'[s]
                            /\ s # x.stream => runs'[s] = runs[s]
      /\ runs'[x.stream] = runs[x.stream] \cup {x.head}
  BY <1>1 DEF DataInv, Types
<1>3. Bounded'
  BY <1>1, <1>2 DEF DataInv, Bounded
<1>4. Covered'
  BY <1>2 DEF DataInv, Covered
<1> QED
  BY <1>2, <1>3, <1>4

\* A job injects: it has the lock and its run is in the wiki.
LEMMA InjectInv ==
    ASSUME ConsumerInv, NEW c \in Scopes, Inject(c)
    PROVE  ConsumerInv'
<1> DEFINE x == HeadOf(job[c].todo)
<1>1. /\ job[c].pc = "inject" /\ lock[c] = Nobody /\ lock' = [lock EXCEPT ![c] = c]
      /\ runs' = [runs EXCEPT ![x.stream] = @ \cup {x.head}]
      /\ UNCHANGED <<head, cursor, seeded, dispatch, caller, rebuild, inFlight, used, trigger,
                     leaving>>
  BY DEF Inject, AtJob, loopVars
<1>2. /\ job' \in [Scopes -> JobRecord] /\ job'[c].pc = "advance" /\ job'[c].todo = job[c].todo
      /\ \A d \in Scopes : d # c => job'[d] = job[d]
  BY GotoType DEF Inject, ConsumerInv, JobPcs
<1>3. x \in Row /\ Current(x)
  BY <1>1, FirstRow DEF ConsumerInv
<1> HIDE DEF x
<1>4. /\ runs' \in [Streams -> SUBSET Nat] /\ Bounded' /\ Covered'
      /\ x.head \in runs'[x.stream] /\ \A s \in Streams : runs[s] \subseteq runs'[s]
  BY <1>1, <1>3, RunAdded DEF ConsumerInv
<1>5. /\ lock' \in [Scopes -> Scopes \cup Callers \cup {Nobody}] /\ lock'[c] = c
      /\ \A d \in Scopes : d # c => lock'[d] = lock[d]
  BY <1>1 DEF ConsumerInv, DataInv, Types
<1>6. Types'
  BY <1>1, <1>2, <1>4, <1>5 DEF ConsumerInv, DataInv, Types
<1>7. DispatchOK'
  BY <1>1, MovesNot DEF ConsumerInv, DataInv
<1>8. ASSUME NEW d \in Scopes PROVE JobOK(d)'
  <2>1. CASE d = c
    BY <2>1, <1>1, <1>2, <1>4, <1>5 DEF ConsumerInv, DataInv, JobOK, Current, x
  <2>2. CASE d # c
    <3>1. job[d].pc = "advance" => HeadOf(job[d].todo).stream \in Streams
      BY FirstRow DEF ConsumerInv, Row
    <3> QED
      BY <2>2, <3>1, <1>1, <1>2, <1>4, <1>5 DEF ConsumerInv, DataInv, JobOK, Current
  <2> QED
    BY <2>1, <2>2
<1>9. ASSUME NEW u \in Callers PROVE CallerOK(u)'
  <2>1. caller[u].pc = "advance" => /\ HeadOf(caller[u].todo).stream \in Streams
                                    /\ CallerScope(u) \in Scopes /\ CallerScope(u) # c
    BY <1>1, FirstRow, FreeScope DEF ConsumerInv, Row
  <2> QED
    BY <2>1, <1>1, <1>4, <1>5 DEF ConsumerInv, DataInv, CallerOK, Current, CallerScope
<1>10. ASSUME NEW d \in Scopes PROVE LockOK(d)'
  BY <1>1, <1>2, <1>5, WikiAssumption DEF ConsumerInv, DataInv, LockOK, CallerScope
<1>11. DataInv'
  BY <1>4, <1>6, <1>7, <1>8, <1>9, <1>10 DEF DataInv
<1>12. WakeupPending'
  BY <1>1, WakeupKept DEF ConsumerInv, LoopInv, Queued
<1>13. LoopInv'
  BY <1>1, <1>2, <1>12, LoopKept DEF ConsumerInv
<1> QED
  BY <1>11, <1>13 DEF ConsumerInv

\* A cursor moves up to the head of a run that is in the wiki, or not at all.
LEMMA CursorAdvanced ==
    ASSUME DataInv, NEW x \in Row, Current(x), x.head \in runs[x.stream],
           UNCHANGED <<head, runs, seeded>>,
           \/ UNCHANGED cursor
           \/ cursor' = [cursor EXCEPT ![x.stream] = Greatest(@, x.head)]
    PROVE  cursor' \in [Streams -> Nat] /\ Bounded' /\ Covered'
<1>1. CASE UNCHANGED cursor
  BY <1>1 DEF DataInv, Types, Bounded, Covered
<1>2. CASE cursor' = [cursor EXCEPT ![x.stream] = Greatest(@, x.head)]
  <2>1. x.stream \in Streams /\ x.head \in Nat /\ x.head <= head[x.stream]
    BY DEF Row, Current
  <2>2. /\ cursor' \in [Streams -> Nat] /\ cursor'[x.stream] \in {cursor[x.stream], x.head}
        /\ \A s \in Streams : s # x.stream => cursor'[s] = cursor[s]
    BY <1>2, <2>1 DEF DataInv, Types, Greatest
  <2> QED
    BY <2>1, <2>2 DEF DataInv, Bounded, Covered
<1> QED
  BY <1>1, <1>2

\* A job records its cursor, or fails to, and gives the lock back.
LEMMA AdvanceInv ==
    ASSUME ConsumerInv, NEW c \in Scopes, AdvanceCursor(c) \/ AdvanceFails(c)
    PROVE  ConsumerInv'
<1> DEFINE x == HeadOf(job[c].todo)
<1>1. /\ job[c].pc = "advance" /\ lock' = [lock EXCEPT ![c] = Nobody]
      /\ job' = [job EXCEPT ![c].pc = "streams", ![c].todo = Tail(@)]
      /\ \/ UNCHANGED cursor
         \/ cursor' = [cursor EXCEPT ![x.stream] = Greatest(@, x.head)]
      /\ UNCHANGED <<head, runs, seeded, dispatch, caller, rebuild, inFlight, used, trigger,
                     leaving>>
  BY DEF AdvanceCursor, AdvanceFails, AtJob, dbVars, loopVars
<1>2. /\ x \in Row /\ Current(x) /\ x.head \in runs[x.stream] /\ lock[c] = c
      /\ job[c].todo # << >>
  BY <1>1, FirstRow DEF ConsumerInv, DataInv, JobOK
<1>3. /\ job' \in [Scopes -> JobRecord]
      /\ job'[c].pc = "streams" /\ Range(job'[c].todo) \subseteq Range(job[c].todo)
      /\ \A d \in Scopes : d # c => job'[d] = job[d]
  BY <1>1, <1>2, NextTodoType DEF ConsumerInv
<1> HIDE DEF x
<1>4. cursor' \in [Streams -> Nat] /\ Bounded' /\ Covered'
  BY <1>1, <1>2, CursorAdvanced DEF ConsumerInv
<1>5. /\ lock' \in [Scopes -> Scopes \cup Callers \cup {Nobody}] /\ lock'[c] = Nobody
      /\ \A d \in Scopes : d # c => lock'[d] = lock[d]
  BY <1>1 DEF ConsumerInv, DataInv, Types
<1>6. Types'
  BY <1>1, <1>3, <1>4, <1>5 DEF ConsumerInv, DataInv, Types
<1>7. DispatchOK'
  BY <1>1, MovesNot DEF ConsumerInv, DataInv
<1>8. ASSUME NEW d \in Scopes PROVE JobOK(d)'
  <2>1. CASE d = c
    BY <2>1, <1>1, <1>3 DEF ConsumerInv, DataInv, JobOK, Current
  <2>2. CASE d # c
    BY <2>2, <1>1, <1>3, <1>5 DEF ConsumerInv, DataInv, JobOK, Current
  <2> QED
    BY <2>1, <2>2
<1>9. ASSUME NEW u \in Callers PROVE CallerOK(u)'
  <2>1. caller[u].pc = "advance" => CallerScope(u) \in Scopes /\ CallerScope(u) # c
    BY <1>2, FirstRow, WikiAssumption DEF ConsumerInv, DataInv, CallerOK
  <2> QED
    BY <2>1, <1>1, <1>5 DEF ConsumerInv, DataInv, CallerOK, Current, CallerScope
<1>10. ASSUME NEW d \in Scopes PROVE LockOK(d)'
  BY <1>1, <1>3, <1>5, WikiAssumption DEF ConsumerInv, DataInv, LockOK, CallerScope
<1>11. DataInv'
  BY <1>4, <1>6, <1>7, <1>8, <1>9, <1>10 DEF DataInv
<1>12. WakeupPending'
  BY <1>1, WakeupKept DEF ConsumerInv, LoopInv, Queued
<1>13. LoopInv'
  BY <1>1, <1>3, <1>12, LoopKept DEF ConsumerInv
<1> QED
  BY <1>11, <1>13 DEF ConsumerInv

\* The record of a caller that a step replaces.
LEMMA CallerStepType ==
    ASSUME DataInv, NEW u \in Callers, NEW new \in CallerRecord,
           caller' = [caller EXCEPT ![u] = new]
    PROVE  /\ caller' \in [Callers -> CallerRecord] /\ caller'[u] = new
           /\ \A v \in Callers : v # u => caller'[v] = caller[v]
  BY DEF DataInv, Types

\* InjectSession lists rows of the session.
LEMMA InjectSessionInv ==
    ASSUME ConsumerInv, NEW u \in Callers, NEW session \in Sessions, InjectSession(u, session)
    PROVE  ConsumerInv'
<1> DEFINE S == {s \in Range(session) : head[s] > 0}
           N == Cardinality(S)
<1>1. /\ caller[u].pc = "idle"
      /\ UNCHANGED <<head, cursor, seeded, runs, lock, dispatch, job, rebuild, inFlight, used,
                     trigger, leaving>>
  BY DEF InjectSession, dbVars, loopVars
<1>2. PICK found \in [1..N -> S] :
         found # << >> /\ caller' = [caller EXCEPT ![u] = [pc |-> "clear", todo |-> ListAll(found)]]
  BY DEF InjectSession, Orders
<1>3. S \in SUBSET Streams /\ (\A s \in S : head[s] >= 1) /\ N \in Nat
  <2>1. S \in SUBSET Streams
    BY RangeSeq, WikiAssumption
  <2>2. \A s \in S : head[s] >= 1
    BY <2>1 DEF ConsumerInv, DataInv, Types
  <2>3. IsFiniteSet(S)
    BY <2>1, FS_Subset, WikiAssumption
  <2> QED
    BY <2>1, <2>2, <2>3, FS_CardinalityType
<1> HIDE DEF S, N
<1>4. found \in Seq(S)
  BY <1>2, <1>3
<1>5. /\ ListAll(found) \in Seq(Row) /\ ListAll(found) # << >>
      /\ \A x \in Range(ListAll(found)) : Current(x)
  BY <1>2, <1>3, <1>4, ListAllRows DEF ConsumerInv
<1> DEFINE new == [pc |-> "clear", todo |-> ListAll(found)]
<1>6. new \in CallerRecord /\ new.pc = "clear" /\ new.todo = ListAll(found)
  BY <1>5 DEF CallerRecord
<1>7. caller' = [caller EXCEPT ![u] = new]
  BY <1>2
<1> HIDE DEF new
<1>8. /\ caller' \in [Callers -> CallerRecord] /\ caller'[u] = new
      /\ \A v \in Callers : v # u => caller'[v] = caller[v]
  BY <1>6, <1>7, CallerStepType DEF ConsumerInv
<1>9. Types'
  BY <1>1, <1>8 DEF ConsumerInv, DataInv, Types
<1>10. Bounded' /\ Covered' /\ DispatchOK'
  BY <1>1, MovesNot DEF ConsumerInv, DataInv, Bounded, Covered
<1>11. ASSUME NEW c \in Scopes PROVE JobOK(c)' /\ LockOK(c)'
  BY <1>1, <1>6, <1>8 DEF ConsumerInv, DataInv, JobOK, LockOK, Current, CallerScope
<1>12. ASSUME NEW v \in Callers PROVE CallerOK(v)'
  <2>1. CASE v = u
    BY <2>1, <1>1, <1>5, <1>6, <1>8 DEF CallerOK, Current
  <2>2. CASE v # u
    BY <2>2, <1>1, <1>8 DEF ConsumerInv, DataInv, CallerOK, Current, CallerScope
  <2> QED
    BY <2>1, <2>2
<1>13. DataInv'
  BY <1>9, <1>10, <1>11, <1>12 DEF DataInv
<1>14. WakeupPending'
  BY <1>1, <1>8, WakeupKept DEF ConsumerInv, LoopInv, Queued
<1>15. LoopInv'
  BY <1>1, <1>14, LoopKept DEF ConsumerInv
<1> QED
  BY <1>13, <1>15 DEF ConsumerInv

\* A call injects the row it is at.
LEMMA CallerInjectInv ==
    ASSUME ConsumerInv, NEW u \in Callers, CallerInject(u)
    PROVE  ConsumerInv'
<1> DEFINE x == HeadOf(caller[u].todo)
           c == CallerScope(u)
           new == [caller[u] EXCEPT !.pc = "advance"]
<1>1. /\ caller[u].pc = "inject" /\ lock[c] = Nobody /\ lock' = [lock EXCEPT ![c] = u]
      /\ runs' = [runs EXCEPT ![x.stream] = @ \cup {x.head}]
      /\ caller' = [caller EXCEPT ![u].pc = "advance"]
      /\ UNCHANGED <<head, cursor, seeded, dispatch, job, rebuild, inFlight, used, trigger,
                     leaving>>
  BY DEF CallerInject, CallerScope, loopVars
<1>2. x \in Row /\ Current(x) /\ c \in Scopes
  BY <1>1, FirstRow DEF ConsumerInv
<1>3. caller[u] \in CallerRecord /\ caller' = [caller EXCEPT ![u] = new]
  BY <1>1 DEF ConsumerInv, DataInv, Types
<1>4. new \in CallerRecord /\ new.pc = "advance" /\ new.todo = caller[u].todo
  BY <1>3 DEF CallerRecord
<1> HIDE DEF new, c, x
<1>5. /\ caller' \in [Callers -> CallerRecord] /\ caller'[u] = new
      /\ \A v \in Callers : v # u => caller'[v] = caller[v]
  BY <1>3, <1>4, CallerStepType DEF ConsumerInv
<1>6. /\ runs' \in [Streams -> SUBSET Nat] /\ Bounded' /\ Covered'
      /\ x.head \in runs'[x.stream] /\ \A s \in Streams : runs[s] \subseteq runs'[s]
  BY <1>1, <1>2, RunAdded DEF ConsumerInv
<1>7. /\ lock' \in [Scopes -> Scopes \cup Callers \cup {Nobody}] /\ lock'[c] = u
      /\ \A d \in Scopes : d # c => lock'[d] = lock[d]
  BY <1>1, <1>2 DEF ConsumerInv, DataInv, Types
<1>8. Types'
  BY <1>1, <1>5, <1>6, <1>7 DEF ConsumerInv, DataInv, Types
<1>9. DispatchOK'
  BY <1>1, MovesNot DEF ConsumerInv, DataInv
<1>10. ASSUME NEW d \in Scopes PROVE JobOK(d)'
  <2>1. job[d].pc = "advance" => HeadOf(job[d].todo).stream \in Streams /\ d # c
    BY <1>1, FirstRow, FreeScope DEF ConsumerInv, Row
  <2> QED
    BY <2>1, <1>1, <1>6, <1>7 DEF ConsumerInv, DataInv, JobOK, Current
<1>11. ASSUME NEW v \in Callers PROVE CallerOK(v)'
  <2>1. CASE v = u
    <3>1. CallerScope(u)' = c
      BY <1>4, <1>5 DEF CallerScope, c
    <3> QED
      BY <2>1, <3>1, <1>1, <1>4, <1>5, <1>6, <1>7 DEF ConsumerInv, DataInv, CallerOK, Current, x
  <2>2. CASE v # u
    <3>1. caller[v].pc = "advance" => /\ HeadOf(caller[v].todo).stream \in Streams
                                      /\ CallerScope(v) \in Scopes /\ CallerScope(v) # c
      BY <1>1, <1>2, FirstRow, FreeScope DEF ConsumerInv, Row
    <3> QED
      BY <2>2, <3>1, <1>1, <1>5, <1>6, <1>7 DEF ConsumerInv, DataInv, CallerOK, Current, CallerScope
  <2> QED
    BY <2>1, <2>2
<1>12. ASSUME NEW d \in Scopes PROVE LockOK(d)'
  <2>1. CASE d = c
    BY <2>1, <1>4, <1>5, <1>7, WikiAssumption DEF LockOK, CallerScope, c
  <2>2. CASE d # c
    BY <2>2, <1>1, <1>5, <1>7 DEF ConsumerInv, DataInv, LockOK, CallerScope
  <2> QED
    BY <2>1, <2>2
<1>13. DataInv'
  BY <1>6, <1>8, <1>9, <1>10, <1>11, <1>12 DEF DataInv
<1>14. WakeupPending'
  BY <1>1, <1>5, WakeupKept DEF ConsumerInv, LoopInv, Queued
<1>15. LoopInv'
  BY <1>1, <1>14, LoopKept DEF ConsumerInv
<1> QED
  BY <1>13, <1>15 DEF ConsumerInv

\* A call records its cursor and goes on to its next row, or fails to.
LEMMA CallerAdvanceInv ==
    ASSUME ConsumerInv, NEW u \in Callers, CallerAdvance(u) \/ CallerAdvanceFails(u)
    PROVE  ConsumerInv'
<1> DEFINE x == HeadOf(caller[u].todo)
           c == CallerScope(u)
           rest == Tail(caller[u].todo)
           new == IF CallerAdvanceFails(u) \/ rest = << >> THEN IdleCaller
                  ELSE [pc |-> "clear", todo |-> rest]
<1>1. /\ caller[u].pc = "advance" /\ lock' = [lock EXCEPT ![c] = Nobody]
      /\ \/ UNCHANGED cursor
         \/ cursor' = [cursor EXCEPT ![x.stream] = Greatest(@, x.head)]
      /\ caller' = [caller EXCEPT ![u] = new]
      /\ UNCHANGED <<head, runs, seeded, dispatch, job, rebuild, inFlight, used, trigger,
                     leaving>>
  BY DEF CallerAdvance, CallerAdvanceFails, CallerScope, dbVars, loopVars
<1>2. /\ x \in Row /\ Current(x) /\ x.head \in runs[x.stream]
      /\ c \in Scopes /\ lock[c] = u /\ caller[u].todo # << >>
  BY <1>1, FirstRow DEF ConsumerInv, DataInv, CallerOK
<1>3. rest \in Seq(Row) /\ Range(rest) \subseteq Range(caller[u].todo)
  BY <1>2, RowsTyped, RangeSeq DEF ConsumerInv
<1>4. /\ new \in CallerRecord /\ new.pc \in {"idle", "clear"}
      /\ new.pc = "clear" => new.todo # << >>
      /\ Range(new.todo) \subseteq Range(caller[u].todo)
  <2>1. CASE new = IdleCaller
    BY <2>1, RangeEmpty, SMTT(30) DEF IdleCaller, CallerRecord
  <2>2. CASE new = [pc |-> "clear", todo |-> rest] /\ rest # << >>
    <3> DEFINE further == [pc |-> "clear", todo |-> rest]
    <3>1. further \in CallerRecord /\ further.pc = "clear" /\ further.todo = rest
      BY <1>3 DEF CallerRecord
    <3> HIDE DEF rest
    <3> QED
      BY <2>2, <3>1, <1>3
  <2> QED
    BY <2>1, <2>2
<1> HIDE DEF new, c, x, rest
<1>5. /\ caller' \in [Callers -> CallerRecord] /\ caller'[u] = new
      /\ \A v \in Callers : v # u => caller'[v] = caller[v]
  BY <1>1, <1>4, CallerStepType DEF ConsumerInv
<1>6. cursor' \in [Streams -> Nat] /\ Bounded' /\ Covered'
  BY <1>1, <1>2, CursorAdvanced DEF ConsumerInv
<1>7. /\ lock' \in [Scopes -> Scopes \cup Callers \cup {Nobody}] /\ lock'[c] = Nobody
      /\ \A d \in Scopes : d # c => lock'[d] = lock[d]
  BY <1>1, <1>2 DEF ConsumerInv, DataInv, Types
<1>8. Types'
  BY <1>1, <1>5, <1>6, <1>7 DEF ConsumerInv, DataInv, Types
<1>9. DispatchOK'
  BY <1>1, MovesNot DEF ConsumerInv, DataInv
<1>10. ASSUME NEW d \in Scopes PROVE JobOK(d)'
  <2>1. job[d].pc = "advance" => d # c
    BY <1>2, WikiAssumption DEF ConsumerInv, DataInv, JobOK
  <2> QED
    BY <2>1, <1>1, <1>7 DEF ConsumerInv, DataInv, JobOK, Current
<1>11. ASSUME NEW v \in Callers PROVE CallerOK(v)'
  <2>1. CASE v = u
    BY <2>1, <1>1, <1>4, <1>5 DEF ConsumerInv, DataInv, CallerOK, Current
  <2>2. CASE v # u
    <3>1. caller[v].pc = "advance" => CallerScope(v) \in Scopes /\ CallerScope(v) # c
      BY <2>2, <1>2, FirstRow DEF ConsumerInv, DataInv, CallerOK
    <3> QED
      BY <2>2, <3>1, <1>1, <1>5, <1>7 DEF ConsumerInv, DataInv, CallerOK, Current, CallerScope
  <2> QED
    BY <2>1, <2>2
<1>12. ASSUME NEW d \in Scopes PROVE LockOK(d)'
  <2>1. CASE d = c
    BY <2>1, <1>7, WikiAssumption DEF LockOK
  <2>2. CASE d # c
    <3>1. lock[d] # u
      BY <2>2, WikiAssumption DEF ConsumerInv, DataInv, LockOK, c
    <3> QED
      BY <2>2, <3>1, <1>1, <1>5, <1>7 DEF ConsumerInv, DataInv, LockOK, CallerScope
  <2> QED
    BY <2>1, <2>2
<1>13. DataInv'
  BY <1>6, <1>8, <1>9, <1>10, <1>11, <1>12 DEF DataInv
<1>14. WakeupPending'
  BY <1>1, <1>5, WakeupKept DEF ConsumerInv, LoopInv, Queued
<1>15. LoopInv'
  BY <1>1, <1>14, LoopKept DEF ConsumerInv
<1> QED
  BY <1>13, <1>15 DEF ConsumerInv

\* Only what is in PostgreSQL survives, and it was covered.
LEMMA CrashInv == ASSUME ConsumerInv, Crash PROVE ConsumerInv'
<1>1. /\ trigger' = FALSE /\ dispatch' = << >> /\ inFlight' = {} /\ used' = 0 /\ leaving' = {}
      /\ job' = [c \in Scopes |-> NoJob] /\ rebuild' = [c \in Scopes |-> IdleRebuild]
      /\ lock' = [c \in Scopes |-> Nobody] /\ caller' = [u \in Callers |-> IdleCaller]
      /\ UNCHANGED <<head, cursor, seeded, runs>>
  BY DEF Crash, dbVars
<1>2. /\ NoJob \in JobRecord /\ IdleCaller \in CallerRecord /\ IdleRebuild \in RebuildRecord
      /\ << >> \in Seq([scope : Scopes, streams : Seq(Row)])
  BY DEF NoJob, IdleCaller, IdleRebuild, JobRecord, CallerRecord, RebuildRecord, JobPcs
<1>3. Types'
  BY <1>1, <1>2 DEF ConsumerInv, DataInv, Types
<1>4. Bounded' /\ Covered' /\ DispatchOK'
  BY <1>1, RangeEmpty DEF ConsumerInv, DataInv, Bounded, Covered, DispatchOK
<1>5. ASSUME NEW c \in Scopes PROVE JobOK(c)' /\ LockOK(c)'
  BY <1>1, RangeEmpty, WikiAssumption DEF JobOK, LockOK, NoJob
<1>6. ASSUME NEW u \in Callers PROVE CallerOK(u)'
  BY <1>1, RangeEmpty DEF CallerOK, IdleCaller
<1>7. Running' = {}
  BY <1>1 DEF Running, NoJob
<1>8. LoopInv'
  BY <1>1, <1>7, FS_EmptySet, WikiAssumption DEF LoopInv, WakeupPending, NoJob, IdleRebuild, Queued
<1> QED
  BY <1>3, <1>4, <1>5, <1>6, <1>8 DEF ConsumerInv, DataInv

-----------------------------------------------------------------------------
(* The theorems *)

\* Every step of the loop, of a job, of a call and of the process keeps the
\* invariant.
LEMMA NextInv == ASSUME ConsumerInv, Next PROVE ConsumerInv'
<1>1. CASE \E s \in Streams : AppendEvent(s) \/ WindowEnds(s)
  BY <1>1, AppendEventInv, BackgroundInv
<1>2. CASE \E c \in Scopes : SetAutoInject(c)
  BY <1>2, BackgroundInv
<1>3. CASE (\E woken, scanned \in BOOLEAN : Tick(woken, scanned)) \/ Dispatch
  BY <1>3, TickInv, DispatchInv
<1>4. ASSUME NEW c \in Scopes,
             \/ AcquireSlot(c) \/ JobStep(c) \/ Inject(c) \/ InjectFails(c) \/ AdvanceFails(c)
             \/ \E b \in BOOLEAN : FailRebuild(c, b)
      PROVE  ConsumerInv'
  BY <1>4, AcquireSlotInv, JobMovesInv, WipeInv, InjectInv, AdvanceInv, LeaveScopeInv, BackgroundInv
     DEF JobStep
<1>5. ASSUME NEW u \in Callers,
             \/ \E c \in Asking, b \in Cutoffs : Rebuild(u, c, b)
             \/ \E session \in Sessions : InjectSession(u, session)
             \/ CallerStep(u) \/ CallerFails(u) \/ CallerAdvanceFails(u)
      PROVE  ConsumerInv'
  BY <1>5, CallerMovesInv, InjectSessionInv, CallerInjectInv, CallerAdvanceInv DEF CallerStep
<1>6. CASE Crash
  BY <1>6, CrashInv
<1> QED
  BY <1>1, <1>2, <1>3, <1>4, <1>5, <1>6 DEF Next

\* The loop, the pool of slots, the locks and the callers keep their invariant
\* in every reachable state (internal/pagewiki/app/consumer.go).
THEOREM ConsumerCorrect == Spec => []ConsumerInv
<1>1. ConsumerInv /\ [Next]_vars => ConsumerInv'
  BY NextInv, StutterInv
<1> QED
  BY InitInv, <1>1, PTL DEF Spec

\* What the inductive invariant says of the types, of the slots and of the
\* locks.
LEMMA InvImpliesTypeOK == ConsumerInv => TypeOK
<1> SUFFICES ASSUME ConsumerInv PROVE TypeOK
  OBVIOUS
<1>1. \A s \in Streams : cursor[s] \in 0..head[s] /\ runs[s] \subseteq 1..head[s]
  BY DEF ConsumerInv, DataInv, Types, Bounded
<1>2. ASSUME NEW c \in Scopes
      PROVE  /\ job[c].pc \in JobPcs
             /\ c \in inFlight <=> job[c].pc # "none"
             /\ job[c].pc \in {"inject", "advance"} => job[c].todo # << >>
             /\ lock[c] = c <=> AtJob(c, "advance")
  <2>1. job[c].pc \in JobPcs
    BY DEF ConsumerInv, DataInv, Types, JobRecord
  <2>2. lock[c] = c <=> AtJob(c, "advance")
    BY DEF ConsumerInv, DataInv, JobOK, LockOK, AtJob
  <2> QED
    BY <2>1, <2>2 DEF ConsumerInv, DataInv, LoopInv, JobOK
<1>3. ASSUME NEW u \in Callers PROVE caller[u].pc = "advance" <=> \E c \in Scopes : lock[c] = u
  BY FirstRow DEF ConsumerInv, DataInv, CallerOK, LockOK
<1>4. used = Cardinality({c \in Scopes : job[c].pc \notin {"none", "slot"}}) /\ used <= Slots
  BY DEF ConsumerInv, LoopInv, Running
<1> QED
  BY <1>1, <1>2, <1>3, <1>4 DEF ConsumerInv, DataInv, Types, TypeOK

\* No rebuild slips between the run of an injection and its cursor: in every
\* reachable state a cursor stands where the present wiki has a succeeded run,
\* or where a lookback rebuild put it (consume and runRebuild share the lock
\* of the scope).
THEOREM CursorsCovered == Spec => []CursorCovered
<1>1. ConsumerInv => CursorCovered
  BY InvImpliesTypeOK DEF ConsumerInv, DataInv, Covered, CursorCovered
<1> QED
  BY <1>1, ConsumerCorrect, PTL

\* A queued rebuild always has somebody to notice it before the ticker: the
\* recheck of a job that leaves closes the window that its inFlight mark left
\* open.
THEOREM RebuildsNoticed == Spec => []WakeupPending
<1>1. ConsumerInv => WakeupPending
  BY DEF ConsumerInv, LoopInv
<1> QED
  BY <1>1, ConsumerCorrect, PTL
=============================================================================
