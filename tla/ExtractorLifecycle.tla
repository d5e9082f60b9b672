--------------------------- MODULE ExtractorLifecycle ---------------------------
(***************************************************************************)
(* The coordinator that counts an extractor's foreground extractions and   *)
(* background calls, and the WaitForBackground and Close calls that wait   *)
(* for both to drain.  Every method runs under the coordinator's mutex, so *)
(* it is one action; only the wait loop gives the mutex up, between        *)
(* remembering the current signal channel and sleeping on it.              *)
(***************************************************************************)
EXTENDS Integers, FiniteSets

CONSTANTS
  Extractions,  \* calls of Extract
  Calls,        \* background calls (compactions and summaries)
  Waiters       \* calls of WaitForBackground and Close

ASSUME LifecycleAssumption == IsFiniteSet(Extractions) /\ IsFiniteSet(Calls)

VARIABLES
  closed, foreground, background,  \* fields of lifecycleCoordinator
  backgroundErr,  \* the calls whose error is joined in backgroundErr
  extraction,     \* extraction -> "new", "active", "refused", "done"
  call,           \* call -> "new", "running", "cancelled", "ended"
  failed,         \* the calls that met an error other than their cancellation
  excused,        \* the calls of failed whose error also says "cancelled"
  waiter,         \* waiter -> where it is
  signalled,      \* the waiters whose remembered channel has been closed
  reported        \* waiter -> the calls whose errors it returned

coordinatorVars == <<closed, foreground, background, backgroundErr, extraction, call,
          failed, excused, waiter, signalled, reported>>

ErrorKinds == {{}, {"failure"}, {"cancelled"}, {"failure", "cancelled"}}

CoordinatorInit ==
  /\ closed = FALSE /\ foreground = 0 /\ background = 0
  /\ backgroundErr = {}
  /\ extraction = [x \in Extractions |-> "new"]
  /\ call = [b \in Calls |-> "new"]
  /\ failed = {} /\ excused = {}
  /\ waiter = [c \in Waiters |-> "new"]
  /\ signalled = {}
  /\ reported = [c \in Waiters |-> {}]

\* The channel everyone remembers is closed and replaced.
SignalLocked == signalled' = {c \in Waiters : waiter[c] \in {"asleep", "closing"}}

\* Mutant: a closed extractor takes new extractions.
BeginForegroundAlways(x) ==
  /\ extraction[x] = "new"
  /\ extraction' = [extraction EXCEPT ![x] = "active"]
  /\ foreground' = foreground + 1
  /\ SignalLocked
  /\ UNCHANGED <<closed, background, backgroundErr, call, failed, excused, waiter, reported>>

BeginForeground(x) ==
  /\ extraction[x] = "new"
  /\ IF closed
       THEN /\ extraction' = [extraction EXCEPT ![x] = "refused"]
            /\ UNCHANGED <<foreground, signalled>>
       ELSE /\ extraction' = [extraction EXCEPT ![x] = "active"]
            /\ foreground' = foreground + 1
            /\ SignalLocked
  /\ UNCHANGED <<closed, background, backgroundErr, call, failed, excused, waiter, reported>>

\* Mutant: nobody is told.
FinishForegroundSilently(x) ==
  /\ extraction[x] = "active"
  /\ extraction' = [extraction EXCEPT ![x] = "done"]
  /\ foreground' = foreground - 1
  /\ UNCHANGED <<closed, background, backgroundErr, call, failed, excused, waiter, signalled, reported>>

FinishForeground(x) ==
  /\ extraction[x] = "active"
  /\ extraction' = [extraction EXCEPT ![x] = "done"]
  /\ foreground' = foreground - 1
  /\ SignalLocked
  /\ UNCHANGED <<closed, background, backgroundErr, call, failed, excused, waiter, reported>>

\* Only an extraction starts a background call; under a closed extractor the
\* call starts cancelled.
BeginBackground(x, b) ==
  /\ extraction[x] = "active" /\ call[b] = "new"
  /\ call' = [call EXCEPT ![b] = IF closed THEN "cancelled" ELSE "running"]
  /\ background' = background + 1
  /\ SignalLocked
  /\ UNCHANGED <<closed, foreground, backgroundErr, extraction, failed, excused, waiter, reported>>

\* Mutant: the error replaces the ones before it.
FinishBackgroundReplaces(b, err) ==
  /\ call[b] \in {"running", "cancelled"}
  /\ "cancelled" \in err => call[b] = "cancelled"
  /\ call' = [call EXCEPT ![b] = "ended"]
  /\ background' = background - 1
  /\ backgroundErr' = IF err = {} \/ (closed /\ "cancelled" \in err) THEN backgroundErr ELSE {b}
  /\ failed' = IF "failure" \in err THEN failed \cup {b} ELSE failed
  /\ excused' = IF err = {"failure", "cancelled"} THEN excused \cup {b} ELSE excused
  /\ SignalLocked
  /\ UNCHANGED <<closed, foreground, extraction, waiter, reported>>

\* The call returns its errors joined: a cancelled call may also have failed
\* (a failed summary whose outcome could not be persisted any more).  Once
\* closed, an error that contains a cancellation is dropped.
FinishBackground(b, err) ==
  /\ call[b] \in {"running", "cancelled"}
  /\ "cancelled" \in err => call[b] = "cancelled"
  /\ call' = [call EXCEPT ![b] = "ended"]
  /\ background' = background - 1
  /\ backgroundErr' = IF err = {} \/ (closed /\ "cancelled" \in err)
                        THEN backgroundErr ELSE backgroundErr \cup {b}
  /\ failed' = IF "failure" \in err THEN failed \cup {b} ELSE failed
  /\ excused' = IF err = {"failure", "cancelled"} THEN excused \cup {b} ELSE excused
  /\ SignalLocked
  /\ UNCHANGED <<closed, foreground, extraction, waiter, reported>>

\* Mutant: the errors are returned but not drained.
WaitLoopUndrained(c, close) ==
  IF foreground > 0 \/ background > 0
    THEN /\ waiter' = [waiter EXCEPT ![c] = IF close THEN "closing" ELSE "asleep"]
         /\ UNCHANGED <<backgroundErr, reported>>
    ELSE /\ waiter' = [waiter EXCEPT ![c] = IF close THEN "closed" ELSE "returned"]
         /\ reported' = [reported EXCEPT ![c] = backgroundErr]
         /\ UNCHANGED backgroundErr

\* The loop of wait: leave with the accumulated errors when nothing is left,
\* or remember the channel and sleep.
WaitLoop(c, close) ==
  IF foreground > 0 \/ background > 0
    THEN /\ waiter' = [waiter EXCEPT ![c] = IF close THEN "closing" ELSE "asleep"]
         /\ UNCHANGED <<backgroundErr, reported>>
    ELSE /\ waiter' = [waiter EXCEPT ![c] = IF close THEN "closed" ELSE "returned"]
         /\ reported' = [reported EXCEPT ![c] = backgroundErr]
         /\ backgroundErr' = {}

WaitForBackground(c) ==
  /\ waiter[c] = "new"
  /\ WaitLoop(c, FALSE)
  /\ UNCHANGED <<closed, foreground, background, extraction, call, failed, excused, signalled>>

\* Close: no more extractions, and every background call is cancelled.
Close(c) ==
  /\ waiter[c] = "new"
  /\ closed' = TRUE
  /\ call' = [b \in Calls |-> IF call[b] = "running" THEN "cancelled" ELSE call[b]]
  /\ SignalLocked
  /\ WaitLoop(c, TRUE)
  /\ UNCHANGED <<foreground, background, extraction, failed, excused>>

\* The remembered channel is closed: look again.
Wake(c) ==
  /\ waiter[c] \in {"asleep", "closing"} /\ c \in signalled
  /\ signalled' = signalled \ {c}
  /\ WaitLoop(c, waiter[c] = "closing")
  /\ UNCHANGED <<closed, foreground, background, extraction, call, failed, excused>>

\* The caller's context ends first: the errors stay for the next caller.
GiveUp(c) ==
  /\ waiter[c] \in {"asleep", "closing"}
  /\ waiter' = [waiter EXCEPT ![c] = "gaveup"]
  /\ signalled' = signalled \ {c}
  /\ UNCHANGED <<closed, foreground, background, backgroundErr, extraction, call,
                 failed, excused, reported>>

CoordinatorNext ==
  \/ \E x \in Extractions : BeginForeground(x) \/ FinishForeground(x)
  \/ \E x \in Extractions, b \in Calls : BeginBackground(x, b)
  \/ \E b \in Calls, err \in ErrorKinds : FinishBackground(b, err)
  \/ \E c \in Waiters : WaitForBackground(c) \/ Close(c) \/ Wake(c) \/ GiveUp(c)

CoordinatorSpec == CoordinatorInit /\ [][CoordinatorNext]_coordinatorVars

\* Extractions return (ExtractReturns of RollingEpisode), background calls end
\* by their timeout or their cancellation, and a goroutine that is woken runs.
FairCoordinatorSpec ==
  /\ CoordinatorSpec
  /\ \A x \in Extractions : WF_coordinatorVars(FinishForeground(x))
  /\ \A b \in Calls : WF_coordinatorVars(\E err \in ErrorKinds : FinishBackground(b, err))
  /\ \A c \in Waiters : WF_coordinatorVars(Wake(c))
-----------------------------------------------------------------------------
Active  == {x \in Extractions : extraction[x] = "active"}
Running == {b \in Calls : call[b] \in {"running", "cancelled"}}

\* The state has its type and the two counters count what is really running,
\* whatever order calls begin, end and are cancelled in.
CoordinatorTypeOK ==
  /\ closed \in BOOLEAN
  /\ foreground = Cardinality(Active) /\ background = Cardinality(Running)
  /\ backgroundErr \subseteq Calls /\ excused \subseteq failed /\ failed \subseteq Calls
  /\ extraction \in [Extractions -> {"new", "active", "refused", "done"}]
  /\ call \in [Calls -> {"new", "running", "cancelled", "ended"}]
  /\ waiter \in [Waiters -> {"new", "asleep", "closing", "returned", "closed", "gaveup"}]
  /\ signalled \subseteq {c \in Waiters : waiter[c] \in {"asleep", "closing"}}
  /\ reported \in [Waiters -> SUBSET Calls]

\* Once a Close has returned, no extraction and no background call of the
\* extractor is running or will ever run again.
QuietAfterClose ==
  (\E c \in Waiters : waiter[c] = "closed") => Active = {} /\ Running = {}

\* An error of a background call that has nothing to do with cancellation is
\* kept until one wait returns it, and no other wait returns it again; a wait
\* that gives up takes none away.
ErrorsReportedOnce ==
  /\ \A b \in failed \ excused :
       b \in backgroundErr <=> ~ \E c \in Waiters : b \in reported[c]
  /\ \A c, d \in Waiters : c # d => reported[c] \cap reported[d] = {}

\* The inductive invariant: whoever closes has set the flag, so a closed and
\* drained extractor stays drained; an error belongs to a call that has ended,
\* and is either accumulated or in the hands of one wait.
LifecycleInv ==
  /\ CoordinatorTypeOK
  /\ \A c \in Waiters : waiter[c] \in {"closing", "closed"} => closed
  /\ QuietAfterClose
  /\ \A b \in Calls :
       (b \in failed \/ b \in backgroundErr \/ \E c \in Waiters : b \in reported[c])
         => call[b] = "ended"
  /\ \A c \in Waiters : reported[c] \cap backgroundErr = {}
  /\ \A c \in Waiters : waiter[c] \in {"new", "asleep", "closing"} => reported[c] = {}
  /\ ErrorsReportedOnce

\* A Close that is waiting returns: no signal is lost between the check of the
\* counters and the sleep.
CloseReturns ==
  \A c \in Waiters : waiter[c] = "closing" ~> waiter[c] \in {"closed", "gaveup"}
=============================================================================
