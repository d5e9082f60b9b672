------------------------------- MODULE TodoApp -------------------------------
(***************************************************************************)
(* The todo list of one scope: suggestions made from the open action items *)
(* of team memory, and the calls of its users.  Every call is a sequence   *)
(* of single-row statements (read a row, write the whole row back) without *)
(* a transaction; only CompleteTodo serialises them with a lock, and only  *)
(* RefreshSuggestions is single-flight.  A statement may fail, which ends  *)
(* the call where it is, and the process may die.                          *)
(*                                                                         *)
(* A suggestion is identified with the note it cites (the fingerprint is   *)
(* unique), and the todo that an accept makes with its suggestion          *)
(* (acceptedTodoID is a function of it).                                   *)
(***************************************************************************)
EXTENDS Integers, Sequences, FiniteSets, SequencesExt

CONSTANTS
    Notes,      \* blocker and handoff notes
    Manual,     \* ids of todos that users write themselves
    Users,      \* callers
    Limit,      \* action items a refresh looks at (50 in the code)
    MaxCalls,   \* bound: calls of users
    MaxFaults,  \* bound: failed statements, rewrites and reports, and crashes
    Nobody      \* the holder of the free completion lock

ASSUME TodoAssumption ==
    /\ Notes \cap Manual = {} /\ Nobody \notin Users
    /\ Limit \in Nat \ {0} /\ MaxCalls \in Nat /\ MaxFaults \in Nat

TodoIds == Notes \cup Manual
Events == ({"completed"} \X TodoIds) \cup ({"accepted", "dismissed"} \X Notes)

VARIABLES
    items,       \* open action items, the newest first
    suggestion,  \* todoapp_suggestions.status by note
    todo,        \* todoapp_todos.status by id
    refresh,     \* the refresh under way: the items it listed and has not looked at
                 \* yet, and the notes that had a suggestion when it began
    completing,  \* the holder of the completion lock
    call,        \* what each user's call is doing
    reported,    \* how often each event was sent to the lake
    overlapped,  \* notes of which two accepts were under way at once
    calls, faults

vars == <<items, suggestion, todo, refresh, completing, call, reported,
          overlapped, calls, faults>>

Idle == [pc |-> "idle", id |-> Nobody]
NoRefresh == [on |-> FALSE, rest |-> << >>, known |-> {}]

Init ==
    /\ items = << >>
    /\ suggestion = [n \in Notes |-> "none"]
    /\ todo = [t \in TodoIds |-> "none"]
    /\ refresh = NoRefresh
    /\ completing = Nobody
    /\ call = [u \in Users |-> Idle]
    /\ reported = [e \in Events |-> 0]
    /\ overlapped = {}
    /\ calls = 0 /\ faults = 0

Fault == faults < MaxFaults /\ faults' = faults + 1

----------------------------------------------------------------------------
(* Team memory: notes are written, and resolved or expired.                *)

Without(n) == RemoveFirst(items, n)

\* A new note or another revision of it: updated_at is now.
UpdateNote(n) ==
    /\ items' = <<n>> \o Without(n)
    /\ UNCHANGED <<suggestion, todo, refresh, completing, call, reported,
                   overlapped, calls, faults>>

CloseNote(n) ==
    /\ items' = Without(n)
    /\ UNCHANGED <<suggestion, todo, refresh, completing, call, reported,
                   overlapped, calls, faults>>

AtMostLimit == IF Len(items) < Limit THEN Len(items) ELSE Limit

\* Mutant: the oldest ones are listed.
ListOldestActionItems == SubSeq(items, Len(items) - AtMostLimit + 1, Len(items))

ListOpenActionItems == SubSeq(items, 1, AtMostLimit)

----------------------------------------------------------------------------
(* RefreshSuggestions: the background sweep, or a user.                    *)

\* TryLock: a second refresh fails at once.  The items and the fingerprints are
\* loaded once.
BeginRefresh ==
    /\ ~ refresh.on
    /\ refresh' = [on |-> TRUE, rest |-> ListOpenActionItems,
                   known |-> {n \in Notes : suggestion[n] # "none"}]
    /\ UNCHANGED <<items, suggestion, todo, completing, call, reported,
                   overlapped, calls, faults>>

\* The fingerprint exists: the item has a suggestion.
PassItem ==
    /\ refresh.on /\ refresh.rest # << >> /\ Head(refresh.rest) \in refresh.known
    /\ refresh' = [refresh EXCEPT !.rest = Tail(@)]
    /\ UNCHANGED <<items, suggestion, todo, completing, call, reported,
                   overlapped, calls, faults>>

\* The rewriter answered and the row is inserted.
SaveItem ==
    /\ refresh.on /\ refresh.rest # << >> /\ Head(refresh.rest) \notin refresh.known
    /\ suggestion' = [suggestion EXCEPT ![Head(refresh.rest)] = "pending"]
    /\ refresh' = [refresh EXCEPT !.rest = Tail(@)]
    /\ UNCHANGED <<items, todo, completing, call, reported, overlapped, calls, faults>>

\* The rewriter or the insert failed: the item is left to the next refresh.
SkipItem ==
    /\ refresh.on /\ refresh.rest # << >> /\ Head(refresh.rest) \notin refresh.known
    /\ Fault
    /\ refresh' = [refresh EXCEPT !.rest = Tail(@)]
    /\ UNCHANGED <<items, suggestion, todo, completing, call, reported,
                   overlapped, calls>>

EndRefresh ==
    /\ refresh.on /\ refresh.rest = << >>
    /\ refresh' = NoRefresh
    /\ UNCHANGED <<items, suggestion, todo, completing, call, reported,
                   overlapped, calls, faults>>

----------------------------------------------------------------------------
(* The calls of users.                                                     *)

Enter(u, pc, id) ==
    /\ call[u] = Idle /\ calls < MaxCalls
    /\ calls' = calls + 1
    /\ call' = [call EXCEPT ![u] = [pc |-> pc, id |-> id]]

Goto(u, from, to) ==
    /\ call[u].pc = from
    /\ call' = [call EXCEPT ![u].pc = to]

CreateTodo(u, t) ==
    /\ todo[t] = "none" /\ call[u] = Idle /\ calls < MaxCalls
    /\ calls' = calls + 1
    /\ todo' = [todo EXCEPT ![t] = "open"]
    /\ UNCHANGED <<items, suggestion, refresh, completing, call, reported,
                   overlapped, faults>>

\* Mutant: the row is read without the lock.
BeginCompleteUnlocked(u, t) ==
    /\ Enter(u, "complete", t)
    /\ todo[t] = "open"
    /\ UNCHANGED <<items, suggestion, todo, refresh, completing, reported,
                   overlapped, faults>>

\* completeTodoOnce, with the scope's lock: a todo that is missing or already
\* done ends the call.
BeginComplete(u, t) ==
    /\ completing = Nobody
    /\ Enter(u, "complete", t)
    /\ todo[t] = "open"
    /\ completing' = u
    /\ UNCHANGED <<items, suggestion, todo, refresh, reported, overlapped, faults>>

SaveCompleted(u) ==
    /\ Goto(u, "complete", "completed")
    /\ todo' = [todo EXCEPT ![call[u].id] = "done"]
    /\ completing' = Nobody
    /\ UNCHANGED <<items, suggestion, refresh, reported, overlapped, calls, faults>>

\* The accepts that have read n's suggestion as pending and not yet written it.
Accepting(n) ==
    {u \in Users : call[u].id = n /\ call[u].pc \in {"lookup", "create", "accept"}}

\* AcceptSuggestion: the suggestion has to be pending.
BeginAccept(u, n) ==
    /\ suggestion[n] = "pending"
    /\ Enter(u, "lookup", n)
    /\ overlapped' = IF Accepting(n) = {} THEN overlapped ELSE overlapped \cup {n}
    /\ UNCHANGED <<items, suggestion, todo, refresh, completing, reported, faults>>

\* DismissSuggestion.
BeginDismiss(u, n) ==
    /\ suggestion[n] = "pending"
    /\ Enter(u, "dismiss", n)
    /\ UNCHANGED <<items, suggestion, todo, refresh, completing, reported,
                   overlapped, faults>>

\* Mutant: every accept writes its todo.
AcceptedTodoFresh(u) ==
    /\ Goto(u, "lookup", "create")
    /\ UNCHANGED <<items, suggestion, todo, refresh, completing, reported,
                   overlapped, calls, faults>>

\* Mutant: an accept that finds no todo goes on as if there were one.
AcceptedTodoAssumed(u) ==
    /\ Goto(u, "lookup", "accept")
    /\ UNCHANGED <<items, suggestion, todo, refresh, completing, reported,
                   overlapped, calls, faults>>

\* The todo of an earlier accept that failed halfway is used as it is.
AcceptedTodo(u) ==
    /\ Goto(u, "lookup", IF todo[call[u].id] = "none" THEN "create" ELSE "accept")
    /\ UNCHANGED <<items, suggestion, todo, refresh, completing, reported,
                   overlapped, calls, faults>>

SaveTodo(u) ==
    /\ Goto(u, "create", "accept")
    /\ todo' = [todo EXCEPT ![call[u].id] = "open"]
    /\ UNCHANGED <<items, suggestion, refresh, completing, reported, overlapped,
                   calls, faults>>

SaveDecision(u) ==
    /\ \/ /\ Goto(u, "accept", "accepted")
          /\ suggestion' = [suggestion EXCEPT ![call[u].id] = "accepted"]
       \/ /\ Goto(u, "dismiss", "dismissed")
          /\ suggestion' = [suggestion EXCEPT ![call[u].id] = "dismissed"]
    /\ UNCHANGED <<items, todo, refresh, completing, reported, overlapped, calls,
                   faults>>

\* The event goes to the lake; the call succeeds whether or not it arrives.
Report(u) ==
    /\ call[u].pc \in {"completed", "accepted", "dismissed"}
    /\ \/ /\ reported' = [reported EXCEPT ![<<call[u].pc, call[u].id>>] = @ + 1]
          /\ UNCHANGED faults
       \/ Fault /\ UNCHANGED reported
    /\ call' = [call EXCEPT ![u] = Idle]
    /\ UNCHANGED <<items, suggestion, todo, refresh, completing, overlapped, calls>>

\* A statement fails: the call returns the error and leaves what it wrote.
Fail(u) ==
    /\ call[u].pc \in {"complete", "lookup", "create", "accept", "dismiss"} /\ Fault
    /\ call' = [call EXCEPT ![u] = Idle]
    /\ completing' = IF completing = u THEN Nobody ELSE completing
    /\ UNCHANGED <<items, suggestion, todo, refresh, reported, overlapped, calls>>

Crash ==
    /\ Fault
    /\ call' = [u \in Users |-> Idle]
    /\ completing' = Nobody
    /\ refresh' = NoRefresh
    /\ UNCHANGED <<items, suggestion, todo, reported, overlapped, calls>>

Sweep == BeginRefresh \/ PassItem \/ SaveItem \/ SkipItem \/ EndRefresh

Next ==
    \/ \E n \in Notes : UpdateNote(n) \/ CloseNote(n)
    \/ Sweep
    \/ \E u \in Users :
        \/ \E t \in Manual : CreateTodo(u, t)
        \/ \E t \in TodoIds : BeginComplete(u, t)
        \/ \E n \in Notes : BeginAccept(u, n) \/ BeginDismiss(u, n)
        \/ SaveCompleted(u) \/ AcceptedTodo(u) \/ SaveTodo(u) \/ SaveDecision(u)
        \/ Report(u) \/ Fail(u)
    \/ Crash

Spec == Init /\ [][Next]_vars

\* The sweep ticks for ever, and a refresh that is under way goes on.
FairSpec ==
    /\ Spec
    /\ WF_vars(BeginRefresh) /\ WF_vars(PassItem) /\ WF_vars(SaveItem) /\ WF_vars(EndRefresh)
----------------------------------------------------------------------------
\* The state has its type, and the completion lock is held by whoever has read a
\* todo as open and not yet written it back.
TypeOK ==
    /\ items \in Seq(Notes) /\ refresh.rest \in Seq(Notes) /\ overlapped \subseteq Notes
    /\ suggestion \in [Notes -> {"none", "pending", "accepted", "dismissed"}]
    /\ todo \in [TodoIds -> {"none", "open", "done"}]
    /\ reported \in [Events -> Nat]
    /\ \A u \in Users : call[u].pc = "complete" <=> completing = u

\* A suggestion that was accepted, or reported as accepted, has its todo, also
\* if statements failed, the process died or a dismissal overlapped.
AcceptedHasTodo ==
    TypeOK /\ \A n \in Notes :
        suggestion[n] = "accepted" \/ reported[<<"accepted", n>>] > 0 => todo[n] # "none"

\* acceptedTodo: a repeated accept keeps the todo that it finds, completed or
\* not.  Only an accept that overlapped another one of the same suggestion may
\* take a completion back.
CompletionKept ==
    [][\A t \in TodoIds \ overlapped : todo[t] = "done" => todo'[t] = "done"]_vars

\* completeTodoOnce: however many users complete a todo at once, one of them
\* reports it (unless a completion was taken back, see CompletionKept).
CompletedOnce ==
    \A t \in TodoIds \ overlapped : reported[<<"completed", t>>] <= 1

\* The sweep suggests every action item that stays among the newest ones, when
\* the rewriter and the database do not fail for ever.
EventuallySuggested ==
    \A n \in Notes :
        <>[](\E i \in DOMAIN items : items[i] = n /\ i <= Limit) => <>(suggestion[n] # "none")
=============================================================================
