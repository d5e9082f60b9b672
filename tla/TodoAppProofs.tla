---------------------------- MODULE TodoAppProofs ----------------------------
(***************************************************************************)
(* Proofs about TodoApp, for any number of notes, todos, users, calls and  *)
(* faults, and every limit of the refresh.                                 *)
(***************************************************************************)
EXTENDS TodoApp, CommonLemmas, SequenceTheorems, TLAPS

-----------------------------------------------------------------------------
(* The list of action items *)

\* Taking a note off a list leaves a list of notes.
LEMMA RemoveFirstType ==
    ASSUME NEW S, NEW s \in Seq(S), NEW n
    PROVE  RemoveFirst(s, n) \in Seq(S)
<1> DEFINE I == {i \in 1 .. Len(s) : s[i] = n}
           m == CHOOSE x \in I : \A y \in I : x <= y
<1>1. CASE I = {}
  BY <1>1 DEF RemoveFirst
<1>2. CASE I # {}
  <2>1. I \in SUBSET Nat
    OBVIOUS
  <2>2. m \in I
    BY <1>2, <2>1, LeastNat
  <2>3. RemoveFirst(s, n) = SubSeq(s, 1, m - 1) \o SubSeq(s, m + 1, Len(s))
    BY <1>2 DEF RemoveFirst, RemoveAt, SelectInSeq, Min
  <2>4. m \in 1 .. Len(s)
    BY <2>2
  <2> HIDE DEF m
  <2>5. SubSeq(s, 1, m - 1) \in Seq(S) /\ SubSeq(s, m + 1, Len(s)) \in Seq(S)
    BY <2>4
  <2> QED
    BY <2>3, <2>5
<1> QED
  BY <1>1, <1>2

\* A refresh lists notes.
LEMMA ListType ==
    ASSUME TypeOK PROVE ListOpenActionItems \in Seq(Notes)
<1>1. items \in Seq(Notes) /\ AtMostLimit \in 0 .. Len(items)
  BY TodoAssumption DEF TypeOK, AtMostLimit
<1> QED
  BY <1>1 DEF ListOpenActionItems

-----------------------------------------------------------------------------
(* The inductive invariant *)

AcceptPcs == {"lookup", "create", "accept"}
NotePcs == AcceptPcs \cup {"accepted", "dismiss", "dismissed"}
Pcs == NotePcs \cup {"idle", "complete", "completed"}

\* The types that TypeOK leaves out.
Types ==
    /\ call \in [Users -> [pc : Pcs, id : TodoIds \cup {Nobody}]]
    /\ completing \in Users \cup {Nobody}
    /\ refresh \in [on : BOOLEAN, rest : Seq(Notes), known : SUBSET Notes]
    /\ calls \in Nat /\ faults \in Nat

\* What a call relies on between two of its statements: an accept that writes
\* its decision has its todo, the todo that is being completed is still open,
\* and a todo that an accept is about to create does not exist, unless another
\* accept of the suggestion was under way.
CallOK(u) ==
    /\ call[u].pc \in {"complete", "completed"} => call[u].id \in TodoIds
    /\ call[u].pc \in NotePcs => call[u].id \in Notes
    /\ call[u].pc \in {"accept", "accepted"} => todo[call[u].id] # "none"
    /\ call[u].pc = "complete" => todo[call[u].id] = "open"
    /\ call[u].pc = "create" /\ call[u].id \notin overlapped => todo[call[u].id] = "none"

\* Two accepts of one suggestion that are under way were noticed.
AcceptsApart ==
    \A u, v \in Users :
        /\ u # v /\ call[u].pc \in AcceptPcs /\ call[v].pc \in AcceptPcs
        /\ call[u].id = call[v].id
        => call[u].id \in overlapped

\* A completion that was reported, or that a call is about to report, is one
\* and the same, and the todo is done.
CompletionOK(t) ==
    t \notin overlapped =>
        /\ reported[<<"completed", t>>] <= 1
        /\ reported[<<"completed", t>>] = 1 =>
              /\ todo[t] = "done"
              /\ \A u \in Users : ~ (call[u].pc = "completed" /\ call[u].id = t)
        /\ \A u \in Users : call[u].pc = "completed" /\ call[u].id = t => todo[t] = "done"
        /\ \A u, v \in Users :
              /\ call[u].pc = "completed" /\ call[u].id = t
              /\ call[v].pc = "completed" /\ call[v].id = t
              => u = v

Backed ==
    \A n \in Notes :
        suggestion[n] = "accepted" \/ reported[<<"accepted", n>>] > 0 => todo[n] # "none"

TodoInv ==
    /\ TypeOK /\ Types
    /\ \A u \in Users : CallOK(u)
    /\ AcceptsApart
    /\ \A t \in TodoIds : CompletionOK(t)
    /\ Backed

\* A scope without suggestions and todos satisfies the invariant.
LEMMA InitInv == Init => TodoInv
<1> SUFFICES ASSUME Init PROVE TodoInv
  OBVIOUS
<1>1. \A u \in Users : call[u].pc = "idle"
  BY DEF Init, Idle
<1>2. TypeOK
  BY <1>1, TodoAssumption DEF Init, TypeOK, NoRefresh
<1>3. Types
  BY DEF Init, Types, NoRefresh, Idle, Pcs, NotePcs, AcceptPcs
<1>4. /\ \A t \in TodoIds : reported[<<"completed", t>>] = 0
      /\ \A n \in Notes : reported[<<"accepted", n>>] = 0
  BY DEF Init, Events
<1> QED
  BY <1>1, <1>2, <1>3, <1>4
     DEF Init, TodoInv, CallOK, NotePcs, AcceptPcs, AcceptsApart, CompletionOK, Backed

-----------------------------------------------------------------------------
(* Team memory and the refresh *)

\* A step that leaves the calls, the todos and the reports alone, and accepts
\* nothing, has only types to keep.
LEMMA SameCalls ==
    ASSUME TodoInv, TypeOK', Types', UNCHANGED <<todo, call, reported, overlapped>>,
           \A n \in Notes : suggestion'[n] = "accepted" => suggestion[n] = "accepted"
    PROVE  TodoInv'
<1>1. \A u \in Users : CallOK(u)'
  BY DEF TodoInv, CallOK
<1>2. AcceptsApart'
  BY DEF TodoInv, AcceptsApart
<1>3. \A t \in TodoIds : CompletionOK(t)'
  BY DEF TodoInv, CompletionOK
<1>4. Backed'
  BY DEF TodoInv, Backed
<1> QED
  BY <1>1, <1>2, <1>3, <1>4 DEF TodoInv

\* The invariant looks at every variable only.
LEMMA StutterInv == ASSUME TodoInv, UNCHANGED vars PROVE TodoInv'
<1>1. TypeOK' /\ Types'
  BY DEF TodoInv, TypeOK, Types, vars
<1> QED
  BY <1>1, SameCalls DEF vars

\* A note is revised, or closed.
LEMMA NotesInv ==
    ASSUME TodoInv, NEW n \in Notes, UpdateNote(n) \/ CloseNote(n)
    PROVE  TodoInv'
<1>1. Without(n) \in Seq(Notes)
  BY RemoveFirstType DEF TodoInv, TypeOK, Without
<1>2. items' \in Seq(Notes)
  BY <1>1, SMTT(30) DEF UpdateNote, CloseNote
<1>3. UNCHANGED <<suggestion, todo, refresh, completing, call, reported, overlapped, calls, faults>>
  BY DEF UpdateNote, CloseNote
<1>4. TypeOK' /\ Types'
  BY <1>2, <1>3 DEF TodoInv, TypeOK, Types
<1> QED
  BY <1>3, <1>4, SameCalls

\* The refresh only adds suggestions that are pending.
LEMMA SweepInv == ASSUME TodoInv, Sweep PROVE TodoInv'
<1>1. /\ refresh \in [on : BOOLEAN, rest : Seq(Notes), known : SUBSET Notes]
      /\ suggestion \in [Notes -> {"none", "pending", "accepted", "dismissed"}]
      /\ faults \in Nat
  BY DEF TodoInv, TypeOK, Types
<1>2. UNCHANGED <<items, todo, completing, call, reported, overlapped, calls>>
  BY DEF Sweep, BeginRefresh, PassItem, SaveItem, SkipItem, EndRefresh
<1>3. faults' \in Nat
  BY <1>1 DEF Sweep, BeginRefresh, PassItem, SaveItem, SkipItem, EndRefresh, Fault
<1>4. refresh' \in [on : BOOLEAN, rest : Seq(Notes), known : SUBSET Notes]
  <2>1. CASE BeginRefresh
    BY <2>1, ListType DEF BeginRefresh, TodoInv
  <2>2. CASE PassItem \/ SaveItem \/ SkipItem
    <3>1. refresh.rest # << >> /\ refresh' = [refresh EXCEPT !.rest = Tail(refresh.rest)]
      BY <2>2 DEF PassItem, SaveItem, SkipItem
    <3>2. Tail(refresh.rest) \in Seq(Notes)
      BY <1>1, <3>1
    <3> QED
      BY <1>1, <3>1, <3>2
  <2>3. CASE EndRefresh
    BY <2>3 DEF EndRefresh, NoRefresh
  <2> QED
    BY <2>1, <2>2, <2>3 DEF Sweep
<1>5. /\ suggestion' \in [Notes -> {"none", "pending", "accepted", "dismissed"}]
      /\ \A n \in Notes : suggestion'[n] = "accepted" => suggestion[n] = "accepted"
  BY <1>1 DEF Sweep, BeginRefresh, PassItem, SaveItem, SkipItem, EndRefresh
<1>6. refresh'.rest \in Seq(Notes)
  BY <1>4
<1>7. TypeOK' /\ Types'
  BY <1>2, <1>3, <1>4, <1>5, <1>6 DEF TodoInv, TypeOK, Types
<1> QED
  BY <1>2, <1>5, <1>7, SameCalls

-----------------------------------------------------------------------------
(* The calls of users *)

\* A user's step changes the record of no other call.
LEMMA CallStep ==
    ASSUME TodoInv, NEW u \in Users, NEW new \in [pc : Pcs, id : TodoIds \cup {Nobody}],
           call' = [call EXCEPT ![u] = new]
    PROVE  /\ call' \in [Users -> [pc : Pcs, id : TodoIds \cup {Nobody}]]
           /\ call'[u] = new
           /\ \A v \in Users : v # u => call'[v] = call[v]
  BY DEF TodoInv, Types

\* What Goto does to the record of a call.
LEMMA GotoStep ==
    ASSUME TodoInv, NEW u \in Users, NEW from, NEW to \in Pcs, Goto(u, from, to)
    PROVE  /\ call' \in [Users -> [pc : Pcs, id : TodoIds \cup {Nobody}]]
           /\ call[u].pc = from /\ call'[u].pc = to /\ call'[u].id = call[u].id
           /\ \A v \in Users : v # u => call'[v] = call[v]
<1>1. call[u] \in [pc : Pcs, id : TodoIds \cup {Nobody}]
  BY DEF TodoInv, Types
<1>2. call[u].pc = from /\ call' = [call EXCEPT ![u] = [call[u] EXCEPT !.pc = to]]
  BY DEF Goto, TodoInv, Types
<1>3. /\ [call[u] EXCEPT !.pc = to] \in [pc : Pcs, id : TodoIds \cup {Nobody}]
      /\ [call[u] EXCEPT !.pc = to].pc = to /\ [call[u] EXCEPT !.pc = to].id = call[u].id
  BY <1>1
<1> QED
  BY <1>2, <1>3, CallStep

\* What Enter does to the record of a call.
LEMMA EnterStep ==
    ASSUME TodoInv, NEW u \in Users, NEW pc \in Pcs, NEW id \in TodoIds, Enter(u, pc, id)
    PROVE  /\ call' \in [Users -> [pc : Pcs, id : TodoIds \cup {Nobody}]]
           /\ call[u].pc = "idle" /\ call'[u].pc = pc /\ call'[u].id = id
           /\ calls' \in Nat
           /\ \A v \in Users : v # u => call'[v] = call[v]
<1>1. [pc |-> pc, id |-> id] \in [pc : Pcs, id : TodoIds \cup {Nobody}]
  OBVIOUS
<1>2. /\ call[u] = Idle /\ call' = [call EXCEPT ![u] = [pc |-> pc, id |-> id]]
      /\ calls' = calls + 1
  BY DEF Enter
<1>3. calls' \in Nat /\ call[u].pc = "idle"
  BY <1>2 DEF TodoInv, Types, Idle
<1> QED
  BY <1>1, <1>2, <1>3, CallStep

\* The sets of a call's stages, written out.
LEMMA PcSets ==
    /\ AcceptPcs \subseteq NotePcs /\ NotePcs \subseteq Pcs
    /\ "idle" \in Pcs \ NotePcs /\ "complete" \in Pcs \ NotePcs /\ "completed" \in Pcs \ NotePcs
    /\ \A p \in {"lookup", "create", "accept"} : p \in AcceptPcs
    /\ \A p \in {"accepted", "dismiss", "dismissed"} : p \in NotePcs \ AcceptPcs
  BY DEF AcceptPcs, NotePcs, Pcs

\* A todo that a user writes down.
LEMMA CreateTodoInv ==
    ASSUME TodoInv, NEW u \in Users, NEW t \in Manual, CreateTodo(u, t)
    PROVE  TodoInv'
<1>1. /\ todo[t] = "none" /\ todo' = [todo EXCEPT ![t] = "open"] /\ calls' = calls + 1
      /\ UNCHANGED <<items, suggestion, refresh, completing, call, reported, overlapped, faults>>
  BY DEF CreateTodo
<1>2. TypeOK' /\ Types'
  <2>1. todo' \in [TodoIds -> {"none", "open", "done"}]
    BY <1>1 DEF TodoInv, TypeOK
  <2>2. calls' \in Nat
    BY <1>1 DEF TodoInv, Types
  <2> QED
    BY <2>1, <2>2, <1>1 DEF TodoInv, TypeOK, Types
<1>3. /\ t \in TodoIds /\ t \notin Notes /\ todo'[t] = "open"
      /\ \A x \in TodoIds : x # t => todo'[x] = todo[x]
  BY <1>1, TodoAssumption DEF TodoInv, TypeOK, TodoIds
<1>4. ASSUME NEW v \in Users PROVE CallOK(v)'
  <2>1. CallOK(v)
    BY DEF TodoInv
  <2>2. call[v].pc \in NotePcs => call[v].id \in TodoIds /\ call[v].id # t
    BY <2>1, <1>3 DEF CallOK, TodoIds
  <2> QED
    BY <2>1, <2>2, <1>1, <1>3, PcSets DEF CallOK
<1>5. AcceptsApart'
  BY <1>1 DEF TodoInv, AcceptsApart
<1>6. ASSUME NEW x \in TodoIds PROVE CompletionOK(x)'
  BY <1>1, <1>3 DEF TodoInv, CompletionOK
<1>7. Backed'
  BY <1>1, <1>3 DEF TodoInv, Backed, TodoIds
<1> QED
  BY <1>2, <1>4, <1>5, <1>6, <1>7 DEF TodoInv

\* A completion reads its todo as open, with the lock.
LEMMA BeginCompleteInv ==
    ASSUME TodoInv, NEW u \in Users, NEW t \in TodoIds, BeginComplete(u, t)
    PROVE  TodoInv'
<1>1. /\ completing = Nobody /\ completing' = u /\ todo[t] = "open"
      /\ UNCHANGED <<items, suggestion, todo, refresh, reported, overlapped, faults>>
  BY DEF BeginComplete
<1>2. /\ call' \in [Users -> [pc : Pcs, id : TodoIds \cup {Nobody}]]
      /\ call[u].pc = "idle" /\ call'[u].pc = "complete" /\ call'[u].id = t
      /\ calls' \in Nat
      /\ \A v \in Users : v # u => call'[v] = call[v]
  BY EnterStep, PcSets DEF BeginComplete
<1>3. Types'
  BY <1>1, <1>2 DEF TodoInv, Types
<1>4. TypeOK'
  <2>1. \A v \in Users : call'[v].pc = "complete" <=> completing' = v
    BY <1>1, <1>2, TodoAssumption DEF TodoInv, TypeOK
  <2> QED
    BY <2>1, <1>1 DEF TodoInv, TypeOK
<1>5. ASSUME NEW v \in Users PROVE CallOK(v)'
  BY <1>1, <1>2, PcSets DEF TodoInv, CallOK
<1>6. AcceptsApart'
  BY <1>1, <1>2, PcSets DEF TodoInv, AcceptsApart
<1>7. ASSUME NEW x \in TodoIds PROVE CompletionOK(x)'
  BY <1>1, <1>2 DEF TodoInv, CompletionOK
<1>8. Backed'
  BY <1>1 DEF TodoInv, Backed
<1> QED
  BY <1>3, <1>4, <1>5, <1>6, <1>7, <1>8 DEF TodoInv

\* The todo was open, so nobody has completed it before.
LEMMA SaveCompletedInv ==
    ASSUME TodoInv, NEW u \in Users, SaveCompleted(u)
    PROVE  TodoInv'
<1> DEFINE t == call[u].id
<1>1. /\ todo' = [todo EXCEPT ![t] = "done"] /\ completing' = Nobody
      /\ UNCHANGED <<items, suggestion, refresh, reported, overlapped, calls, faults>>
  BY DEF SaveCompleted
<1>2. /\ call' \in [Users -> [pc : Pcs, id : TodoIds \cup {Nobody}]]
      /\ call[u].pc = "complete" /\ call'[u].pc = "completed" /\ call'[u].id = t
      /\ \A v \in Users : v # u => call'[v] = call[v]
  BY GotoStep, PcSets DEF SaveCompleted
<1>3. t \in TodoIds /\ todo[t] = "open" /\ completing = u
  BY <1>2 DEF TodoInv, CallOK, TypeOK
<1> HIDE DEF t
<1>4. todo'[t] = "done" /\ \A x \in TodoIds : x # t => todo'[x] = todo[x]
  BY <1>1, <1>3 DEF TodoInv, TypeOK
<1>5. Types'
  BY <1>1, <1>2 DEF TodoInv, Types
<1>6. TypeOK'
  <2>1. \A v \in Users : call'[v].pc = "complete" <=> completing' = v
    BY <1>1, <1>2, <1>3, TodoAssumption DEF TodoInv, TypeOK
  <2>2. todo' \in [TodoIds -> {"none", "open", "done"}]
    BY <1>1 DEF TodoInv, TypeOK
  <2> QED
    BY <2>1, <2>2, <1>1 DEF TodoInv, TypeOK
<1>7. ASSUME NEW v \in Users PROVE CallOK(v)'
  <2>1. CASE v = u
    BY <2>1, <1>1, <1>2, <1>3, PcSets DEF CallOK
  <2>2. CASE v # u
    <3>1. CallOK(v) /\ call'[v] = call[v] /\ call[v].pc # "complete"
      BY <2>2, <1>2, <1>3 DEF TodoInv, TypeOK
    <3>2. call[v].pc \in NotePcs => call[v].id \in TodoIds
      BY <3>1 DEF CallOK, TodoIds
    <3> QED
      BY <3>1, <3>2, <1>1, <1>3, <1>4, PcSets DEF CallOK
  <2> QED
    BY <2>1, <2>2
<1>8. AcceptsApart'
  BY <1>1, <1>2, PcSets DEF TodoInv, AcceptsApart
<1>9. ASSUME NEW x \in TodoIds PROVE CompletionOK(x)'
  <2>1. CompletionOK(x) /\ CompletionOK(t)
    BY <1>3 DEF TodoInv
  <2>2. CASE x = t
    <3>1. t \notin overlapped =>
             /\ reported[<<"completed", t>>] # 1
             /\ \A v \in Users : ~ (call[v].pc = "completed" /\ call[v].id = t)
      BY <2>1, <1>3 DEF CompletionOK
    <3> QED
      BY <2>1, <2>2, <3>1, <1>1, <1>2, <1>4 DEF CompletionOK
  <2>3. CASE x # t
    BY <2>1, <2>3, <1>1, <1>2, <1>4, SMTT(30) DEF CompletionOK
  <2> QED
    BY <2>2, <2>3
<1>10. Backed'
  BY <1>1, <1>4 DEF TodoInv, Backed, TodoIds
<1> QED
  BY <1>5, <1>6, <1>7, <1>8, <1>9, <1>10 DEF TodoInv

\* An accept or a dismissal has read the suggestion as pending.
LEMMA BeginDecisionInv ==
    ASSUME TodoInv, NEW u \in Users, NEW n \in Notes, BeginAccept(u, n) \/ BeginDismiss(u, n)
    PROVE  TodoInv'
<1>1. UNCHANGED <<items, suggestion, todo, refresh, completing, reported, faults>>
  BY DEF BeginAccept, BeginDismiss
<1>2. /\ call' \in [Users -> [pc : Pcs, id : TodoIds \cup {Nobody}]]
      /\ call[u].pc = "idle" /\ call'[u].pc \in {"lookup", "dismiss"} /\ call'[u].id = n
      /\ calls' \in Nat
      /\ \A v \in Users : v # u => call'[v] = call[v]
  <2>1. n \in TodoIds
    BY DEF TodoIds
  <2> QED
    BY <2>1, EnterStep, PcSets DEF BeginAccept, BeginDismiss
<1>3. /\ overlapped \subseteq overlapped' /\ overlapped' \subseteq Notes
      /\ call'[u].pc = "lookup" /\ Accepting(n) # {} => n \in overlapped'
  <2>1. CASE BeginAccept(u, n)
    BY <2>1 DEF BeginAccept, TodoInv, TypeOK
  <2>2. CASE BeginDismiss(u, n)
    <3>1. call'[u].pc = "dismiss" /\ overlapped' = overlapped
      BY <2>2, EnterStep, PcSets DEF BeginDismiss, TodoIds
    <3> QED
      BY <3>1 DEF TodoInv, TypeOK
  <2> QED
    BY <2>1, <2>2
<1>4. Types'
  BY <1>1, <1>2 DEF TodoInv, Types
<1>5. TypeOK'
  <2>1. \A v \in Users : call'[v].pc = "complete" <=> completing' = v
    BY <1>1, <1>2 DEF TodoInv, TypeOK
  <2> QED
    BY <2>1, <1>1, <1>3 DEF TodoInv, TypeOK
<1>6. ASSUME NEW v \in Users PROVE CallOK(v)'
  BY <1>1, <1>2, <1>3, PcSets DEF TodoInv, CallOK
<1>7. AcceptsApart'
  <2>1. ASSUME NEW v \in Users, v # u, call[v].pc \in AcceptPcs, call[v].id = n,
               call'[u].pc \in AcceptPcs
        PROVE  n \in overlapped'
    <3>1. v \in Accepting(n)
      BY <2>1 DEF Accepting, AcceptPcs
    <3>2. call'[u].pc = "lookup"
      BY <2>1, <1>2, PcSets
    <3> QED
      BY <3>1, <3>2, <1>3
  <2> QED
    BY <2>1, <1>2, <1>3 DEF TodoInv, AcceptsApart
<1>8. ASSUME NEW x \in TodoIds PROVE CompletionOK(x)'
  BY <1>1, <1>2, <1>3 DEF TodoInv, CompletionOK
<1>9. Backed'
  BY <1>1 DEF TodoInv, Backed
<1> QED
  BY <1>4, <1>5, <1>6, <1>7, <1>8, <1>9 DEF TodoInv

\* An accept looks for the todo of an earlier one.
LEMMA AcceptedTodoInv ==
    ASSUME TodoInv, NEW u \in Users, AcceptedTodo(u)
    PROVE  TodoInv'
<1> DEFINE to == IF todo[call[u].id] = "none" THEN "create" ELSE "accept"
<1>1. /\ Goto(u, "lookup", to)
      /\ UNCHANGED <<items, suggestion, todo, refresh, completing, reported, overlapped, calls, faults>>
  BY DEF AcceptedTodo
<1>2. /\ call' \in [Users -> [pc : Pcs, id : TodoIds \cup {Nobody}]]
      /\ call[u].pc = "lookup" /\ call'[u].pc = to /\ call'[u].id = call[u].id
      /\ \A v \in Users : v # u => call'[v] = call[v]
  BY <1>1, GotoStep, PcSets
<1>3. Types'
  BY <1>1, <1>2 DEF TodoInv, Types
<1>4. TypeOK'
  <2>1. \A v \in Users : call'[v].pc = "complete" <=> completing' = v
    BY <1>1, <1>2 DEF TodoInv, TypeOK
  <2> QED
    BY <2>1, <1>1 DEF TodoInv, TypeOK
<1>5. ASSUME NEW v \in Users PROVE CallOK(v)'
  BY <1>1, <1>2, PcSets DEF TodoInv, CallOK
<1>6. AcceptsApart'
  BY <1>1, <1>2, PcSets DEF TodoInv, AcceptsApart
<1>7. ASSUME NEW x \in TodoIds PROVE CompletionOK(x)'
  BY <1>1, <1>2 DEF TodoInv, CompletionOK
<1>8. Backed'
  BY <1>1 DEF TodoInv, Backed
<1> QED
  BY <1>3, <1>4, <1>5, <1>6, <1>7, <1>8 DEF TodoInv

\* The todo that an accept writes was missing, unless two accepts overlapped.
LEMMA SaveTodoInv ==
    ASSUME TodoInv, NEW u \in Users, SaveTodo(u)
    PROVE  TodoInv'
<1> DEFINE n == call[u].id
<1>1. /\ todo' = [todo EXCEPT ![n] = "open"]
      /\ UNCHANGED <<items, suggestion, refresh, completing, reported, overlapped, calls, faults>>
  BY DEF SaveTodo
<1>2. /\ call' \in [Users -> [pc : Pcs, id : TodoIds \cup {Nobody}]]
      /\ call[u].pc = "create" /\ call'[u].pc = "accept" /\ call'[u].id = n
      /\ \A v \in Users : v # u => call'[v] = call[v]
  BY GotoStep, PcSets DEF SaveTodo
<1>3. n \in Notes /\ n \in TodoIds /\ (n \notin overlapped => todo[n] = "none")
  BY <1>2, PcSets DEF TodoInv, CallOK, TodoIds
<1> HIDE DEF n
<1>4. todo'[n] = "open" /\ \A x \in TodoIds : x # n => todo'[x] = todo[x]
  BY <1>1, <1>3 DEF TodoInv, TypeOK
<1>5. Types'
  BY <1>1, <1>2 DEF TodoInv, Types
<1>6. TypeOK'
  <2>1. \A v \in Users : call'[v].pc = "complete" <=> completing' = v
    BY <1>1, <1>2 DEF TodoInv, TypeOK
  <2>2. todo' \in [TodoIds -> {"none", "open", "done"}]
    BY <1>1 DEF TodoInv, TypeOK
  <2> QED
    BY <2>1, <2>2, <1>1 DEF TodoInv, TypeOK
<1>7. ASSUME NEW v \in Users PROVE CallOK(v)'
  <2>1. CASE v = u
    BY <2>1, <1>1, <1>2, <1>3, <1>4, PcSets DEF CallOK
  <2>2. CASE v # u
    <3>1. CallOK(v) /\ call'[v] = call[v]
      BY <2>2, <1>2 DEF TodoInv
    <3>2. call[v].pc \in NotePcs \cup {"complete"} => call[v].id \in TodoIds
      BY <3>1 DEF CallOK, TodoIds
    <3>3. call[v].pc = "create" /\ call[v].id = n => n \in overlapped
      BY <2>2, <1>2, PcSets DEF TodoInv, AcceptsApart, n
    <3> QED
      BY <3>1, <3>2, <3>3, <1>1, <1>3, <1>4, PcSets DEF CallOK
  <2> QED
    BY <2>1, <2>2
<1>8. AcceptsApart'
  BY <1>1, <1>2, PcSets DEF TodoInv, AcceptsApart, n
<1>9. ASSUME NEW x \in TodoIds PROVE CompletionOK(x)'
  BY <1>1, <1>2, <1>3, <1>4 DEF TodoInv, CompletionOK
<1>10. Backed'
  BY <1>1, <1>4 DEF TodoInv, Backed, TodoIds
<1> QED
  BY <1>5, <1>6, <1>7, <1>8, <1>9, <1>10 DEF TodoInv

\* A suggestion that is accepted has its todo.
LEMMA SaveDecisionInv ==
    ASSUME TodoInv, NEW u \in Users, SaveDecision(u)
    PROVE  TodoInv'
<1> DEFINE n == call[u].id
<1>1. UNCHANGED <<items, todo, refresh, completing, reported, overlapped, calls, faults>>
  BY DEF SaveDecision
<1>2. /\ call' \in [Users -> [pc : Pcs, id : TodoIds \cup {Nobody}]]
      /\ call'[u].id = n
      /\ \/ /\ call[u].pc = "accept" /\ call'[u].pc = "accepted"
            /\ suggestion' = [suggestion EXCEPT ![n] = "accepted"]
         \/ /\ call[u].pc = "dismiss" /\ call'[u].pc = "dismissed"
            /\ suggestion' = [suggestion EXCEPT ![n] = "dismissed"]
      /\ \A v \in Users : v # u => call'[v] = call[v]
  BY GotoStep, PcSets DEF SaveDecision
<1>3. n \in Notes /\ (call[u].pc = "accept" => todo[n] # "none")
  BY <1>2, PcSets DEF TodoInv, CallOK
<1> HIDE DEF n
<1>4. Types'
  BY <1>1, <1>2 DEF TodoInv, Types
<1>5. TypeOK'
  <2>1. \A v \in Users : call'[v].pc = "complete" <=> completing' = v
    BY <1>1, <1>2 DEF TodoInv, TypeOK
  <2>2. suggestion' \in [Notes -> {"none", "pending", "accepted", "dismissed"}]
    BY <1>2 DEF TodoInv, TypeOK
  <2> QED
    BY <2>1, <2>2, <1>1 DEF TodoInv, TypeOK
<1>6. ASSUME NEW v \in Users PROVE CallOK(v)'
  BY <1>1, <1>2, <1>3, PcSets DEF TodoInv, CallOK
<1>7. AcceptsApart'
  BY <1>1, <1>2, PcSets DEF TodoInv, AcceptsApart
<1>8. ASSUME NEW x \in TodoIds PROVE CompletionOK(x)'
  BY <1>1, <1>2 DEF TodoInv, CompletionOK
<1>9. Backed'
  BY <1>1, <1>2, <1>3 DEF TodoInv, TypeOK, Backed
<1> QED
  BY <1>4, <1>5, <1>6, <1>7, <1>8, <1>9 DEF TodoInv

\* A call that ends with its report.
LEMMA ReportInv ==
    ASSUME TodoInv, NEW u \in Users, Report(u)
    PROVE  TodoInv'
<1> DEFINE e == <<call[u].pc, call[u].id>>
<1>1. /\ call[u].pc \in {"completed", "accepted", "dismissed"}
      /\ \/ reported' = [reported EXCEPT ![e] = @ + 1] /\ faults' = faults
         \/ reported' = reported /\ faults' = faults + 1
      /\ call' = [call EXCEPT ![u] = Idle]
      /\ UNCHANGED <<items, suggestion, todo, refresh, completing, overlapped, calls>>
  BY DEF Report, Fault
<1>2. /\ call' \in [Users -> [pc : Pcs, id : TodoIds \cup {Nobody}]]
      /\ call'[u].pc = "idle"
      /\ \A v \in Users : v # u => call'[v] = call[v]
  <2>1. Idle \in [pc : Pcs, id : TodoIds \cup {Nobody}] /\ Idle.pc = "idle"
    BY PcSets DEF Idle
  <2> QED
    BY <2>1, <1>1, CallStep
<1>3. /\ e \in Events /\ reported \in [Events -> Nat] /\ CallOK(u)
      /\ \A t \in TodoIds : <<"completed", t>> \in Events
      /\ \A n \in Notes : <<"accepted", n>> \in Events
  BY <1>1, PcSets DEF TodoInv, CallOK, TypeOK, Events
<1>4. /\ reported' \in [Events -> Nat]
      /\ \A f \in Events : f # e => reported'[f] = reported[f]
      /\ reported'[e] \in {reported[e], reported[e] + 1}
  BY <1>1, <1>3
<1>5. Types'
  BY <1>1, <1>2 DEF TodoInv, Types
<1>6. TypeOK'
  <2>1. \A v \in Users : call'[v].pc = "complete" <=> completing' = v
    BY <1>1, <1>2 DEF TodoInv, TypeOK
  <2> QED
    BY <2>1, <1>1, <1>4 DEF TodoInv, TypeOK
<1>7. ASSUME NEW v \in Users PROVE CallOK(v)'
  BY <1>1, <1>2, PcSets DEF TodoInv, CallOK
<1>8. AcceptsApart'
  BY <1>1, <1>2, PcSets DEF TodoInv, AcceptsApart
<1>9. ASSUME NEW x \in TodoIds PROVE CompletionOK(x)'
  <2>1. CompletionOK(x)
    BY DEF TodoInv
  <2>2. CASE call[u].pc = "completed" /\ call[u].id = x
    <3>1. e = <<"completed", x>> /\ reported[e] \in Nat
      BY <2>2, <1>3
    <3>2. x \notin overlapped =>
             /\ reported[e] = 0 /\ todo[x] = "done"
             /\ \A v \in Users : v # u => ~ (call[v].pc = "completed" /\ call[v].id = x)
      BY <2>1, <2>2, <3>1 DEF CompletionOK
    <3> HIDE DEF e
    <3> QED
      BY <3>1, <3>2, <1>1, <1>2, <1>4 DEF CompletionOK
  <2>3. CASE ~ (call[u].pc = "completed" /\ call[u].id = x)
    <3>1. <<"completed", x>> # e
      BY <2>3
    <3>2. reported'[<<"completed", x>>] = reported[<<"completed", x>>]
      BY <3>1, <1>3, <1>4
    <3> QED
      BY <2>1, <3>2, <1>1, <1>2 DEF CompletionOK
  <2> QED
    BY <2>2, <2>3
<1>10. Backed'
  <2> SUFFICES ASSUME NEW n \in Notes, reported'[<<"accepted", n>>] > 0 PROVE todo[n] # "none"
    BY <1>1 DEF TodoInv, Backed
  <2>1. CASE e = <<"accepted", n>>
    BY <2>1, <1>3 DEF CallOK
  <2>2. CASE e # <<"accepted", n>>
    BY <2>2, <1>3, <1>4 DEF TodoInv, Backed
  <2> QED
    BY <2>1, <2>2
<1> QED
  BY <1>5, <1>6, <1>7, <1>8, <1>9, <1>10 DEF TodoInv

\* Calls that end early leave what they wrote.
LEMMA CallsEnd ==
    ASSUME TodoInv, NEW V \in SUBSET Users,
           call' = [u \in Users |-> IF u \in V THEN Idle ELSE call[u]],
           completing' = IF completing \in V THEN Nobody ELSE completing,
           refresh' \in [on : BOOLEAN, rest : Seq(Notes), known : SUBSET Notes],
           faults' \in Nat,
           UNCHANGED <<items, suggestion, todo, reported, overlapped, calls>>
    PROVE  TodoInv'
<1>1. Idle \in [pc : Pcs, id : TodoIds \cup {Nobody}] /\ Idle.pc = "idle"
  BY PcSets DEF Idle
<1>2. /\ call' \in [Users -> [pc : Pcs, id : TodoIds \cup {Nobody}]]
      /\ \A u \in Users : call'[u].pc = "idle" \/ call'[u] = call[u]
  BY <1>1 DEF TodoInv, Types
<1>3. Types'
  BY <1>2 DEF TodoInv, Types
<1>4. TypeOK'
  <2>1. \A v \in Users : call'[v].pc = "complete" <=> completing' = v
    BY <1>1, TodoAssumption DEF TodoInv, TypeOK
  <2> QED
    BY <2>1 DEF TodoInv, TypeOK
<1>5. ASSUME NEW v \in Users PROVE CallOK(v)'
  BY <1>2, PcSets DEF TodoInv, CallOK
<1>6. AcceptsApart'
  BY <1>2, PcSets DEF TodoInv, AcceptsApart
<1>7. ASSUME NEW x \in TodoIds PROVE CompletionOK(x)'
  BY <1>2 DEF TodoInv, CompletionOK
<1>8. Backed'
  BY DEF TodoInv, Backed
<1> QED
  BY <1>3, <1>4, <1>5, <1>6, <1>7, <1>8 DEF TodoInv

\* A statement fails, and the call returns the error.
LEMMA FailInv == ASSUME TodoInv, NEW u \in Users, Fail(u) PROVE TodoInv'
<1>1. call' = [v \in Users |-> IF v \in {u} THEN Idle ELSE call[v]]
  BY DEF Fail, TodoInv, Types
<1>2. completing' = IF completing \in {u} THEN Nobody ELSE completing
  BY DEF Fail
<1>3. /\ refresh' \in [on : BOOLEAN, rest : Seq(Notes), known : SUBSET Notes]
      /\ faults' \in Nat
      /\ UNCHANGED <<items, suggestion, todo, reported, overlapped, calls>>
  BY DEF Fail, Fault, TodoInv, Types
<1>4. {u} \in SUBSET Users
  OBVIOUS
<1> QED
  BY <1>1, <1>2, <1>3, <1>4, CallsEnd, Zenon

\* The process dies, with every call and the refresh.
LEMMA CrashInv == ASSUME TodoInv, Crash PROVE TodoInv'
<1>1. call' = [v \in Users |-> IF v \in Users THEN Idle ELSE call[v]]
  BY DEF Crash
<1>2. completing' = IF completing \in Users THEN Nobody ELSE completing
  BY DEF Crash, TodoInv, Types
<1>3. /\ refresh' \in [on : BOOLEAN, rest : Seq(Notes), known : SUBSET Notes]
      /\ faults' \in Nat
      /\ UNCHANGED <<items, suggestion, todo, reported, overlapped, calls>>
  BY DEF Crash, Fault, NoRefresh, TodoInv, Types
<1>4. Users \in SUBSET Users
  OBVIOUS
<1> QED
  BY <1>1, <1>2, <1>3, <1>4, CallsEnd, Zenon

-----------------------------------------------------------------------------
(* The theorems *)

\* Every step of the service, of team memory and of their failures keeps the
\* invariant.
LEMMA NextInv == ASSUME TodoInv, [Next]_vars PROVE TodoInv'
<1>1. CASE UNCHANGED vars
  BY <1>1, StutterInv
<1>2. CASE \E n \in Notes : UpdateNote(n) \/ CloseNote(n)
  BY <1>2, NotesInv
<1>3. CASE Sweep
  BY <1>3, SweepInv
<1>4. CASE Crash
  BY <1>4, CrashInv
<1>5. ASSUME NEW u \in Users,
             \/ \E t \in Manual : CreateTodo(u, t)
             \/ \E t \in TodoIds : BeginComplete(u, t)
             \/ \E n \in Notes : BeginAccept(u, n) \/ BeginDismiss(u, n)
      PROVE  TodoInv'
  BY <1>5, CreateTodoInv, BeginCompleteInv, BeginDecisionInv
<1>6. ASSUME NEW u \in Users,
             \/ SaveCompleted(u) \/ AcceptedTodo(u) \/ SaveTodo(u) \/ SaveDecision(u)
             \/ Report(u) \/ Fail(u)
      PROVE  TodoInv'
  BY <1>6, SaveCompletedInv, AcceptedTodoInv, SaveTodoInv, SaveDecisionInv, ReportInv, FailInv
<1> QED
  BY <1>1, <1>2, <1>3, <1>4, <1>5, <1>6 DEF Next

\* The inductive invariant holds in every reachable state.
THEOREM TodoCorrect == Spec => []TodoInv
<1>1. TodoInv /\ [Next]_vars => TodoInv'
  BY NextInv
<1> QED
  BY InitInv, <1>1, PTL DEF Spec

\* A suggestion that was accepted, or reported as accepted, has its todo.
THEOREM AcceptedSuggestionsHaveTodos == Spec => []AcceptedHasTodo
<1>1. TodoInv => AcceptedHasTodo
  BY DEF TodoInv, AcceptedHasTodo, Backed
<1> QED
  BY <1>1, TodoCorrect, PTL

\* One of the users that complete a todo at once reports it.
THEOREM CompletionsReportedOnce == Spec => []CompletedOnce
<1>1. TodoInv => CompletedOnce
  BY DEF TodoInv, CompletedOnce, CompletionOK
<1> QED
  BY <1>1, TodoCorrect, PTL

\* Only accepts of one suggestion that overlap can take a completion back.
THEOREM CompletionsKept == Spec => CompletionKept
<1> DEFINE Kept == \A t \in TodoIds \ overlapped : todo[t] = "done" => todo'[t] = "done"
<1>1. TodoInv /\ [Next]_vars => [Kept]_vars
  <2> SUFFICES ASSUME TodoInv, Next, NEW t \in TodoIds \ overlapped, todo[t] = "done"
               PROVE  todo'[t] = "done"
    BY DEF vars
  <2>0. todo \in [TodoIds -> {"none", "open", "done"}]
    BY DEF TodoInv, TypeOK
  <2>1. CASE todo' = todo
    BY <2>1
  <2>2. ASSUME NEW u \in Users, NEW m \in Manual, CreateTodo(u, m) PROVE todo'[t] = "done"
    BY <2>0, <2>2 DEF CreateTodo, TodoIds
  <2>3. ASSUME NEW u \in Users, SaveCompleted(u) PROVE todo'[t] = "done"
    BY <2>0, <2>3 DEF SaveCompleted
  <2>4. ASSUME NEW u \in Users, SaveTodo(u) PROVE todo'[t] = "done"
    <3>1. call[u].pc = "create" /\ todo' = [todo EXCEPT ![call[u].id] = "open"]
      BY <2>4 DEF SaveTodo, Goto
    <3>2. call[u].id # t
      BY <3>1 DEF TodoInv, CallOK
    <3> QED
      BY <2>0, <3>1, <3>2
  <2> QED
    BY <2>1, <2>2, <2>3, <2>4
       DEF Next, UpdateNote, CloseNote, Sweep, BeginRefresh, PassItem, SaveItem, SkipItem,
           EndRefresh, BeginComplete, BeginAccept, BeginDismiss, AcceptedTodo, SaveDecision,
           Report, Fail, Crash
<1> QED
  BY <1>1, TodoCorrect, PTL DEF Spec, CompletionKept
=============================================================================
