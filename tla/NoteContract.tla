---------------------------- MODULE NoteContract ----------------------------
(* What the note store promises to its callers, without transactions, locks  *)
(* or retries.                                                               *)
(*                                                                           *)
(* A run is settled once: either every one of its candidates is admitted in  *)
(* the same step, or the run is quarantined and admits nothing.  A session   *)
(* is given each claim (a revision of a note, or a hint) at most once.       *)
EXTENDS Naturals

CONSTANTS
    Runs,        \* the ids of extraction runs
    Candidates,  \* the ids of candidates
    Content,     \* Content[r]: the candidates that run r carries
    Claims       \* what a recall can claim for a session

VARIABLES
    settled,     \* settled[r]: what became of run r
    admitted,    \* the candidates that made a revision of a note
    given        \* given[i]: how often claim i was handed out

cvars == <<settled, admitted, given>>

CInit ==
    /\ settled = [r \in Runs |-> "absent"]
    /\ admitted = {}
    /\ given = [i \in Claims |-> 0]

\* Run r takes effect as a whole; a candidate that was admitted before, under
\* another run, is not admitted again.
Complete(r) ==
    /\ settled[r] = "absent"
    /\ settled' = [settled EXCEPT ![r] = "completed"]
    /\ admitted' = admitted \cup Content[r]
    /\ UNCHANGED given

\* Run r is given up and leaves no trace in the notes.
Quarantine(r) ==
    /\ settled[r] = "absent"
    /\ settled' = [settled EXCEPT ![r] = "quarantined"]
    /\ UNCHANGED <<admitted, given>>

\* One recall hands out claims that nobody was given before.
Give ==
    /\ given' \in [Claims -> 0..1]
    /\ \A i \in Claims : given[i] <= given'[i]
    /\ UNCHANGED <<settled, admitted>>

CNext ==
    \/ \E r \in Runs : Complete(r) \/ Quarantine(r)
    \/ Give

CSpec == CInit /\ [][CNext]_cvars
=============================================================================
