-------------------------- MODULE ConsumerContract --------------------------
(***************************************************************************)
(* What a processor of Evidence Lake streams promises, whatever its queue, *)
(* its workers and its output are: it reads events in sequence after its   *)
(* own cursor, makes its output durable first, and moves the cursor only   *)
(* over events whose outcome is durable.                                   *)
(***************************************************************************)
EXTENDS Integers

CONSTANTS Streams

VARIABLES
    stored,    \* events of the lake, records with a stream and a seq
    covered,   \* events whose processing outcome is durable
    position   \* the processor's cursor in each stream

contractVars == <<stored, covered, position>>

ContractInit ==
    /\ stored = {}
    /\ covered = {}
    /\ position = [s \in Streams |-> 0]

\* Events arrive beyond the cursor; stored events are immutable.
Arrive ==
    /\ stored \subseteq stored'
    /\ \A e \in stored' \ stored : e.seq > position[e.stream]
    /\ UNCHANGED <<covered, position>>

\* The outcome of some stored events becomes durable.
Cover ==
    /\ covered \subseteq covered'
    /\ covered' \subseteq stored
    /\ UNCHANGED <<stored, position>>

\* The cursor of one stream moves forward over covered events only.
Advance(s) ==
    /\ position' = [position EXCEPT ![s] = position'[s]]
    /\ position'[s] > position[s]
    /\ \A e \in stored : e.stream = s /\ e.seq <= position'[s] => e \in covered
    /\ UNCHANGED <<stored, covered>>

ContractNext == Arrive \/ Cover \/ \E s \in Streams : Advance(s)

ContractSpec == ContractInit /\ [][ContractNext]_contractVars
=============================================================================
