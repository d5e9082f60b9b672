----------------------------- MODULE MCSliceWalk -----------------------------
(* Every log of up to four events of one, three or six tokens. *)
EXTENDS SliceWalk

CONSTANTS s1, a1, a2, b1, c1

OneStream == {s1}
Sizes == [e \in EventIds |-> CASE e \in {a1, a2} -> 1 [] e = b1 -> 3 [] e = c1 -> 6]

\* A log puts some of the events at distinct sequences.
AllLogs ==
    UNION {{{[id |-> e, stream |-> s1, seq |-> at[e]] : e \in ids} :
               at \in {f \in [ids -> 1..LastSeq] :
                          \A d, e \in ids : d # e => f[d] # f[e]}} :
               ids \in SUBSET EventIds}
=============================================================================
