---------------------------- MODULE MCNoteStore ----------------------------
(* Small batches for the note store: who revises, resolves and shares what. *)
EXTENDS NoteStore, TLC

ClientSymmetry == Permutations(Clients)

Says(key, action, invalid, sound, drops) ==
    [key |-> key, action |-> action, invalid |-> invalid, occurred |-> 1,
     sound |-> sound, drops |-> drops]

\* r1 and r2 lock two keys in opposite orders.  r2 can only resolve k1 once r1
\* or r3 has created it, and its c (invalid at 2) may create k2 but not revise
\* it: whether r2 is quarantined depends on what commits first.  r3 shares a
\* with r1, and r1 rejects the d that r2 may have admitted.
MCDetail ==
    [x \in Candidates |->
        CASE x = "a" -> Says("k1", "create", NULL, TRUE, FALSE)
          [] x = "b" -> Says("k2", "create", NULL, TRUE, FALSE)
          [] x = "c" -> Says("k2", "update", 2, TRUE, TRUE)
          [] x = "d" -> Says("k1", "resolve", NULL, TRUE, FALSE)]
MCBatch ==
    [r \in Runs |->
        CASE r = "r1" -> <<"a", "b">>
          [] r = "r2" -> <<"c", "d">>
          [] r = "r3" -> <<"a">>]
MCRejections ==
    [r \in Runs |-> IF r = "r1" THEN {"d"} ELSE {}]
=============================================================================
