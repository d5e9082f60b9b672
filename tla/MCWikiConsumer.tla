--------------------------- MODULE MCWikiConsumer ---------------------------
(* Two scopes that share one slot and a scan of two rows: a has two streams *)
(* of one session whose injections may fail for ever, and which fill the    *)
(* scan until b, which is healthy, gets its one.                            *)
EXTENDS WikiConsumer

CONSTANTS a, b, s1, s2, s3

MCScopeOf == (s1 :> a) @@ (s2 :> a) @@ (s3 :> b)
MCSessions == {<<s1, s2>>}

Scenario(backlog, arrivals, r, c, t) ==
    [backlog |-> backlog, arrivals |-> arrivals, requests |-> r, crashes |-> c,
     toggles |-> t]
MCScenarios ==
    { Scenario(<<s1, s2>>, <<s3>>, 0, 0, 0),  \* a backlog that fails, then s3
      Scenario(<<s1, s2>>, << >>, 1, 0, 0),   \* a session of two streams
      Scenario(<<s1>>, <<s1>>, 1, 0, 0),      \* the head moves meanwhile
      Scenario(<<s1>>, << >>, 2, 0, 0),       \* rebuilds and injections meet
      Scenario(<<s1>>, << >>, 1, 1, 0),       \* a crash
      Scenario(<<s1>>, << >>, 1, 0, 1),       \* auto_inject is switched off
      Scenario(<<s3>>, << >>, 1, 0, 0) }      \* a's rebuild waits for the slot
=============================================================================
