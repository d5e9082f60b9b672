SPECIFICATION FairSpec
CONSTANTS
  a = a
  b = b
  s1 = s1
  s2 = s2
  s3 = s3
  Scopes = {a, b}
  Streams = {s1, s2, s3}
  ScopeOf <- MCScopeOf
  Sessions <- MCSessions
  Callers = {u1}
  Slots = 1
  ScopeCap = 2
  TotalCap = 2
  Healthy = {b}
  Asking = {a}
  Cutoffs = {TRUE, FALSE}
  Recent = {s2}
  Scenarios <- MCScenarios
  Nobody = Nobody
INVARIANTS CursorCovered WakeupPending
CHECK_DEADLOCK FALSE
PROPERTIES RebuildRuns EventuallyInjected
