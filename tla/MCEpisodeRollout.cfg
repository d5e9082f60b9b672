SPECIFICATION Spec
CONSTANTS
  p1 = p1
  p2 = p2
  w1 = w1
  w2 = w2
  s1 = s1
  s2 = s2
  s3 = s3
  st1 = st1
  st2 = st2
  Procs = {p1, p2}
  Workers = {w1}
  Slices = {s1, s2, s3}
  Streams = {st1, st2}
  StreamOf <- MCStreamOf
  ToSequence <- MCToSequence
  NewEvents <- MCNewEvents
  Answers = {"a"}
  NoAnswer = "none"
  Configs <- RolloutConfigs
  Usages = {3, 4}
  CompactStartTokens = 4
  CompactTokens = 5
  SummaryTailTokens = 1
  SummaryTriggerTokens = 1
  MaxPromptTokens = 5
  RunLimit = 2
  Nobody = Nobody
  Summariser = Summariser
  MaxExtracts = 3
  MaxFaults = 1
INVARIANTS TranscriptIsTail ContextKept ReplayWindow AppendedOnce CursorsCurrent
CHECK_DEADLOCK FALSE
SYMMETRY ProcSymmetry
