SPECIFICATION WalkSpec
CONSTANTS
  s1 = s1
  a1 = a1
  a2 = a2
  b1 = b1
  c1 = c1
  EventIds = {a1, a2, b1, c1}
  Streams <- OneStream
  Tokens <- Sizes
  EventLimit = 2
  TokenLimit = 4
  Overlap = 2
  LastSeq = 5
  Logs <- AllLogs
INVARIANTS SlicesMaximal SlicesPartition
CHECK_DEADLOCK FALSE
