SPECIFICATION FairSpec
CONSTANTS
  s1 = s1
  s2 = s2
  q1 = q1
  e1 = e1
  e2 = e2
  e3 = e3
  EventIds = {e1, e2}
  Streams <- OneStream
  EventLimit = 2
  TokenLimit = 3
  Overlap = 1
  Tokens <- LongSecond
  Processes = {p1, p2}
  Shards = {q1}
  ShardOf <- OneShard
  JobIds = {j1, j2}
  MaxSeq = 2
  MaxBatch = 1
  MaxAttempts = 2
  MaxSlicesPerJob = 1
  MaxFaults = 1
  Versions = {v1}
  OrderedProducer = TRUE
  NoJob = NoJob
INVARIANT PipelineInv
PROPERTIES LakeMonotonic ImplementsContract EventuallyExtracted
CHECK_DEADLOCK FALSE
