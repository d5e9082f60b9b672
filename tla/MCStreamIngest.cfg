SPECIFICATION Spec
CONSTANTS
  e1 = e1
  e2 = e2
  e3 = e3
  k1 = k1
  k2 = k2
  Connectors = {k1, k2}
  Streams = {s1, s2}
  EventIds = {e1, e2, e3}
  Batches <- MCBatches
  PageLimit = 1
  MaxBatches = 4
  Nobody = Nobody
INVARIANTS Gapless NothingBehindCursor
SYMMETRY ConnectorSymmetry
CHECK_DEADLOCK FALSE
