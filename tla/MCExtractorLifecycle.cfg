SPECIFICATION FairCoordinatorSpec
CONSTANTS
  Extractions = {x1, x2}
  Calls = {b1, b2}
  Waiters = {c1, c2}
INVARIANTS QuietAfterClose ErrorsReportedOnce LifecycleInv
PROPERTY CloseReturns
CHECK_DEADLOCK FALSE
