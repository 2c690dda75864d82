SPECIFICATION OrderSpec
CONSTANTS
  Jobs <- MCJobs
  MaxQueueSize = 2
  MaxPushes = 6
INVARIANTS BoundedOvertaking EqualPrioritiesKeepOrder
CHECK_DEADLOCK FALSE
