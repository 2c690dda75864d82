SPECIFICATION FairSpec
CONSTANTS
  RequestThreads = {h1}
  PoolThreads = {w1}
  MaxQueueSize = 1
  Specs <- MCRetriedSpecs
  MaximumDelay = 2
  MaxJobs = 3
  MaxLaunches = 1
  MaxFaults = 0
  RetryDelay <- MCRetryDelay
  NULL = NULL
PROPERTIES
  JobsFinish StopEnds
