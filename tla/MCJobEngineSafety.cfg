SPECIFICATION Spec
CONSTANTS
  RequestThreads = {h1, h2}
  PoolThreads = {w1, w2}
  MaxQueueSize = 1
  Specs <- MCSpecs
  MaximumDelay = 2
  MaxJobs = 2
  MaxLaunches = 2
  MaxFaults = 2
  RetryDelay <- MCRetryDelay
  NULL = NULL
SYMMETRY MCSymmetry
INVARIANTS
  SingleCarrier ReadyJobsCanStart RunningJobsAreActive OrphansAreExplained
  HandoffsAreAccepted CleanExit FailuresAreExplained
PROPERTIES
  EndsAreFinal NeverStartsEarly ImplementsLifecycle
