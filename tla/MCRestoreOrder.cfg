SPECIFICATION RestoreSpec
CONSTANTS
  RequestThreads = {h1, h2}
  Specs <- MCSpecs
  Radix = 3
  MaxJobs = 3
  MaxSecond = 1
  MaxLaunches = 2
  NULL = NULL
PROPERTY SubmissionOrder
CHECK_DEADLOCK FALSE
