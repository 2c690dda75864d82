SPECIFICATION QueueThreadsSpec
CONSTANTS
  Jobs <- MCJobs
  Pushers = {p1, p2}
  Poppers = {c1, c2}
  MaxPushes = 3
INVARIANT PopsAreWoken
PROPERTIES AcceptedJobsAreHanded ShutdownReachesPoppers
