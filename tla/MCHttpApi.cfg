SPECIFICATION ApiSpec
CONSTANTS
  RequestThreads = {h1, h2}
  Bodies <- MCBodies
  IntMax = 3
  PriorityMax = 1
  MaximumAttempts = 2
  MaximumDelayMs = 2
  Absent = Absent
  Other = Other
  NUL = NUL
  MaxRequests = 2
  MaxFaults = 1
  MaxLaunches = 2
  NULL = NULL
SYMMETRY MCSymmetry
INVARIANT AnswersAreTrue
CHECK_DEADLOCK FALSE
