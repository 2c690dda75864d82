SPECIFICATION ProcessesSpec
CONSTANTS
  Processes = {p1, p2}
  Specs <- MCSpecs
  MaxJobs = 2
  MaxLaunches = 3
  NULL = NULL
INVARIANT AttemptsAreExclusive
PROPERTIES EndedJobsStayEnded LoneProcessFinishes
CHECK_DEADLOCK FALSE
