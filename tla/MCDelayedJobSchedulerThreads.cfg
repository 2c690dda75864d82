SPECIFICATION ThreadsSpec
CONSTANTS
  Jobs = {j1, j2, j3}
  Callers = {c1, c2}
  MaxDelay = 2
  MaxStarts = 2
INVARIANTS NeverOversleeps
PROPERTIES DueJobsArePushed StopReturns
