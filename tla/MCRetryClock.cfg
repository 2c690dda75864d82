SPECIFICATION ClockSpec
CONSTANTS
  TicksPerMs = 3
  ClockMax = 63
  MaxBackoff = 2
  Skews <- MCSkews
  MaxTime = 20
  MaxAttempts = 5
  MaxLaunches = 4
  NULL = NULL
INVARIANTS ExponentialUpToMaximum OverflowTakesCrashes
PROPERTY EarlyOnlyByClockChange
CHECK_DEADLOCK FALSE
