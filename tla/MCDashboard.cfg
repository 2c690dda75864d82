SPECIFICATION DashboardSpec
CONSTANTS
  MaxJobs = 1
  MaxBreaks = 2
  None = None
PROPERTIES
  CreatedIsTrue GoesBackOnlyByOverlap PageCatchesUp FormComesBack
