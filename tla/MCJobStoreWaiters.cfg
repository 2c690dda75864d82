SPECIFICATION WaitersSpec
CONSTANTS
  MaxJobs = 2
  Specs <- MCSpecs
  Reasons = {"failure"}
  Results = {"result"}
  Delays = {1}
  NULL = NULL
  Writers = {t1, t2}
  Waiters = {c1, c2}
INVARIANTS OutcomeMatchesStatus NoMissedEnding
PROPERTIES AttemptsCountStarts WaitersReturn
