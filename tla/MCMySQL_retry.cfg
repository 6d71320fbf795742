CONSTANTS
  MaxQueries = 1
  MaxAttempts = 2
  DrainLimit = 1
  JoinTimesOut = FALSE
SPECIFICATION Spec
INVARIANT FirstAttemptDecides
