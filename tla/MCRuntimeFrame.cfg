SPECIFICATION FairSpec
CONSTANTS
  MaxJobs = 2
  Promises = {p1, p2}
  MaxCalls = 4
  MaxTime = 1
INVARIANT FrameInv
PROPERTIES TimersInOrder FramesGoOn EveryJobContinues
CHECK_DEADLOCK FALSE
