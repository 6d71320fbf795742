SPECIFICATION Spec
CONSTANTS
  Engines <- MCEngines
  Modes <- MCModes
  MaxOpens = 1
  MaxWrites = 3
  MaxCloses = 0
  MaxCalls <- MCCalls
  MaxMessages = 0
INVARIANT OneSendAtATime
CHECK_DEADLOCK FALSE
