SPECIFICATION FairSpec
CONSTANTS
  Engines <- MCEngines
  Modes <- MCModes
  MaxOpens = 2
  MaxWrites = 3
  MaxCloses = 2
  MaxCalls <- MCCalls
  MaxMessages = 1
INVARIANT SocketInv
PROPERTIES OpenSettlesUnlessDisturbed CloseCompletes
           WriteSettlesUnlessStranded
CHECK_DEADLOCK FALSE
