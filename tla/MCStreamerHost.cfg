CONSTANTS
  MaxStreamers = 2
  MaxEntities = 1
  MaxRequests = 2
  MaxTasks = 2
  MaxVisible = 1
  Player = {p1}
  Place = {a}
SPECIFICATION FairSpec
INVARIANT
  StreamerInv
PROPERTIES
  ImplementsService
  EveryCallAnswered
  UntrackedForgotten
