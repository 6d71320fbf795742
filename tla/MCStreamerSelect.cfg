CONSTANTS
  Surroundings <- MCSurroundings
  MaxPlayers = 3
  MaxLimit = 7
  MinQuery = 4
SPECIFICATION SelectSpec
INVARIANTS
  SelectInv
  FillsUp
  SharesFair
PROPERTY Terminates
