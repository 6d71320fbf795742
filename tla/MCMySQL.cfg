CONSTANTS
  MaxQueries = 4
  MaxAttempts = 3
  DrainLimit = 2
  JoinTimesOut = FALSE
SPECIFICATION FairSpec
INVARIANTS
  TypeOK
  ResultsExpected
  OnePlace
  NothingForgotten
PROPERTIES
  OvertakesOnlyFailures
  ImplementsService
  AnsweredUnlessStopped
  SentIsAnswered
  JoinEnds
  ReadySettles
