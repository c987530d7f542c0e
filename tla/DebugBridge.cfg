SPECIFICATION FairSpec
CONSTANTS
  MaxRequests = 2
  MaxConnections = 2
INVARIANTS
  AtBoundary
  ClosedOnce
  AnswersAreTrue
PROPERTIES
  EveryRequestAnswered
  QuitReturns
CHECK_DEADLOCK FALSE
