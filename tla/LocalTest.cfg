SPECIFICATION FairSpec
CONSTANTS
  Players = 2
  MaxSignals = 2
INVARIANT
  ClientsAfterServer
PROPERTY
  SetupStops
CHECK_DEADLOCK FALSE
