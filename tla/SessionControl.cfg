SPECIFICATION FairSpec
CONSTANTS
  Paths = {p1, p2}
  NoPath = NoPath
  Rooms = {}
  QueueMax = 2
  ResolverMax = 1
  MaxOps = 3
INVARIANTS
  ConnectionIsCurrent
  SuccessIsCurrent
  NothingLeft
PROPERTIES
  Answered
  ShutdownTerminates
