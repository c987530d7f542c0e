SPECIFICATION FairSpec
CONSTANTS
  Paths = {}
  NoPath = NoPath
  Rooms = {r1}
  QueueMax = 1
  ResolverMax = 1
  MaxOps = 1
PROPERTY RoomsExpire
