SPECIFICATION RoomSpec
CONSTANTS
  a1 = a1
  a2 = a2
  SeqMod = 1024
  Addrs = {a1, a2}
  NoAddr = NoAddr
  Nonces = {1}
  Owners = {0}
  Cars = {0}
  Positions = {0}
  Courses = {0, 1}
  MaxTokens = 2
  MaxClock = 2
  Timeout = 9
  StartDelay = 1
  ArmMargin = 0
  PendingMax = 2
  RequestMax = 1
  Before <- HostBefore
  Gathered <- First
  UpCap = 1
  DownCap <- Reordering
  MaxAsks = 1
  Sizes = {2}
  MaxRace = 2
  ClockError = 1
CHECK_DEADLOCK FALSE
VIEW View
INVARIANTS
  SameTrack
  StartAgreement
  StreamInStep
