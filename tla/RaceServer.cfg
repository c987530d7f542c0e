SPECIFICATION Spec
CONSTANTS
  SeqMod = 8
  Addrs = {a1, a2, a3}
  NoAddr = NoAddr
  Nonces = {1, 2}
  Owners = {0, 1}
  Cars = {0}
  Positions = {0, 1}
  Courses = {0}
  MaxTokens = 3
  MaxClock = 3
  Timeout = 1
  StartDelay = 2
  ArmMargin = 1
CHECK_DEADLOCK FALSE
SYMMETRY Symmetry
VIEW View
INVARIANTS PhaseMatchesPlayers NoGhostCar HostPresent OneSlotPerEndpoint OwnerIsHost
PROPERTIES StartIsCommitted StartsTogether
