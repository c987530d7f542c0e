SPECIFICATION FairSpec
CONSTANTS
  Choices = {c1, c2}
  Network = Network
INVARIANTS
  LocalSettingsKept
  NothingLeftOpen
PROPERTIES
  FailedSessionsEnd
