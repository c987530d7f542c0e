SPECIFICATION FairSpec
CONSTANTS
  Calls = {c1, c2}
  Retryable = {c1}
  Mutations = {c2}
  Large = {c2}
  NoCall = NoCall
  Versions = {1, 2}
  MaxRestarts = 1
INVARIANTS
  OwnAnswer
  ReplayedIfRetryable
PROPERTIES
  OnlyCompatible
  EveryCallEnds
