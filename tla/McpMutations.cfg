SPECIFICATION FairSpec
CONSTANTS
  Calls = {c1, c2}
  Retryable = {c1}
  Mutations = {c1, c2}
  Large = {c2}
  NoCall = NoCall
  Versions = {1, 2}
  MaxRestarts = 1
INVARIANT MutationsOnce
