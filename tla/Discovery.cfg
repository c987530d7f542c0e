SPECIFICATION FairSpec
CONSTANTS
  Hosts = {h1}
  Period = 1
  Expiry = 1
  MaxListed = 1
  MaxRooms = 2
  MaxRetries = 1
INVARIANTS
  SilentRoomsExpire
  ListedSinceAsked
PROPERTIES
  OpenRoomsAreFound
  BrowserRecovers
