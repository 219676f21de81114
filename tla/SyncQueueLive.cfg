CONSTANTS
  None = None
  Calls = {c1, c2, c3, c4, c5, c6, c7}
  Items = {"note"}
  ExternalOptions <- PlainAndSpawn
  Environment = {"timer", "startOffline", "serverError"}
  PageLimit = 1
  MaxRequests = 1
  MaxDirtyIndex = 1
  MaxFaults = 1
  MaxFollowUps = 0
  Reserve = 2
SPECIFICATION FairSpec
PROPERTY EveryCallSettles
PROPERTY DirtyItemsAreUploaded
