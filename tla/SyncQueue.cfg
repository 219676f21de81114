CONSTANTS
  None = None
  Calls = {c1, c2, c3, c4}
  Items = {"note", "tag"}
  ExternalOptions <- DistinctKinds
  Environment = {"mismatch", "singleton", "serverError", "encryptError", "clientLock", "deinit"}
  PageLimit = 1
  MaxRequests = 2
  MaxDirtyIndex = 1
  MaxFaults = 1
  MaxFollowUps = 1
  Reserve = 1
SPECIFICATION Spec
INVARIANTS AtMostOneOperation QueuedRequestIsHeld ExecutedSyncUploads
PROPERTY NothingAfterDeinit
CHECK_DEADLOCK FALSE
