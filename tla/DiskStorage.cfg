CONSTANTS
  Item = {"note", "tag"}
  Batches <- NoteAndTag
  MaxPersists = 3
  MaxSaves = 2
  MaxCalls = 3
  MaxEvents = 2
SPECIFICATION FairSpec
CHECK_DEADLOCK FALSE
INVARIANTS ResolvedSaveIsNotReverted ErasedDataStaysErased CriticalWritesOutliveDeinit
PROPERTIES KeepsVersions LastChangePersists
