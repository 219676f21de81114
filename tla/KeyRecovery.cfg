CONSTANTS
  MaxKey = 2
  MaxPassword = 3
  Run = {r1, r2}
  MaxArrivals = 2
  MaxRestarts = 1
  MaxWizards = 1
  Environment = {}
SPECIFICATION FairSpec
INVARIANTS UndecryptablesAreKept
PROPERTIES RootKeyNeverGoesBack QueueIsEmptied
CHECK_DEADLOCK FALSE
