CONSTANTS
  Theme = {"theme"}
  Component = {"editor"}
  Plain = {}
  Experimental = {"theme"}
  Deprecated = {"editor"}
  MaxCopies = 2
  MaxUpdates = 2
  MaxChanges = 2
  MaxToggles = 1
  MaxFailures = 1
  MaxRestarts = 1
  Environment = {}
  Free = {"core"}
  Plan <- BasicAndPlus
  Repository <- OfflinePlan
SPECIFICATION FairSpec
INVARIANTS OneItemEach ItemsFollowFeatures
PROPERTIES EntitlementsSettle
