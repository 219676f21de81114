CONSTANTS
  Notes <- TwoNotes
  Copies <- ThreeCopies
  PageLimit = 1
  Environment = {}
  MaxEdits = 1
  MaxRemoteEdits = 1
  MaxFailures = 1
  MaxCrashes = 1
SPECIFICATION FairSpec
INVARIANTS EditsAreSafe StoredTokensAreCovered
PROPERTY Converges
