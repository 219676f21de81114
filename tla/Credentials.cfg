CONSTANTS
  MaxChanges = 2
  MaxEdits = 3
  MaxFailures = 3
  Environment = {}
SPECIFICATION CredentialsFairSpec
INVARIANTS AccountIsReadable DeviceIsReadable
PROPERTY BecomesReadable
CHECK_DEADLOCK FALSE
