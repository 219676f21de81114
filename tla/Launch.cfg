CONSTANTS
  MaxRestarts = 3
  LaunchEnvironment = {}
SPECIFICATION LaunchFairSpec
INVARIANTS AccountIsKept
PROPERTY MigratesInTheEnd
CHECK_DEADLOCK FALSE
