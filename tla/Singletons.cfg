CONSTANTS
  Device = {d1, d2}
  Caller = {c1}
  MaxItems = 2
  MaxFailures = 1
  SingletonsEnvironment = {"keysLater"}
SPECIFICATION SingletonsFairSpec
CHECK_DEADLOCK FALSE
INVARIANTS SomeSingletonSurvives
PROPERTIES DevicesAgree CallersGetOne
