CONSTANTS
  Request = {r1, c}
  Change = {c}
  Attempt = {a, b}
  MaxExpiries = 2
  MaxFailures = 2
  MaxCrashes = 1
  r1 = r1
  c = c
  a = a
  b = b
SPECIFICATION Spec
INVARIANTS TypeOK NoTokenRefreshedTwice SessionKeepsUp ExecutedOnce
CHECK_DEADLOCK FALSE
