SPECIFICATION Spec
CONSTANTS
  j1 = j1
  j2 = j2
  w1 = w1
  w2 = w2
  Jobs = {j1}
  Bad = {}
  Workers = {w1, w2}
  MAX_ATTEMPTS = 2
  CRASHES = TRUE
  TIMEOUTS = TRUE
  FAULTS = 3
  REDIS_ERRORS = TRUE
  EXPIRY = TRUE
  RETENTION = TRUE
CHECK_DEADLOCK FALSE
INVARIANTS AttemptsDiffer CeilingNotReached
