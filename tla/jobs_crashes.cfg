SPECIFICATION FairSpec
CONSTANTS
  j1 = j1
  j2 = j2
  w1 = w1
  w2 = w2
  Jobs = {j1, j2}
  Bad = {j2}
  Workers = {w1, w2}
  MAX_ATTEMPTS = 2
  CRASHES = TRUE
  TIMEOUTS = FALSE
  FAULTS = 2
  REDIS_ERRORS = FALSE
  EXPIRY = TRUE
  RETENTION = FALSE
CHECK_DEADLOCK FALSE
INVARIANTS NothingLost FailedIsBuried
PROPERTIES Settles
