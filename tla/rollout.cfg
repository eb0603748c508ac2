SPECIFICATION FairSpec
CONSTANTS
  r1 = r1
  r2 = r2
  q1 = q1
  q2 = q2
  a1 = a1
  v1 = v1
  v2 = v2
  None = None
  Replicas = {r1, r2}
  Requests = {q1}
  Operators = {a1}
  Home <- HomeFar
  Versions = {v1, v2}
  Startup = v1
  WEIGHTS = {0, 50}
  MIN_REQUESTS = 2
  MAX_ERROR_RATE = 50
  REFRESH = 1
  Ops = {"publish", "weigh", "promote", "discard"}
  Good = {}
  MAX_COUNT = 2
  MAX_EVENTS = 1
INVARIANTS StaleAtMostRefresh
PROPERTIES BadCanaryWithdrawn
