SPECIFICATION FairSpec
CONSTANTS
  r1 = r1
  r2 = r2
  t1 = t1
  t2 = t2
  t3 = t3
  Replicas = {r1}
  Tasks = {t1, t2}
  Home <- HomeSameTwo
  THRESHOLD = 2
  COOLDOWN = 2
  REFRESH = 1
  PROBE_TTL = 1
  FAIL_WINDOW = 2
  RedisOutcomes = {"ok"}
  SLOW_REDIS = FALSE
  HANGUPS = TRUE
  RESTARTS = FALSE
  OTHER_CHAINS = FALSE
PROPERTIES EventuallyClosed
