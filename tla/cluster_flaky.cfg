SPECIFICATION Spec
CONSTANTS
  r1 = r1
  r2 = r2
  t1 = t1
  t2 = t2
  t3 = t3
  Replicas = {r1, r2}
  Tasks = {t1, t2, t3}
  Home <- HomeTwoOne
  THRESHOLD = 2
  COOLDOWN = 2
  REFRESH = 1
  PROBE_TTL = 1
  FAIL_WINDOW = 1
  RedisOutcomes = {"ok", "lost"}
  SLOW_REDIS = FALSE
  HANGUPS = FALSE
  RESTARTS = FALSE
  OTHER_CHAINS = FALSE
INVARIANTS TypeOK ProbeHasOwner
