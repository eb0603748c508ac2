SPECIFICATION FairSpec
CONSTANTS
  primary = primary
  backup = backup
  q1 = q1
  q2 = q2
  Deployments = {primary, backup}
  Chain <- TwoRoutes
  MaxRetries <- OneRetry
  Healthy = {backup}
  Requests = {q1, q2}
  CLUSTER = TRUE
  THRESHOLD = 2
  COOLDOWN = 1
INVARIANTS PassedOverForCause AnswerIsLast HealthyServes
PROPERTIES Terminates
