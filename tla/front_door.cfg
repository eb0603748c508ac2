INIT FrontDoorInit
NEXT FrontDoorNext
CONSTANTS
  k1 = k1
  b1 = b1
  b2 = b2
  o1 = o1
  o2 = o2
  q1 = q1
  q2 = q2
  c1 = c1
  c2 = c2
  c3 = c3
  c4 = c4
  c5 = c5
  u1 = u1
  u2 = u2
  pod1 = pod1
  pod2 = pod2
  call1 = call1
  call2 = call2
  doc1 = doc1
  doc2 = doc2
  hook1 = hook1
  hook2 = hook2
  Keys = {k1}
  Bearers = {b1, b2}
  Operators = {o1, o2}
  JWT_TTL = 2
  MAX_NOW = 2
  Requests = {q1, q2}
  CAPACITY = 3
  RATE = 2
  COST = 2
  SKEW = 1
  GRACE = 1
  MAX_TIME = 4
  MAX_HITS = 5
  Callers = {c1, c2, c3, c4, c5}
  MAX_CONCURRENCY = 2
  MAX_QUEUE = 2
  MAX_STRAYS = 1
  Pods = {pod1, pod2}
  Calls = {call1, call2}
  CallPod <- AllOnOnePod
  REFRESH = 2
  MAX_TICKS = 3
  MAX_SWITCHES = 2
  Recorders = {u1, u2}
  Prices = {1}
  LAST_DAY = 1
  Pieces <- PiecesOfText
  Reports = {0, 2}
  MAX_PARTS = 3
  ANSWER = 3
  Corpus = {doc1, doc2}
  MAX_STARTS = 2
  Hooks = {hook1, hook2}
  RECENT_MAX = 2
  MAX_ALERTS = 4
  job1 = job1
  job2 = job2
  Jobs = {job1, job2}
  rd1 = rd1
  rd2 = rd2
  Readers = {rd1}
  Purgers = {rd1, rd2}
  MAX_ATTEMPTS = 2
  MAX_LETTERS = 1
INVARIANTS FrontDoorTypes NoOverspend RevokedStaysOut NoIdleSlot FaultsFresh StreamPriced StartsWhole LedgerKept
PROPERTIES SlotsImplemented
SYMMETRY AllSame
CHECK_DEADLOCK FALSE
