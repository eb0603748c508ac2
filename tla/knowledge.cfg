INIT KnowledgeInit
NEXT KnowledgeNext
CONSTANTS
  n1 = n1
  n2 = n2
  t1 = t1
  c1 = c1
  c2 = c2
  d1 = d1
  r1 = r1
  r2 = r2
  p1 = p1
  p2 = p2
  p3 = p3
  Namespaces = {n1, n2}
  Tenants = {t1}
  Owner <- OneTenant
  Callers = {c1, c2}
  MAX_ENTRIES = 1
  TTL = 2
  MAX_STORES = 2
  MAX_TIME = 2
  Replicas = {r1, r2}
  Docs = {d1}
  Data <- OneText
  MAX_BYTES = 2
  MAX_CHUNKS = 2
  BATCH = 1
  MAX_INGESTS = 2
  Lines <- LineKinds
  MAX_LINES = 4
  MAX_WORDS = 3
  OVERLAP_WORDS = 1
  Stored = {p1, p2, p3}
  Relevance = {1, 2}
  CANDIDATES = 2
  PREFETCH_FLOOR = 2
  Passages = {p1, p2, p3}
  Scores = {1, 2}
  StepBudgets = {2, 8, 12}
  MAX_REVISIONS = 3
  MAX_SEARCHES = 2
  MAX_TOP_K = 2
INVARIANTS KnowledgeTypes PurgedGone CapHolds DocumentRepaired AnswerReviewed ResearchBounded BestKept ChunksFaithful
SYMMETRY AllSame
CHECK_DEADLOCK FALSE
