SPECIFICATION FairSpec
CONSTANTS
  s1 = s1
  s2 = s2
  w1 = w1
  p1 = p1
  Requests = {s1, s2, w1}
  Streams = {s1, s2}
  Caching = {s1, s2, w1}
  Prompts = {p1}
  Prompt <- SamePrompt
  WORDS = 2
  METER_ERRORS = TRUE
INVARIANTS TypeOK BilledOnce GeneratedIsBilled AnswersWhole OutcomeTold
PROPERTIES Ends
CHECK_DEADLOCK FALSE
