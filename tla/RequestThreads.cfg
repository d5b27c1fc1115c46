SPECIFICATION Spec
CONSTANTS
  w1 = w1
  w2 = w2
  a1 = a1
  s1 = s1
  d1 = d1
  k1 = k1
  None = None
  Requests = {w1, w2, a1, s1}
  Webhooks = {w1, w2}
  Approvals = {a1}
  Passes = {s1}
  Scenarios <- MCScenarios
  PoolSize = 2
  Prompts = {d1, k1}
  InitialTables <- MCTables
  PromptsOf <- MCPromptsOf
  MaxLostReplies = 1
  MaxRestarts = 1
INVARIANTS
  TypeOK
  ActsOnlyOnFittingAnswers
  PoolConserved
PROPERTIES
  CachedAnswerStays
  EveryRequestEnds
  GatewaySpec
