CONSTANTS
  Workers = {w1, w2}
  Servers = {s1, s2}
  RowsPerWorker = 1
  Batches = 2
  MaxUpdates = 1
  PromptLength = 2
  ResponseLength = 3
  ConfigMaxModelLen = 4
  Prompts <- MCPrompts
  MaxAssistantTurns = 0
  MaxUserTurns = 0
  MaxParallelCalls = 2
  MaxCalls = 3
  MaxToolTokens = 1
  CacheSize = 1
  NumThreads = 1
  RateLimit = 1
  FreeCacheEngine = TRUE
SPECIFICATION FairSpec
CHECK_DEADLOCK FALSE
INVARIANTS
  AnswersFromLatestWeights
  EndsWithAnswer
PROPERTIES
  StaysOnServer
  BatchReturns
