SPECIFICATION FairSpec
CONSTANTS
  Null = Null
  MaxTokens = 1
  Incidents = 1
  Unheard = 1
  Plans <- MCPlans
  WarmupTurns = 1
  TurnsPerUser = 2
  BenchConcurrency = 2
  BenchMaxRequests = 3
  Levels = 1
  ProseMin = 1
  ProseTries = 2
  Iterations = 3
  Prompts = 3
  ToolRounds = 1
  CommandLines <- MCCommandLines
INVARIANTS
  LoadTypeOK
  EveryRequestIsCounted
  DeltasAreOwn
  ReleasesLagByTheLost
  AnswersComeInOrder
PROPERTIES
  LoadTestsEnd
CHECK_DEADLOCK FALSE
