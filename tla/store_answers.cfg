SPECIFICATION HSpec
CONSTANTS
  k1 = k1
  Key = {k1}
  Value = {v1, v2}
  Thread = {t1, t2}
  ShardCount <- MCShardCount
  Hash <- OneShard
  Seconds = {0, 1, 7}
  TicksPerSecond = 1
  TimeLimit = 3
  MaxItems = 1
  MaxTime = 2
  MaxGeneration = 3
  OK = OK
  Nil = Nil
  PromptCalls = TRUE
SYMMETRY Symmetry
INVARIANT LeaseIsHonoured
PROPERTY OnlyDelRemovesLiveKeys
PROPERTY AnswersHeldDuringTheCall
PROPERTY ExpiredStaysMissing
