SPECIFICATION HSpec
CONSTANTS
  k1 = k1
  Key = {k1}
  Value = {v1}
  Thread = {t1, t2}
  ShardCount <- MCShardCount
  Hash <- OneShard
  Seconds = {1, 2}
  TicksPerSecond = 1
  TimeLimit = 100
  MaxItems = 1
  MaxTime = 1
  MaxGeneration = 3
  OK = OK
  Nil = Nil
  PromptCalls = FALSE
SYMMETRY Symmetry
PROPERTY ExpiredStaysMissing
