SPECIFICATION FairSpec
CONSTANTS
  k1 = k1
  k2 = k2
  Key <- MCKey
  Value = {v1}
  Thread = {t1}
  ShardCount <- MCShardCount
  Hash <- SameShard
  Seconds = {0, 1}
  TicksPerSecond = 1
  TimeLimit = 3
  MaxItems = 1
  MaxTime = 2
  MaxGeneration = 3
  OK = OK
  Nil = Nil
INVARIANT TypeOK
INVARIANT EveryDeadlineIsScheduled
INVARIANT CandidateIdentifiesItsExpire
PROPERTY OnlyDelRemovesLiveKeys
PROPERTY ExpiredEntryIsReclaimed
PROPERTY StoppedSweeperEnds
