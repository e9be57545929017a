CONSTANTS
  t1 = t1
  t2 = t2
  t3 = t3
  NoTask = NoTask
  Tasks <- TwoTasks
  Locks <- Mutexes
  Rank <- MutexRank
  MaxRank <- MutexRankBound
  Programs <- HelloRetrySections
SPECIFICATION FairSpec
CHECK_DEADLOCK FALSE
PROPERTY HelloRetryProceeds
