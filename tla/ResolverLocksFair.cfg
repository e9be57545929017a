CONSTANTS
  t1 = t1
  t2 = t2
  t3 = t3
  NoTask = NoTask
  Tasks <- ThreeTasks
  Locks <- Mutexes
  Rank <- MutexRank
  MaxRank <- MutexRankBound
  Programs <- ContendingSections
SPECIFICATION FairSpec
CHECK_DEADLOCK FALSE
PROPERTY RequestsReturn
INVARIANT StoredBeforeNextCall
