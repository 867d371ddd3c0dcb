CONSTANTS
  NoThread = NoThread
  Threads = {t1, t2, t3}
  Roots = {t1}
  Owned = TRUE
  MinLevel <- MCMinLevel
  CallLevels <- MCLiveLevels
  Sizes = {1, 2}
  Capacity = 1
  ChunkCapacity = 1
  MaxCalls = 1
SPECIFICATION FairSpec
PROPERTIES
  CallsReturn
