CONSTANTS
  NoThread = NoThread
  Threads = {t1, t2}
  Roots = {t1}
  Owned = TRUE
  MinLevel <- MCMinLevel
  CallLevels <- MCCallLevels
  Sizes = {3}
  Capacity = 2
  ChunkCapacity = 2
  MaxCalls = 2
SPECIFICATION Spec
INVARIANTS
  TypeOK
  MutexDiscipline
  Contiguous
  InOrder
  Delivered
PROPERTIES
  QuietAfterClose
  ImplementsLineLog
