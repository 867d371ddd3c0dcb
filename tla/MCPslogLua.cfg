CONSTANTS
  Objects = {o1, o2, o3}
  Trees = {t1, t2}
  Refs = {r1}
  NoObject = noObject
  NoTree = noTree
  MaxDepth = 2
  MaxLeaks = 1
  Callers = {c1, c2}
  Calls <- AllCalls
  InnerCalls <- SmallCalls
  MaxCalling = 2
  Reentrant = FALSE
  FirstCapacity = 2
  Tables <- MCTables
  Outputs <- AllOutputs
  MaxCalls = 2
SPECIFICATION MCSpec
SYMMETRY Symmetry
CHECK_DEADLOCK FALSE
INVARIANTS
  ObjectsLive
  FinalizerNeverBlocks
  CallsKeepFields
  ConfigAsWritten
