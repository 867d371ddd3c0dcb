CONSTANTS
  Threads = {t1, t2, t3}
  Handles = {h0, h1, h2}
  Root = h0
  NoHandle = NoHandle
  Owned = TRUE
  SizeMax = 15
  DefaultCapacity = 3
  LiteralCapacity = 3
  Estimates <- MCEstimates
  PieceLists <- MCPieceLists
  FieldLists <- MCFieldLists
  Texts <- SomeTexts
  Levels <- Level
  MinLevels <- Level
  Errnos <- AllErrnos
  MaxFields = 2
SPECIFICATION MCSpec
INVARIANTS
  CountsReferences
  NoUseAfterFree
  NothingLeft
  DerivedWhole
  ParserInBounds
  GrammarAgrees
  CallAsMade
PROPERTIES
  OnlyRootCloses
  CallsEnd
