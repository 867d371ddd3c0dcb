CONSTANTS
  k1 = k1
  k2 = k2
  k3 = k3
  Threads = {t1, t2}
  NoThread = NoThread
  Exclusive = FALSE
  Addresses = {a1, a2}
  Keys <- MCKeys
  KeyLen <- MCKeyLen
  Types = {str}
  Size = 1
  Probe = 1
  Home <- MCHome
  Limit = 2
  None = None
  Capacity = 1
  MaxFields = 3
  MaxCalls = 2
SPECIFICATION ConsoleSpec
SYMMETRY MCSymmetry
INVARIANTS
  WrittenOwnKey
