CONSTANTS
  Threads = {t1, t2}
  NoThread = NoThread
  None = None
  Addresses = {a1, a2}
  f1 = f1
  f2 = f2
  f3 = f3
  f4 = f4
  bad = bad
  Texts <- MCTexts
  Malformed = {bad}
  Size = 3
  Probe = 3
  Home <- MCHome
  PtrSlots = {0}
  PtrSlot <- MCPtrSlot
  Local = Local
  Seconds = {s1, s2}
  Values = {v1, v2, v3}
  Lengthy = {v3}
  number = number
  DoubleSlots = {number}
  DoubleSlot <- MCDoubleSlot
SPECIFICATION MCSpec
SYMMETRY MCSymmetry
INVARIANTS
  LuaTimeReadsBack
