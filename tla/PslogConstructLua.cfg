SPECIFICATION ConstructSpec
INVARIANTS
  ClosedAtMostOnce
