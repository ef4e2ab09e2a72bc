SPECIFICATION Spec
CONSTANTS
  Name = {"a", "A", "b"}
  Lower <- MCLower
  Tiny = Tiny
  Half = 4
  Full = 16
  Node = {n1, n2, n3, n4}
  Null = Null
  Freed = Freed
  Index = {0, 1}
  Callers <- MCCallers
  Ints <- MCInts
  Reals <- MCReals
SYMMETRY MCSymmetry
INVARIANTS TypeOK TreesOwned CacheSound TraversalComplete PutIsGot
CHECK_DEADLOCK FALSE
