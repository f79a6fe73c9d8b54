SPECIFICATION Spec
CONSTANTS
  Threads = {p1, p2}
  Nodes = {n1, n2, n3, n4}
  Null = null
  ScanFreq = 1
  MaxOps = 5
SYMMETRY Symmetry
INVARIANTS
  MemorySafe
  ListIsStack
  GarbageBounded
