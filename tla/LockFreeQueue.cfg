SPECIFICATION Spec
CONSTANTS
  Threads = {t1, t2}
  Nodes = {n1, n2, n3}
  Null = null
  MaxOps = 4
SYMMETRY Symmetry
INVARIANTS
  IsLinearizable
  NodeInOnePlace
