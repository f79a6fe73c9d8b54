SPECIFICATION Spec
CONSTANTS
  Threads = {t1, t2}
  Blocks = {b1, b2, b3}
  Null = null
  Threshold = 1
  MaxStamp = 5
  MaxOps = 3
SYMMETRY Symmetry
INVARIANTS
  AliveWhileReferred
  CountsAgree
