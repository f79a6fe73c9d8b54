SPECIFICATION SystemSpec
CONSTANTS
  Fibers = {f1, f2, f3}
  Calls = 2
  Nobody = nobody
  Workers = {w1, w2}
  Main = main
  Yields = 1
INVARIANTS
  MutualExclusion
  SafeToDestroy
  FiberInOnePlace
PROPERTIES
  ImplementsFifoLock
  EveryFiberEnds
