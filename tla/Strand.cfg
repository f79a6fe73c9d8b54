SPECIFICATION FairSpec
CONSTANTS
  Fibers = {f1, f2, f3}
  Calls = 3
  Nil = nil
INVARIANTS
  OneCombiner
  NoDanglingWaiter
  NoAbandonedWaiter
PROPERTIES
  ImplementsSections
  EveryCombineReturns
