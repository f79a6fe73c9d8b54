SPECIFICATION FairSpec
CONSTANTS
  Producers = {p1, p2, p3}
  Consumers = {c1, c2, c3}
  Capacity = 2
  SendsEach = 2
  RecvsEach = 2
  Nobody = nobody
  Moved = moved
INVARIANT NoLostWakeup
PROPERTY ImplementsChannel
PROPERTY EveryCallReturns
