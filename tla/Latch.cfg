SPECIFICATION FairSpec
CONSTANTS
  Waiters = {w1, w2, w3}
  Jobs = {j1, j2}
  Rounds = 2
  Nobody = nobody
INVARIANTS
  NoEarlyReturn
  SafeToDestroy
PROPERTIES
  UnlockedWalkIsAlone
  EveryWaitReturns
