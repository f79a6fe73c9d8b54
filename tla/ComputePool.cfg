SPECIFICATION FairSpec
CONSTANTS
  Workers = {w1, w2, w3}
  Tasks = {t1, t2, t3, t4}
  None = none
INVARIANTS
  WaitersCounted
  NoSleepOnWork
  StopDrains
PROPERTIES
  EveryTaskRuns
  StopReturns
