SPECIFICATION FairSpec
CONSTANTS
  Workers = {w1, w2}
  MaxTasks = 2
  Client = client
  None = none
  Hints = {"UpToYou", "Next", "Yield"}
  Capacities = {2}
  MaxByClient = 2
PROPERTIES
  EveryTaskRuns
  StopReturns
