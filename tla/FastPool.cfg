SPECIFICATION Spec
CONSTANTS
  Workers = {w1, w2}
  MaxTasks = 4
  Client = client
  None = none
  Hints = {"UpToYou", "Next"}
  Capacities = {2, 4}
  MaxByClient = 1
SYMMETRY Symmetry
INVARIANTS
  TaskInOnePlace
  NoSleepOnWork
