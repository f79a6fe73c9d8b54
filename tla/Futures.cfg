SPECIFICATION Spec
CHECK_DEADLOCK FALSE
CONSTANTS
  Graphs <- MCGraphs
INVARIANTS
  NoUseAfterDelete
  RunsInPool
PROPERTIES
  EveryFutureCompletes
