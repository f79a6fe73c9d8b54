SPECIFICATION FairSpec
CONSTANTS
  Owner = owner
  Thieves = {t1, t2}
  Capacity = 2
  MaxBatch = 2
  MaxTasks = 3
  Word = 1000
INVARIANT ExactlyOnceInOrder
PROPERTY PopNullOnlyWhenEmpty
PROPERTY ImplementsFifo
PROPERTY OperationsReturn
