SPECIFICATION SqFairSpec
CONSTANTS
  MaxThreads = 3
  PriorityT1 = 3
  PriorityT2 = 2
  PriorityT3 = 1
  JoinPairs <- MainJoinsWorkers
  Exiting <- Everyone
  NoSlot = NoSlot
  Unset = Unset
  QueueNumbers = {1, 3}
  Interval = 2
  RefusedInterval = 1
  Garbage <- NoGarbage
  MaxWait = 0
INVARIANT EveryThreadPlaced
INVARIANT StallsAtEnd
PROPERTY EveryReadyThreadRuns
PROPERTY JoinCompletes
CHECK_DEADLOCK FALSE
