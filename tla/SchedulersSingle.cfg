SPECIFICATION SqSpec
CONSTANTS
  MaxThreads = 3
  PriorityT1 = 4
  PriorityT2 = 2
  PriorityT3 = 1
  JoinPairs <- JoinsOfWorkers
  Exiting <- Workers
  NoSlot = NoSlot
  Unset = Unset
  QueueNumbers = {1, 2}
  Interval = 2
  RefusedInterval = 1
  Garbage <- AnyGarbage
  MaxWait = 4
INVARIANT SqTypeOK
INVARIANT NoDuplicates
INVARIANT ExitedAreGone
INVARIANT JoinersAreMoved
INVARIANT EveryThreadPlaced
INVARIANT PsjfOrdered
CHECK_DEADLOCK FALSE
