SPECIFICATION SwapSpec
CONSTANTS
  MaxThreads = 3
  PriorityT1 = 4
  PriorityT2 = 2
  PriorityT3 = 1
  JoinPairs <- MainJoinsFirst
  Exiting <- MainAndFirst
  NoSlot = NoSlot
  Unset = Unset
  QueueNumbers = {3}
  Interval = 2
  RefusedInterval = 1
  Garbage = {0}
  MaxWait = 4
  Returning <- FirstWorker
  Shared = Shared
INVARIANT SwapTypeOK
INVARIANT LocksFree
INVARIANT SectionsLocked
INVARIANT StacksOwn
PROPERTY ImplementsSchedulers
CHECK_DEADLOCK FALSE
