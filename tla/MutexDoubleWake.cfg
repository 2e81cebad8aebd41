SPECIFICATION MutexSpec
CONSTANTS
  MaxThreads = 3
  PriorityT1 = 3
  PriorityT2 = 2
  PriorityT3 = 1
  JoinPairs <- NoJoins
  Exiting <- NoExits
  NoSlot = NoSlot
  Unset = Unset
  Mutexes = {m1}
  NoMutex = NoMutex
  EarlyInit <- Mutexes
  EarlyUse = {}
  MaxMid = 1
  MaxLocks = 3
  MaxNodes = 4
PROPERTY WakesOwnWaiters
CHECK_DEADLOCK FALSE
