SPECIFICATION MutexSpec
CONSTANTS
  MaxThreads = 2
  PriorityT1 = 3
  PriorityT2 = 2
  PriorityT3 = 1
  JoinPairs <- NoJoins
  Exiting <- NoExits
  NoSlot = NoSlot
  Unset = Unset
  Mutexes = {m1}
  NoMutex = NoMutex
  EarlyInit <- Mutexes
  EarlyUse = {}
  MaxMid = 1
  MaxLocks = 2
  MaxNodes = 4
INVARIANT WaitersListed
CHECK_DEADLOCK FALSE
