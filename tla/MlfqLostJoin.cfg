SPECIFICATION Spec
CONSTANTS
  MaxThreads = 3
  PriorityT1 = 3
  PriorityT2 = 2
  PriorityT3 = 1
  JoinPairs <- JoinsOfOthers
  Exiting <- Workers
  NoSlot = NoSlot
  Unset = Unset
INVARIANT JoinersAreMoved
CHECK_DEADLOCK FALSE
