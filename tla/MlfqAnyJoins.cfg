SPECIFICATION Spec
CONSTANTS
  MaxThreads = 3
  PriorityT1 = 3
  PriorityT2 = 2
  PriorityT3 = 1
  JoinPairs <- JoinsOfOthers
  Exiting <- Tid
  NoSlot = NoSlot
  Unset = Unset
INVARIANT TypeOK
INVARIANT CurrentIsExecuting
INVARIANT NoDuplicates
INVARIANT ExitedAreGone
INVARIANT JoinCorrect
INVARIANT FirstQueueOrdered
INVARIANT WaitBounded
PROPERTY ImplementsThreads
CHECK_DEADLOCK FALSE
