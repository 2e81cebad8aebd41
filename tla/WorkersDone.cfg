SPECIFICATION BenchSpec
CONSTANTS
  MaxThreads = 3
  PriorityT1 = 4
  PriorityT2 = 2
  PriorityT3 = 1
  JoinPairs <- MainJoinsWorkers
  Exiting <- Workers
  NoSlot = NoSlot
  Unset = Unset
  Mutexes = {m1}
  EarlyInit = {m1}
  EarlyUse = {}
  NoMutex = NoMutex
  MaxMid = 1
  MaxLocks = 6
  MaxNodes = 2
  Programs = {"write_file", "mypthread_CAS"}
  mutex = m1
  C_SIZE = 2
  R_SIZE = 3
  VECTOR_SIZE = 3
  iteration_time = 1
  iterate_number = 2
  Records <- TwoRecords
  Comparisons <- OneSmaller
INVARIANT WorkersDone
INVARIANT AppendsCounted
INVARIANT TasExclusive
CHECK_DEADLOCK FALSE
