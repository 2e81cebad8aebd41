SPECIFICATION Spec
CONSTANTS
  Queue = {T1, T2}
  Node = {n1, n2, n3}
  NULL = NULL
  MaxTime = 1
INVARIANT TypeOK
INVARIANT LinksAgree
PROPERTY ImplementsQueues
