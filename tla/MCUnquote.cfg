CONSTANTS
  t1 = t1
  t2 = t2
  t3 = t3
  t4 = t4
  Threads <- MCThreads
  Calls = 2

SPECIFICATION Spec

INVARIANTS
  OneForAll

PROPERTIES
  EveryCallReturns

CHECK_DEADLOCK FALSE
