SPECIFICATION Spec
CONSTANTS
  InitialCnt = 2
  ExcessAlloc = 2
  MaxExtents = 9
INVARIANTS TypeOK PoolBounded
PROPERTY ImplementsQueue
CHECK_DEADLOCK FALSE
