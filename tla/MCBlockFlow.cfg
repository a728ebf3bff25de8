SPECIFICATION Spec
CONSTANTS
  InitialCnt = 2
  ExcessAlloc = 2
  MaxExtents = 6
  h1 = h1
  h2 = h2
  ANYTIME <- MCAnytime
  Handles = {h1, h2}
  Times = {0, 20, 50, 70}
  MaxLate = 20
  LateRestart = FALSE
  MaxCreate = 3
  Flows = {1}
  EpochSiz = 2
  InitialStep = 20
  FramesPerEpoch = 10
  AverageEpochs = 6
  CutOff = 5
  TargetFill = 90
  BoostFactor = 85
  DampThreshold = 8
  BoostFactorOverflow = 76
SYMMETRY HandleSymmetry
INVARIANTS RetainedUntilDeadline SlotsDisjoint DeadlinesOrdered
PROPERTY OverloadLimited
CHECK_DEADLOCK FALSE
