SPECIFICATION Spec
CONSTANTS
  w1 = w1
  w2 = w2
  c1 = c1
  c2 = c2
  m1 = m1
  ja = ja
  jb = jb
  Direct = {}
  Workers = {w1, w2}
  Clients = {c1}
  Threads = {w1, w2, c1}
  NoThread = NoThread
  NoJob = NoJob
  NoManID = NoManID
  ManID = {NoManID}
  CalcJobs = {ja, jb}
  MetaJobs = {m1}
  Pred <- MCPred
  Start <- MCStart
  Deadline <- MCDeadline
  UnlimitedTime = {}
  Plan <- MCPlan
  Man <- MCMan
  Compulsory = {}
  Operations = {"seed"}
  Faults = {}
  ANYTIME <- MCAnytime
  NEVER = 99
  NearHorizon = 0
  WorkHorizon = 1
  SleepHorizon = 2
  DutyPeriod = 2
  DutyTolerance = 4
  IdlePeriod = 2
  DismissCycles = 2
  ComputationCapacity = 2
  MaxTime = 4
  MaxTicks = 2
  Instant <- MCInstant
SYMMETRY WorkerSymmetry
INVARIANT RetrievedStillAllocated
CHECK_DEADLOCK FALSE
