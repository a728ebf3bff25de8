SPECIFICATION Spec
CONSTANTS
  w1 = w1
  w2 = w2
  c1 = c1
  c2 = c2
  m1 = m1
  ja = ja
  jb = jb
  Direct = {ja, jb}
  Workers = {w1}
  Clients = {c1, c2}
  Threads = {w1, c1, c2}
  NoThread = NoThread
  NoJob = NoJob
  NoManID = NoManID
  ManID = {NoManID}
  CalcJobs = {ja, jb}
  MetaJobs = {}
  Pred <- MCPred
  Start <- MCStart
  Deadline <- MCDeadline
  UnlimitedTime = {jb}
  Plan <- MCPlan
  Man <- MCMan
  Compulsory = {}
  Operations = {"post", "load", "terminate"}
  Faults = {}
  ANYTIME <- MCAnytime
  NEVER = 99
  NearHorizon = 0
  WorkHorizon = 1
  SleepHorizon = 2
  DutyPeriod = 2
  DutyTolerance = 4
  IdlePeriod = 2
  DismissCycles = 2
  ComputationCapacity = 1
  MaxTime = 3
  MaxTicks = 2
  Instant <- MCInstant
INVARIANTS GroomingModeProtected InvokedOnce
CHECK_DEADLOCK FALSE
