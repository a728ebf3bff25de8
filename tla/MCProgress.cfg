SPECIFICATION FairSpec
CONSTANTS
  w1 = w1
  w2 = w2
  c1 = c1
  c2 = c2
  m1 = m1
  ja = ja
  jb = jb
  Direct = {jb}
  Workers = {w1}
  Clients = {c1}
  Threads = {w1, c1}
  NoThread = NoThread
  NoJob = NoJob
  NoManID = NoManID
  ManID = {NoManID}
  CalcJobs = {ja, jb}
  MetaJobs = {m1}
  Pred <- MCPred
  Start <- MCStart
  Deadline <- MCDeadline
  UnlimitedTime = {}
  Plan <- MCPlan
  Man <- MCMan
  Compulsory = {}
  Operations = {"seed", "post", "load"}
  Faults = {}
  ANYTIME <- MCAnytime
  NEVER = 99
  NearHorizon = 0
  WorkHorizon = 1
  SleepHorizon = 2
  DutyPeriod = 2
  DutyTolerance = 1
  IdlePeriod = 2
  DismissCycles = 2
  ComputationCapacity = 1
  MaxTime = 3
  MaxTicks = 3
  Instant <- MCInstant
PROPERTIES  TokenReleased
CHECK_DEADLOCK FALSE
