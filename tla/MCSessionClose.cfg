SPECIFICATION Spec
CONSTANTS
  WakeTimeout = 1
  SlowdownFactor = 2
  c1 = c1
  c2 = c2
  Clients = {c1, c2}
  Calls = {"close", "reset"}
  MayFail = FALSE
  MaxCmds = 2
  MaxLoops = 1
  MaxOpens = 2
INVARIANTS QuiescentAfterCheckpoint
PROPERTIES CloseUnlessOverdue CommandsDispatched
CHECK_DEADLOCK FALSE
