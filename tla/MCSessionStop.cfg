SPECIFICATION Spec
CONSTANTS
  WakeTimeout = 1
  SlowdownFactor = 2
  c1 = c1
  c2 = c2
  Clients = {c1}
  Calls = {"stop", "close", "reset"}
  MayFail = TRUE
  MaxCmds = 2
  MaxLoops = 2
  MaxOpens = 2
INVARIANTS EverySignalOnce LoopKeptWhileUsed
PROPERTIES StopCompletes
CHECK_DEADLOCK FALSE
