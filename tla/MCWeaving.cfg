CONSTANTS
  MaxBlocks = 10
  agent = agent
  mix = mix
  inner = inner
  source = source
  Workers = {w1, w2}
  Ports <- MCPorts
  Kind <- MCKind
  Lead <- MCLead
  Outs <- MCOuts
  ResultSlot <- MCResultSlot
  Segment <- MCSegment
  Root = agent
  MayFail = TRUE
  MaxCalls = 2
SPECIFICATION Spec
INVARIANTS ReadyToProcess NothingLeaked ResultInGivenBuffer ChainInScope
CHECK_DEADLOCK FALSE
