\* Clients of the buffer provider, handles copied freely.
CONSTANTS
  MaxBlocks = 3
  h1 = h1
  h2 = h2
  h3 = h3
  Handles <- MCHandles
  CtorMayFail = TRUE
SYMMETRY HandleSymmetry
SPECIFICATION Spec
INVARIANTS MetadataMatchesBlocks ObjectLifecycle
PROPERTY NeverRevived
CHECK_DEADLOCK FALSE
