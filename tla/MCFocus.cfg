SPECIFICATION FocusSpec
CONSTANTS
  Handles = {h1, h2}
  MaxIds = 5
  MaxFrames = 3
  MaxResets = 1
SYMMETRY HandleSymmetry
INVARIANTS TablesAgree AttachedBelowRoot RefCountExact PathsFaithful PathRelations
CHECK_DEADLOCK FALSE
