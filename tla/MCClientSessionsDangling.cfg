SPECIFICATION Spec
CONSTANTS
  Connections = {c1, c2}
  NULL = NULL
  MaxPackets = 1
SYMMETRY Symmetry
INVARIANTS SendsToLiveObject
CHECK_DEADLOCK FALSE
