SPECIFICATION Spec
CONSTANTS
  Connections = {c1, c2, c3}
  NULL = NULL
  MaxPackets = 3
SYMMETRY Symmetry
INVARIANTS TypeOK CurrentIsAlive LatestIsCurrent OneTurn
CHECK_DEADLOCK FALSE
