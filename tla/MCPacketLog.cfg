SPECIFICATION Spec
CONSTANTS
  Threads = {t1, t2}
  OutPackets = {o1, o2}
  NULL = NULL
  Win64 = TRUE
  MaxEach = 2
  MaxPackets = 3
  MaxEncoded = 2
  MaxDecoded = 1
  MaxDepth = 2
SYMMETRY Symmetry
INVARIANTS TypeOK FormatsComplete OutgoingIds IncomingIds
CHECK_DEADLOCK FALSE
