SPECIFICATION Spec
CONSTANTS
  Threads = {t1, t2}
  POOL_SIZE = 2
  BATCH_SIZE = 1
  g_EnableBlocking = TRUE
  MaxPackets = 2
INVARIANTS
  TypeOK
  ExclusiveBuffers
  InUseIsHeld
  HeapIsHeld
  ContentIntact
  SentInThreadOrder
PROPERTY
  ChannelSpec
SYMMETRY Symmetry
CHECK_DEADLOCK FALSE
