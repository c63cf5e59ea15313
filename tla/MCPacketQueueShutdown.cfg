SPECIFICATION Spec
CONSTANTS
  Threads = {t1}
  POOL_SIZE = 1
  BATCH_SIZE = 2
  g_EnableBlocking = TRUE
  MaxPackets = 1
INVARIANT
  CleanShutdown
CHECK_DEADLOCK FALSE
