SPECIFICATION FairSpec
CONSTANTS
  Threads = {t1, t2}
  POOL_SIZE = 1
  BATCH_SIZE = 1
  g_EnableBlocking = TRUE
  MaxPackets = 1
PROPERTIES
  QueuedIsSent
  CallerIsReleased
  WorkerExits
CHECK_DEADLOCK FALSE
