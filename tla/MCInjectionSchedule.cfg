SPECIFICATION FairSpec
CONSTANTS
  Names = {a, b, c}
  Intervals <- MCIntervals
  MAX_QUEUES_PER_TICK = 2
  MaxWaiting = 1
PROPERTY QueueIsServed
CHECK_DEADLOCK FALSE
