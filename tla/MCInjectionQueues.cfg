SPECIFICATION Spec
CONSTANTS
  Names = {a, b}
  Configs <- MCConfigs
  MAX_QUEUES_PER_TICK = 2
  TickModulus = 4
  StartTime = 2
  MaxClock = 5
  MaxPackets = 3
  MaxCommands = 2
SYMMETRY Symmetry
INVARIANTS TypeOK IndexInBounds InArrivalOrder AtomicGroups IntervalRespected DelayRespected NothingLost
PROPERTY ImplementsSchedule
CHECK_DEADLOCK FALSE
