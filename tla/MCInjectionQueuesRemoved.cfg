SPECIFICATION Spec
CONSTANTS
  Names = {a}
  Configs <- MCConfigs
  MAX_QUEUES_PER_TICK = 1
  TickModulus = 1000
  StartTime = 0
  MaxClock = 2
  MaxPackets = 2
  MaxCommands = 2
INVARIANT UnregisteredIsGone
CHECK_DEADLOCK FALSE
