SPECIFICATION FairSpec
CONSTANTS
  Windows = {w1, w2}
  Others = {splash}
  Clients = {c1}
  NONE = NONE
  STUCK = STUCK
INVARIANTS
  TypeOK
  OneTimer
  Exclusive
  LostForACause
PROPERTIES
  InjectionStarts
CHECK_DEADLOCK FALSE
