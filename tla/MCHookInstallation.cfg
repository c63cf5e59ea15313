SPECIFICATION Spec
CONSTANTS
  Threads = {main}
  Main = main
INVARIANTS
  TypeOK
  LoggedOnce
  CrashesForACause
CHECK_DEADLOCK FALSE
