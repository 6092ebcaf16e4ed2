SPECIFICATION FairSpec
CONSTANTS
  warm = warm
  t1 = t1
  x1 = x1
  nobody = nobody
  Warmup = warm
  NoOne = nobody
  Turns = {t1}
  Viewers = {x1}
  Peeks = {}
  MaxVMs = 3
  MaxWrappers = 5
  MaxExpired = 1
  MaxFailures = 1
  MaxRestarts = 1
  PauseMayTimeOut = TRUE
INVARIANTS
  OneBootstrapPerVm
  FrozenVmLeavesRegistry
PROPERTIES
  IdleVmIsPaused
CHECK_DEADLOCK FALSE
