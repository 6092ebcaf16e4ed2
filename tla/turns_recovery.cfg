SPECIFICATION Spec
CONSTANTS
  p1 = p1
  p2 = p2
  v1 = v1
  v2 = v2
  t1 = t1
  t2 = t2
  t3 = t3
  hello = hello
  again = again
  stop = stop
  Posts = {p1}
  Views = {v1, v2}
  Tasks = {t1}
  Msgs = {hello, again, stop}
  StopTexts = {stop}
  Text <- TwoTexts
  MaxCrashes = 0
  MaxStops = 0
  MaxDrops = 1
  SingleTab = FALSE
  Patient = FALSE
  DropsRecovery = FALSE
  BootMayFail = TRUE
  MayTimeOut = FALSE
  SlowReads = FALSE
INVARIANTS
  NewestSetupIsRegistered
SYMMETRY ViewSymmetry
CHECK_DEADLOCK FALSE
