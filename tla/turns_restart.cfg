SPECIFICATION FairSpec
CONSTANTS
  p1 = p1
  p2 = p2
  v1 = v1
  v2 = v2
  t1 = t1
  t2 = t2
  t3 = t3
  hello = hello
  again = again
  stop = stop
  Posts = {p1}
  Views = {v1}
  Tasks = {t1, t2, t3}
  Msgs = {hello, again, stop}
  StopTexts = {stop}
  Text <- TwoTexts
  MaxCrashes = 1
  MaxStops = 0
  MaxDrops = 1
  SingleTab = TRUE
  Patient = FALSE
  DropsRecovery = FALSE
  BootMayFail = TRUE
  MayTimeOut = TRUE
  SlowReads = FALSE
INVARIANTS
  OnlyUserInputIsFed
  
  
PROPERTIES
  NeverStuck
  Answered
