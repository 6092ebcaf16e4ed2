SPECIFICATION FairSpec
CONSTANTS
  MaxSteps = 1
  MaxFailures = 1
  MaxCorrections = 1
  MaxPlan = 2
  MaxMsgs = 2
  MaxCrashes = 1
INVARIANTS
  WaitingHasItsStep
  
  
  StoppedWorkContinues
PROPERTIES
  EveryRunEnds
CHECK_DEADLOCK FALSE
