SPECIFICATION Spec
CONSTANTS
  MaxRetries = 2
  ExtraAttempts = 1
  MaxRecoveries = 2
  HasFallback = TRUE
  Replies <- PlainReplies
  MayLeak = FALSE
  KeepLast = 4
  KeepFewer = 2
  MaxMessages = 8
  MaxUnsaved = 1
INVARIANTS
  WellPaired
  GoalIsKept
  NoTextTwice
  DeadKeyStaysDead
PROPERTIES
  RequestsEnd
CHECK_DEADLOCK FALSE
