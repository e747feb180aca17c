SPECIFICATION Spec
CONSTANTS
  Ops = {o1}
  Monitor = monitor
  Requests = {"stop"}
  RecoveryEnabled = TRUE
  Threshold = 1
  MaxAttempts = 1
  AutoRestart = FALSE
  LongDelay = FALSE
  LostReplies = FALSE
  OtherTools = FALSE
  PZAdminRestarts = FALSE
PROPERTY StoppedStaysStopped
