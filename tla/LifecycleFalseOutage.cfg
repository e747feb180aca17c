SPECIFICATION Spec
CONSTANTS
  Ops = {o1}
  Monitor = monitor
  Requests = {"restart"}
  RecoveryEnabled = FALSE
  Threshold = 1
  MaxAttempts = 1
  AutoRestart = FALSE
  LongDelay = FALSE
  LostReplies = FALSE
  OtherTools = FALSE
  PZAdminRestarts = FALSE
PROPERTY NoFalseOutage
