SPECIFICATION FairSpec
CONSTANTS
  Ops = {o1}
  Monitor = monitor
  Requests = {"restart"}
  RecoveryEnabled = TRUE
  Threshold = 1
  MaxAttempts = 0
  AutoRestart = FALSE
  LongDelay = FALSE
  LostReplies = FALSE
  OtherTools = FALSE
  PZAdminRestarts = FALSE
PROPERTIES RestartWindowCloses WedgedIsRecovered
