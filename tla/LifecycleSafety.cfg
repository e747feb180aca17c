SPECIFICATION Spec
CONSTANTS
  Ops = {o1}
  Monitor = monitor
  Requests = {"stop", "start", "cancel-pending"}
  RecoveryEnabled = TRUE
  Threshold = 1
  MaxAttempts = 1
  AutoRestart = TRUE
  LongDelay = TRUE
  LostReplies = TRUE
  OtherTools = TRUE
  PZAdminRestarts = TRUE
INVARIANTS TypeOK StoppedIsOffline HardStopsBounded
PROPERTIES OneReportPerOutage ReportedOutageIsClosed
