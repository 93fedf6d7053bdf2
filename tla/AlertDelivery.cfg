CONSTANTS
  NoMonitor = NoMonitor
  Monitors = {m1}
  Incidents = {i1}
  Dispatchers = {d1, d2}
  Threshold = 1
  MaxAttempts = 3
  BatchLimit = 1
  RetentionBatch = 1
  MaxFailures = 1
  Width = 7
  Unit = 3
  MaxRetryAfter = 18
  MaxInitialBackoff = 4
  MaxBackoff = 18
SPECIFICATION FairSpec
INVARIANTS
  ExclusiveAlertLease
  AttemptsSentOnce
  DeliveredWasAccepted
  DelaysExact
PROPERTIES
  FinishedStaysFinished
  AlertsFinish
