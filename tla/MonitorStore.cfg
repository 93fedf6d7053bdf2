CONSTANTS
  m1 = m1
  m2 = m2
  u1 = u1
  u2 = u2
  Monitors = {m1, m2}
  URLs = {u1, u2}
  NoMonitor = NoMonitor
  Jobs = {1, 2, 3}
  MonitorOf <- OneMonitor
  NoJob = NoJob
  Tokens = {1}
  MaxAttempts = 2
  BatchLimit = 1
  MaxChecks = 2
  MaxProcessed = 1
  MaxRetainedJobs = 1
  MaxRetainedIncidents = 1
SPECIFICATION MCSpec
INVARIANTS
  IndexesExact
  RetentionBounded
  FailuresMatchHistory
