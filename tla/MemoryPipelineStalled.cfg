CONSTANTS
  m1 = m1
  Monitors = {m1}
  URLs = {u1}
  NoMonitor = NoMonitor
  Jobs = {1}
  MonitorOf <- OneMonitor
  NoJob = NoJob
  Tokens = {1, 2, 3, 4, 5, 6, 7, 8}
  MaxAttempts = 2
  BatchLimit = 1
  MaxChecks = 1
  MaxProcessed = 1
  MaxRetainedJobs = 1
  MaxRetainedIncidents = 1
  Scheduler = s1
  Workers = {w1}
  BufferSize = 1
  MaxUpdates = 0
  MaxFaults = 1
SPECIFICATION Spec
INVARIANTS
  NoLostQueuedJob
