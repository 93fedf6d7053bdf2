CONSTANTS
  m1 = m1 NoJob = NoJob
  Monitors = {m1}
  Jobs = {j1}
  MonitorOf <- OneMonitor
  Schedulers = {s1}
  Workers = {w1}
  MaxAttempts = 2
  BatchLimit = 1
  MaxConfig = 0
  MaxFaults = 2
  RetentionBatch = 1
SPECIFICATION FairRetentionSpec
INVARIANTS DeadLettersAreFinal
PROPERTIES SettledDeliveriesDrain JobsSettle
