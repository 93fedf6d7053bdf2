CONSTANTS
  m1 = m1 j1 = j1 j2 = j2 NoJob = NoJob
  Monitors = {m1}
  Jobs = {j1, j2}
  MonitorOf <- OneMonitor
  Schedulers = {s1, s2}
  Workers = {w1, w2}
  MaxAttempts = 2
  BatchLimit = 1
  MaxConfig = 1
  MaxFaults = 1
SPECIFICATION MCSpec
SYMMETRY MCSymmetry
INVARIANTS TypeOK NoLostQueuedJob ExclusiveLease ResultUnderCurrentConfig ExclusivePublication OneActiveJobPerMonitor
PROPERTIES LiveLeaseProtected ImplementsLifecycle
