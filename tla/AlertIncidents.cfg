CONSTANTS
  NoMonitor = NoMonitor
  Monitors = {m1}
  Incidents = {i1, i2}
  Dispatchers = {d1}
  Threshold = 2
  MaxAttempts = 2
  BatchLimit = 2
  RetentionBatch = 1
  MaxFailures = 3
SPECIFICATION MCSpec
SYMMETRY MCSymmetry
INVARIANTS
  OneOpenIncident
  AlertsAccounted
PROPERTIES
  UnfinishedAlertsKept
