CONSTANTS
  Clients = {c1, c2}
  Jobs = {j1}
  NoClient = NoClient
  NoJob = NoJob
  MaxAttempts = 1
  MaxDeletions = 2
  MaxFaults = 2
  MaxTroubles = 2
  DeletionsInWindow = FALSE
SPECIFICATION MCFairSpec
INVARIANTS
  NoStrandedJob
PROPERTIES
  RecoveredBeforeDeclared
  ReturnedOnlyAfterLoss
  LostJobsRepublished
