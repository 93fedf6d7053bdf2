CONSTANTS
  Clients = {c1, c2}
  Jobs = {j1}
  NoClient = NoClient
  NoJob = NoJob
  MaxAttempts = 1
  MaxDeletions = 1
  MaxFaults = 0
  MaxTroubles = 1
  DeletionsInWindow = TRUE
SPECIFICATION Spec
SYMMETRY MCSymmetry
INVARIANTS
  NoStrandedJob
