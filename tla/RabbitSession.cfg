CONSTANTS
  MaxCalls = 2
  MaxFaults = 2
  None = None
SPECIFICATION MCFairSpec
INVARIANTS
  ConfirmedMeansAccepted
  NoLeakedConnection
CHECK_DEADLOCK FALSE
PROPERTIES
  PublishTerminates
  EventuallyConsuming
  EventuallyReleased
