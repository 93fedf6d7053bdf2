CONSTANTS
  Loops = {scheduler, retention}
  Workers = {w1, w2}
  Requests = {r1}
SPECIFICATION Spec
INVARIANTS
  RepositoryClosedLast
  NilMeansSignalled
PROPERTIES
  Terminates
CHECK_DEADLOCK FALSE
