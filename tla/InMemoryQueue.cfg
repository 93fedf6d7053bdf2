CONSTANTS
  Jobs = {j1, j2}
  Publishers = {p1, p2}
  Workers = {w1, w2}
  MaxAttempts = 2
  BufferSize = 1
SPECIFICATION Spec
SYMMETRY MCSymmetry
INVARIANTS
  QueueConsistent
PROPERTIES
  NoSendAfterClose
