SPECIFICATION Spec
CONSTANTS
  q1 = q1
  q2 = q2
  None = None
  Requests <- TwoRequests
  Ttls = {1, 3, 5, 6}
  DefaultTtl = 5
  Window = 2
  Skew = 1
  Second = 2
  Horizon = 10
  MaxEpoch = 2
  MaxFailures = 1
CHECK_DEADLOCK FALSE
SYMMETRY Symmetry
INVARIANTS
  AcceptedOnce
  TtlHonoured
  NonceSetsEnd
