SPECIFICATION Spec
CONSTANTS
  s1 = s1
  s2 = s2
  s3 = s3
  s4 = s4
  s5 = s5
  c1 = c1
  c2 = c2
  c3 = c3
  c4 = c4
  NoSid = NoSid
  Sids <- ThreeSids
  Calls <- ThreeCalls
  Ops <- AllOps
  Serial = TRUE
  Skewed = TRUE
  IdentityFails = FALSE
  TicketKeyPinned = FALSE
  MaxFaults = 0
CHECK_DEADLOCK FALSE
INVARIANT RotatesAtMostOnce
