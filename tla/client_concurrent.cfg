SPECIFICATION FairSpec
CONSTANTS
  s1 = s1
  s2 = s2
  s3 = s3
  s4 = s4
  s5 = s5
  c1 = c1
  c2 = c2
  c3 = c3
  c4 = c4
  NoSid = NoSid
  Sids <- FiveSids
  Calls <- ThreeCalls
  Ops <- AllOps
  Serial = FALSE
  Skewed = FALSE
  IdentityFails = FALSE
  TicketKeyPinned = TRUE
  MaxFaults = 1
CHECK_DEADLOCK FALSE
INVARIANTS
  HandlerAtMostOnce
  KeysBelongToSession
  FlagHeldByRotation
PROPERTIES
  CallsSettle
