SPECIFICATION Spec
CONSTANTS
  s1 = s1
  s2 = s2
  s3 = s3
  s4 = s4
  s5 = s5
  c1 = c1
  c2 = c2
  c3 = c3
  c4 = c4
  NoSid = NoSid
  Sids <- ThreeSids
  Calls <- FourCalls
  Ops <- AllOps
  Serial = TRUE
  Skewed = FALSE
  IdentityFails = TRUE
  TicketKeyPinned = FALSE
  MaxFaults = 2
CHECK_DEADLOCK FALSE
SYMMETRY Symmetry
INVARIANTS
  FetchTransparent
  TicketMatchesPsk
  KeysAgree
