SPECIFICATION Spec
CONSTANTS
  c1 = c1
  c2 = c2
  plain = plain
  owner = owner
  mixed = mixed
  idA = idA
  idB = idB
  None = None
  Calls <- TwoCalls
  Servers <- ThreeServers
  Identity <- Identities
  Pins <- BothPins
  MaxHandshakes = 2
  MaxFaults = 2
CHECK_DEADLOCK FALSE
INVARIANTS
  KeysAgree
  OwnerServedHandshake
  LostOnlyToSecondHandshake
PROPERTIES
  CallsEnd
