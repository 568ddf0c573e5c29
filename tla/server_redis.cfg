SPECIFICATION Spec
CONSTANTS
  s1 = s1
  s2 = s2
  n1 = n1
  n2 = n2
  n3 = n3
  p1 = p1
  p2 = p2
  p3 = p3
  p4 = p4
  Sids <- OneSid
  Nonces <- TwoNonces
  Procs <- ThreeProcs
  Backend = "redis"
  Strict = FALSE
  Missing = {"nothing", "session", "nonce", "signature"}
  Bodies = {"none", "ct", "garbled", "unencoded", "text"}
  Serial = FALSE
CHECK_DEADLOCK FALSE
SYMMETRY Symmetry
INVARIANTS
  ExecutedIsAuthentic
  ResponseReadable
PROPERTIES
  SequentialReplayRejected
