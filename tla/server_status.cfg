SPECIFICATION Spec
CONSTANTS
  s1 = s1
  s2 = s2
  n1 = n1
  n2 = n2
  n3 = n3
  p1 = p1
  p2 = p2
  p3 = p3
  p4 = p4
  Sids <- OneSid
  Nonces <- TwoNonces
  Procs <- ThreeProcs
  Backend = "redis"
  Strict = TRUE
  Missing = {"nothing"}
  Bodies = {"none"}
  Serial = TRUE
CHECK_DEADLOCK FALSE
PROPERTY StatusTruthful
