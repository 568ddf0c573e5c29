SPECIFICATION Spec
CONSTANTS
  s1 = s1
  s2 = s2
  n1 = n1
  n2 = n2
  n3 = n3
  p1 = p1
  p2 = p2
  p3 = p3
  p4 = p4
  Sids <- TwoSids
  Nonces <- ThreeNonces
  Procs <- ThreeProcs
  Backend = "memory"
  Strict = TRUE
  Missing = {"nothing"}
  Bodies = {"none"}
  Serial = TRUE
CHECK_DEADLOCK FALSE
SYMMETRY Symmetry
INVARIANTS
  TypeOK
  AtMostOneAhead
  TerminatedStaysDead
PROPERTIES
  RatchetKept
