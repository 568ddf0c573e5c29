SPECIFICATION Spec
CONSTANTS
  r1 = r1
  r2 = r2
  g1 = g1
  g2 = g2
  None = None
  Recipients <- TwoRecipients
  Signers <- TwoSigners
  Events = {"paid", "failed"}
  Kinds = {"media", "signed", "document", "attestation"}
  Document <- MCDocument
  Paths <- MCPaths
  FrameSizes = {0, 1, 2}
  Sizes = {0, 3}
  MaxFrames = 4
  MaxPaths = 3
  MaxItems <- MCItems
  MaxFaults <- MCFaults
CHECK_DEADLOCK FALSE
SYMMETRY Symmetry
INVARIANTS
  OpensAsSealed
  FrameKeysUsedOnce
  FieldsHidden
  RoundTrip
