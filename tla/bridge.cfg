SPECIFICATION Spec
CONSTANTS
  keypair = keypair
  encap = encap
  Objects <- TwoObjects
  NBlocks = 5
  MaxGrowth = 1
  Reserved = 2
  MaxHandles = 2
  MaxLost = 1
SYMMETRY Symmetry
INVARIANTS
  BytesIntact
  Balanced
  SlabSound
  OneOwner
