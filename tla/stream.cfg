SPECIFICATION FairSpec
CONSTANTS
  a = a
  b = b
  Fin = Fin
  Chunks <- ChunksAndMarker
  MaxChunks = 3
  MaxKey = 2
CHECK_DEADLOCK FALSE
INVARIANTS
  TypeOK
  UnreadableOnlyAfterKeyChange
  MarkedEndIsWhole
  RequestedAtMostTwice
PROPERTIES
  PrefixDelivered
  FlagReleased
