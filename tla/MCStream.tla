------------------------------ MODULE MCStream ------------------------------
(* Instances of NenStream for TLC. *)
EXTENDS NenStream

CONSTANTS a, b

PlainChunks == {a, b}
ChunksAndMarker == {a, Fin}
=============================================================================
