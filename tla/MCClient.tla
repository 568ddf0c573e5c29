------------------------------ MODULE MCClient ------------------------------
(* Instances of NenClient for TLC. *)
EXTENDS NenClient, TLC

CONSTANTS s1, s2, s3, s4, s5, c1, c2, c3, c4

ThreeSids == {s1, s2, s3}
FiveSids == {s1, s2, s3, s4, s5}
FourCalls == {c1, c2, c3, c4}
ThreeCalls == {c1, c2, c3}

AllOps == {"fetch", "rekey", "resume", "terminate", "status", "handshake"}

\* Nothing tells two calls or two session ids apart.
Symmetry == Permutations(Calls) \cup Permutations(Sids)

=============================================================================
