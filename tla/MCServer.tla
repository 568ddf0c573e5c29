------------------------------ MODULE MCServer ------------------------------
(* Instances of NenServer for TLC. *)
EXTENDS NenServer, TLC

CONSTANTS s1, s2, n1, n2, n3, p1, p2, p3, p4

OneSid == {s1}
TwoSids == {s1, s2}
TwoNonces == {n1, n2}
ThreeNonces == {n1, n2, n3}
TwoProcs == {p1, p2}
ThreeProcs == {p1, p2, p3}
FourProcs == {p1, p2, p3, p4}

\* Nothing tells two handler invocations, two nonces or two session ids apart.
Symmetry ==
  Permutations(Procs) \cup Permutations(Nonces) \cup Permutations(Sids)

=============================================================================
