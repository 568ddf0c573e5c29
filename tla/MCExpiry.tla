------------------------------ MODULE MCExpiry ------------------------------
(* Expiry with a clock that stops; timestamps are taken from its range.      *)
EXTENDS Expiry, TLC

CONSTANTS q1, q2

TwoRequests == {q1, q2}
Symmetry == Permutations(TwoRequests)
=============================================================================
