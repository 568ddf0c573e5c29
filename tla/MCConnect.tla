----------------------------- MODULE MCConnect -----------------------------
(* Instances of NenConnect for TLC. *)
EXTENDS NenConnect, TLC

CONSTANTS c1, c2, plain, owner, mixed, idA, idB

TwoCalls == {c1, c2}

\* A server without an identity, one with, and one set up with halves of two pairs.
ThreeServers == {plain, owner, mixed}
Identities == (plain :> None) @@ (owner :> [secret |-> idA, public |-> idA])
                 @@ (mixed :> [secret |-> idA, public |-> idB])
BothPins == {idA, idB}

=============================================================================
